------------------------------- MODULE GoProxy -------------------------------
(***************************************************************************)
(* One accepted connection of the Go server: Server.handle and the         *)
(* goroutines that proxy starts for it.                                    *)
(*                                                                         *)
(*             main: auth, checkFirst                                      *)
(*   client -> c2s  --chans2r--> s2r -> remote                             *)
(*   client <- s2c  <--chans2c-- rdr <- remote          r2s: watches rdr   *)
(*                                                                         *)
(* The goroutines end each other through three buffered End channels:      *)
(* c2s (or main, when checkFirst fails) ends s2r, s2r ends r2s and r2s     *)
(* ends s2c.  A sync.WaitGroup makes main outlive the four it counts.      *)
(* Frames from the client are numbered 1, 2, ... (1 is the authentication  *)
(* query), chunks from the remote host likewise; a 0 on the way to the     *)
(* client is the authentication or the DNS reply.                          *)
(***************************************************************************)
EXTENDS Integers, Sequences

CONSTANTS
  MaxUp,     \* frames the client ever sends
  MaxDown,   \* chunks the remote host ever sends
  MaxTraffic,\* frames and chunks that are sent altogether
  SockBuf    \* frames or chunks the kernel buffers in each direction of a socket

ASSUME ProxyAssumption ==
  /\ MaxUp \in Nat /\ MaxDown \in Nat /\ MaxTraffic \in Nat
  /\ SockBuf \in Nat \ {0}

VARIABLES
  pc,        \* where each goroutine is
  held,      \* the frame or chunk a goroutine has in hand
  wg,        \* the counter of c.wg
  panicked,  \* wg went negative: "sync: negative WaitGroup counter" ended the process
  ends,      \* how many values are in chans2rEnd, chanr2sEnd and chans2cEnd
  chans2r, chans2c,   \* the two data channels
  ech,       \* an error is in eCh
  dst,       \* c.dst # nil
  mod,       \* the encryption module's session: "none", "session", "closed"
  cli,       \* the client's socket: "open", "closed"
  first,     \* the first query after authentication: "dns" or "data"
  bad,       \* the number of the frame whose announced size is refused (0: none was sent)
  cliSent,   \* frames the client has sent
  cliRead,   \* how many of them the server has read
  toCli,     \* frames on the way to the client
  cliGot,    \* frames the client has received
  rem,       \* the remote host's socket: "open", "fin" (it sent FIN), "closed"
  remSent,   \* chunks the remote host has sent
  remRead,   \* how many of them rdr has read
  toRem,     \* chunks on the way to the remote host
  remGot     \* chunks the remote host has received

syncVars == <<wg, panicked, ends, ech, mod>>
dataVars == <<held, chans2r, chans2c>>
cliVars == <<cli, first, bad, cliSent, toCli, cliGot>>
remVars == <<rem, remSent, toRem, remGot>>
vars == <<pc, held, wg, panicked, ends, chans2r, chans2c, ech, dst, mod, cli, first, bad,
          cliSent, cliRead, toCli, cliGot, rem, remSent, remRead, toRem, remGot>>

Thread == {"main", "c2s", "s2r", "r2s", "s2c", "rdr"}
ChanCap == 1

EndCap == 2

Init ==
  /\ pc = [t \in Thread |-> IF t = "main" THEN "auth" ELSE "off"]
  /\ held = [t \in Thread |-> 0]
  /\ wg = 0 /\ panicked = FALSE /\ mod = "none" /\ ech = FALSE /\ dst = FALSE
  /\ ends = [t \in {"s2r", "r2s", "s2c"} |-> 0]
  /\ chans2r = <<>> /\ chans2c = <<>>
  /\ cli = "open" /\ first \in {"dns", "data"} /\ bad = 0
  /\ cliSent = 0 /\ cliRead = 0 /\ toCli = <<>> /\ cliGot = <<>>
  /\ rem = "open" /\ remSent = 0 /\ remRead = 0 /\ toRem = <<>> /\ remGot = <<>>
-----------------------------------------------------------------------------
(* The client and the remote host: any TCP peers. *)

CliSend ==
  /\ cli = "open" /\ cliSent < MaxUp /\ cliSent - cliRead < SockBuf
  /\ cliSent + remSent < MaxTraffic
  /\ cliSent' = cliSent + 1
  /\ UNCHANGED bad \/ (bad = 0 /\ bad' = cliSent + 1)
  /\ UNCHANGED <<pc, syncVars, dataVars, dst, cli, first, cliRead, toCli, cliGot, remRead, remVars>>

CliRecv ==
  /\ cli = "open" /\ toCli # <<>>
  /\ cliGot' = Append(cliGot, Head(toCli))
  /\ toCli' = Tail(toCli)
  /\ UNCHANGED <<pc, syncVars, dataVars, dst, cli, first, bad, cliSent, cliRead, remRead, remVars>>

\* A client that closes with unread input resets the connection: what the server has
\* not read of its frames may be lost.
CliClose ==
  /\ cli = "open"
  /\ cli' = "closed"
  /\ toCli' = <<>>
  /\ \E n \in (IF toCli = <<>> THEN {cliSent} ELSE cliRead .. cliSent) : cliSent' = n
  /\ UNCHANGED <<pc, syncVars, dataVars, dst, first, bad, cliRead, cliGot, remRead, remVars>>

RemSend ==
  /\ dst /\ rem = "open" /\ remSent < MaxDown /\ remSent - remRead < SockBuf
  /\ cliSent + remSent < MaxTraffic
  /\ remSent' = remSent + 1
  /\ UNCHANGED <<pc, syncVars, dataVars, dst, cliVars, cliRead, rem, remRead, toRem, remGot>>

RemRecv ==
  /\ rem # "closed" /\ toRem # <<>>
  /\ remGot' = Append(remGot, Head(toRem))
  /\ toRem' = Tail(toRem)
  /\ UNCHANGED <<pc, syncVars, dataVars, dst, cliVars, cliRead, rem, remSent, remRead>>

RemFin ==
  /\ dst /\ rem = "open"
  /\ rem' = "fin"
  /\ UNCHANGED <<pc, syncVars, dataVars, dst, cliVars, cliRead, remSent, remRead, toRem, remGot>>

RemClose ==
  /\ dst /\ rem # "closed"
  /\ rem' = "closed"
  /\ toRem' = <<>>
  /\ \E n \in (IF toRem = <<>> THEN {remSent} ELSE remRead .. remSent) : remSent' = n
  /\ UNCHANGED <<pc, syncVars, dataVars, dst, cliVars, cliRead, remRead, remGot>>

Client == CliSend \/ CliRecv \/ CliClose
Remote == RemSend \/ RemRecv \/ RemFin \/ RemClose
-----------------------------------------------------------------------------
(* Reading and writing the two connections. *)

\* ReadB: the next whole frame, unless its size is refused.
FrameReady == cliRead < cliSent /\ cliRead + 1 # bad

\* ReadB fails: end of stream (possibly within a frame), or a size above 64 MiB.
ReadFails == (cli = "closed" /\ cliRead = cliSent) \/ (cliRead < cliSent /\ cliRead + 1 = bad)

\* WriteB succeeds: the frame goes into the socket buffer; a first write to a peer that
\* has closed also succeeds, and its bytes are lost.
WriteCli(x) ==
  \/ cli = "open" /\ Len(toCli) < SockBuf /\ toCli' = Append(toCli, x)
  \/ cli = "closed" /\ UNCHANGED toCli

WriteRem(x) ==
  \/ rem # "closed" /\ Len(toRem) < SockBuf /\ toRem' = Append(toRem, x)
  \/ rem = "closed" /\ UNCHANGED toRem

Goto(t, from, to) == pc[t] = from /\ pc' = [pc EXCEPT ![t] = to]
-----------------------------------------------------------------------------
(* main: handle, auth, proxy and checkFirst *)

\* auth reads the client's authentication query.
AuthRead ==
  /\ pc["main"] = "auth"
  /\ \/ FrameReady /\ Goto("main", "auth", "reply") /\ cliRead' = cliRead + 1
     \/ ReadFails /\ Goto("main", "auth", "done") /\ UNCHANGED cliRead
  /\ UNCHANGED <<syncVars, dataVars, dst, cliVars, remRead, remVars>>

\* auth writes the module's reply, whatever the write's result; a refusing module
\* (is_closing) ends the handler without a call of server_connection_close.
AuthReply ==
  /\ \/ Goto("main", "reply", "spawn") /\ mod' = "session"
     \/ Goto("main", "reply", "done") /\ UNCHANGED mod
  /\ WriteCli(0)
  /\ UNCHANGED <<wg, panicked, ends, ech, dataVars, dst, cli, first, bad, cliSent, cliRead, cliGot,
                 remRead, remVars>>

\* Variant: all four goroutines start before the first query is read.
SpawnAll ==
  /\ pc["main"] = "spawn"
  /\ pc' = [pc EXCEPT !["main"] = "add3", !["s2r"] = "wait", !["r2s"] = "wait", !["s2c"] = "loop",
                      !["c2s"] = "read"]
  /\ UNCHANGED <<syncVars, dataVars, dst, cliVars, cliRead, remRead, remVars>>

\* proxy starts s2r, r2s and s2c ...
Spawn ==
  /\ pc["main"] = "spawn"
  /\ pc' = [pc EXCEPT !["main"] = "add3", !["s2r"] = "wait", !["r2s"] = "wait", !["s2c"] = "loop"]
  /\ UNCHANGED <<syncVars, dataVars, dst, cliVars, cliRead, remRead, remVars>>

\* Variant: one of the three is not counted.
Add3Two ==
  /\ Goto("main", "add3", "first")
  /\ wg' = wg + 2
  /\ UNCHANGED <<panicked, ends, ech, mod, dataVars, dst, cliVars, cliRead, remRead, remVars>>

\* ... and counts them.
Add3 ==
  /\ Goto("main", "add3", "first")
  /\ wg' = wg + 3
  /\ UNCHANGED <<panicked, ends, ech, mod, dataVars, dst, cliVars, cliRead, remRead, remVars>>

\* checkFirst reads and decodes the first query: a domain to look up, or data.
FirstRead ==
  /\ \/ /\ FrameReady
        /\ Goto("main", "first", IF first = "dns" THEN "lookup" ELSE "dial")
        /\ cliRead' = cliRead + 1
        /\ held' = [held EXCEPT !["main"] = IF first = "dns" THEN 0 ELSE cliRead + 1]
     \/ ReadFails /\ Goto("main", "first", "err") /\ UNCHANGED <<cliRead, held>>
  /\ UNCHANGED <<syncVars, chans2r, chans2c, dst, cliVars, remRead, remVars>>

\* net.LookupIP finds an address, or not.
Lookup ==
  /\ Goto("main", "lookup", "found") \/ Goto("main", "lookup", "notfound")
  /\ UNCHANGED <<syncVars, dataVars, dst, cliVars, cliRead, remRead, remVars>>

\* The DNS reply; checkFirst succeeds only for a found address whose reply was written.
DnsReply ==
  /\ \/ Goto("main", "found", "goc2s") /\ WriteCli(0)
     \/ Goto("main", "notfound", "err") /\ WriteCli(0)
     \/ pc["main"] \in {"found", "notfound"} /\ cli = "closed"
        /\ Goto("main", pc["main"], "err") /\ UNCHANGED toCli
  /\ UNCHANGED <<syncVars, dataVars, dst, cli, first, bad, cliSent, cliRead, cliGot, remRead, remVars>>

\* proxy starts c2s ...
GoC2S ==
  /\ pc["main"] = "goc2s"
  /\ pc' = [pc EXCEPT !["main"] = "add1", !["c2s"] = "read"]
  /\ UNCHANGED <<syncVars, dataVars, dst, cliVars, cliRead, remRead, remVars>>

\* Variant: c2s is never counted.
Add1Forgotten ==
  /\ Goto("main", "add1", "wait")
  /\ UNCHANGED <<syncVars, dataVars, dst, cliVars, cliRead, remRead, remVars>>

\* ... and counts it, when it may already have ended.
Add1 ==
  /\ Goto("main", "add1", "wait")
  /\ wg' = wg + 1
  /\ UNCHANGED <<panicked, ends, ech, mod, dataVars, dst, cliVars, cliRead, remRead, remVars>>

\* checkFirst failed: c.chans2rEnd <- zero.
FirstFailed ==
  /\ ends["s2r"] < EndCap
  /\ Goto("main", "err", "wait")
  /\ ends' = [ends EXCEPT !["s2r"] = @ + 1]
  /\ UNCHANGED <<wg, panicked, ech, mod, dataVars, dst, cliVars, cliRead, remRead, remVars>>

\* The deferred c.wg.Wait() returns.
Wait ==
  /\ wg = 0
  /\ Goto("main", "wait", "close")
  /\ UNCHANGED <<syncVars, dataVars, dst, cliVars, cliRead, remRead, remVars>>

\* The deferred server_connection_close; handle returns to its worker.
CloseSession ==
  /\ Goto("main", "close", "done")
  /\ mod' = "closed"
  /\ UNCHANGED <<wg, panicked, ends, ech, dataVars, dst, cliVars, cliRead, remRead, remVars>>
-----------------------------------------------------------------------------
(* What main (in checkFirst) and c2s do with a frame of data. *)

\* s.dial: the remote host accepts the connection, or not.
Dial(t) ==
  /\ \/ Goto(t, "dial", "start1") /\ dst' = TRUE
     \/ Goto(t, "dial", IF t = "main" THEN "err" ELSE "end") /\ UNCHANGED dst
  /\ UNCHANGED <<syncVars, dataVars, cliVars, cliRead, remRead, remVars>>

\* c.chanStart <- zero, twice: each meets one of the goroutines that wait for it.
Start(t) ==
  /\ \E w \in {"s2r", "r2s"} :
       /\ pc[t] \in {"start1", "start2"} /\ pc[w] = "wait"
       /\ pc' = [pc EXCEPT ![t] = IF pc[t] = "start1" THEN "start2" ELSE "put",
                           ![w] = IF w = "s2r" THEN "loop" ELSE "go"]
  /\ UNCHANGED <<syncVars, dataVars, dst, cliVars, cliRead, remRead, remVars>>

\* Variant: the send gives up when its receiver has gone.
PutOrQuit(t) ==
  /\ \/ Len(chans2r) < ChanCap /\ Goto(t, "put", IF t = "main" THEN "goc2s" ELSE "read")
        /\ chans2r' = Append(chans2r, held[t])
     \/ t = "c2s" /\ pc["s2r"] = "done" /\ Goto(t, "put", "end") /\ UNCHANGED chans2r
  /\ held' = [held EXCEPT ![t] = 0]
  /\ UNCHANGED <<syncVars, chans2c, dst, cliVars, cliRead, remRead, remVars>>

\* c.chans2r <- data
Put(t) ==
  /\ Len(chans2r) < ChanCap
  /\ Goto(t, "put", IF t = "main" THEN "goc2s" ELSE "read")
  /\ chans2r' = Append(chans2r, held[t])
  /\ held' = [held EXCEPT ![t] = 0]
  /\ UNCHANGED <<syncVars, chans2c, dst, cliVars, cliRead, remRead, remVars>>
-----------------------------------------------------------------------------
(* c2s *)

\* Variant: c2s also leaves when s2r has gone.
C2SReadQuits ==
  /\ \/ /\ FrameReady
        /\ Goto("c2s", "read", IF dst THEN "put" ELSE "dial")
        /\ cliRead' = cliRead + 1
        /\ held' = [held EXCEPT !["c2s"] = cliRead + 1]
     \/ (ReadFails \/ pc["s2r"] = "done")
        /\ Goto("c2s", "read", "end") /\ UNCHANGED <<cliRead, held>>
  /\ UNCHANGED <<syncVars, chans2r, chans2c, dst, cliVars, remRead, remVars>>

\* ReadB and server_decode; the first frame of data opens the remote connection.
C2SRead ==
  /\ \/ /\ FrameReady
        /\ Goto("c2s", "read", IF dst THEN "put" ELSE "dial")
        /\ cliRead' = cliRead + 1
        /\ held' = [held EXCEPT !["c2s"] = cliRead + 1]
     \/ ReadFails /\ Goto("c2s", "read", "end") /\ UNCHANGED <<cliRead, held>>
  /\ UNCHANGED <<syncVars, chans2r, chans2c, dst, cliVars, remRead, remVars>>

\* Variant: s2r leaves without ending r2s.
SendEndNotR2S(t, w) ==
  /\ ends[w] < EndCap
  /\ Goto(t, "end", "wgdone")
  /\ ends' = IF w = "r2s" THEN ends ELSE [ends EXCEPT ![w] = @ + 1]
  /\ UNCHANGED <<wg, panicked, ech, mod, dataVars, dst, cliVars, cliRead, remRead, remVars>>

\* The deferred send that ends goroutine w.
SendEnd(t, w) ==
  /\ ends[w] < EndCap
  /\ Goto(t, "end", "wgdone")
  /\ ends' = [ends EXCEPT ![w] = @ + 1]
  /\ UNCHANGED <<wg, panicked, ech, mod, dataVars, dst, cliVars, cliRead, remRead, remVars>>

\* A receive from an End channel: t, at a select, leaves for its deferred function.
TakeEnd(t, from) ==
  /\ ends[t] > 0
  /\ Goto(t, from, "end")
  /\ ends' = [ends EXCEPT ![t] = @ - 1]
  /\ UNCHANGED <<wg, panicked, ech, mod, dataVars, dst, cliVars, cliRead, remRead, remVars>>

\* The deferred c.wg.Done(); a counter below zero is a panic that no one recovers.
WgDone(t) ==
  /\ Goto(t, "wgdone", "done")
  /\ wg' = wg - 1
  /\ panicked' = (wg = 0)
  /\ UNCHANGED <<ends, ech, mod, dataVars, dst, cliVars, cliRead, remRead, remVars>>

C2S == C2SRead \/ Dial("c2s") \/ Start("c2s") \/ Put("c2s") \/ SendEnd("c2s", "s2r") \/ WgDone("c2s")
-----------------------------------------------------------------------------
(* s2r *)

S2RTake ==
  /\ chans2r # <<>>
  /\ Goto("s2r", "loop", "write")
  /\ held' = [held EXCEPT !["s2r"] = Head(chans2r)]
  /\ chans2r' = Tail(chans2r)
  /\ UNCHANGED <<syncVars, chans2c, dst, cliVars, cliRead, remRead, remVars>>

\* c.dst.Write blocks while the remote host does not read.
S2RWrite ==
  /\ \/ Goto("s2r", "write", "loop") /\ WriteRem(held["s2r"])
     \/ Goto("s2r", "write", "end") /\ rem = "closed" /\ UNCHANGED toRem
  /\ held' = [held EXCEPT !["s2r"] = 0]
  /\ UNCHANGED <<syncVars, chans2r, chans2c, dst, cliVars, cliRead, rem, remSent, remRead, remGot>>

S2R ==
  \/ TakeEnd("s2r", "wait") \/ TakeEnd("s2r", "loop")
  \/ S2RTake \/ S2RWrite \/ SendEnd("s2r", "r2s") \/ WgDone("s2r")
-----------------------------------------------------------------------------
(* r2s and the reader it starts *)

R2SGo ==
  /\ pc["r2s"] = "go"
  /\ pc' = [pc EXCEPT !["r2s"] = "select", !["rdr"] = "read"]
  /\ UNCHANGED <<syncVars, dataVars, dst, cliVars, cliRead, remRead, remVars>>

\* case <-eCh: the reader met the end of the remote stream.
R2SErr ==
  /\ ech
  /\ Goto("r2s", "select", "end")
  /\ ech' = FALSE
  /\ UNCHANGED <<wg, panicked, ends, mod, dataVars, dst, cliVars, cliRead, remRead, remVars>>

R2S ==
  \/ TakeEnd("r2s", "wait") \/ R2SGo \/ R2SErr \/ TakeEnd("r2s", "select")
  \/ SendEnd("r2s", "s2c") \/ WgDone("r2s")

\* c.dst.Read
RdrRead ==
  /\ \/ /\ remRead < remSent
        /\ Goto("rdr", "read", "put")
        /\ remRead' = remRead + 1
        /\ held' = [held EXCEPT !["rdr"] = remRead + 1]
        /\ UNCHANGED ech
     \/ /\ rem # "open" /\ remRead = remSent
        /\ Goto("rdr", "read", "done")
        /\ ech' = TRUE
        /\ UNCHANGED <<remRead, held>>
  /\ UNCHANGED <<wg, panicked, ends, mod, chans2r, chans2c, dst, cliVars, cliRead, remVars>>

\* Variant: chans2c with room for one more.
RdrPutTwo ==
  /\ Len(chans2c) < ChanCap + 1
  /\ Goto("rdr", "put", "read")
  /\ chans2c' = Append(chans2c, held["rdr"])
  /\ held' = [held EXCEPT !["rdr"] = 0]
  /\ UNCHANGED <<syncVars, chans2r, dst, cliVars, cliRead, remRead, remVars>>

\* c.chans2c <- data
RdrPut ==
  /\ Len(chans2c) < ChanCap
  /\ Goto("rdr", "put", "read")
  /\ chans2c' = Append(chans2c, held["rdr"])
  /\ held' = [held EXCEPT !["rdr"] = 0]
  /\ UNCHANGED <<syncVars, chans2r, dst, cliVars, cliRead, remRead, remVars>>

Rdr == RdrRead \/ RdrPut
-----------------------------------------------------------------------------
(* s2c *)

S2CTake ==
  /\ chans2c # <<>>
  /\ Goto("s2c", "loop", "write")
  /\ held' = [held EXCEPT !["s2c"] = Head(chans2c)]
  /\ chans2c' = Tail(chans2c)
  /\ UNCHANGED <<syncVars, chans2r, dst, cliVars, cliRead, remRead, remVars>>

\* server_encode and WriteB
S2CWrite ==
  /\ \/ Goto("s2c", "write", "loop") /\ WriteCli(held["s2c"])
     \/ Goto("s2c", "write", "end") /\ cli = "closed" /\ UNCHANGED toCli
  /\ held' = [held EXCEPT !["s2c"] = 0]
  /\ UNCHANGED <<syncVars, chans2r, chans2c, dst, cli, first, bad, cliSent, cliRead, cliGot, remRead, remVars>>

S2C ==
  \/ S2CTake \/ S2CWrite \/ TakeEnd("s2c", "loop") \/ SendEnd("s2c", "s2c") \/ WgDone("s2c")
-----------------------------------------------------------------------------
Main ==
  \/ AuthRead \/ AuthReply \/ Spawn \/ Add3 \/ FirstRead \/ Lookup \/ DnsReply
  \/ Dial("main") \/ Start("main") \/ Put("main")
  \/ GoC2S \/ Add1 \/ FirstFailed \/ Wait \/ CloseSession

Server == Main \/ C2S \/ S2R \/ R2S \/ Rdr \/ S2C

Next == ~panicked /\ (Client \/ Remote \/ Server)

\* The Go scheduler runs some goroutine that can run; dial and lookup return.  Every
\* goroutine's steps are bounded by the bounds on the traffic, so this is enough for each
\* of them.  The client and the remote host owe nothing.
Fairness == WF_vars(~panicked /\ Server)

Spec == Init /\ [][Next]_vars /\ Fairness
-----------------------------------------------------------------------------
Ended(t) == pc[t] \in {"end", "wgdone", "done"}

MainPC == {"auth", "reply", "spawn", "add3", "first", "lookup", "found", "notfound", "dial",
           "start1", "start2", "put", "goc2s", "add1", "err", "wait", "close", "done"}

Places == MainPC \cup {"off", "read", "loop", "write", "go", "select", "end", "wgdone"}

PcOK ==
  /\ pc \in [Thread -> Places]
  /\ pc["main"] \in MainPC
  /\ pc["c2s"] \in {"off", "read", "dial", "start1", "start2", "put", "end", "wgdone", "done"}
  /\ pc["s2r"] \in {"off", "wait", "loop", "write", "end", "wgdone", "done"}
  /\ pc["r2s"] \in {"off", "wait", "go", "select", "end", "wgdone", "done"}
  /\ pc["rdr"] \in {"off", "read", "put", "done"}
  /\ pc["s2c"] \in {"off", "loop", "write", "end", "wgdone", "done"}

SyncOK ==
  /\ wg \in Int /\ panicked \in BOOLEAN /\ ech \in BOOLEAN
  /\ ends \in [{"s2r", "r2s", "s2c"} -> 0 .. EndCap]
  /\ mod \in {"none", "session", "closed"}

DataOK ==
  /\ held \in [Thread -> Nat] /\ dst \in BOOLEAN
  /\ chans2r \in Seq(Nat) /\ Len(chans2r) <= ChanCap
  /\ chans2c \in Seq(Nat) /\ Len(chans2c) <= ChanCap

CliOK ==
  /\ cli \in {"open", "closed"} /\ first \in {"dns", "data"} /\ bad \in 0 .. MaxUp
  /\ cliSent \in 0 .. MaxUp /\ cliRead \in 0 .. cliSent
  /\ toCli \in Seq(Nat) /\ Len(toCli) <= SockBuf /\ cliGot \in Seq(Nat)

RemOK ==
  /\ rem \in {"open", "fin", "closed"}
  /\ remSent \in 0 .. MaxDown /\ remRead \in 0 .. remSent
  /\ toRem \in Seq(Nat) /\ Len(toRem) <= SockBuf /\ remGot \in Seq(Nat)

\* The variables' types; the channels and the socket buffers stay within their capacity.
TypeOK == PcOK /\ SyncOK /\ DataOK /\ CliOK /\ RemOK
-----------------------------------------------------------------------------
(* Safety *)

\* The frames of each direction before those that carry data: the authentication query
\* or reply and, where the session starts with one, the DNS query or reply.
Preamble == IF first = "dns" THEN 2 ELSE 1

\* s2r hands the client's data to the remote host in order and without a gap, whichever
\* of main and c2s put it into the channel; the client receives the replies first and then
\* the remote host's data in order and without a gap.  No write of s2c gets between those of
\* auth and checkFirst, or between the two writes of WriteB: main and s2c are never both
\* about to write to the client, nor main and c2s to read from it.
InOrder ==
  LET up   == remGot \o toRem
      down == cliGot \o toCli
  IN  /\ \A i \in 1 .. Len(up)   : up[i] = Preamble + i
      /\ \A i \in 1 .. Len(down) : down[i] = IF i <= Preamble THEN 0 ELSE i - Preamble
      /\ ~(pc["main"] \in {"reply", "found", "notfound"} /\ pc["s2c"] = "write")
      /\ ~(pc["main"] \in {"auth", "first"} /\ pc["c2s"] = "read")

\* When the client's end of stream has ended s2r, at most the one frame that still was in
\* the channel is missing at a remote host that keeps its connection: select may take the
\* End signal first.  When the reader has met the end of the remote stream, at most one chunk
\* of what it read never reaches a client that keeps its connection, whoever ended s2c.
LossBound ==
  /\ Ended("c2s") /\ Ended("s2r") /\ dst /\ rem # "closed"
       => cliRead - Preamble - Len(remGot) - Len(toRem) <= ChanCap
  /\ pc["rdr"] = "done" /\ Ended("s2c") /\ cli = "open"
       => remRead + Preamble - Len(cliGot) - Len(toCli) <= ChanCap

\* server_connection_close frees the module's session only after every goroutine that
\* encodes or decodes with it has left its loop.
CloseAfterUsers ==
  mod = "closed" \/ pc["main"] = "close"
    => /\ pc["c2s"] \in {"off", "done"}
       /\ pc["s2r"] = "done" /\ pc["r2s"] = "done" /\ pc["s2c"] = "done"

\* No deferred send on an End channel blocks: the two slots are enough for every order in
\* which the goroutines end, so none of them hangs in its deferred function.
EndRoom ==
  /\ pc["main"] = "err" \/ pc["c2s"] = "end" => ends["s2r"] < EndCap
  /\ pc["s2r"] = "end" => ends["r2s"] < EndCap
  /\ pc["r2s"] = "end" /\ pc["s2c"] = "end" => ends["s2c"] + 1 < EndCap
  /\ pc["r2s"] = "end" \/ pc["s2c"] = "end" => ends["s2c"] < EndCap

\* The counter can go below zero (and end the process) only while main is between
\* go s.dealc2s(c) and c.wg.Add(1), with all four goroutines already through.
PanicOnlyInGap ==
  panicked => /\ pc["main"] = "add1" /\ pc["c2s"] = "done"
              /\ pc["s2r"] = "done" /\ pc["r2s"] = "done" /\ pc["s2c"] = "done"

\* handle has not started the goroutines, or has ended without starting them.
Fresh == pc["main"] \in {"auth", "reply", "spawn"} \/ (pc["main"] = "done" /\ mod # "closed")

\* Which goroutines exist in which part of proxy.
PhaseInv ==
  /\ mod = "closed" => pc["main"] = "done"
  /\ Fresh => pc["c2s"] = "off" /\ pc["s2r"] = "off" /\ pc["r2s"] = "off" /\ pc["s2c"] = "off"
              /\ pc["rdr"] = "off"
  /\ ~Fresh => pc["s2r"] # "off" /\ pc["r2s"] # "off" /\ pc["s2c"] # "off"
  /\ pc["main"] = "add3" => pc["s2r"] = "wait" /\ pc["r2s"] = "wait" /\ pc["s2c"] = "loop"
                            /\ pc["rdr"] = "off"
  /\ Fresh \/ pc["main"] = "add3" => chans2c = <<>>
  /\ pc["main"] \notin {"add1", "wait", "close", "done"} => pc["c2s"] = "off"
  /\ pc["main"] = "add1" => pc["c2s"] # "off"

\* What main has added to the counter so far.
Added ==
  IF Fresh \/ pc["main"] = "add3" THEN 0
  ELSE IF pc["main"] = "add1" \/ pc["c2s"] = "off" THEN 3 ELSE 4

Done(t) == IF pc[t] = "done" THEN 1 ELSE 0

\* The counter is what main added less one for each goroutine that is done.
WgInv == wg = Added - Done("c2s") - Done("s2r") - Done("r2s") - Done("s2c")

\* Who has sent what is in the End channels.
EndsInv ==
  /\ ends["s2r"] > 0
       => /\ ends["s2r"] = 1
          /\ \/ pc["c2s"] \in {"wgdone", "done"}
             \/ pc["c2s"] = "off" /\ pc["main"] \in {"wait", "close", "done"}
  /\ ends["r2s"] > 0 => ends["r2s"] = 1 /\ pc["s2r"] \in {"wgdone", "done"}
  /\ ends["s2c"] > 0 => pc["r2s"] \in {"wgdone", "done"} \/ pc["s2c"] \in {"wgdone", "done"}
  /\ ends["s2c"] > 1 => pc["r2s"] \in {"wgdone", "done"} /\ pc["s2c"] \in {"wgdone", "done"}

\* The goroutines, the counter and the End channels agree on how far the session is: the
\* inductive invariant behind CloseAfterUsers, PanicOnlyInGap and EndRoom.
SyncInv == PhaseInv /\ WgInv /\ EndsInv /\ CloseAfterUsers /\ PanicOnlyInGap

\* Neither the end nor the reset of the remote connection ends the session: once a remote
\* connection was opened, handle returns only after the client's stream has ended.
OnlyClientEnds ==
  mod = "closed" /\ dst => (cli = "closed" /\ cliRead = cliSent) \/ cliRead + 1 = bad
-----------------------------------------------------------------------------
(* c2s blocked for ever *)

\* A write to the remote host failed, s2r is gone and chans2r is full: c2s, about to put
\* a frame, waits for a receiver that will not come, main waits for c2s, and the worker
\* that runs handle is lost.
Stranded ==
  /\ pc["c2s"] = "put" /\ Len(chans2r) = ChanCap
  /\ Ended("s2r")

\* Nothing rescues a stranded session, not even the client closing its connection.
StrandedForever == [][Stranded => Stranded' /\ pc'["main"] \notin {"close", "done"}]_vars

\* s2r waits for a remote host that does not read.
RemoteStalled == pc["s2r"] = "write" /\ rem # "closed" /\ Len(toRem) = SockBuf

\* After the client has closed, the handler returns and the session is closed, unless the
\* session is stranded, the remote host does not read, or the process has panicked: no other
\* wait of the goroutines on one another is circular.
ClientCloseEnds ==
  []<>(cli = "open" \/ pc["main"] = "done" \/ panicked \/ Stranded \/ RemoteStalled)
=============================================================================
