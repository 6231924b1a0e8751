----------------------------- MODULE TunnelRelay -----------------------------
(***************************************************************************)
(* The data phase of one proxied connection in the native build: the       *)
(* thread of skcli that runs Socks5Connection::passData and the thread of  *)
(* sksrv that runs inbound_tunnel::dealConnectionImpl, each a select loop  *)
(* over two sockets whose sends and receives all block.                    *)
(*                                                                         *)
(*     app  <-->  skcli (passData)  <-->  sksrv (dealConnectionImpl)       *)
(*                                                     <-->  next hop      *)
(*                                                                         *)
(* A byte is identified with its position in the stream it belongs to, so  *)
(* a chunk of data is an interval of positions.  The four TCP connections' *)
(* directions are bounded FIFO buffers; a peer may close, half-close, stop *)
(* reading or refuse the connection at any time.                           *)
(***************************************************************************)
EXTENDS Integers, Sequences

CONSTANTS
  MaxApp,    \* bytes the application ever sends
  MaxHop,    \* bytes the next hop ever sends
  ReadHalf,  \* bytes one read() of readall / recvall asks for (512 in the code)
  SockBuf,   \* bytes the socket buffers towards the application and the next hop hold
  TunBuf     \* frames the tunnel's socket buffers hold, in each direction

ASSUME RelayAssumption ==
  /\ MaxApp \in Nat /\ MaxHop \in Nat
  /\ ReadHalf \in Nat \ {0}
  /\ SockBuf \in Nat \ {0}
  /\ TunBuf \in Nat \ {0}

VARIABLES
  app,       \* the application's socket: "open", "fin" (it sent FIN, still reads), "closed"
  sent,      \* how many bytes the application has sent
  taken,     \* how many of them the client has read
  toApp,     \* bytes on the way to the application
  appGot,    \* what the application has read
  cpc,       \* where the client thread is
  crset,     \* the descriptors its last select() reported: "fd" (m_fd), "tun" (nextHop)
  cbuf,      \* the chunk the client thread holds
  cfd,       \* the client's m_fd is open
  ctun,      \* the client's tunnel socket is open
  up,        \* frames on the way from client to server
  down,      \* frames on the way from server to client
  spc,       \* where the server thread is
  srset,     \* the descriptors its last select() reported: "conn" (connfd), "hop" (nextHopConn)
  sbuf,      \* the chunk the server thread holds
  sconn,     \* the server's connfd is open
  shop,      \* nextHopConn: "none" (-1), "open", "closed"
  toHop,     \* bytes on the way to the next hop
  hopGot,    \* what the next hop has read
  hop,       \* the next hop's socket: "open", "fin", "closed"
  hopSent,   \* how many bytes the next hop has sent
  hopTaken   \* how many of them the server has read

appVars == <<app, sent, appGot>>
cliVars == <<taken, toApp, cpc, crset, cbuf, cfd, ctun>>
tunVars == <<up, down>>
srvVars == <<toHop, hopTaken, spc, srset, sbuf, sconn, shop>>
hopVars == <<hop, hopSent, hopGot>>
vars == <<app, sent, taken, toApp, appGot, cpc, crset, cbuf, cfd, ctun, up, down,
          spc, srset, sbuf, sconn, shop, toHop, hopGot, hop, hopSent, hopTaken>>

-----------------------------------------------------------------------------
Chunk == [lo : Nat, hi : Nat]
NoChunk == [lo |-> 1, hi |-> 0]

\* read(fd, p, n) and recv(fd, p, n, 0) return what has arrived, at most n bytes.
ReadSize(arrived) == IF arrived < ReadHalf THEN arrived ELSE ReadHalf

\* What a frame buffer may still deliver after its writer has closed the socket:
\* everything, or, when the writer closed with unread input (the kernel then resets
\* the connection and drops what it has not transmitted), any prefix.
AfterClose(frames, unread) ==
  IF unread THEN {SubSeq(frames, 1, n) : n \in 0 .. Len(frames)} ELSE {frames}

Init ==
  /\ app = "open" /\ sent = 0 /\ appGot = <<>>
  /\ taken = 0 /\ toApp = <<>> /\ cpc = "select" /\ crset = {} /\ cbuf = NoChunk
  /\ cfd = TRUE /\ ctun = TRUE
  /\ up = <<>> /\ down = <<>>
  /\ spc = "select" /\ srset = {} /\ sbuf = NoChunk /\ sconn = TRUE /\ shop = "none"
  /\ toHop = <<>> /\ hopTaken = 0
  /\ hop = "open" /\ hopSent = 0 /\ hopGot = <<>>
-----------------------------------------------------------------------------
(* The application and the next hop: any TCP peer. *)

AppSend ==
  /\ app = "open" /\ cfd
  /\ sent < MaxApp /\ sent - taken < SockBuf
  /\ sent' = sent + 1
  /\ UNCHANGED <<app, appGot, cliVars, tunVars, srvVars, hopVars>>

AppRecv ==
  /\ app # "closed" /\ toApp # <<>>
  /\ appGot' = Append(appGot, Head(toApp))
  /\ toApp' = Tail(toApp)
  /\ UNCHANGED <<app, sent, taken, cpc, crset, cbuf, cfd, ctun, tunVars, srvVars, hopVars>>

AppFin ==
  /\ app = "open"
  /\ app' = "fin"
  /\ UNCHANGED <<sent, appGot, cliVars, tunVars, srvVars, hopVars>>

AppClose ==
  /\ app # "closed"
  /\ app' = "closed"
  /\ toApp' = <<>>
  /\ \E s \in (IF toApp = <<>> THEN {sent} ELSE taken .. sent) : sent' = s
  /\ UNCHANGED <<appGot, taken, cpc, crset, cbuf, cfd, ctun, tunVars, srvVars, hopVars>>

HopSend ==
  /\ shop = "open" /\ hop = "open"
  /\ hopSent < MaxHop /\ hopSent - hopTaken < SockBuf
  /\ hopSent' = hopSent + 1
  /\ UNCHANGED <<appVars, cliVars, tunVars, srvVars, hop, hopGot>>

HopRecv ==
  /\ hop # "closed" /\ toHop # <<>>
  /\ hopGot' = Append(hopGot, Head(toHop))
  /\ toHop' = Tail(toHop)
  /\ UNCHANGED <<appVars, cliVars, tunVars, hop, hopSent, hopTaken, spc, srset, sbuf, sconn, shop>>

HopFin ==
  /\ shop = "open" /\ hop = "open"
  /\ hop' = "fin"
  /\ UNCHANGED <<appVars, cliVars, tunVars, srvVars, hopSent, hopGot>>

HopClose ==
  /\ shop # "none" /\ hop # "closed"
  /\ hop' = "closed"
  /\ toHop' = <<>>
  /\ \E s \in (IF toHop = <<>> THEN {hopSent} ELSE hopTaken .. hopSent) : hopSent' = s
  /\ UNCHANGED <<appVars, cliVars, tunVars, hopGot, hopTaken, spc, srset, sbuf, sconn, shop>>

App == AppSend \/ AppRecv \/ AppFin \/ AppClose
Hop == HopSend \/ HopRecv \/ HopFin \/ HopClose
-----------------------------------------------------------------------------
(* skcli: Socks5Connection::passData. *)

FdReadable == sent > taken \/ app # "open"
TunReadable == down # <<>> \/ ~sconn

\* The thread leaves the loop, by _close_conn or by an exception.
CliLeave == cpc' = "close" /\ UNCHANGED <<crset, cbuf>>

\* Variant: m_fd left out of the set given to select().
CliSelectTunOnly ==
  /\ cpc = "select"
  /\ TunReadable
  /\ crset' = {"tun"}
  /\ cpc' = "recv"
  /\ UNCHANGED <<appVars, taken, toApp, cbuf, cfd, ctun, tunVars, srvVars, hopVars>>

CliSelect ==
  /\ cpc = "select"
  /\ FdReadable \/ TunReadable
  /\ crset' = {x \in {"fd", "tun"} : IF x = "fd" THEN FdReadable ELSE TunReadable}
  /\ cpc' = IF FdReadable THEN "read" ELSE "recv"
  /\ UNCHANGED <<appVars, taken, toApp, cbuf, cfd, ctun, tunVars, srvVars, hopVars>>

\* fdIO::readall, first read().  0 is end of file; a full half buffer makes it read again.
CliRead ==
  /\ cpc = "read"
  /\ LET n == ReadSize(sent - taken) IN
       /\ taken' = taken + n
       /\ \/ n = 0 /\ CliLeave
          \/ /\ n > 0
             /\ cbuf' = [lo |-> taken + 1, hi |-> taken + n]
             /\ cpc' = IF n < ReadHalf THEN "send" ELSE "readmore"
             /\ UNCHANGED crset
  /\ UNCHANGED <<appVars, toApp, cfd, ctun, tunVars, srvVars, hopVars>>

\* Variant: the second read() overwrites what the first one stored.
CliReadMoreOverwrites ==
  /\ cpc = "readmore"
  /\ FdReadable
  /\ LET n == ReadSize(sent - taken) IN
       /\ taken' = taken + n
       /\ cbuf' = IF n = 0 THEN cbuf ELSE [lo |-> taken + 1, hi |-> taken + n]
  /\ cpc' = "send"
  /\ UNCHANGED <<appVars, toApp, crset, cfd, ctun, tunVars, srvVars, hopVars>>

\* Variant: end of file at the second read() is reported as the end of the stream.
CliReadMoreDropsAtEof ==
  /\ cpc = "readmore"
  /\ FdReadable
  /\ LET n == ReadSize(sent - taken) IN
       /\ taken' = taken + n
       /\ \/ /\ n > 0
             /\ cbuf' = [cbuf EXCEPT !.hi = taken + n] /\ cpc' = "send" /\ UNCHANGED crset
          \/ n = 0 /\ CliLeave
  /\ UNCHANGED <<appVars, toApp, cfd, ctun, tunVars, srvVars, hopVars>>

\* fdIO::readall, second read(): blocks until the application sends more or ends.  An
\* error (the application reset the connection) makes readall fail as a whole.
CliReadMore ==
  /\ cpc = "readmore"
  /\ FdReadable
  /\ LET n == ReadSize(sent - taken) IN
       /\ taken' = taken + n
       /\ \/ cbuf' = [cbuf EXCEPT !.hi = taken + n] /\ cpc' = "send" /\ UNCHANGED crset
          \/ n = 0 /\ app = "closed" /\ CliLeave
  /\ UNCHANGED <<appVars, toApp, cfd, ctun, tunVars, srvVars, hopVars>>

\* Variant: a full socket buffer makes the send fail (a nonblocking tunnel socket).
CliSendNonblocking ==
  /\ cpc = "send"
  /\ \/ /\ sconn /\ Len(up) < TunBuf
        /\ up' = Append(up, cbuf)
        /\ cpc' = (IF "tun" \in crset THEN "recv" ELSE "select") /\ UNCHANGED <<crset, cbuf>>
     \/ ~(sconn /\ Len(up) < TunBuf) /\ CliLeave /\ UNCHANGED up
  /\ UNCHANGED <<appVars, taken, toApp, cfd, ctun, down, srvVars, hopVars>>

\* encode, then sendn of the length and of the packet.  On a connection the server
\* has closed the kernel may still accept the bytes (and lose them) or fail the call.
CliSend ==
  /\ cpc = "send"
  /\ \/ /\ sconn /\ Len(up) < TunBuf
        /\ up' = Append(up, cbuf)
        /\ cpc' = (IF "tun" \in crset THEN "recv" ELSE "select") /\ UNCHANGED <<crset, cbuf>>
     \/ /\ ~sconn
        /\ cpc' = (IF "tun" \in crset THEN "recv" ELSE "select") /\ UNCHANGED <<crset, cbuf>>
        /\ UNCHANGED up
     \/ ~sconn /\ CliLeave /\ UNCHANGED up
  /\ UNCHANGED <<appVars, taken, toApp, cfd, ctun, down, srvVars, hopVars>>

\* recvn of the length and of the body, decode.  End of file throws.
CliRecv ==
  /\ cpc = "recv"
  /\ \/ /\ down # <<>>
        /\ cbuf' = Head(down) /\ down' = Tail(down)
        /\ cpc' = "write" /\ UNCHANGED crset
     \/ down = <<>> /\ ~sconn /\ CliLeave /\ UNCHANGED down
  /\ UNCHANGED <<appVars, taken, toApp, cfd, ctun, up, srvVars, hopVars>>

\* sendn to the application, byte by byte as its buffer has room.
CliWrite ==
  /\ cpc = "write"
  /\ \/ /\ app # "closed" /\ Len(toApp) < SockBuf
        /\ toApp' = Append(toApp, cbuf.lo)
        /\ cbuf' = [cbuf EXCEPT !.lo = cbuf.lo + 1]
        /\ cpc' = (IF cbuf.lo = cbuf.hi THEN "select" ELSE "write") /\ UNCHANGED crset
     \/ /\ app = "closed"
        /\ cpc' = "select" /\ UNCHANGED <<crset, cbuf, toApp>>
     \/ app = "closed" /\ CliLeave /\ UNCHANGED toApp
  /\ UNCHANGED <<appVars, taken, cfd, ctun, tunVars, srvVars, hopVars>>

\* ~SnakeConnection: close(connfd).
CliCloseTunnel ==
  /\ cpc = "close"
  /\ ctun' = FALSE
  /\ \E frames \in AfterClose(up, down # <<>>) : up' = frames
  /\ down' = <<>>
  /\ cpc' = "closefd"
  /\ UNCHANGED <<appVars, taken, toApp, crset, cbuf, cfd, srvVars, hopVars>>

\* ~Socks5Connection: close(m_fd).
CliCloseFd ==
  /\ cpc = "closefd"
  /\ cfd' = FALSE
  /\ \E bytes \in AfterClose(toApp, sent > taken) : toApp' = bytes
  /\ cpc' = "done"
  /\ UNCHANGED <<appVars, taken, crset, cbuf, ctun, tunVars, srvVars, hopVars>>

Cli == CliSelect \/ CliRead \/ CliReadMore \/ CliSend \/ CliRecv \/ CliWrite
         \/ CliCloseTunnel \/ CliCloseFd
-----------------------------------------------------------------------------
(* sksrv: inbound_tunnel::dealConnectionImpl and dealConnection. *)

ConnReadable == up # <<>> \/ ~ctun
HopReadable == shop = "open" /\ (hopSent > hopTaken \/ hop # "open")

\* The thread leaves the loop, by return or by an exception.
SrvLeave == spc' = "close" /\ UNCHANGED <<srset, sbuf, sconn, shop>>

\* close() of the socket to the next hop, if there is one, and of connfd.
DropHop ==
  /\ shop' = IF shop = "open" THEN "closed" ELSE shop
  /\ \E bytes \in AfterClose(toHop, shop = "open" /\ hopSent > hopTaken) : toHop' = bytes

DropConn ==
  /\ sconn' = FALSE
  /\ \E frames \in AfterClose(down, up # <<>>) : down' = frames
  /\ up' = <<>>

\* send() without MSG_NOSIGNAL on a connection the peer has reset: SIGPIPE, whose
\* default action ends the process, and the kernel closes its descriptors.
SrvKilled == spc' = "killed" /\ DropHop /\ DropConn /\ UNCHANGED <<srset, sbuf>>

SrvSelect ==
  /\ spc = "select"
  /\ ConnReadable \/ HopReadable
  /\ srset' = {x \in {"conn", "hop"} : IF x = "conn" THEN ConnReadable ELSE HopReadable}
  /\ spc' = IF ConnReadable THEN "recv" ELSE "hopread"
  /\ UNCHANGED <<appVars, cliVars, tunVars, toHop, hopTaken, sbuf, sconn, shop, hopVars>>

\* Variant: end of file on connfd does not leave the loop.
SrvRecvIgnoresEof ==
  /\ spc = "recv"
  /\ \/ /\ up # <<>>
        /\ sbuf' = Head(up) /\ up' = Tail(up)
        /\ spc' = (IF shop = "none" THEN "connect" ELSE "write")
     \/ up = <<>> /\ ~ctun /\ spc' = "select" /\ UNCHANGED <<up, sbuf>>
  /\ UNCHANGED <<appVars, cliVars, down, toHop, hopTaken, srset, sconn, shop, hopVars>>

\* recv_length_and_packet and decode.  End of file throws.
SrvRecv ==
  /\ spc = "recv"
  /\ \/ /\ up # <<>>
        /\ sbuf' = Head(up) /\ up' = Tail(up)
        /\ spc' = (IF shop = "none" THEN "connect" ELSE "write")
        /\ UNCHANGED <<srset, sconn, shop>>
     \/ up = <<>> /\ ~ctun /\ SrvLeave /\ UNCHANGED up
  /\ UNCHANGED <<appVars, cliVars, down, toHop, hopTaken, hopVars>>

\* Variant: the packet that made the server connect is not passed on.
SrvConnectDropsFirst ==
  /\ spc = "connect"
  /\ \/ spc' = "select" /\ shop' = "open" /\ UNCHANGED <<srset, sbuf, sconn>>
     \/ SrvLeave
  /\ UNCHANGED <<appVars, cliVars, tunVars, toHop, hopTaken, hopVars>>

\* quick_connect: succeeds or throws.
SrvConnect ==
  /\ spc = "connect"
  /\ \/ spc' = "write" /\ shop' = "open" /\ UNCHANGED <<srset, sbuf, sconn>>
     \/ SrvLeave
  /\ UNCHANGED <<appVars, cliVars, tunVars, toHop, hopTaken, hopVars>>

\* sendn_ex(nextHopConn, payload), byte by byte as the buffer has room.
SrvWrite ==
  /\ spc = "write"
  /\ LET next == IF "hop" \in srset THEN "hopread" ELSE "select" IN
     \/ /\ hop # "closed" /\ Len(toHop) < SockBuf
        /\ toHop' = Append(toHop, sbuf.lo)
        /\ sbuf' = [sbuf EXCEPT !.lo = sbuf.lo + 1]
        /\ spc' = (IF sbuf.lo = sbuf.hi THEN next ELSE "write")
        /\ UNCHANGED <<srset, sconn, shop>>
        /\ UNCHANGED tunVars
     \/ /\ hop = "closed"
        /\ spc' = next /\ UNCHANGED <<srset, sbuf, sconn, shop, toHop, tunVars>>
     \/ hop = "closed" /\ SrvLeave /\ UNCHANGED <<toHop, tunVars>>
     \/ hop = "closed" /\ SrvKilled
  /\ UNCHANGED <<appVars, cliVars, hopTaken, hopVars>>

\* sockIO::recvall, first recv(); an empty result returns from dealConnectionImpl.
SrvHopRead ==
  /\ spc = "hopread"
  /\ LET n == ReadSize(hopSent - hopTaken) IN
       /\ hopTaken' = hopTaken + n
       /\ \/ n = 0 /\ SrvLeave
          \/ /\ n > 0
             /\ sbuf' = [lo |-> hopTaken + 1, hi |-> hopTaken + n]
             /\ spc' = IF n < ReadHalf THEN "reply" ELSE "hopmore"
             /\ UNCHANGED <<srset, sconn, shop>>
  /\ UNCHANGED <<appVars, cliVars, tunVars, toHop, hopVars>>

\* sockIO::recvall, second recv(): as the second read() of readall.
SrvHopMore ==
  /\ spc = "hopmore"
  /\ HopReadable
  /\ LET n == ReadSize(hopSent - hopTaken) IN
       /\ hopTaken' = hopTaken + n
       /\ \/ /\ sbuf' = [sbuf EXCEPT !.hi = hopTaken + n] /\ spc' = "reply"
             /\ UNCHANGED <<srset, sconn, shop>>
          \/ n = 0 /\ hop = "closed" /\ SrvLeave
  /\ UNCHANGED <<appVars, cliVars, tunVars, toHop, hopVars>>

\* encode and send_length_and_packet, which does not pass MSG_NOSIGNAL.
SrvReply ==
  /\ spc = "reply"
  /\ \/ /\ ctun /\ Len(down) < TunBuf
        /\ down' = Append(down, sbuf)
        /\ spc' = "select" /\ UNCHANGED <<srset, sbuf, sconn, shop, up, toHop>>
     \/ /\ ~ctun
        /\ spc' = "select" /\ UNCHANGED <<srset, sbuf, sconn, shop, tunVars, toHop>>
     \/ ~ctun /\ SrvLeave /\ UNCHANGED <<tunVars, toHop>>
     \/ ~ctun /\ SrvKilled
  /\ UNCHANGED <<appVars, cliVars, hopTaken, hopVars>>

\* The deferred close(nextHopConn).
SrvCloseHop ==
  /\ spc = "close"
  /\ DropHop
  /\ spc' = "closeconn"
  /\ UNCHANGED <<appVars, cliVars, tunVars, hopTaken, srset, sbuf, sconn, hopVars>>

\* dealConnection: close(connfd).
SrvCloseConn ==
  /\ spc = "closeconn"
  /\ DropConn
  /\ spc' = "done"
  /\ UNCHANGED <<appVars, cliVars, toHop, hopTaken, srset, sbuf, shop, hopVars>>

Srv == SrvSelect \/ SrvRecv \/ SrvConnect \/ SrvWrite \/ SrvHopRead \/ SrvHopMore
         \/ SrvReply \/ SrvCloseHop \/ SrvCloseConn
-----------------------------------------------------------------------------
Next == App \/ Cli \/ Srv \/ Hop

\* Threads run; the peers owe nothing.
Fairness == WF_vars(Cli) /\ WF_vars(Srv)

Spec == Init /\ [][Next]_vars /\ Fairness
-----------------------------------------------------------------------------
CliPc == {"select", "read", "readmore", "send", "recv", "write", "close", "closefd", "done"}
SrvPc == {"select", "recv", "connect", "write", "hopread", "hopmore", "reply",
          "close", "closeconn", "done", "killed"}

AppType ==
  /\ app \in {"open", "fin", "closed"}
  /\ sent \in Nat
  /\ appGot \in Seq(Nat)
CliType ==
  /\ taken \in Nat /\ taken <= sent
  /\ toApp \in Seq(Nat) /\ Len(toApp) <= SockBuf
  /\ cpc \in CliPc /\ crset \subseteq {"fd", "tun"} /\ cbuf \in Chunk
  /\ cfd \in BOOLEAN /\ ctun \in BOOLEAN
TunType ==
  /\ up \in Seq(Chunk) /\ Len(up) <= TunBuf
  /\ down \in Seq(Chunk) /\ Len(down) <= TunBuf
SrvType ==
  /\ hopTaken \in Nat /\ hopTaken <= hopSent
  /\ toHop \in Seq(Nat) /\ Len(toHop) <= SockBuf
  /\ spc \in SrvPc /\ srset \subseteq {"conn", "hop"} /\ sbuf \in Chunk
  /\ sconn \in BOOLEAN /\ shop \in {"none", "open", "closed"}
HopType ==
  /\ hop \in {"open", "fin", "closed"}
  /\ hopSent \in Nat
  /\ hopGot \in Seq(Nat)

\* The variables keep their types and the buffers their bounds.
TypeOK == AppType /\ CliType /\ TunType /\ SrvType /\ HopType

\* Bytes reach the next hop, and come back to the application, in the order they
\* were sent, none missing before another and none twice, whatever the reads
\* coalesce, the sends split and the peers close (passData, dealConnectionImpl).
InOrder ==
  /\ \A i \in 1 .. Len(hopGot) : hopGot[i] = i
  /\ \A i \in 1 .. Len(appGot) : appGot[i] = i
  /\ Len(hopGot) <= taken /\ Len(appGot) <= hopTaken

-----------------------------------------------------------------------------
(* The inductive strengthening of InOrder: where each byte of a stream is. *)

\* The frames carry consecutive, nonempty chunks, the first one starting at from.
Contiguous(frames, from) ==
  \A i \in 1 .. Len(frames) :
    /\ frames[i].lo <= frames[i].hi
    /\ frames[i].lo = IF i = 1 THEN from ELSE frames[i - 1].hi + 1

\* The position after the last chunk of the frames.
EndOf(frames, from) == IF frames = <<>> THEN from ELSE frames[Len(frames)].hi + 1

CliActive == cpc \in {"select", "read", "readmore", "send", "recv", "write"}
SrvActive == spc \in {"select", "recv", "connect", "write", "hopread", "hopmore", "reply"}

\* The server holds a chunk for the next hop, and passes on what it receives.
UpHeld == spc \in {"connect", "write"}
UpLive == SrvActive /\ hop # "closed"
UpNext == IF UpHeld THEN sbuf.hi + 1 ELSE Len(hopGot) + Len(toHop) + 1
\* The client holds a chunk it has read and not sent.
UpPending == cpc \in {"readmore", "send"}

DownHeld == cpc = "write"
DownLive == CliActive /\ app # "closed"
DownNext == IF DownHeld THEN cbuf.hi + 1 ELSE Len(appGot) + Len(toApp) + 1
DownPending == spc \in {"hopmore", "reply"}

\* The descriptors are closed by the thread that owns them, in its last steps.
SocketInv ==
  /\ cpc \in {"closefd", "done"} <=> ~ctun
  /\ spc \in {"done", "killed"} <=> ~sconn

\* At every moment the application's bytes are laid out without gap or overlap over:
\* what the next hop read, its socket buffer, the server's chunk, the frames in the
\* tunnel, the client's chunk; as long as the threads that pass them on run.
UpDelivered ==
  /\ \A i \in 1 .. Len(hopGot) : hopGot[i] = i
  /\ \A i \in 1 .. Len(toHop) : toHop[i] = Len(hopGot) + i
  /\ Len(hopGot) + Len(toHop) <= taken
UpBound ==
  /\ \A i \in 1 .. Len(up) : up[i].lo <= up[i].hi /\ up[i].hi <= taken
  /\ UpHeld => sbuf.lo <= sbuf.hi /\ sbuf.hi <= taken
  /\ UpPending => cbuf.lo <= cbuf.hi /\ cbuf.hi = taken
UpChain ==
  UpLive =>
    /\ UpHeld => sbuf.lo = Len(hopGot) + Len(toHop) + 1
    /\ Contiguous(up, UpNext)
    /\ UpPending => cbuf.lo = EndOf(up, UpNext)
    /\ CliActive /\ ~UpPending => taken + 1 = EndOf(up, UpNext)

\* The same for the next hop's bytes on their way to the application.
DownDelivered ==
  /\ \A i \in 1 .. Len(appGot) : appGot[i] = i
  /\ \A i \in 1 .. Len(toApp) : toApp[i] = Len(appGot) + i
  /\ Len(appGot) + Len(toApp) <= hopTaken
DownBound ==
  /\ \A i \in 1 .. Len(down) : down[i].lo <= down[i].hi /\ down[i].hi <= hopTaken
  /\ DownHeld => cbuf.lo <= cbuf.hi /\ cbuf.hi <= hopTaken
  /\ DownPending => sbuf.lo <= sbuf.hi /\ sbuf.hi = hopTaken
DownChain ==
  DownLive =>
    /\ DownHeld => cbuf.lo = Len(appGot) + Len(toApp) + 1
    /\ Contiguous(down, DownNext)
    /\ DownPending => sbuf.lo = EndOf(down, DownNext)
    /\ SrvActive /\ ~DownPending => hopTaken + 1 = EndOf(down, DownNext)

UpStream == UpDelivered /\ UpBound /\ UpChain
DownStream == DownDelivered /\ DownBound /\ DownChain

\* Every byte in transit is where the two loops put it: the layout of both streams
\* over buffers, frames and chunks in hand, from which InOrder and NothingDropped follow.
StreamLayout == SocketInv /\ UpStream /\ DownStream
-----------------------------------------------------------------------------
\* While every socket is open nothing is dropped: when neither thread holds a chunk
\* of a direction and no frame of it is in flight, what was read at one end has been
\* written at the other.
NothingDropped ==
  /\ (UpLive /\ CliActive /\ ~UpHeld /\ ~UpPending /\ up = <<>>)
        => Len(hopGot) + Len(toHop) = taken
  /\ (DownLive /\ SrvActive /\ ~DownHeld /\ ~DownPending /\ down = <<>>)
        => Len(appGot) + Len(toApp) = hopTaken

\* When nothing flows back, an orderly end of the application's stream reaches the
\* next hop behind every byte of it: the client forwards what it read before it
\* closes, the server drains the tunnel before it closes nextHopConn.
OrderlyEnd ==
  (app = "fin" /\ hop = "open" /\ hopSent = 0 /\ shop = "closed" /\ spc # "killed")
     => Len(hopGot) + Len(toHop) = sent

\* Both threads block in a send to one another, both buffers full.
MutualBlock ==
  /\ cpc = "send" /\ sconn /\ Len(up) = TunBuf
  /\ spc = "reply" /\ ctun /\ Len(down) = TunBuf

\* Nothing ends a mutual block: no step of either thread or of the peers.
MutualBlockIsFinal == [][MutualBlock => MutualBlock']_vars

Withholding == cpc = "readmore" \/ spc = "hopmore"
Torn == ~ctun \/ ~sconn \/ hop = "closed" \/ app = "closed"

\* If the peers keep reading, all the application has sent gets written towards the
\* next hop, again and again, except when a socket is closed, when a thread that read exactly
\* a full half buffer waits for more (readall, recvall), or in a mutual block.
PeersRead == WF_vars(AppRecv) /\ WF_vars(HopRecv)
Backlog == sent > Len(hopGot) + Len(toHop)
Delivery == PeersRead => []<>(~Backlog \/ Torn \/ Withholding \/ MutualBlock)

\* A thread waits for a peer, and looks at no other socket meanwhile.
CliWaitsForApp == cpc = "readmore" \/ (cpc = "write" /\ Len(toApp) = SockBuf)
SrvWaitsForHop == spc = "hopmore" \/ (spc = "write" /\ Len(toHop) = SockBuf)
CliWaitsForTunnel == cpc = "send" /\ Len(up) = TunBuf /\ sconn

\* An end passes on through both threads: the application ending its stream ends the client
\* thread, the tunnel closed at the client ends the server thread, and closed at the server
\* ends the client thread, unless that thread waits for its peer or for room in the tunnel.
EndPropagates ==
  /\ []<>(app = "open" \/ cpc = "done" \/ CliWaitsForApp \/ CliWaitsForTunnel)
  /\ []<>(ctun \/ spc \in {"done", "killed"} \/ SrvWaitsForHop)
  /\ []<>(sconn \/ cpc = "done" \/ CliWaitsForApp)
=============================================================================
