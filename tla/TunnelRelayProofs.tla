-------------------------- MODULE TunnelRelayProofs --------------------------
(***************************************************************************)
(* Proofs about TunnelRelay for every size of the buffers and of the       *)
(* streams: types, the layout of both streams, and what follows from it.   *)
(***************************************************************************)
EXTENDS TunnelRelay, TLAPS

-----------------------------------------------------------------------------
(* Operators the model is built from. *)

\* A read returns at most what has arrived, and nothing only when nothing has.
LEMMA ReadSizeFacts ==
  ASSUME NEW n \in Nat
  PROVE  /\ ReadSize(n) \in Nat
         /\ ReadSize(n) <= n
         /\ ReadSize(n) = 0 <=> n = 0
BY RelayAssumption DEF ReadSize

\* Reading from a stream of which t of s bytes have been taken.
LEMMA ReadArrived ==
  ASSUME NEW s \in Nat, NEW t \in Nat, t <= s
  PROVE  /\ ReadSize(s - t) \in Nat
         /\ ReadSize(s - t) <= s - t
<1>1. s - t \in Nat
  OBVIOUS
<1>2. QED
  BY <1>1, ReadSizeFacts

\* Taking the first element of a sequence, and adding one at its end.
LEMMA TailFacts ==
  ASSUME NEW S, NEW s \in Seq(S), s # <<>>
  PROVE  /\ Head(s) \in S /\ Head(s) = s[1]
         /\ Tail(s) \in Seq(S)
         /\ Len(s) \in Nat \ {0}
         /\ Len(Tail(s)) = Len(s) - 1
         /\ \A i \in 1 .. Len(Tail(s)) : Tail(s)[i] = s[i + 1]
OBVIOUS

LEMMA EmptyLen ==
  ASSUME NEW S, NEW s \in Seq(S)
  PROVE  s = <<>> <=> Len(s) = 0
OBVIOUS

LEMMA AppendFacts ==
  ASSUME NEW S, NEW s \in Seq(S), NEW e \in S
  PROVE  /\ Append(s, e) \in Seq(S)
         /\ Len(s) \in Nat
         /\ Len(Append(s, e)) = Len(s) + 1
         /\ \A i \in 1 .. Len(s) : Append(s, e)[i] = s[i]
         /\ Append(s, e)[Len(s) + 1] = e
OBVIOUS

\* What survives the close of a socket is a prefix of what was in its buffer.
LEMMA AfterCloseFacts ==
  ASSUME NEW S, NEW frames \in Seq(S), NEW unread \in BOOLEAN,
         NEW rest \in AfterClose(frames, unread)
  PROVE  /\ rest \in Seq(S)
         /\ Len(rest) \in Nat
         /\ Len(rest) <= Len(frames)
         /\ \A i \in 1 .. Len(rest) : rest[i] = frames[i]
<1>1. CASE unread
  <2>1. PICK n \in 0 .. Len(frames) : rest = SubSeq(frames, 1, n)
    BY <1>1 DEF AfterClose
  <2>2. QED
    BY <2>1
<1>2. CASE ~unread
  BY <1>2 DEF AfterClose
<1>3. QED
  BY <1>1, <1>2

\* Removing the first frame leaves the others contiguous.
LEMMA ContiguousTail ==
  ASSUME NEW frames \in Seq(Chunk), frames # <<>>, NEW from \in Nat,
         Contiguous(frames, from)
  PROVE  /\ Head(frames) \in Chunk
         /\ Head(frames).lo = from
         /\ Head(frames).lo <= Head(frames).hi
         /\ Contiguous(Tail(frames), Head(frames).hi + 1)
         /\ EndOf(Tail(frames), Head(frames).hi + 1) = EndOf(frames, from)
<1> DEFINE rest == Tail(frames)
<1>1. /\ Len(rest) = Len(frames) - 1
      /\ \A i \in 1 .. Len(rest) : rest[i] = frames[i + 1]
      /\ Head(frames) = frames[1]
      /\ Len(frames) \in Nat \ {0}
      /\ rest \in Seq(Chunk)
  OBVIOUS
<1>6. rest = <<>> <=> Len(rest) = 0
  BY <1>1, EmptyLen
<1>2. /\ frames[1] \in Chunk
      /\ frames[1].lo = from
      /\ frames[1].lo <= frames[1].hi
  BY <1>1 DEF Contiguous
<1>3. Contiguous(rest, frames[1].hi + 1)
  BY <1>1 DEF Contiguous
<1>4. EndOf(rest, frames[1].hi + 1) = EndOf(frames, from)
  BY <1>1, <1>6 DEF EndOf
<1>5. QED
  BY <1>1, <1>2, <1>3, <1>4

\* Adding the chunk that starts where the frames end keeps them contiguous.
LEMMA ContiguousAppend ==
  ASSUME NEW frames \in Seq(Chunk), NEW from \in Nat, NEW c \in Chunk,
         Contiguous(frames, from), c.lo = EndOf(frames, from), c.lo <= c.hi
  PROVE  /\ Contiguous(Append(frames, c), from)
         /\ EndOf(Append(frames, c), from) = c.hi + 1
<1> DEFINE more == Append(frames, c)
<1>1. /\ Len(more) = Len(frames) + 1
      /\ more # <<>>
      /\ \A i \in 1 .. Len(frames) : more[i] = frames[i]
      /\ more[Len(frames) + 1] = c
      /\ Len(frames) \in Nat
      /\ frames = <<>> <=> Len(frames) = 0
  OBVIOUS
<1>2. Contiguous(more, from)
  BY <1>1 DEF Contiguous, EndOf
<1>3. EndOf(more, from) = c.hi + 1
  BY <1>1 DEF EndOf
<1>4. QED
  BY <1>2, <1>3

\* A prefix of contiguous frames is contiguous.
LEMMA ContiguousPrefix ==
  ASSUME NEW frames \in Seq(Chunk), NEW from \in Nat, NEW rest \in Seq(Chunk),
         Len(rest) <= Len(frames), \A i \in 1 .. Len(rest) : rest[i] = frames[i],
         Contiguous(frames, from)
  PROVE  Contiguous(rest, from)
<1> SUFFICES ASSUME NEW i \in 1 .. Len(rest)
             PROVE  /\ rest[i].lo <= rest[i].hi
                    /\ rest[i].lo = IF i = 1 THEN from ELSE rest[i - 1].hi + 1
  BY DEF Contiguous
<1>1. /\ i \in 1 .. Len(frames) /\ rest[i] = frames[i]
      /\ i # 1 => i - 1 \in 1 .. Len(rest)
  OBVIOUS
<1>2. i # 1 => rest[i - 1] = frames[i - 1]
  BY <1>1
<1>3. QED
  BY <1>1, <1>2 DEF Contiguous
-----------------------------------------------------------------------------
(* Types. *)

LEMMA InitType == Init => TypeOK
BY RelayAssumption DEF Init, TypeOK, AppType, CliType, TunType, SrvType, HopType,
   NoChunk, Chunk, CliPc, SrvPc

LEMMA AppStepType == TypeOK /\ App => TypeOK'
<1> SUFFICES ASSUME TypeOK, App PROVE TypeOK'
  OBVIOUS
<1> USE DEF TypeOK, AppType, CliType, TunType, SrvType, HopType
<1>1. CASE AppSend
  BY <1>1 DEF AppSend, cliVars, tunVars, srvVars, hopVars
<1>2. CASE AppRecv
  <2>1. toApp' \in Seq(Nat) /\ Len(toApp') <= SockBuf
    BY <1>2, TailFacts, RelayAssumption DEF AppRecv
  <2>2. appGot' \in Seq(Nat)
    BY <1>2, TailFacts, AppendFacts DEF AppRecv
  <2>3. QED
    BY <1>2, <2>1, <2>2 DEF AppRecv, tunVars, srvVars, hopVars
<1>3. CASE AppFin
  BY <1>3 DEF AppFin, cliVars, tunVars, srvVars, hopVars
<1>4. CASE AppClose
  BY <1>4, RelayAssumption DEF AppClose, tunVars, srvVars, hopVars
<1>5. QED
  BY <1>1, <1>2, <1>3, <1>4, ZenonT(60) DEF App

LEMMA HopStepType == TypeOK /\ Hop => TypeOK'
<1> SUFFICES ASSUME TypeOK, Hop PROVE TypeOK'
  OBVIOUS
<1> USE DEF TypeOK, AppType, CliType, TunType, SrvType, HopType
<1>1. CASE HopSend
  BY <1>1 DEF HopSend, appVars, cliVars, tunVars, srvVars
<1>2. CASE HopRecv
  <2>1. toHop' \in Seq(Nat) /\ Len(toHop') <= SockBuf
    BY <1>2, TailFacts, RelayAssumption DEF HopRecv
  <2>2. hopGot' \in Seq(Nat)
    BY <1>2, TailFacts, AppendFacts DEF HopRecv
  <2>3. QED
    BY <1>2, <2>1, <2>2 DEF HopRecv, appVars, cliVars, tunVars
<1>3. CASE HopFin
  BY <1>3 DEF HopFin, appVars, cliVars, tunVars, srvVars
<1>4. CASE HopClose
  BY <1>4, RelayAssumption DEF HopClose, appVars, cliVars, tunVars
<1>5. QED
  BY <1>1, <1>2, <1>3, <1>4, ZenonT(60) DEF Hop

\* A step of the client thread changes neither peer nor the server thread.
LEMMA CliStepFrame == Cli => UNCHANGED <<appVars, srvVars, hopVars>>
BY DEF Cli, CliSelect, CliRead, CliReadMore, CliSend, CliRecv, CliWrite, CliCloseTunnel, CliCloseFd

LEMMA CliStepType == TypeOK /\ Cli => TypeOK'
<1> SUFFICES ASSUME TypeOK, Cli PROVE CliType' /\ TunType'
  BY CliStepFrame, ZenonT(60) DEF TypeOK, AppType, SrvType, HopType, appVars, srvVars, hopVars
<1> USE DEF TypeOK, CliType, TunType
<1>0. sent' = sent /\ sent \in Nat
  BY CliStepFrame DEF appVars, AppType
<1>1. CASE CliSelect
  BY <1>0, <1>1 DEF CliSelect, tunVars, CliPc
<1>2. CASE CliRead
  <2> DEFINE n == ReadSize(sent - taken)
  <2>1. n \in Nat /\ n <= sent - taken
    <3>1. sent \in Nat /\ taken \in Nat /\ taken <= sent
      BY <1>0
    <3>2. QED
      BY <3>1, ReadArrived, ZenonT(60)
  <2>2. taken' = taken + n
    BY <1>2 DEF CliRead
  <2>3. cpc' \in CliPc /\ crset' = crset /\ cbuf' \in Chunk
    BY <1>2, <2>1 DEF CliRead, CliLeave, CliPc, Chunk
  <2>4. QED
    BY <1>0, <1>2, <2>1, <2>2, <2>3 DEF CliRead, tunVars
<1>3. CASE CliReadMore
  <2> DEFINE n == ReadSize(sent - taken)
  <2>1. n \in Nat /\ n <= sent - taken
    <3>1. sent \in Nat /\ taken \in Nat /\ taken <= sent
      BY <1>0
    <3>2. QED
      BY <3>1, ReadArrived, ZenonT(60)
  <2>2. taken' = taken + n /\ (cbuf' = [cbuf EXCEPT !.hi = taken'] \/ cbuf' = cbuf)
    BY <1>3 DEF CliReadMore, CliLeave
  <2> HIDE DEF n
  <2>3. taken' \in Nat
    BY <2>1, <2>2
  <2>4. cbuf' \in Chunk
    BY <2>2, <2>3 DEF Chunk
  <2>5. QED
    BY <1>0, <1>3, <2>1, <2>2, <2>3, <2>4 DEF CliReadMore, CliLeave, tunVars, CliPc
<1>4. CASE CliSend
  <2>1. cpc' \in CliPc /\ crset' = crset /\ cbuf' = cbuf
    BY <1>4 DEF CliSend, CliLeave, CliPc
  <2>2. up' \in Seq(Chunk) /\ Len(up') <= TunBuf
    BY <1>4, RelayAssumption DEF CliSend
  <2>3. QED
    BY <1>0, <1>4, <2>1, <2>2 DEF CliSend
<1>5. CASE CliRecv
  <2>1. cpc' \in CliPc /\ crset' = crset /\ cbuf' \in Chunk
    BY <1>5 DEF CliRecv, CliLeave, CliPc
  <2>2. down' \in Seq(Chunk) /\ Len(down') <= TunBuf
    <3>1. CASE down # <<>>
      <4>1. down' = Tail(down)
        BY <1>5, <3>1 DEF CliRecv
      <4>2. QED
        BY <3>1, <4>1, TailFacts, RelayAssumption
    <3>2. CASE down = <<>>
      BY <1>5, <3>2 DEF CliRecv
    <3>3. QED
      BY <3>1, <3>2
  <2>3. QED
    BY <1>0, <1>5, <2>1, <2>2 DEF CliRecv
<1>6. CASE CliWrite
  <2>1. cpc' \in CliPc /\ crset' = crset /\ cbuf' \in Chunk
    BY <1>6 DEF CliWrite, CliLeave, CliPc, Chunk
  <2>2. toApp' \in Seq(Nat) /\ Len(toApp') <= SockBuf
    <3>1. CASE app # "closed"
      <4>1. toApp' = Append(toApp, cbuf.lo) /\ Len(toApp) < SockBuf
        BY <1>6, <3>1 DEF CliWrite
      <4>2. cbuf.lo \in Nat
        BY DEF Chunk
      <4>3. QED
        BY <4>1, <4>2, AppendFacts, RelayAssumption
    <3>2. CASE app = "closed"
      BY <1>6, <3>2 DEF CliWrite
    <3>3. QED
      BY <3>1, <3>2
  <2>3. QED
    BY <1>0, <1>6, <2>1, <2>2 DEF CliWrite, tunVars
<1>7. CASE CliCloseTunnel
  <2>1. up' \in Seq(Chunk) /\ Len(up') <= Len(up) /\ Len(up') \in Nat
    BY <1>7, AfterCloseFacts, ZenonT(60) DEF CliCloseTunnel
  <2>2. down' = <<>>
    BY <1>7 DEF CliCloseTunnel
  <2>3. QED
    <3>1. TunType'
      BY <2>1, <2>2, Len(up) \in Nat, RelayAssumption
    <3>2. CliType'
      BY <1>0, <1>7, ZenonT(60) DEF CliCloseTunnel, CliPc
    <3>3. QED
      BY <3>1, <3>2
<1>8. CASE CliCloseFd
  <2>1. toApp' \in Seq(Nat) /\ Len(toApp') <= Len(toApp) /\ Len(toApp') \in Nat
    <3>1. PICK bytes \in AfterClose(toApp, sent > taken) : toApp' = bytes
      BY <1>8 DEF CliCloseFd
    <3>2. (sent > taken) \in BOOLEAN
      OBVIOUS
    <3>3. QED
      BY <3>1, <3>2, AfterCloseFacts, ZenonT(60)
  <2>2. QED
    <3>1. Len(toApp') <= SockBuf
      BY <2>1, Len(toApp) \in Nat, RelayAssumption
    <3>2. TunType'
      BY <1>8 DEF CliCloseFd, tunVars
    <3>3. CliType'
      BY <1>0, <1>8, <2>1, <3>1, ZenonT(60) DEF CliCloseFd, CliPc
    <3>4. QED
      BY <3>2, <3>3
<1>9. QED
  BY <1>1, <1>2, <1>3, <1>4, <1>5, <1>6, <1>7, <1>8 DEF Cli

\* A step of the server thread changes neither peer nor the client thread.
LEMMA SrvStepFrame == Srv => UNCHANGED <<appVars, cliVars, hopVars>>
BY DEF Srv, SrvSelect, SrvRecv, SrvConnect, SrvWrite, SrvHopRead, SrvHopMore, SrvReply,
   SrvCloseHop, SrvCloseConn

\* What close(nextHopConn) and close(connfd) leave in the buffers.
LEMMA DropHopFacts ==
  ASSUME TypeOK, DropHop
  PROVE  /\ shop' \in {"none", "open", "closed"}
         /\ toHop' \in Seq(Nat) /\ Len(toHop') \in Nat /\ Len(toHop') <= Len(toHop)
         /\ Len(toHop') <= SockBuf
         /\ \A i \in 1 .. Len(toHop') : toHop'[i] = toHop[i]
<1> DEFINE reset == shop = "open" /\ hopSent > hopTaken
<1>1. PICK bytes \in AfterClose(toHop, reset) : toHop' = bytes
  BY DEF DropHop
<1>2. reset \in BOOLEAN /\ toHop \in Seq(Nat) /\ Len(toHop) \in Nat /\ Len(toHop) <= SockBuf
  BY DEF TypeOK, SrvType
<1>3. /\ toHop' \in Seq(Nat) /\ Len(toHop') \in Nat /\ Len(toHop') <= Len(toHop)
      /\ \A i \in 1 .. Len(toHop') : toHop'[i] = toHop[i]
  <2> HIDE DEF reset
  <2>1. QED
    BY <1>1, <1>2, AfterCloseFacts
<1>4. shop' \in {"none", "open", "closed"}
  BY DEF DropHop, TypeOK, SrvType
<1>5. QED
  BY <1>2, <1>3, <1>4, RelayAssumption

LEMMA DropConnFacts ==
  ASSUME TypeOK, DropConn
  PROVE  /\ sconn' = FALSE /\ up' = <<>>
         /\ down' \in Seq(Chunk) /\ Len(down') \in Nat /\ Len(down') <= Len(down)
         /\ \A i \in 1 .. Len(down') : down'[i] = down[i]
         /\ TunType'
<1>1. PICK frames \in AfterClose(down, up # <<>>) : down' = frames
  BY DEF DropConn
<1>2. down \in Seq(Chunk) /\ Len(down) \in Nat /\ Len(down) <= TunBuf
  BY DEF TypeOK, TunType
<1>3. /\ down' \in Seq(Chunk) /\ Len(down') \in Nat /\ Len(down') <= Len(down)
      /\ \A i \in 1 .. Len(down') : down'[i] = down[i]
  BY <1>1, <1>2, AfterCloseFacts, ZenonT(60)
<1>4. sconn' = FALSE /\ up' = <<>>
  BY DEF DropConn
<1>5. TunType'
  BY <1>2, <1>3, <1>4, RelayAssumption DEF TunType
<1>6. QED
  BY <1>3, <1>4, <1>5

LEMMA SrvStepType == TypeOK /\ Srv => TypeOK'
<1> SUFFICES ASSUME TypeOK, Srv PROVE SrvType' /\ TunType'
  BY SrvStepFrame, ZenonT(60) DEF TypeOK, AppType, CliType, HopType, appVars, cliVars, hopVars
<1> USE DEF TypeOK, SrvType, TunType
<1>0. hopSent' = hopSent /\ hopSent \in Nat
  BY SrvStepFrame DEF hopVars, HopType
<1>1. CASE SrvSelect
  BY <1>0, <1>1 DEF SrvSelect, tunVars, SrvPc
<1>2. CASE SrvRecv
  <2>1. CASE up # <<>>
    <3>1. sbuf' = Head(up) /\ up' = Tail(up)
      BY <1>2, <2>1 DEF SrvRecv
    <3>2. sbuf' \in Chunk /\ up' \in Seq(Chunk) /\ Len(up') <= TunBuf
      BY <2>1, <3>1, TailFacts, RelayAssumption
    <3>3. spc' \in SrvPc /\ UNCHANGED <<srset, sconn, shop>>
      BY <1>2, <2>1 DEF SrvRecv, SrvPc
    <3>4. QED
      BY <1>0, <1>2, <3>2, <3>3 DEF SrvRecv
  <2>2. CASE up = <<>>
    BY <1>0, <1>2, <2>2, ZenonT(60) DEF SrvRecv, SrvLeave, SrvPc
  <2>3. QED
    BY <2>1, <2>2
<1>3. CASE SrvConnect
  BY <1>0, <1>3, ZenonT(60) DEF SrvConnect, SrvLeave, SrvPc, tunVars
<1>4. CASE SrvWrite
  <2>1. CASE hop # "closed"
    <3>1. /\ toHop' = Append(toHop, sbuf.lo) /\ Len(toHop) < SockBuf
          /\ sbuf' = [sbuf EXCEPT !.lo = sbuf.lo + 1]
          /\ UNCHANGED <<srset, sconn, shop, up, down>>
      BY <1>4, <2>1 DEF SrvWrite, tunVars
    <3>2. sbuf.lo \in Nat /\ sbuf' \in Chunk
      <4>1. sbuf.lo \in Nat /\ sbuf.lo + 1 \in Nat
        BY DEF Chunk
      <4>2. QED
        BY <3>1, <4>1, ZenonT(60) DEF Chunk
    <3>3. toHop' \in Seq(Nat) /\ Len(toHop') <= SockBuf
      BY <3>1, <3>2, AppendFacts, RelayAssumption
    <3>4. spc' \in SrvPc
      BY <1>4, <2>1 DEF SrvWrite, SrvPc
    <3>5. QED
      BY <1>0, <1>4, <3>1, <3>2, <3>3, <3>4 DEF SrvWrite
  <2>2. CASE hop = "closed" /\ SrvKilled
    <3>1. TunType' /\ sconn' = FALSE
      BY <2>2, DropConnFacts, ZenonT(60) DEF SrvKilled
    <3>2. shop' \in {"none", "open", "closed"} /\ toHop' \in Seq(Nat) /\ Len(toHop') <= SockBuf
      BY <2>2, DropHopFacts DEF SrvKilled
    <3>3. QED
      BY <1>0, <1>4, <2>2, <3>1, <3>2, ZenonT(60) DEF SrvWrite, SrvKilled, SrvPc
  <2>3. CASE hop = "closed" /\ ~SrvKilled
    <3>1. UNCHANGED <<srset, sbuf, sconn, shop, toHop, up, down>>
      BY <1>4, <2>3 DEF SrvWrite, SrvLeave, tunVars
    <3>2. spc' \in SrvPc
      BY <1>4, <2>3 DEF SrvWrite, SrvLeave, SrvPc
    <3>3. QED
      BY <1>0, <1>4, <3>1, <3>2 DEF SrvWrite
  <2>4. QED
    BY <2>1, <2>2, <2>3
<1>5. CASE SrvHopRead
  <2> DEFINE n == ReadSize(hopSent - hopTaken)
  <2>1. n \in Nat /\ n <= hopSent - hopTaken
    <3>1. hopSent \in Nat /\ hopTaken \in Nat /\ hopTaken <= hopSent
      BY <1>0
    <3>2. QED
      BY <3>1, ReadArrived, ZenonT(60)
  <2>2. hopTaken' = hopTaken + n
    BY <1>5 DEF SrvHopRead
  <2>3. spc' \in SrvPc /\ UNCHANGED <<srset, sconn, shop>> /\ sbuf' \in Chunk
    BY <1>5, <2>1 DEF SrvHopRead, SrvLeave, SrvPc, Chunk
  <2>4. QED
    BY <1>0, <1>5, <2>1, <2>2, <2>3 DEF SrvHopRead, tunVars
<1>6. CASE SrvHopMore
  <2> DEFINE n == ReadSize(hopSent - hopTaken)
  <2>1. n \in Nat /\ n <= hopSent - hopTaken
    <3>1. hopSent \in Nat /\ hopTaken \in Nat /\ hopTaken <= hopSent
      BY <1>0
    <3>2. QED
      BY <3>1, ReadArrived, ZenonT(60)
  <2>2. hopTaken' = hopTaken + n /\ (sbuf' = [sbuf EXCEPT !.hi = hopTaken'] \/ sbuf' = sbuf)
    BY <1>6 DEF SrvHopMore, SrvLeave
  <2> HIDE DEF n
  <2>3. hopTaken' \in Nat
    BY <2>1, <2>2
  <2>4. sbuf' \in Chunk
    BY <2>2, <2>3 DEF Chunk
  <2>5. QED
    BY <1>0, <1>6, <2>1, <2>2, <2>3, <2>4 DEF SrvHopMore, SrvLeave, tunVars, SrvPc
<1>7. CASE SrvReply
  <2>1. CASE ctun
    <3>1. down' = Append(down, sbuf) /\ Len(down) < TunBuf
      BY <1>7, <2>1 DEF SrvReply
    <3>2. down' \in Seq(Chunk) /\ Len(down') <= TunBuf
      BY <3>1, AppendFacts, RelayAssumption
    <3>3. QED
      BY <1>0, <1>7, <2>1, <3>2, ZenonT(60) DEF SrvReply, SrvPc
  <2>2. CASE ~ctun /\ SrvKilled
    <3>1. TunType' /\ sconn' = FALSE
      BY <2>2, DropConnFacts, ZenonT(60) DEF SrvKilled
    <3>2. shop' \in {"none", "open", "closed"} /\ toHop' \in Seq(Nat) /\ Len(toHop') <= SockBuf
      BY <2>2, DropHopFacts DEF SrvKilled
    <3>3. QED
      BY <1>0, <1>7, <2>2, <3>1, <3>2, ZenonT(60) DEF SrvReply, SrvKilled, SrvPc
  <2>3. CASE ~ctun /\ ~SrvKilled
    BY <1>0, <1>7, <2>3, ZenonT(60) DEF SrvReply, SrvLeave, tunVars, SrvPc
  <2>4. QED
    BY <2>1, <2>2, <2>3
<1>8. CASE SrvCloseHop
  <2>1. shop' \in {"none", "open", "closed"} /\ toHop' \in Seq(Nat) /\ Len(toHop') <= SockBuf
    BY <1>8, DropHopFacts DEF SrvCloseHop
  <2>2. QED
    BY <1>0, <1>8, <2>1 DEF SrvCloseHop, tunVars, SrvPc
<1>9. CASE SrvCloseConn
  <2>1. TunType' /\ sconn' = FALSE
    BY <1>9, DropConnFacts, ZenonT(60) DEF SrvCloseConn
  <2>2. QED
    BY <1>0, <1>9, <2>1, ZenonT(60) DEF SrvCloseConn, SrvPc
<1>10. QED
  BY <1>1, <1>2, <1>3, <1>4, <1>5, <1>6, <1>7, <1>8, <1>9 DEF Srv

LEMMA StepType == TypeOK /\ [Next]_vars => TypeOK'
<1>1. TypeOK /\ UNCHANGED vars => TypeOK'
  BY DEF vars, TypeOK, AppType, CliType, TunType, SrvType, HopType
<1>2. QED
  BY <1>1, AppStepType, HopStepType, CliStepType, SrvStepType DEF Next

\* Types, and the bounds of every buffer, hold in every reachable state of the relay.
THEOREM TypeCorrect == Spec => []TypeOK
BY InitType, StepType, PTL DEF Spec
-----------------------------------------------------------------------------
(* The layout of the upstream direction, from the application to the next hop. *)

LEMMA InitLayout == Init => StreamLayout
BY SMTT(20) DEF Init, StreamLayout, SocketInv, UpStream, UpDelivered, UpBound, UpChain, UpHeld, UpLive,
   UpNext, UpPending, DownStream, DownDelivered, DownBound, DownChain, DownHeld, DownLive,
   DownNext, DownPending, CliActive, SrvActive, Contiguous, EndOf, NoChunk

\* The layout survives a step that only shrinks it: bytes or frames lost at the end of
\* a buffer whose reader or writer has stopped, chunks given up by a thread that stops.
LEMMA UpShrinks ==
  ASSUME TypeOK, TypeOK', UpStream,
         hopGot' = hopGot, taken' = taken,
         Len(toHop') <= Len(toHop), \A i \in 1 .. Len(toHop') : toHop'[i] = toHop[i],
         Len(up') <= Len(up), \A i \in 1 .. Len(up') : up'[i] = up[i],
         UpHeld' => UpHeld /\ sbuf' = sbuf,
         UpPending' => UpPending /\ cbuf' = cbuf,
         UpLive' => UpLive /\ toHop' = toHop /\ (UpHeld' <=> UpHeld),
         UpLive' /\ CliActive' => up' = up /\ CliActive /\ (UpPending' <=> UpPending)
  PROVE  UpStream'
<1>1. /\ toHop \in Seq(Nat) /\ toHop' \in Seq(Nat) /\ hopGot \in Seq(Nat)
      /\ up \in Seq(Chunk) /\ up' \in Seq(Chunk)
      /\ sbuf \in Chunk /\ taken \in Nat
  BY DEF TypeOK, CliType, TunType, SrvType, HopType
<1>2. /\ Len(toHop) \in Nat /\ Len(toHop') \in Nat /\ Len(hopGot) \in Nat
      /\ Len(up) \in Nat /\ Len(up') \in Nat
  BY <1>1
<1>3. UpDelivered' /\ UpBound'
  <2>1. \A i \in 1 .. Len(toHop') : i \in 1 .. Len(toHop)
    BY <1>2
  <2>2. \A i \in 1 .. Len(up') : i \in 1 .. Len(up)
    BY <1>2
  <2>3. UpDelivered'
    <3>1. \A i \in 1 .. Len(toHop') : toHop'[i] = Len(hopGot') + i
      BY <2>1 DEF UpStream, UpDelivered
    <3>2. Len(hopGot') + Len(toHop') <= taken'
      BY <1>1, <1>2 DEF UpStream, UpDelivered
    <3>3. \A i \in 1 .. Len(hopGot') : hopGot'[i] = i
      BY DEF UpStream, UpDelivered
    <3>4. QED
      BY <3>1, <3>2, <3>3 DEF UpDelivered
  <2>4. UpBound'
    <3>1. \A i \in 1 .. Len(up') : up'[i].lo <= up'[i].hi /\ up'[i].hi <= taken'
      BY <2>2 DEF UpStream, UpBound
    <3>2. QED
      BY <3>1 DEF UpStream, UpBound
  <2>5. QED
    BY <2>3, <2>4
<1>4. UpChain'
  <2> SUFFICES ASSUME UpLive'
               PROVE  /\ UpHeld' => sbuf'.lo = Len(hopGot') + Len(toHop') + 1
                      /\ Contiguous(up', UpNext')
                      /\ UpPending' => cbuf'.lo = EndOf(up', UpNext')
                      /\ CliActive' /\ ~UpPending' => taken' + 1 = EndOf(up', UpNext')
    BY DEF UpChain
  <2>1. UpLive /\ UpNext' = UpNext /\ UpNext \in Nat
    BY <1>1, <1>2 DEF UpNext, Chunk
  <2>2. Contiguous(up, UpNext)
    BY <2>1 DEF UpStream, UpChain
  <2>3. Contiguous(up', UpNext')
    BY <1>1, <2>1, <2>2, ContiguousPrefix
  <2>4. UpHeld' => sbuf'.lo = Len(hopGot') + Len(toHop') + 1
    BY <2>1 DEF UpStream, UpChain
  <2>5. UpPending' => CliActive'
    BY DEF UpPending, CliActive
  <2>6. UpPending' => cbuf'.lo = EndOf(up', UpNext')
    BY <2>1, <2>5 DEF UpStream, UpChain
  <2>7. CliActive' /\ ~UpPending' => taken' + 1 = EndOf(up', UpNext')
    BY <2>1 DEF UpStream, UpChain
  <2>8. QED
    BY <2>3, <2>4, <2>6, <2>7
<1>5. QED
  BY <1>3, <1>4 DEF UpStream

\* The next hop reads a byte: it moves from the socket buffer to what it has read.
LEMMA UpHopRecv == TypeOK /\ UpStream /\ HopRecv => UpStream'
<1> SUFFICES ASSUME TypeOK, UpStream, HopRecv PROVE UpStream'
  OBVIOUS
<1>1. toHop \in Seq(Nat) /\ hopGot \in Seq(Nat) /\ toHop # <<>>
  BY DEF TypeOK, SrvType, HopType, HopRecv
<1>2. /\ hopGot' = Append(hopGot, Head(toHop)) /\ toHop' = Tail(toHop)
      /\ UNCHANGED <<taken, up, sbuf, cbuf, spc, cpc, hop>>
  BY DEF HopRecv, cliVars, tunVars
<1>3. /\ Len(toHop) \in Nat \ {0} /\ Head(toHop) = toHop[1] /\ Head(toHop) \in Nat
      /\ Len(toHop') = Len(toHop) - 1
      /\ \A i \in 1 .. Len(toHop') : toHop'[i] = toHop[i + 1]
  BY <1>1, <1>2, TailFacts
<1>4. /\ Len(hopGot) \in Nat /\ Len(hopGot') = Len(hopGot) + 1
      /\ \A i \in 1 .. Len(hopGot) : hopGot'[i] = hopGot[i]
      /\ hopGot'[Len(hopGot) + 1] = toHop[1]
  BY <1>1, <1>2, <1>3, AppendFacts
<1>5. Len(hopGot') + Len(toHop') = Len(hopGot) + Len(toHop)
  BY <1>3, <1>4
<1>6. UpDelivered'
  <2>1. \A i \in 1 .. Len(hopGot') : hopGot'[i] = i
    <3>1. toHop[1] = Len(hopGot) + 1
      BY <1>3 DEF UpStream, UpDelivered
    <3>2. \A i \in 1 .. Len(hopGot') : i \in 1 .. Len(hopGot) \/ i = Len(hopGot) + 1
      BY <1>4
    <3>3. QED
      BY <1>4, <3>1, <3>2 DEF UpStream, UpDelivered
  <2>2. \A i \in 1 .. Len(toHop') : toHop'[i] = Len(hopGot') + i
    BY <1>3, <1>4 DEF UpStream, UpDelivered
  <2>3. QED
    BY <1>2, <1>5, <2>1, <2>2, ZenonT(60) DEF UpStream, UpDelivered
<1>7. UpBound'
  BY <1>2 DEF UpStream, UpBound, UpHeld, UpPending
<1>8. UpChain'
  <2>1. UpNext' = UpNext
    BY <1>2, <1>5, ZenonT(60) DEF UpNext, UpHeld
  <2>2. QED
    BY <1>2, <1>5, <2>1, ZenonT(60) DEF UpStream, UpChain, UpLive, UpHeld, UpPending, CliActive, SrvActive
<1>9. QED
  BY <1>6, <1>7, <1>8 DEF UpStream

\* readall takes n more bytes from the application into the client's chunk.
LEMMA UpTakes ==
  ASSUME TypeOK, UpStream, NEW n \in Nat, taken' = taken + n,
         UNCHANGED <<hopGot, toHop, up, sbuf, spc, hop>>,
         CliActive, UpPending', cbuf'.hi = taken + n,
         UpPending => cbuf'.lo = cbuf.lo,
         ~UpPending => cbuf'.lo = taken + 1 /\ n > 0
  PROVE  UpStream'
<1>1. /\ toHop \in Seq(Nat) /\ hopGot \in Seq(Nat) /\ up \in Seq(Chunk)
      /\ sbuf \in Chunk /\ cbuf \in Chunk /\ taken \in Nat
  BY DEF TypeOK, CliType, TunType, SrvType, HopType
<1>2. Len(toHop) \in Nat /\ Len(hopGot) \in Nat /\ Len(up) \in Nat
  BY <1>1
<1>3. UpDelivered'
  BY <1>1, <1>2 DEF UpStream, UpDelivered
<1>4. UpBound'
  <2>1. \A i \in 1 .. Len(up) : up[i].hi \in Nat
    <3>1. \A i \in 1 .. Len(up) : up[i] \in Chunk
      BY <1>1
    <3>2. QED
      BY <3>1 DEF Chunk
  <2>2. \A i \in 1 .. Len(up') : up'[i].lo <= up'[i].hi /\ up'[i].hi <= taken'
    BY <1>1, <2>1 DEF UpStream, UpBound
  <2>3. UpHeld' => sbuf'.lo <= sbuf'.hi /\ sbuf'.hi <= taken'
    BY <1>1 DEF UpStream, UpBound, UpHeld, Chunk
  <2>4. cbuf'.lo <= cbuf'.hi /\ cbuf'.hi = taken'
    BY <1>1 DEF UpStream, UpBound, Chunk
  <2>5. QED
    BY <2>2, <2>3, <2>4 DEF UpBound
<1>5. UpChain'
  <2>1. UpNext' = UpNext /\ (UpLive' <=> UpLive) /\ (UpHeld' <=> UpHeld)
    BY DEF UpNext, UpHeld, UpLive, SrvActive
  <2>2. UpLive => cbuf'.lo = EndOf(up, UpNext)
    BY DEF UpStream, UpChain
  <2>3. QED
    BY <2>1, <2>2 DEF UpStream, UpChain
<1>6. QED
  BY <1>3, <1>4, <1>5 DEF UpStream

\* The client's chunk becomes the last frame of the tunnel.
LEMMA UpSends ==
  ASSUME TypeOK, UpStream, UpPending, up' = Append(up, cbuf),
         UNCHANGED <<hopGot, toHop, sbuf, spc, hop, taken>>, ~UpPending'
  PROVE  UpStream'
<1>1. /\ toHop \in Seq(Nat) /\ hopGot \in Seq(Nat) /\ up \in Seq(Chunk)
      /\ sbuf \in Chunk /\ cbuf \in Chunk /\ taken \in Nat
  BY DEF TypeOK, CliType, TunType, SrvType, HopType
<1>2. /\ Len(up) \in Nat /\ Len(up') = Len(up) + 1
      /\ \A i \in 1 .. Len(up) : up'[i] = up[i]
      /\ up'[Len(up) + 1] = cbuf
  BY <1>1, AppendFacts
<1>3. UpDelivered'
  BY DEF UpStream, UpDelivered
<1>4. UpBound'
  <2>1. cbuf.lo <= cbuf.hi /\ cbuf.hi = taken
    BY DEF UpStream, UpBound
  <2>2. \A i \in 1 .. Len(up') : up'[i].lo <= up'[i].hi /\ up'[i].hi <= taken'
    BY <1>1, <1>2, <2>1 DEF UpStream, UpBound
  <2>3. QED
    BY <2>2 DEF UpStream, UpBound, UpHeld
<1>5. UpChain'
  <2>1. UpNext' = UpNext /\ (UpLive' <=> UpLive) /\ (UpHeld' <=> UpHeld) /\ UpNext \in Nat
    BY <1>1 DEF UpNext, UpHeld, UpLive, SrvActive, Chunk
  <2>2. ASSUME UpLive
        PROVE  Contiguous(up', UpNext) /\ EndOf(up', UpNext) = cbuf.hi + 1
    BY <1>1, <2>1, <2>2, ContiguousAppend DEF UpStream, UpChain, UpBound
  <2>3. QED
    BY <2>1, <2>2 DEF UpStream, UpChain, UpBound
<1>6. QED
  BY <1>3, <1>4, <1>5 DEF UpStream

\* The server takes the first frame of the tunnel.
LEMMA UpReceives ==
  ASSUME TypeOK, UpStream, SrvActive, ~UpHeld, UpHeld', SrvActive', up # <<>>,
         sbuf' = Head(up), up' = Tail(up),
         UNCHANGED <<hopGot, toHop, cbuf, cpc, hop, taken>>
  PROVE  UpStream'
<1>1. /\ toHop \in Seq(Nat) /\ hopGot \in Seq(Nat) /\ up \in Seq(Chunk)
      /\ sbuf \in Chunk /\ cbuf \in Chunk /\ taken \in Nat
  BY DEF TypeOK, CliType, TunType, SrvType, HopType
<1>2. /\ Len(up) \in Nat \ {0} /\ Len(up') = Len(up) - 1
      /\ \A i \in 1 .. Len(up') : up'[i] = up[i + 1]
      /\ sbuf' = up[1]
  BY <1>1, TailFacts
<1>3. UpDelivered'
  BY DEF UpStream, UpDelivered
<1>4. (UpLive' <=> UpLive) /\ (UpPending' <=> UpPending) /\ (CliActive' <=> CliActive)
  BY DEF UpLive, UpPending, CliActive
<1>5. \A i \in 1 .. Len(up') : up'[i].lo <= up'[i].hi /\ up'[i].hi <= taken'
  BY <1>2 DEF UpStream, UpBound
<1>6. sbuf'.hi <= taken'
  BY <1>2 DEF UpStream, UpBound
<1>7. CASE UpLive
  <2>1. UpNext \in Nat /\ UpNext = Len(hopGot) + Len(toHop) + 1 /\ UpNext' = sbuf'.hi + 1
    BY <1>1 DEF UpNext
  <2>2. Contiguous(up, UpNext)
    BY <1>7 DEF UpStream, UpChain
  <2>3. /\ sbuf'.lo = UpNext /\ sbuf'.lo <= sbuf'.hi
        /\ Contiguous(up', UpNext')
        /\ EndOf(up', UpNext') = EndOf(up, UpNext)
    BY <1>1, <2>1, <2>2, ContiguousTail
  <2>4. UpBound'
    BY <1>4, <1>5, <1>6, <2>3 DEF UpStream, UpBound
  <2>5. UpChain'
    BY <1>4, <1>7, <2>1, <2>3 DEF UpStream, UpChain
  <2>6. QED
    BY <1>3, <2>4, <2>5 DEF UpStream
<1>8. CASE ~UpLive
  <2>1. sbuf'.lo <= sbuf'.hi
    BY <1>2 DEF UpStream, UpBound
  <2>2. QED
    BY <1>3, <1>4, <1>5, <1>6, <1>8, <2>1 DEF UpStream, UpBound, UpChain
<1>9. QED
  BY <1>7, <1>8

\* The server writes the first byte of its chunk to the next hop.
LEMMA UpWrites ==
  ASSUME TypeOK, UpStream, UpHeld, UpLive,
         toHop' = Append(toHop, sbuf.lo), sbuf' = [sbuf EXCEPT !.lo = sbuf.lo + 1],
         UpHeld' <=> sbuf.lo # sbuf.hi,
         UNCHANGED <<hopGot, up, cbuf, cpc, hop, taken>>
  PROVE  UpStream'
<1>1. /\ toHop \in Seq(Nat) /\ hopGot \in Seq(Nat) /\ up \in Seq(Chunk)
      /\ cbuf \in Chunk /\ taken \in Nat
      /\ sbuf \in Chunk
  BY DEF TypeOK, CliType, TunType, SrvType, HopType
<1>2. sbuf.lo \in Nat /\ sbuf.hi \in Nat /\ sbuf'.lo = sbuf.lo + 1 /\ sbuf'.hi = sbuf.hi
  BY <1>1 DEF Chunk
<1>3. /\ Len(toHop) \in Nat /\ Len(hopGot) \in Nat
      /\ Len(toHop') = Len(toHop) + 1
      /\ \A i \in 1 .. Len(toHop) : toHop'[i] = toHop[i]
      /\ toHop'[Len(toHop) + 1] = sbuf.lo
  BY <1>1, <1>2, AppendFacts
<1>4. sbuf.lo = Len(hopGot) + Len(toHop) + 1 /\ sbuf.lo <= sbuf.hi /\ sbuf.hi <= taken
  BY DEF UpStream, UpChain, UpBound
<1>5. UpDelivered'
  <2>1. \A i \in 1 .. Len(toHop') : i \in 1 .. Len(toHop) \/ i = Len(toHop) + 1
    BY <1>3
  <2>2. \A i \in 1 .. Len(toHop') : toHop'[i] = Len(hopGot') + i
    <3> TAKE i \in 1 .. Len(toHop')
    <3>1. CASE i \in 1 .. Len(toHop)
      BY <1>3, <3>1 DEF UpStream, UpDelivered
    <3>2. CASE i = Len(toHop) + 1
      BY <1>3, <1>4, <3>2
    <3>3. QED
      BY <2>1, <3>1, <3>2
  <2>3. Len(hopGot') + Len(toHop') <= taken'
    BY <1>1, <1>2, <1>3, <1>4
  <2>4. QED
    BY <2>2, <2>3 DEF UpStream, UpDelivered
<1>6. UpNext' = UpNext
  BY <1>2, <1>3, <1>4 DEF UpNext
<1>7. (UpPending' <=> UpPending) /\ (CliActive' <=> CliActive)
  BY DEF UpPending, CliActive
<1>8. UpBound'
  <2>1. UpHeld' => sbuf'.lo <= sbuf'.hi /\ sbuf'.hi <= taken'
    <3> SUFFICES ASSUME UpHeld' PROVE sbuf.lo + 1 <= sbuf.hi /\ sbuf.hi <= taken
      BY <1>2
    <3>1. sbuf.lo # sbuf.hi
      OBVIOUS
    <3>2. \A a, b \in Nat : a <= b /\ a # b => a + 1 <= b
      OBVIOUS
    <3>3. QED
      BY <1>2, <1>4, <3>1, <3>2
  <2>2. QED
    BY <1>7, <2>1 DEF UpStream, UpBound
<1>9. UpChain'
  <2>1. UpHeld' => sbuf'.lo = Len(hopGot') + Len(toHop') + 1
    BY <1>2, <1>3, <1>4
  <2>2. QED
    BY <1>6, <1>7, <2>1 DEF UpStream, UpChain
<1>10. QED
  BY <1>5, <1>8, <1>9 DEF UpStream

\* Steps of the application touch nothing of this direction past its own socket.
LEMMA UpAppStep == TypeOK /\ UpStream /\ App => UpStream'
<1> SUFFICES ASSUME UpStream, App PROVE UpStream'
  OBVIOUS
<1>1. UNCHANGED <<hopGot, toHop, taken, up, sbuf, cbuf, spc, cpc, hop>>
  BY DEF App, AppSend, AppRecv, AppFin, AppClose, appVars, cliVars, tunVars, srvVars, hopVars
<1>2. UpNext' = UpNext
  BY <1>1 DEF UpNext, UpHeld
<1>3. QED
  BY <1>1, <1>2 DEF UpStream, UpDelivered, UpBound, UpChain, UpLive, UpHeld, UpPending,
     CliActive, SrvActive

LEMMA UpHopStep == TypeOK /\ TypeOK' /\ UpStream /\ Hop => UpStream'
<1> SUFFICES ASSUME TypeOK, TypeOK', UpStream, Hop PROVE UpStream'
  OBVIOUS
<1>1. CASE HopRecv
  BY <1>1, UpHopRecv
<1>2. CASE HopSend \/ HopFin
  <2>1. /\ UNCHANGED <<hopGot, toHop, taken, up, sbuf, cbuf, spc, cpc>>
        /\ hop # "closed"
    BY <1>2 DEF HopSend, HopFin, appVars, cliVars, tunVars, srvVars, hopVars
  <2>2. UpNext' = UpNext /\ (UpLive' => UpLive)
    BY <2>1 DEF UpNext, UpHeld, UpLive, SrvActive
  <2>3. QED
    BY <2>1, <2>2 DEF UpStream, UpDelivered, UpBound, UpChain, UpHeld, UpPending, CliActive
<1>3. CASE HopClose
  <2>1. /\ UNCHANGED <<hopGot, taken, up, sbuf, cbuf, spc, cpc>>
        /\ hop' = "closed" /\ toHop' = <<>>
    BY <1>3 DEF HopClose, appVars, cliVars, tunVars, srvVars, hopVars
  <2>2. ~UpLive' /\ (UpHeld' <=> UpHeld) /\ (UpPending' <=> UpPending)
    BY <2>1 DEF UpLive, UpHeld, UpPending
  <2>3. Len(toHop') <= Len(toHop) /\ \A i \in 1 .. Len(toHop') : toHop'[i] = toHop[i]
    BY <2>1 DEF TypeOK, SrvType
  <2>4. Len(up') <= Len(up)
    BY <2>1 DEF TypeOK, TunType
  <2>5. QED
    BY <2>1, <2>2, <2>3, <2>4, UpShrinks
<1>4. QED
  BY <1>1, <1>2, <1>3 DEF Hop

LEMMA UpCliStep == TypeOK /\ TypeOK' /\ SocketInv /\ UpStream /\ Cli => UpStream'
<1> SUFFICES ASSUME TypeOK, TypeOK', SocketInv, UpStream, Cli PROVE UpStream'
  OBVIOUS
<1> USE DEF appVars, tunVars, srvVars, hopVars
<1>1. UNCHANGED <<hopGot, toHop, sbuf, spc, hop>>
  BY DEF Cli, CliSelect, CliRead, CliReadMore, CliSend, CliRecv, CliWrite,
     CliCloseTunnel, CliCloseFd
<1>2. /\ (UpHeld' <=> UpHeld) /\ (UpLive' <=> UpLive)
      /\ Len(toHop') <= Len(toHop)
      /\ up \in Seq(Chunk) /\ Len(up) \in Nat
      /\ taken \in Nat /\ sent \in Nat /\ taken <= sent
  <2>1. Len(toHop') <= Len(toHop)
    BY <1>1 DEF TypeOK, SrvType
  <2>2. (UpHeld' <=> UpHeld) /\ (UpLive' <=> UpLive)
    BY <1>1 DEF UpHeld, UpLive, SrvActive
  <2>3. QED
    BY <2>1, <2>2 DEF TypeOK, TunType, CliType, AppType
<1>3. CASE CliRead /\ ReadSize(sent - taken) > 0
  <2> DEFINE n == ReadSize(sent - taken)
  <2>1. n \in Nat
    BY <1>2, ReadArrived, ZenonT(60)
  <2>2. /\ taken' = taken + n /\ cbuf' = [lo |-> taken + 1, hi |-> taken + n]
        /\ cpc = "read" /\ cpc' \in {"send", "readmore"} /\ up' = up /\ n > 0
    BY <1>3, <2>1 DEF CliRead
  <2> HIDE DEF n
  <2>3. CliActive /\ ~UpPending /\ UpPending' /\ cbuf'.lo = taken + 1 /\ cbuf'.hi = taken + n
    BY <2>2 DEF CliActive, UpPending
  <2>4. QED
    BY <1>1, <2>1, <2>2, <2>3, UpTakes
<1>4. CASE CliReadMore /\ cpc' = "send"
  <2> DEFINE n == ReadSize(sent - taken)
  <2>1. n \in Nat
    BY <1>2, ReadArrived, ZenonT(60)
  <2>2. /\ taken' = taken + n /\ cbuf' = [cbuf EXCEPT !.hi = taken + n]
        /\ cpc = "readmore" /\ up' = up
    BY <1>4 DEF CliReadMore, CliLeave
  <2> HIDE DEF n
  <2>3. CliActive /\ UpPending /\ UpPending'
    BY <1>4, <2>2 DEF CliActive, UpPending
  <2>4. cbuf'.lo = cbuf.lo /\ cbuf'.hi = taken + n
    BY <2>2 DEF TypeOK, CliType, Chunk
  <2>5. QED
    BY <1>1, <2>1, <2>2, <2>3, <2>4, UpTakes
<1>5. CASE CliSend /\ sconn
  <2>1. /\ up' = Append(up, cbuf) /\ cpc = "send" /\ cpc' \in {"recv", "select"}
        /\ taken' = taken
    BY <1>5 DEF CliSend, CliLeave
  <2>2. UpPending /\ ~UpPending'
    BY <2>1 DEF UpPending
  <2>3. QED
    BY <1>1, <2>1, <2>2, UpSends
<1>6. CASE CliSend /\ ~sconn
  <2>1. /\ up' = up /\ taken' = taken /\ cpc' \in {"recv", "select", "close"}
    BY <1>6 DEF CliSend, CliLeave
  <2>2. ~UpPending' /\ ~UpLive
    BY <1>6, <2>1 DEF UpPending, UpLive, SrvActive, SocketInv
  <2>3. QED
    BY <1>1, <1>2, <2>1, <2>2, UpShrinks
<1>7. CASE CliSelect \/ CliRecv \/ CliWrite \/ CliCloseFd
           \/ (CliRead /\ ~(ReadSize(sent - taken) > 0))
  <2>1. up' = up /\ ~UpPending /\ ~UpPending' /\ (CliActive' => CliActive)
    BY <1>7 DEF CliSelect, CliRecv, CliWrite, CliCloseFd, CliRead, CliLeave, UpPending, CliActive
  <2>2. taken' = taken
    <3>1. CASE CliRead /\ ~(ReadSize(sent - taken) > 0)
      <4>1. ReadSize(sent - taken) = 0
        BY <1>2, <3>1, ReadSizeFacts
      <4>2. QED
        BY <1>2, <3>1, <4>1 DEF CliRead
    <3>2. QED
      BY <1>7, <3>1 DEF CliSelect, CliRecv, CliWrite, CliCloseFd
  <2>3. QED
    BY <1>1, <1>2, <2>1, <2>2, UpShrinks
<1>8. CASE CliCloseTunnel
  <2>1. PICK frames \in AfterClose(up, down # <<>>) : up' = frames
    BY <1>8 DEF CliCloseTunnel
  <2>2. Len(up') <= Len(up) /\ \A i \in 1 .. Len(up') : up'[i] = up[i]
    BY <1>2, <2>1, AfterCloseFacts, ZenonT(60)
  <2>3. taken' = taken /\ ~UpPending' /\ ~CliActive'
    BY <1>8 DEF CliCloseTunnel, UpPending, CliActive
  <2>4. QED
    BY <1>1, <1>2, <2>2, <2>3, UpShrinks
<1>9. CASE CliReadMore /\ cpc' # "send"
  <2>1. up' = up /\ ~UpPending' /\ ~CliActive'
    BY <1>9 DEF CliReadMore, CliLeave, UpPending, CliActive
  <2>2. taken' = taken
    BY <1>2, <1>9 DEF CliReadMore
  <2>3. QED
    BY <1>1, <1>2, <2>1, <2>2, UpShrinks
<1>10. QED
  BY <1>3, <1>4, <1>5, <1>6, <1>7, <1>8, <1>9 DEF Cli

LEMMA UpSrvStep == TypeOK /\ TypeOK' /\ SocketInv /\ UpStream /\ Srv => UpStream'
<1> SUFFICES ASSUME TypeOK, TypeOK', SocketInv, UpStream, Srv PROVE UpStream'
  OBVIOUS
<1> USE DEF appVars, cliVars, hopVars
<1>1. UNCHANGED <<hopGot, taken, cbuf, cpc, hop>>
  BY DEF Srv, SrvSelect, SrvRecv, SrvConnect, SrvWrite, SrvHopRead, SrvHopMore, SrvReply,
     SrvCloseHop, SrvCloseConn
<1>2. /\ (UpPending' <=> UpPending) /\ (CliActive' <=> CliActive)
      /\ toHop \in Seq(Nat) /\ Len(toHop) \in Nat /\ up \in Seq(Chunk) /\ Len(up) \in Nat
  BY <1>1 DEF UpPending, CliActive, TypeOK, SrvType, TunType
<1>3. CASE SrvRecv /\ up # <<>>
  <2>1. /\ sbuf' = Head(up) /\ up' = Tail(up) /\ toHop' = toHop
        /\ spc = "recv" /\ spc' \in {"connect", "write"}
    BY <1>3 DEF SrvRecv
  <2>2. SrvActive /\ SrvActive' /\ ~UpHeld /\ UpHeld'
    BY <2>1 DEF SrvActive, UpHeld
  <2>3. QED
    BY <1>1, <1>3, <2>1, <2>2, UpReceives
<1>4. CASE SrvWrite /\ hop # "closed"
  <2>1. /\ toHop' = Append(toHop, sbuf.lo) /\ sbuf' = [sbuf EXCEPT !.lo = sbuf.lo + 1]
        /\ spc = "write" /\ up' = up
        /\ spc' = IF sbuf.lo = sbuf.hi THEN IF "hop" \in srset THEN "hopread" ELSE "select"
                                      ELSE "write"
    BY <1>4 DEF SrvWrite, tunVars
  <2>2. UpHeld /\ UpLive /\ (UpHeld' <=> sbuf.lo # sbuf.hi)
    BY <1>4, <2>1 DEF SrvActive, UpHeld, UpLive
  <2>3. QED
    BY <1>1, <2>1, <2>2, UpWrites
<1>5. CASE SrvSelect \/ SrvHopRead \/ SrvHopMore
  <2>1. /\ toHop' = toHop /\ up' = up /\ ~UpHeld /\ ~UpHeld' /\ (UpLive' => UpLive)
    BY <1>1, <1>5 DEF SrvSelect, SrvHopRead, SrvHopMore, SrvLeave, UpHeld, UpLive, SrvActive, tunVars
  <2>2. QED
    BY <1>1, <1>2, <2>1, UpShrinks
<1>6. CASE SrvConnect
  <2>1. /\ toHop' = toHop /\ up' = up /\ sbuf' = sbuf /\ UpHeld
        /\ (UpLive' => UpLive /\ UpHeld')
    BY <1>1, <1>6 DEF SrvConnect, SrvLeave, UpHeld, UpLive, SrvActive, tunVars
  <2>2. QED
    BY <1>1, <1>2, <2>1, UpShrinks
<1>7. CASE SrvRecv /\ up = <<>>
  <2>1. toHop' = toHop /\ up' = up /\ ~UpHeld' /\ ~UpLive'
    BY <1>7 DEF SrvRecv, SrvLeave, UpHeld, UpLive, SrvActive
  <2>2. QED
    BY <1>1, <1>2, <2>1, UpShrinks
<1>8. ASSUME SrvKilled PROVE UpStream'
  <2>1. ~UpHeld' /\ ~UpLive'
    BY <1>8 DEF SrvKilled, UpHeld, UpLive, SrvActive
  <2>2. QED
    BY SMTT(20), <1>1, <1>2, <1>8, <2>1, DropHopFacts, DropConnFacts, UpShrinks DEF SrvKilled
<1>9. CASE SrvWrite /\ hop = "closed"
  <2>1. CASE SrvKilled
    BY <1>8, <2>1
  <2>2. CASE ~SrvKilled
    <3>1. toHop' = toHop /\ up' = up /\ ~UpHeld'
      BY <1>9, <2>2 DEF SrvWrite, SrvLeave, UpHeld, tunVars
    <3>2. ~UpLive'
      BY <1>1, <1>9 DEF UpLive
    <3>3. QED
      BY <1>1, <1>2, <3>1, <3>2, UpShrinks
  <2>3. QED
    BY <2>1, <2>2
<1>10. CASE SrvReply
  <2>1. CASE SrvKilled
    BY <1>8, <2>1
  <2>2. CASE ~SrvKilled
    <3>1. toHop' = toHop /\ up' = up /\ ~UpHeld' /\ ~UpHeld /\ (UpLive' => UpLive)
      BY <1>1, <1>10, <2>2 DEF SrvReply, SrvLeave, UpHeld, UpLive, SrvActive, tunVars
    <3>2. QED
      BY <1>1, <1>2, <3>1, UpShrinks
  <2>3. QED
    BY <2>1, <2>2
<1>11. CASE SrvCloseHop
  <2>1. DropHop /\ up' = up /\ ~UpHeld' /\ ~UpLive'
    BY <1>11 DEF SrvCloseHop, UpHeld, UpLive, SrvActive, tunVars
  <2>2. QED
    BY <1>1, <1>2, <2>1, DropHopFacts, UpShrinks
<1>12. CASE SrvCloseConn
  <2>1. DropConn /\ toHop' = toHop /\ ~UpHeld' /\ ~UpLive'
    BY <1>12 DEF SrvCloseConn, UpHeld, UpLive, SrvActive
  <2>2. QED
    BY <1>1, <1>2, <2>1, DropConnFacts, UpShrinks
<1>13. QED
  BY <1>3, <1>4, <1>5, <1>6, <1>7, <1>9, <1>10, <1>11, <1>12 DEF Srv
-----------------------------------------------------------------------------
(* The layout of the downstream direction, from the next hop to the application: *)
(* the same argument with the two threads and the two peers exchanged.           *)

\* The layout survives a step that only shrinks it: bytes or frames lost at the end of
\* a buffer whose reader or writer has stopped, chunks given up by a thread that stops.
LEMMA DownShrinks ==
  ASSUME TypeOK, TypeOK', DownStream,
         appGot' = appGot, hopTaken' = hopTaken,
         Len(toApp') <= Len(toApp), \A i \in 1 .. Len(toApp') : toApp'[i] = toApp[i],
         Len(down') <= Len(down), \A i \in 1 .. Len(down') : down'[i] = down[i],
         DownHeld' => DownHeld /\ cbuf' = cbuf,
         DownPending' => DownPending /\ sbuf' = sbuf,
         DownLive' => DownLive /\ toApp' = toApp /\ (DownHeld' <=> DownHeld),
         DownLive' /\ SrvActive' => down' = down /\ SrvActive /\ (DownPending' <=> DownPending)
  PROVE  DownStream'
<1>1. /\ toApp \in Seq(Nat) /\ toApp' \in Seq(Nat) /\ appGot \in Seq(Nat)
      /\ down \in Seq(Chunk) /\ down' \in Seq(Chunk)
      /\ cbuf \in Chunk /\ hopTaken \in Nat
  BY DEF TypeOK, SrvType, TunType, CliType, AppType
<1>2. /\ Len(toApp) \in Nat /\ Len(toApp') \in Nat /\ Len(appGot) \in Nat
      /\ Len(down) \in Nat /\ Len(down') \in Nat
  BY <1>1
<1>3. DownDelivered' /\ DownBound'
  <2>1. \A i \in 1 .. Len(toApp') : i \in 1 .. Len(toApp)
    BY <1>2
  <2>2. \A i \in 1 .. Len(down') : i \in 1 .. Len(down)
    BY <1>2
  <2>3. DownDelivered'
    <3>1. \A i \in 1 .. Len(toApp') : toApp'[i] = Len(appGot') + i
      BY <2>1 DEF DownStream, DownDelivered
    <3>2. Len(appGot') + Len(toApp') <= hopTaken'
      BY <1>1, <1>2 DEF DownStream, DownDelivered
    <3>3. \A i \in 1 .. Len(appGot') : appGot'[i] = i
      BY DEF DownStream, DownDelivered
    <3>4. QED
      BY <3>1, <3>2, <3>3 DEF DownDelivered
  <2>4. DownBound'
    <3>1. \A i \in 1 .. Len(down') : down'[i].lo <= down'[i].hi /\ down'[i].hi <= hopTaken'
      BY <2>2 DEF DownStream, DownBound
    <3>2. QED
      BY <3>1 DEF DownStream, DownBound
  <2>5. QED
    BY <2>3, <2>4
<1>4. DownChain'
  <2> SUFFICES ASSUME DownLive'
               PROVE  /\ DownHeld' => cbuf'.lo = Len(appGot') + Len(toApp') + 1
                      /\ Contiguous(down', DownNext')
                      /\ DownPending' => sbuf'.lo = EndOf(down', DownNext')
                      /\ SrvActive' /\ ~DownPending' => hopTaken' + 1 = EndOf(down', DownNext')
    BY DEF DownChain
  <2>1. DownLive /\ DownNext' = DownNext /\ DownNext \in Nat
    BY <1>1, <1>2 DEF DownNext, Chunk
  <2>2. Contiguous(down, DownNext)
    BY <2>1 DEF DownStream, DownChain
  <2>3. Contiguous(down', DownNext')
    BY <1>1, <2>1, <2>2, ContiguousPrefix
  <2>4. DownHeld' => cbuf'.lo = Len(appGot') + Len(toApp') + 1
    BY <2>1 DEF DownStream, DownChain
  <2>5. DownPending' => SrvActive'
    BY DEF DownPending, SrvActive
  <2>6. DownPending' => sbuf'.lo = EndOf(down', DownNext')
    BY <2>1, <2>5 DEF DownStream, DownChain
  <2>7. SrvActive' /\ ~DownPending' => hopTaken' + 1 = EndOf(down', DownNext')
    BY <2>1 DEF DownStream, DownChain
  <2>8. QED
    BY <2>3, <2>4, <2>6, <2>7
<1>5. QED
  BY <1>3, <1>4 DEF DownStream

\* The application reads a byte: it moves from the socket buffer to what it has read.
LEMMA DownAppRecv == TypeOK /\ DownStream /\ AppRecv => DownStream'
<1> SUFFICES ASSUME TypeOK, DownStream, AppRecv PROVE DownStream'
  OBVIOUS
<1>1. toApp \in Seq(Nat) /\ appGot \in Seq(Nat) /\ toApp # <<>>
  BY DEF TypeOK, CliType, AppType, AppRecv
<1>2. /\ appGot' = Append(appGot, Head(toApp)) /\ toApp' = Tail(toApp)
      /\ UNCHANGED <<hopTaken, down, cbuf, sbuf, cpc, spc, app>>
  BY DEF AppRecv, srvVars, tunVars
<1>3. /\ Len(toApp) \in Nat \ {0} /\ Head(toApp) = toApp[1] /\ Head(toApp) \in Nat
      /\ Len(toApp') = Len(toApp) - 1
      /\ \A i \in 1 .. Len(toApp') : toApp'[i] = toApp[i + 1]
  BY <1>1, <1>2, TailFacts
<1>4. /\ Len(appGot) \in Nat /\ Len(appGot') = Len(appGot) + 1
      /\ \A i \in 1 .. Len(appGot) : appGot'[i] = appGot[i]
      /\ appGot'[Len(appGot) + 1] = toApp[1]
  BY <1>1, <1>2, <1>3, AppendFacts
<1>5. Len(appGot') + Len(toApp') = Len(appGot) + Len(toApp)
  BY <1>3, <1>4
<1>6. DownDelivered'
  <2>1. \A i \in 1 .. Len(appGot') : appGot'[i] = i
    <3>1. toApp[1] = Len(appGot) + 1
      BY <1>3 DEF DownStream, DownDelivered
    <3>2. \A i \in 1 .. Len(appGot') : i \in 1 .. Len(appGot) \/ i = Len(appGot) + 1
      BY <1>4
    <3>3. QED
      BY <1>4, <3>1, <3>2 DEF DownStream, DownDelivered
  <2>2. \A i \in 1 .. Len(toApp') : toApp'[i] = Len(appGot') + i
    BY <1>3, <1>4 DEF DownStream, DownDelivered
  <2>3. QED
    BY <1>2, <1>5, <2>1, <2>2, ZenonT(60) DEF DownStream, DownDelivered
<1>7. DownBound'
  BY <1>2 DEF DownStream, DownBound, DownHeld, DownPending
<1>8. DownChain'
  <2>1. DownNext' = DownNext
    BY <1>2, <1>5, ZenonT(60) DEF DownNext, DownHeld
  <2>2. QED
    BY <1>2, <1>5, <2>1, ZenonT(60) DEF DownStream, DownChain, DownLive, DownHeld, DownPending, SrvActive, CliActive
<1>9. QED
  BY <1>6, <1>7, <1>8 DEF DownStream

\* recvall takes n more bytes from the next hop into the server's chunk.
LEMMA DownTakes ==
  ASSUME TypeOK, DownStream, NEW n \in Nat, hopTaken' = hopTaken + n,
         UNCHANGED <<appGot, toApp, down, cbuf, cpc, app>>,
         SrvActive, DownPending', sbuf'.hi = hopTaken + n,
         DownPending => sbuf'.lo = sbuf.lo,
         ~DownPending => sbuf'.lo = hopTaken + 1 /\ n > 0
  PROVE  DownStream'
<1>1. /\ toApp \in Seq(Nat) /\ appGot \in Seq(Nat) /\ down \in Seq(Chunk)
      /\ cbuf \in Chunk /\ sbuf \in Chunk /\ hopTaken \in Nat
  BY DEF TypeOK, SrvType, TunType, CliType, AppType
<1>2. Len(toApp) \in Nat /\ Len(appGot) \in Nat /\ Len(down) \in Nat
  BY <1>1
<1>3. DownDelivered'
  BY <1>1, <1>2 DEF DownStream, DownDelivered
<1>4. DownBound'
  <2>1. \A i \in 1 .. Len(down) : down[i].hi \in Nat
    <3>1. \A i \in 1 .. Len(down) : down[i] \in Chunk
      BY <1>1
    <3>2. QED
      BY <3>1 DEF Chunk
  <2>2. \A i \in 1 .. Len(down') : down'[i].lo <= down'[i].hi /\ down'[i].hi <= hopTaken'
    BY <1>1, <2>1 DEF DownStream, DownBound
  <2>3. DownHeld' => cbuf'.lo <= cbuf'.hi /\ cbuf'.hi <= hopTaken'
    BY <1>1 DEF DownStream, DownBound, DownHeld, Chunk
  <2>4. sbuf'.lo <= sbuf'.hi /\ sbuf'.hi = hopTaken'
    BY <1>1 DEF DownStream, DownBound, Chunk
  <2>5. QED
    BY <2>2, <2>3, <2>4 DEF DownBound
<1>5. DownChain'
  <2>1. DownNext' = DownNext /\ (DownLive' <=> DownLive) /\ (DownHeld' <=> DownHeld)
    BY DEF DownNext, DownHeld, DownLive, CliActive
  <2>2. DownLive => sbuf'.lo = EndOf(down, DownNext)
    BY DEF DownStream, DownChain
  <2>3. QED
    BY <2>1, <2>2 DEF DownStream, DownChain
<1>6. QED
  BY <1>3, <1>4, <1>5 DEF DownStream

\* The server's chunk becomes the last frame of the tunnel.
LEMMA DownSends ==
  ASSUME TypeOK, DownStream, DownPending, down' = Append(down, sbuf),
         UNCHANGED <<appGot, toApp, cbuf, cpc, app, hopTaken>>, ~DownPending'
  PROVE  DownStream'
<1>1. /\ toApp \in Seq(Nat) /\ appGot \in Seq(Nat) /\ down \in Seq(Chunk)
      /\ cbuf \in Chunk /\ sbuf \in Chunk /\ hopTaken \in Nat
  BY DEF TypeOK, SrvType, TunType, CliType, AppType
<1>2. /\ Len(down) \in Nat /\ Len(down') = Len(down) + 1
      /\ \A i \in 1 .. Len(down) : down'[i] = down[i]
      /\ down'[Len(down) + 1] = sbuf
  BY <1>1, AppendFacts
<1>3. DownDelivered'
  BY DEF DownStream, DownDelivered
<1>4. DownBound'
  <2>1. sbuf.lo <= sbuf.hi /\ sbuf.hi = hopTaken
    BY DEF DownStream, DownBound
  <2>2. \A i \in 1 .. Len(down') : down'[i].lo <= down'[i].hi /\ down'[i].hi <= hopTaken'
    BY <1>1, <1>2, <2>1 DEF DownStream, DownBound
  <2>3. QED
    BY <2>2 DEF DownStream, DownBound, DownHeld
<1>5. DownChain'
  <2>1. DownNext' = DownNext /\ (DownLive' <=> DownLive) /\ (DownHeld' <=> DownHeld) /\ DownNext \in Nat
    BY <1>1 DEF DownNext, DownHeld, DownLive, CliActive, Chunk
  <2>2. ASSUME DownLive
        PROVE  Contiguous(down', DownNext) /\ EndOf(down', DownNext) = sbuf.hi + 1
    BY <1>1, <2>1, <2>2, ContiguousAppend DEF DownStream, DownChain, DownBound
  <2>3. QED
    BY <2>1, <2>2 DEF DownStream, DownChain, DownBound
<1>6. QED
  BY <1>3, <1>4, <1>5 DEF DownStream

\* The client takes the first frame of the tunnel.
LEMMA DownReceives ==
  ASSUME TypeOK, DownStream, CliActive, ~DownHeld, DownHeld', CliActive', down # <<>>,
         cbuf' = Head(down), down' = Tail(down),
         UNCHANGED <<appGot, toApp, sbuf, spc, app, hopTaken>>
  PROVE  DownStream'
<1>1. /\ toApp \in Seq(Nat) /\ appGot \in Seq(Nat) /\ down \in Seq(Chunk)
      /\ cbuf \in Chunk /\ sbuf \in Chunk /\ hopTaken \in Nat
  BY DEF TypeOK, SrvType, TunType, CliType, AppType
<1>2. /\ Len(down) \in Nat \ {0} /\ Len(down') = Len(down) - 1
      /\ \A i \in 1 .. Len(down') : down'[i] = down[i + 1]
      /\ cbuf' = down[1]
  BY <1>1, TailFacts
<1>3. DownDelivered'
  BY DEF DownStream, DownDelivered
<1>4. (DownLive' <=> DownLive) /\ (DownPending' <=> DownPending) /\ (SrvActive' <=> SrvActive)
  BY DEF DownLive, DownPending, SrvActive
<1>5. \A i \in 1 .. Len(down') : down'[i].lo <= down'[i].hi /\ down'[i].hi <= hopTaken'
  BY <1>2 DEF DownStream, DownBound
<1>6. cbuf'.hi <= hopTaken'
  BY <1>2 DEF DownStream, DownBound
<1>7. CASE DownLive
  <2>1. DownNext \in Nat /\ DownNext = Len(appGot) + Len(toApp) + 1 /\ DownNext' = cbuf'.hi + 1
    BY <1>1 DEF DownNext
  <2>2. Contiguous(down, DownNext)
    BY <1>7 DEF DownStream, DownChain
  <2>3. /\ cbuf'.lo = DownNext /\ cbuf'.lo <= cbuf'.hi
        /\ Contiguous(down', DownNext')
        /\ EndOf(down', DownNext') = EndOf(down, DownNext)
    BY <1>1, <2>1, <2>2, ContiguousTail
  <2>4. DownBound'
    BY <1>4, <1>5, <1>6, <2>3 DEF DownStream, DownBound
  <2>5. DownChain'
    BY <1>4, <1>7, <2>1, <2>3 DEF DownStream, DownChain
  <2>6. QED
    BY <1>3, <2>4, <2>5 DEF DownStream
<1>8. CASE ~DownLive
  <2>1. cbuf'.lo <= cbuf'.hi
    BY <1>2 DEF DownStream, DownBound
  <2>2. QED
    BY <1>3, <1>4, <1>5, <1>6, <1>8, <2>1 DEF DownStream, DownBound, DownChain
<1>9. QED
  BY <1>7, <1>8

\* The client writes the first byte of its chunk to the application.
LEMMA DownWrites ==
  ASSUME TypeOK, DownStream, DownHeld, DownLive,
         toApp' = Append(toApp, cbuf.lo), cbuf' = [cbuf EXCEPT !.lo = cbuf.lo + 1],
         DownHeld' <=> cbuf.lo # cbuf.hi,
         UNCHANGED <<appGot, down, sbuf, spc, app, hopTaken>>
  PROVE  DownStream'
<1>1. /\ toApp \in Seq(Nat) /\ appGot \in Seq(Nat) /\ down \in Seq(Chunk)
      /\ sbuf \in Chunk /\ hopTaken \in Nat
      /\ cbuf \in Chunk
  BY DEF TypeOK, SrvType, TunType, CliType, AppType
<1>2. cbuf.lo \in Nat /\ cbuf.hi \in Nat /\ cbuf'.lo = cbuf.lo + 1 /\ cbuf'.hi = cbuf.hi
  BY <1>1 DEF Chunk
<1>3. /\ Len(toApp) \in Nat /\ Len(appGot) \in Nat
      /\ Len(toApp') = Len(toApp) + 1
      /\ \A i \in 1 .. Len(toApp) : toApp'[i] = toApp[i]
      /\ toApp'[Len(toApp) + 1] = cbuf.lo
  BY <1>1, <1>2, AppendFacts
<1>4. cbuf.lo = Len(appGot) + Len(toApp) + 1 /\ cbuf.lo <= cbuf.hi /\ cbuf.hi <= hopTaken
  BY DEF DownStream, DownChain, DownBound
<1>5. DownDelivered'
  <2>1. \A i \in 1 .. Len(toApp') : i \in 1 .. Len(toApp) \/ i = Len(toApp) + 1
    BY <1>3
  <2>2. \A i \in 1 .. Len(toApp') : toApp'[i] = Len(appGot') + i
    <3> TAKE i \in 1 .. Len(toApp')
    <3>1. CASE i \in 1 .. Len(toApp)
      BY <1>3, <3>1 DEF DownStream, DownDelivered
    <3>2. CASE i = Len(toApp) + 1
      BY <1>3, <1>4, <3>2
    <3>3. QED
      BY <2>1, <3>1, <3>2
  <2>3. Len(appGot') + Len(toApp') <= hopTaken'
    BY <1>1, <1>2, <1>3, <1>4
  <2>4. QED
    BY <2>2, <2>3 DEF DownStream, DownDelivered
<1>6. DownNext' = DownNext
  BY <1>2, <1>3, <1>4 DEF DownNext
<1>7. (DownPending' <=> DownPending) /\ (SrvActive' <=> SrvActive)
  BY DEF DownPending, SrvActive
<1>8. DownBound'
  <2>1. DownHeld' => cbuf'.lo <= cbuf'.hi /\ cbuf'.hi <= hopTaken'
    <3> SUFFICES ASSUME DownHeld' PROVE cbuf.lo + 1 <= cbuf.hi /\ cbuf.hi <= hopTaken
      BY <1>2
    <3>1. cbuf.lo # cbuf.hi
      OBVIOUS
    <3>2. \A a, b \in Nat : a <= b /\ a # b => a + 1 <= b
      OBVIOUS
    <3>3. QED
      BY <1>2, <1>4, <3>1, <3>2
  <2>2. QED
    BY <1>7, <2>1 DEF DownStream, DownBound
<1>9. DownChain'
  <2>1. DownHeld' => cbuf'.lo = Len(appGot') + Len(toApp') + 1
    BY <1>2, <1>3, <1>4
  <2>2. QED
    BY <1>6, <1>7, <2>1 DEF DownStream, DownChain
<1>10. QED
  BY <1>5, <1>8, <1>9 DEF DownStream

\* Steps of the next hop touch nothing of this direction past its own socket.
LEMMA DownHopStep == TypeOK /\ DownStream /\ Hop => DownStream'
<1> SUFFICES ASSUME DownStream, Hop PROVE DownStream'
  OBVIOUS
<1>1. UNCHANGED <<appGot, toApp, hopTaken, down, cbuf, sbuf, cpc, spc, app>>
  BY DEF Hop, HopSend, HopRecv, HopFin, HopClose, appVars, cliVars, tunVars, srvVars, hopVars
<1>2. DownNext' = DownNext
  BY <1>1 DEF DownNext, DownHeld
<1>3. QED
  BY <1>1, <1>2 DEF DownStream, DownDelivered, DownBound, DownChain, DownLive, DownHeld, DownPending,
     SrvActive, CliActive

LEMMA DownAppStep == TypeOK /\ TypeOK' /\ DownStream /\ App => DownStream'
<1> SUFFICES ASSUME TypeOK, TypeOK', DownStream, App PROVE DownStream'
  OBVIOUS
<1>1. CASE AppRecv
  BY <1>1, DownAppRecv
<1>2. CASE AppSend \/ AppFin
  <2>1. /\ UNCHANGED <<appGot, toApp, hopTaken, down, cbuf, sbuf, cpc, spc>>
        /\ app # "closed"
    BY <1>2 DEF AppSend, AppFin, appVars, cliVars, tunVars, srvVars, hopVars
  <2>2. DownNext' = DownNext /\ (DownLive' => DownLive)
    BY <2>1 DEF DownNext, DownHeld, DownLive, CliActive
  <2>3. QED
    BY <2>1, <2>2 DEF DownStream, DownDelivered, DownBound, DownChain, DownHeld, DownPending, SrvActive
<1>3. CASE AppClose
  <2>1. /\ UNCHANGED <<appGot, hopTaken, down, cbuf, sbuf, cpc, spc>>
        /\ app' = "closed" /\ toApp' = <<>>
    BY <1>3 DEF AppClose, appVars, cliVars, tunVars, srvVars, hopVars
  <2>2. ~DownLive' /\ (DownHeld' <=> DownHeld) /\ (DownPending' <=> DownPending)
    BY <2>1 DEF DownLive, DownHeld, DownPending
  <2>3. Len(toApp') <= Len(toApp) /\ \A i \in 1 .. Len(toApp') : toApp'[i] = toApp[i]
    BY <2>1 DEF TypeOK, CliType
  <2>4. Len(down') <= Len(down)
    BY <2>1 DEF TypeOK, TunType
  <2>5. QED
    BY <2>1, <2>2, <2>3, <2>4, DownShrinks
<1>4. QED
  BY <1>1, <1>2, <1>3 DEF App

LEMMA DownSrvStep == TypeOK /\ TypeOK' /\ SocketInv /\ DownStream /\ Srv => DownStream'
<1> SUFFICES ASSUME TypeOK, TypeOK', SocketInv, DownStream, Srv PROVE DownStream'
  OBVIOUS
<1> USE DEF appVars, cliVars, hopVars
<1>1. UNCHANGED <<appGot, toApp, cbuf, cpc, app, ctun>>
  BY DEF Srv, SrvSelect, SrvRecv, SrvConnect, SrvWrite, SrvHopRead, SrvHopMore, SrvReply,
     SrvCloseHop, SrvCloseConn
<1>2. /\ (DownHeld' <=> DownHeld) /\ (DownLive' <=> DownLive)
      /\ Len(toApp') <= Len(toApp)
      /\ down \in Seq(Chunk) /\ Len(down) \in Nat
      /\ hopTaken \in Nat /\ hopSent \in Nat /\ hopTaken <= hopSent
  <2>1. Len(toApp') <= Len(toApp)
    BY <1>1 DEF TypeOK, CliType
  <2>2. (DownHeld' <=> DownHeld) /\ (DownLive' <=> DownLive)
    BY <1>1 DEF DownHeld, DownLive, CliActive
  <2>3. QED
    BY <2>1, <2>2 DEF TypeOK, TunType, SrvType, HopType
<1>3. CASE SrvHopRead /\ ReadSize(hopSent - hopTaken) > 0
  <2> DEFINE n == ReadSize(hopSent - hopTaken)
  <2>1. n \in Nat
    BY <1>2, ReadArrived, ZenonT(60)
  <2>2. /\ hopTaken' = hopTaken + n /\ sbuf' = [lo |-> hopTaken + 1, hi |-> hopTaken + n]
        /\ spc = "hopread" /\ spc' \in {"reply", "hopmore"} /\ down' = down /\ n > 0
    BY SMTT(20), <1>3, <2>1 DEF SrvHopRead, tunVars
  <2> HIDE DEF n
  <2>3. /\ SrvActive /\ ~DownPending /\ DownPending'
        /\ sbuf'.lo = hopTaken + 1 /\ sbuf'.hi = hopTaken + n
    BY <2>2 DEF SrvActive, DownPending
  <2>4. QED
    BY <1>1, <2>1, <2>2, <2>3, DownTakes
<1>4. CASE SrvHopMore /\ spc' = "reply"
  <2> DEFINE n == ReadSize(hopSent - hopTaken)
  <2>1. n \in Nat
    BY <1>2, ReadArrived, ZenonT(60)
  <2>2. /\ hopTaken' = hopTaken + n /\ sbuf' = [sbuf EXCEPT !.hi = hopTaken + n]
        /\ spc = "hopmore" /\ down' = down
    BY <1>4 DEF SrvHopMore, SrvLeave, tunVars
  <2> HIDE DEF n
  <2>3. SrvActive /\ DownPending /\ DownPending'
    BY <1>4, <2>2 DEF SrvActive, DownPending
  <2>4. sbuf'.lo = sbuf.lo /\ sbuf'.hi = hopTaken + n
    BY <2>2 DEF TypeOK, SrvType, Chunk
  <2>5. QED
    BY <1>1, <2>1, <2>2, <2>3, <2>4, DownTakes
<1>5. CASE SrvReply /\ ctun
  <2>1. /\ down' = Append(down, sbuf) /\ spc = "reply" /\ spc' = "select"
        /\ hopTaken' = hopTaken
    BY <1>5 DEF SrvReply
  <2>2. DownPending /\ ~DownPending'
    BY <2>1 DEF DownPending
  <2>3. QED
    BY <1>1, <2>1, <2>2, DownSends
<1>6. ASSUME SrvKilled, hopTaken' = hopTaken PROVE DownStream'
  <2>1. ~DownPending' /\ ~SrvActive'
    BY <1>6 DEF SrvKilled, DownPending, SrvActive
  <2>2. QED
    BY <1>1, <1>2, <1>6, <2>1, DropConnFacts, DownShrinks DEF SrvKilled
<1>7. CASE SrvReply /\ ~ctun
  <2>1. CASE SrvKilled
    BY <1>6, <1>7, <2>1 DEF SrvReply
  <2>2. CASE ~SrvKilled
    <3>1. down' = down /\ hopTaken' = hopTaken /\ ~DownPending'
      BY <1>7, <2>2 DEF SrvReply, SrvLeave, DownPending, tunVars
    <3>2. ~DownLive
      BY <1>7 DEF DownLive, CliActive, SocketInv
    <3>3. QED
      BY <1>1, <1>2, <3>1, <3>2, DownShrinks
  <2>3. QED
    BY <2>1, <2>2
<1>8. CASE SrvSelect \/ SrvRecv \/ SrvConnect \/ SrvCloseHop
           \/ (SrvHopRead /\ ~(ReadSize(hopSent - hopTaken) > 0))
  <2>1. down' = down /\ ~DownPending /\ ~DownPending' /\ (SrvActive' => SrvActive)
    BY <1>8 DEF SrvSelect, SrvRecv, SrvConnect, SrvCloseHop, SrvHopRead, SrvLeave, DownPending,
       SrvActive, tunVars
  <2>2. hopTaken' = hopTaken
    <3>1. CASE SrvHopRead /\ ~(ReadSize(hopSent - hopTaken) > 0)
      <4>1. hopSent - hopTaken \in Nat
        BY <1>2
      <4>2. ReadSize(hopSent - hopTaken) = 0
        BY <3>1, <4>1, ReadSizeFacts
      <4>3. QED
        BY SMTT(20), <1>2, <3>1, <4>2 DEF SrvHopRead
    <3>2. QED
      BY <1>8, <3>1 DEF SrvSelect, SrvRecv, SrvConnect, SrvCloseHop
  <2>3. QED
    BY <1>1, <1>2, <2>1, <2>2, DownShrinks
<1>9. CASE SrvWrite
  <2>1. CASE SrvKilled
    BY <1>6, <1>9, <2>1 DEF SrvWrite
  <2>2. CASE ~SrvKilled
    <3>1. down' = down /\ hopTaken' = hopTaken /\ ~DownPending' /\ ~DownPending
          /\ SrvActive
      BY <1>9, <2>2 DEF SrvWrite, SrvLeave, DownPending, SrvActive, tunVars
    <3>2. QED
      BY <1>1, <1>2, <3>1, DownShrinks
  <2>3. QED
    BY <2>1, <2>2
<1>10. CASE SrvCloseConn
  <2>1. DropConn /\ hopTaken' = hopTaken /\ ~DownPending' /\ ~SrvActive'
    BY <1>10 DEF SrvCloseConn, DownPending, SrvActive
  <2>2. QED
    BY <1>1, <1>2, <2>1, DropConnFacts, DownShrinks
<1>11. CASE SrvHopMore /\ spc' # "reply"
  <2>1. down' = down /\ ~DownPending' /\ ~SrvActive'
    BY <1>11 DEF SrvHopMore, SrvLeave, DownPending, SrvActive, tunVars
  <2>2. hopTaken' = hopTaken
    BY <1>2, <1>11 DEF SrvHopMore
  <2>3. QED
    BY <1>1, <1>2, <2>1, <2>2, DownShrinks
<1>12. QED
  BY <1>3, <1>4, <1>5, <1>7, <1>8, <1>9, <1>10, <1>11 DEF Srv

LEMMA DownCliStep == TypeOK /\ TypeOK' /\ SocketInv /\ DownStream /\ Cli => DownStream'
<1> SUFFICES ASSUME TypeOK, TypeOK', SocketInv, DownStream, Cli PROVE DownStream'
  OBVIOUS
<1> USE DEF appVars, srvVars, hopVars
<1>1. UNCHANGED <<appGot, hopTaken, sbuf, spc, app>>
  BY DEF Cli, CliSelect, CliRead, CliReadMore, CliSend, CliRecv, CliWrite,
     CliCloseTunnel, CliCloseFd
<1>2. /\ (DownPending' <=> DownPending) /\ (SrvActive' <=> SrvActive)
      /\ toApp \in Seq(Nat) /\ Len(toApp) \in Nat
      /\ down \in Seq(Chunk) /\ Len(down) \in Nat
  BY <1>1 DEF DownPending, SrvActive, TypeOK, CliType, TunType
<1>3. CASE CliRecv /\ down # <<>>
  <2>1. /\ cbuf' = Head(down) /\ down' = Tail(down) /\ toApp' = toApp
        /\ cpc = "recv" /\ cpc' = "write"
    BY <1>3 DEF CliRecv
  <2>2. CliActive /\ CliActive' /\ ~DownHeld /\ DownHeld'
    BY <2>1 DEF CliActive, DownHeld
  <2>3. QED
    BY <1>1, <1>3, <2>1, <2>2, DownReceives
<1>4. CASE CliWrite /\ app # "closed"
  <2>1. /\ toApp' = Append(toApp, cbuf.lo) /\ cbuf' = [cbuf EXCEPT !.lo = cbuf.lo + 1]
        /\ cpc = "write" /\ down' = down
        /\ cpc' = IF cbuf.lo = cbuf.hi THEN "select" ELSE "write"
    BY <1>4 DEF CliWrite, tunVars
  <2>2. DownHeld /\ DownLive /\ (DownHeld' <=> cbuf.lo # cbuf.hi)
    BY <1>4, <2>1 DEF CliActive, DownHeld, DownLive
  <2>3. QED
    BY <1>1, <2>1, <2>2, DownWrites
<1>5. CASE CliSelect \/ CliRead \/ CliReadMore \/ CliSend
  <2>1. /\ toApp' = toApp /\ down' = down /\ ~DownHeld /\ ~DownHeld' /\ (DownLive' => DownLive)
    BY <1>1, <1>5 DEF CliSelect, CliRead, CliReadMore, CliSend, CliLeave, DownHeld, DownLive,
       CliActive, tunVars
  <2>2. QED
    BY <1>1, <1>2, <2>1, DownShrinks
<1>6. CASE CliRecv /\ down = <<>>
  <2>1. toApp' = toApp /\ down' = down /\ ~DownHeld' /\ ~DownLive'
    BY <1>6 DEF CliRecv, CliLeave, DownHeld, DownLive, CliActive
  <2>2. QED
    BY <1>1, <1>2, <2>1, DownShrinks
<1>7. CASE CliWrite /\ app = "closed"
  <2>1. toApp' = toApp /\ down' = down /\ ~DownHeld' /\ ~DownLive'
    BY <1>1, <1>7 DEF CliWrite, CliLeave, DownHeld, DownLive, tunVars
  <2>2. QED
    BY <1>1, <1>2, <2>1, DownShrinks
<1>8. CASE CliCloseTunnel
  <2>1. toApp' = toApp /\ down' = <<>> /\ ~DownHeld' /\ ~DownLive'
    BY <1>8 DEF CliCloseTunnel, DownHeld, DownLive, CliActive
  <2>2. Len(down') <= Len(down) /\ \A i \in 1 .. Len(down') : down'[i] = down[i]
    BY <1>2, <2>1
  <2>3. QED
    BY SMTT(20), <1>1, <1>2, <2>1, <2>2, DownShrinks
<1>9. CASE CliCloseFd
  <2> DEFINE reset == sent > taken
  <2>1. PICK bytes \in AfterClose(toApp, reset) : toApp' = bytes
    BY <1>9 DEF CliCloseFd
  <2>5. reset \in BOOLEAN
    OBVIOUS
  <2> HIDE DEF reset
  <2>2. Len(toApp') <= Len(toApp) /\ \A i \in 1 .. Len(toApp') : toApp'[i] = toApp[i]
    BY SMTT(20), <1>2, <2>1, <2>5, AfterCloseFacts
  <2>3. down' = down /\ ~DownHeld' /\ ~DownLive'
    BY <1>9 DEF CliCloseFd, DownHeld, DownLive, CliActive, tunVars
  <2>4. QED
    BY SMTT(20), <1>1, <1>2, <2>2, <2>3, DownShrinks
<1>10. QED
  BY <1>3, <1>4, <1>5, <1>6, <1>7, <1>8, <1>9 DEF Cli
-----------------------------------------------------------------------------
(* The theorems about the streams. *)

LEMMA SocketStep == TypeOK /\ SocketInv /\ Next => SocketInv'
<1> SUFFICES ASSUME TypeOK, SocketInv, Next PROVE SocketInv'
  OBVIOUS
<1>1. CASE App \/ Hop
  <2>1. UNCHANGED <<cpc, ctun, spc, sconn>>
    <3>1. CASE App
      BY <3>1 DEF App, AppSend, AppRecv, AppFin, AppClose, cliVars, srvVars
    <3>2. CASE Hop
      BY <3>2 DEF Hop, HopSend, HopRecv, HopFin, HopClose, cliVars, srvVars
    <3>3. QED
      BY <1>1, <3>1, <3>2
  <2>2. QED
    BY <2>1 DEF SocketInv
<1>2. CASE Cli
  <2>1. UNCHANGED <<spc, sconn>>
    BY <1>2, CliStepFrame DEF srvVars
  <2>2. CASE CliSelect \/ CliRead \/ CliReadMore \/ CliSend \/ CliRecv \/ CliWrite
    BY <2>1, <2>2 DEF CliSelect, CliRead, CliReadMore, CliSend, CliRecv, CliWrite, CliLeave, SocketInv
  <2>3. CASE CliCloseTunnel \/ CliCloseFd
    BY <2>1, <2>3 DEF CliCloseTunnel, CliCloseFd, SocketInv
  <2>4. QED
    BY <1>2, <2>2, <2>3 DEF Cli
<1>3. CASE Srv
  <2>1. UNCHANGED <<cpc, ctun>>
    BY <1>3, SrvStepFrame DEF cliVars
  <2>2. CASE SrvKilled
    BY <2>1, <2>2 DEF SrvKilled, DropConn, SocketInv
  <2>3. CASE ~SrvKilled /\ (SrvSelect \/ SrvRecv \/ SrvConnect \/ SrvHopRead \/ SrvHopMore
                            \/ SrvCloseHop)
    BY <2>1, <2>3 DEF SrvSelect, SrvRecv, SrvConnect, SrvHopRead, SrvHopMore, SrvCloseHop,
       SrvLeave, SocketInv
  <2>4. CASE ~SrvKilled /\ (SrvWrite \/ SrvReply)
    BY <2>1, <2>4 DEF SrvWrite, SrvReply, SrvLeave, SocketInv
  <2>5. CASE SrvCloseConn
    BY <2>1, <2>5 DEF SrvCloseConn, DropConn, SocketInv
  <2>6. QED
    BY <1>3, <2>2, <2>3, <2>4, <2>5 DEF Srv
<1>4. QED
  BY <1>1, <1>2, <1>3 DEF Next

\* StreamLayout is inductive relative to the types.
LEMMA LayoutStep == TypeOK /\ TypeOK' /\ StreamLayout /\ [Next]_vars => StreamLayout'
<1> SUFFICES ASSUME TypeOK, TypeOK', StreamLayout, [Next]_vars PROVE StreamLayout'
  OBVIOUS
<1>1. CASE Next
  <2>1. SocketInv'
    BY <1>1, SocketStep DEF StreamLayout
  <2>2. UpStream'
    BY <1>1, UpAppStep, UpHopStep, UpCliStep, UpSrvStep DEF StreamLayout, Next
  <2>3. DownStream'
    BY <1>1, DownAppStep, DownHopStep, DownCliStep, DownSrvStep DEF StreamLayout, Next
  <2>4. QED
    BY <2>1, <2>2, <2>3 DEF StreamLayout
<1>2. CASE UNCHANGED vars
  <2>1. SocketInv'
    BY <1>2 DEF vars, StreamLayout, SocketInv
  <2>2. UpStream'
    <3>1. UNCHANGED <<hopGot, toHop, taken, up, sbuf, cbuf, spc, cpc, hop>>
      BY <1>2 DEF vars
    <3>2. UpNext' = UpNext
      BY <3>1 DEF UpNext, UpHeld
    <3>3. QED
      BY <3>1, <3>2 DEF StreamLayout, UpStream, UpDelivered, UpBound, UpChain, UpLive, UpHeld,
         UpPending, CliActive, SrvActive
  <2>3. DownStream'
    <3>1. UNCHANGED <<appGot, toApp, hopTaken, down, sbuf, cbuf, spc, cpc, app>>
      BY <1>2 DEF vars
    <3>2. DownNext' = DownNext
      BY <3>1 DEF DownNext, DownHeld
    <3>3. QED
      BY <3>1, <3>2 DEF StreamLayout, DownStream, DownDelivered, DownBound, DownChain, DownLive,
         DownHeld, DownPending, CliActive, SrvActive
  <2>4. QED
    BY <2>1, <2>2, <2>3 DEF StreamLayout
<1>3. QED
  BY <1>1, <1>2

\* In every reachable state each byte between its sender and its receiver is in exactly
\* one place, and the places are in stream order (passData, dealConnectionImpl).
THEOREM LayoutCorrect == Spec => []StreamLayout
<1>1. Init => StreamLayout
  BY InitLayout
<1>2. TypeOK /\ TypeOK' /\ StreamLayout /\ [Next]_vars => StreamLayout'
  BY LayoutStep
<1>3. QED
  BY <1>1, <1>2, TypeCorrect, PTL DEF Spec

\* Each peer receives a prefix of what the other sent.
THEOREM InOrderCorrect == Spec => []InOrder
<1>1. TypeOK /\ StreamLayout => InOrder
  <2> SUFFICES ASSUME TypeOK, StreamLayout PROVE InOrder
    OBVIOUS
  <2>1. /\ Len(hopGot) \in Nat /\ Len(toHop) \in Nat /\ Len(appGot) \in Nat
        /\ Len(toApp) \in Nat /\ taken \in Nat /\ hopTaken \in Nat
    BY DEF TypeOK, AppType, CliType, SrvType, HopType
  <2>2. Len(hopGot) <= taken /\ Len(appGot) <= hopTaken
    BY <2>1 DEF StreamLayout, UpStream, UpDelivered, DownStream, DownDelivered
  <2>3. QED
    BY <2>2 DEF InOrder, StreamLayout, UpStream, UpDelivered, DownStream, DownDelivered
<1>2. QED
  BY <1>1, TypeCorrect, LayoutCorrect, PTL

\* While the sockets are open no byte that was read is dropped.
THEOREM NothingDroppedCorrect == Spec => []NothingDropped
<1>1. TypeOK /\ StreamLayout => NothingDropped
  <2> SUFFICES ASSUME TypeOK, StreamLayout PROVE NothingDropped
    OBVIOUS
  <2>1. /\ Len(hopGot) \in Nat /\ Len(toHop) \in Nat /\ Len(appGot) \in Nat
        /\ Len(toApp) \in Nat /\ taken \in Nat /\ hopTaken \in Nat
    BY DEF TypeOK, AppType, CliType, SrvType, HopType
  <2>2. (UpLive /\ CliActive /\ ~UpHeld /\ ~UpPending /\ up = <<>>)
          => Len(hopGot) + Len(toHop) = taken
    BY <2>1 DEF StreamLayout, UpStream, UpChain, UpNext, EndOf
  <2>3. (DownLive /\ SrvActive /\ ~DownHeld /\ ~DownPending /\ down = <<>>)
          => Len(appGot) + Len(toApp) = hopTaken
    BY <2>1 DEF StreamLayout, DownStream, DownChain, DownNext, EndOf
  <2>4. QED
    BY <2>2, <2>3 DEF NothingDropped
<1>2. QED
  BY <1>1, TypeCorrect, LayoutCorrect, PTL

-----------------------------------------------------------------------------
(* An orderly end.  Nothing flows back while Quiet holds, so neither close() resets a  *)
(* connection, and the reason for which each thread left its loop is known.            *)

Quiet == app # "closed" /\ hop = "open" /\ hopSent = 0 /\ spc # "killed"
SrvLeft == spc \in {"close", "closeconn", "done"}

\* Why a descriptor is read or closed.
CauseInv ==
  /\ shop = "closed" => spc \in {"closeconn", "done", "killed"}
  /\ spc = "connect" => shop = "none"
  /\ cpc = "read" => sent > taken \/ app # "open"

\* No reply is under way.
NoReply ==
  /\ down = <<>> /\ "hop" \notin srset
  /\ spc \notin {"hopread", "hopmore", "reply"} /\ cpc # "write"

\* The client left only at the end of the application's stream, unless the server gave up
\* before it had a next hop.
CliDrained == ~CliActive /\ ~(SrvLeft /\ shop = "none") => app = "fin" /\ sent = taken

\* What the client took is in the tunnel, in the server's hands or written.
SrvDrains == SrvActive /\ ~CliActive => taken + 1 = EndOf(up, UpNext)

\* The server left its next hop only after the client had left, and wrote everything first.
SrvDrained == SrvLeft /\ shop # "none" => ~CliActive /\ Len(hopGot) + Len(toHop) = taken

EndInv == CauseInv /\ (Quiet => NoReply /\ CliDrained /\ SrvDrains /\ SrvDrained)

LEMMA InitEnd == Init => EndInv
  BY DEF Init, EndInv, CauseInv, Quiet, NoReply, CliDrained, SrvDrains, SrvDrained, SrvLeft,
     CliActive, EndOf, UpNext, UpHeld

\* Once something flows back, or a peer closes, Quiet does not hold again.
LEMMA QuietBefore == TypeOK /\ Next /\ Quiet' => Quiet
<1> SUFFICES ASSUME TypeOK, Next, Quiet' PROVE Quiet
  OBVIOUS
<1>1. hopSent \in Nat /\ hopSent + 1 # 0
  BY DEF TypeOK, HopType
<1>2. CASE App
  BY <1>2 DEF Quiet, App, AppSend, AppRecv, AppFin, AppClose, hopVars, srvVars
<1>3. CASE Hop
  BY <1>1, <1>3 DEF Quiet, Hop, HopSend, HopRecv, HopFin, HopClose, appVars, srvVars
<1>4. CASE Cli
  BY <1>4, CliStepFrame DEF Quiet, appVars, srvVars, hopVars
<1>5. CASE Srv
  <2>1. UNCHANGED <<app, hop, hopSent>>
    BY <1>5, SrvStepFrame DEF appVars, hopVars
  <2>2. spc # "killed"
    BY <1>5 DEF Srv, SrvSelect, SrvRecv, SrvConnect, SrvWrite, SrvHopRead, SrvHopMore, SrvReply,
       SrvCloseHop, SrvCloseConn
  <2>3. QED
    BY <2>1, <2>2 DEF Quiet
<1>6. QED
  BY <1>2, <1>3, <1>4, <1>5 DEF Next

\* A step that moves nothing on the way to the next hop and leaves both threads in place.
EndSame == UNCHANGED <<taken, cpc, up, down, spc, srset, sbuf, shop, hopGot, toHop>>

LEMMA EndFrame ==
  ASSUME EndInv, EndSame, Quiet' => Quiet,
         cpc' = "read" => sent' > taken' \/ app' # "open",
         Quiet' /\ app = "fin" => app' = "fin" /\ sent' = sent
  PROVE  EndInv'
<1>1. CauseInv'
  BY DEF EndInv, CauseInv, EndSame
<1>2. UpNext' = UpNext \/ toHop' # toHop \/ hopGot' # hopGot
  BY DEF EndSame, UpNext, UpHeld
<1>3. Quiet' => NoReply' /\ CliDrained' /\ SrvDrains' /\ SrvDrained'
  BY <1>2 DEF EndInv, EndSame, NoReply, CliDrained, SrvDrains, SrvDrained, SrvLeft, CliActive, SrvActive
<1>4. QED
  BY <1>1, <1>3 DEF EndInv

LEMMA EndAppStep == TypeOK /\ EndInv /\ App => EndInv'
<1> SUFFICES ASSUME TypeOK, EndInv, App PROVE EndInv'
  OBVIOUS
<1>1. Quiet' => Quiet
  BY QuietBefore DEF Next
<1>2. EndSame
  BY DEF EndSame, App, AppSend, AppRecv, AppFin, AppClose, cliVars, tunVars, srvVars, hopVars
<1>3. cpc' = "read" => sent' > taken' \/ app' # "open"
  <2>1. sent \in Nat /\ taken \in Nat /\ taken <= sent
    BY DEF TypeOK, AppType, CliType
  <2>2. CASE AppSend
    BY <1>2, <2>1, <2>2 DEF AppSend, EndSame
  <2>3. CASE AppFin \/ AppClose
    BY <2>3 DEF AppFin, AppClose
  <2>4. CASE AppRecv
    BY <1>2, <2>4 DEF AppRecv, EndSame, EndInv, CauseInv
  <2>5. QED
    BY <2>2, <2>3, <2>4 DEF App
<1>4. Quiet' /\ app = "fin" => app' = "fin" /\ sent' = sent
  BY DEF Quiet, App, AppSend, AppRecv, AppFin, AppClose
<1>5. QED
  BY <1>1, <1>2, <1>3, <1>4, EndFrame

LEMMA EndHopStep == TypeOK /\ EndInv /\ Hop => EndInv'
<1> SUFFICES ASSUME TypeOK, EndInv, Hop PROVE EndInv'
  OBVIOUS
<1>1. Quiet' => Quiet
  BY QuietBefore DEF Next
<1>2. CASE HopSend \/ HopFin
  <2>1. EndSame /\ UNCHANGED <<app, sent>>
    BY <1>2 DEF EndSame, HopSend, HopFin, appVars, cliVars, tunVars, srvVars
  <2>2. cpc' = "read" => sent' > taken' \/ app' # "open"
    BY <2>1 DEF EndSame, EndInv, CauseInv
  <2>3. QED
    BY <1>1, <2>1, <2>2, EndFrame
<1>3. CASE HopClose
  <2>1. UNCHANGED <<app, sent, taken, cpc, spc, shop>> /\ ~Quiet'
    BY <1>3 DEF HopClose, appVars, cliVars, Quiet
  <2>2. QED
    BY <2>1 DEF EndInv, CauseInv
<1>4. CASE HopRecv
  <2>1. /\ UNCHANGED <<app, sent, taken, cpc, up, down, spc, srset, sbuf, shop>>
        /\ hopGot' = Append(hopGot, Head(toHop)) /\ toHop' = Tail(toHop) /\ toHop # <<>>
    BY <1>4 DEF HopRecv, appVars, cliVars, tunVars
  <2>2. Len(hopGot') + Len(toHop') = Len(hopGot) + Len(toHop)
    <3>1. toHop \in Seq(Nat) /\ hopGot \in Seq(Nat)
      BY DEF TypeOK, SrvType, HopType
    <3>2. Len(toHop) \in Nat \ {0} /\ Len(toHop') = Len(toHop) - 1 /\ Head(toHop) \in Nat
      BY <2>1, <3>1
    <3>3. Len(hopGot) \in Nat /\ Len(hopGot') = Len(hopGot) + 1
      BY <2>1, <3>1, <3>2, AppendFacts
    <3>4. QED
      BY <3>2, <3>3
  <2>3. UpNext' = UpNext
    BY <2>1, <2>2 DEF UpNext, UpHeld
  <2>4. CauseInv'
    BY <2>1 DEF EndInv, CauseInv
  <2>5. Quiet' => NoReply' /\ CliDrained' /\ SrvDrains' /\ SrvDrained'
    BY <1>1, <2>1, <2>2, <2>3 DEF EndInv, NoReply, CliDrained, SrvDrains, SrvDrained, SrvLeft, CliActive, SrvActive
  <2>6. QED
    BY <2>4, <2>5 DEF EndInv
<1>5. QED
  BY <1>2, <1>3, <1>4 DEF Hop

\* The client's loop.  With nothing coming back it leaves only at the end of the stream.
LEMMA EndCliStep == TypeOK /\ SocketInv /\ UpStream /\ EndInv /\ Cli => EndInv'
<1> SUFFICES ASSUME TypeOK, SocketInv, UpStream, EndInv, Cli PROVE EndInv'
  OBVIOUS
<1>1. Quiet' => Quiet
  BY QuietBefore DEF Next
<1>2. UNCHANGED <<app, sent, spc, srset, sbuf, sconn, shop, hopGot, toHop, hop, hopSent>>
  BY CliStepFrame DEF appVars, srvVars, hopVars
<1>3. CauseInv'
  <2>1. cpc' = "read" => FdReadable /\ taken' = taken
    BY DEF Cli, CliSelect, CliRead, CliReadMore, CliSend, CliRecv, CliWrite, CliLeave,
       CliCloseTunnel, CliCloseFd
  <2>2. QED
    BY <1>2, <2>1 DEF EndInv, CauseInv, FdReadable
<1> SUFFICES ASSUME Quiet, Quiet' PROVE NoReply' /\ CliDrained' /\ SrvDrains' /\ SrvDrained'
  BY <1>1, <1>3 DEF EndInv
<1>4. NoReply /\ CliDrained /\ SrvDrains /\ SrvDrained
  BY DEF EndInv
<1>5. NoReply'
  BY <1>2, <1>4 DEF NoReply, Cli, CliSelect, CliRead, CliReadMore, CliSend, CliRecv, CliWrite,
     CliLeave, CliCloseTunnel, CliCloseFd, tunVars
<1>6. CASE CliActive
  <2>1. ~(SrvLeft /\ shop # "none")
    BY <1>4, <1>6 DEF SrvDrained
  <2>2. SrvDrained'
    BY <1>2, <2>1 DEF SrvDrained, SrvLeft
  <2>3. CASE CliActive'
    BY <1>5, <2>2, <2>3 DEF CliDrained, SrvDrains
  <2>4. CASE ~CliActive'
    <3>1. CASE sconn
      <4>1. CliRead /\ ReadSize(sent - taken) = 0
        BY <1>4, <1>6, <2>4, <3>1 DEF Quiet, NoReply, CliActive, Cli, CliSelect, CliRead,
           CliReadMore, CliSend, CliRecv, CliWrite, CliLeave, CliCloseTunnel, CliCloseFd
      <4>2. sent \in Nat /\ taken \in Nat /\ taken <= sent
        BY DEF TypeOK, AppType, CliType
      <4>3. sent = taken /\ taken' = taken /\ up' = up /\ cpc = "read"
        BY <4>1, <4>2, RelayAssumption DEF CliRead, ReadSize, tunVars
      <4>4. app # "open" /\ app = "fin"
        BY <4>2, <4>3 DEF EndInv, CauseInv, Quiet, TypeOK, AppType
      <4>5. UpNext' = UpNext
        BY <1>2 DEF UpNext, UpHeld
      <4>6. SrvActive => taken + 1 = EndOf(up, UpNext)
        BY <4>3 DEF UpStream, UpChain, UpLive, UpPending, CliActive, Quiet
      <4>7. QED
        BY <1>2, <1>5, <2>2, <4>3, <4>4, <4>5, <4>6 DEF CliDrained, SrvDrains, SrvActive
    <3>2. CASE ~sconn
      <4>1. spc = "done" /\ shop = "none"
        BY <2>1, <3>2 DEF SocketInv, SrvLeft, Quiet
      <4>2. QED
        BY <1>2, <1>5, <2>2, <4>1 DEF CliDrained, SrvDrains, SrvLeft, SrvActive
    <3>3. QED
      BY <3>1, <3>2
  <2>5. QED
    BY <2>3, <2>4
<1>7. CASE ~CliActive
  <2>1. taken' = taken /\ up' = up /\ ~CliActive'
    <3>1. CASE CliCloseTunnel
      BY <1>4, <3>1 DEF CliCloseTunnel, AfterClose, NoReply, CliActive
    <3>2. CASE CliCloseFd
      BY <3>2 DEF CliCloseFd, tunVars, CliActive
    <3>3. QED
      BY <1>7, <3>1, <3>2 DEF Cli, CliActive, CliSelect, CliRead, CliReadMore, CliSend, CliRecv, CliWrite
  <2>2. UpNext' = UpNext
    BY <1>2 DEF UpNext, UpHeld
  <2>3. QED
    BY <1>2, <1>4, <1>5, <1>7, <2>1, <2>2 DEF CliDrained, SrvDrains, SrvDrained, SrvLeft, SrvActive
<1>8. QED
  BY <1>6, <1>7

\* The server's loop.  With no reply it leaves its next hop only at the end of the tunnel.
LEMMA EndSrvStep == TypeOK /\ SocketInv /\ UpStream /\ EndInv /\ Srv => EndInv'
<1> SUFFICES ASSUME TypeOK, SocketInv, UpStream, EndInv, Srv PROVE EndInv'
  OBVIOUS
<1>1. Quiet' => Quiet
  BY QuietBefore DEF Next
<1>2. UNCHANGED <<app, sent, taken, cpc, ctun, hopGot, hop, hopSent>>
  BY SrvStepFrame DEF appVars, cliVars, hopVars
<1>3. CauseInv'
  <2>1. spc' = "connect" => shop' = "none"
    BY DEF Srv, SrvSelect, SrvRecv, SrvConnect, SrvWrite, SrvHopRead, SrvHopMore, SrvReply,
       SrvLeave, SrvKilled, SrvCloseHop, SrvCloseConn
  <2>2. shop' = "closed" => spc' \in {"closeconn", "done", "killed"}
    BY DEF EndInv, CauseInv, Srv, SrvSelect, SrvRecv, SrvConnect, SrvWrite, SrvHopRead,
       SrvHopMore, SrvReply, SrvLeave, SrvKilled, SrvCloseHop, SrvCloseConn
  <2>3. QED
    BY <1>2, <2>1, <2>2 DEF EndInv, CauseInv
<1> SUFFICES ASSUME Quiet, Quiet' PROVE NoReply' /\ CliDrained' /\ SrvDrains' /\ SrvDrained'
  BY <1>1, <1>3 DEF EndInv
<1>4. NoReply /\ CliDrained /\ SrvDrains /\ SrvDrained
  BY DEF EndInv
<1>5. /\ toHop \in Seq(Nat) /\ Len(toHop) \in Nat /\ hopGot \in Seq(Nat) /\ Len(hopGot) \in Nat
      /\ up \in Seq(Chunk) /\ sbuf \in Chunk /\ taken \in Nat /\ hopTaken \in Nat
  BY DEF TypeOK, CliType, TunType, SrvType, HopType
<1>6. ~HopReadable
  BY <1>5 DEF Quiet, HopReadable
<1>7. CliActive' <=> CliActive
  BY <1>2 DEF CliActive
<1>8. CASE SrvSelect
  <2>1. /\ UNCHANGED <<up, down, toHop, sbuf, shop>> /\ spc = "select" /\ spc' = "recv"
        /\ "hop" \notin srset'
    BY <1>6, <1>8 DEF SrvSelect, tunVars
  <2>2. UpNext' = UpNext
    BY <1>2, <2>1 DEF UpNext, UpHeld
  <2>3. QED
    BY <1>2, <1>4, <1>7, <2>1, <2>2 DEF NoReply, CliDrained, SrvDrains, SrvDrained, SrvLeft, SrvActive
<1>9. CASE SrvRecv /\ up # <<>>
  <2>1. /\ UNCHANGED <<down, toHop, shop, srset>> /\ spc = "recv" /\ spc' \in {"connect", "write"}
        /\ sbuf' = Head(up) /\ up' = Tail(up)
    BY <1>9 DEF SrvRecv
  <2>2. UpNext = Len(hopGot) + Len(toHop) + 1 /\ UpNext' = sbuf'.hi + 1 /\ UpNext \in Nat
    BY <1>5, <2>1 DEF UpNext, UpHeld
  <2>3. Contiguous(up, UpNext)
    BY <2>1 DEF UpStream, UpChain, UpLive, SrvActive, Quiet
  <2>4. EndOf(up', UpNext') = EndOf(up, UpNext)
    BY <1>5, <1>9, <2>1, <2>2, <2>3, ContiguousTail
  <2>5. QED
    BY <1>2, <1>4, <1>7, <2>1, <2>4 DEF NoReply, CliDrained, SrvDrains, SrvDrained, SrvLeft, SrvActive
<1>10. CASE SrvRecv /\ up = <<>>
  <2>1. /\ UNCHANGED <<up, down, toHop, shop, srset>> /\ spc = "recv" /\ spc' = "close" /\ ~ctun
    BY <1>10 DEF SrvRecv, SrvLeave
  <2>2. ~CliActive /\ SrvActive
    BY <2>1 DEF SocketInv, CliActive, SrvActive
  <2>3. taken = Len(hopGot) + Len(toHop)
    BY <1>4, <1>5, <1>10, <2>1, <2>2 DEF SrvDrains, EndOf, UpNext, UpHeld
  <2>4. QED
    BY <1>2, <1>4, <1>7, <2>1, <2>2, <2>3 DEF NoReply, CliDrained, SrvDrains, SrvDrained, SrvLeft, SrvActive
<1>11. CASE SrvConnect
  <2>1. /\ UNCHANGED <<up, down, toHop, sbuf, srset>> /\ spc = "connect" /\ shop = "none"
        /\ (spc' = "write" /\ shop' = "open") \/ (spc' = "close" /\ shop' = "none")
    BY <1>11 DEF SrvConnect, SrvLeave, tunVars, EndInv, CauseInv
  <2>2. spc' = "write" => UpNext' = UpNext
    BY <2>1 DEF UpNext, UpHeld
  <2>3. QED
    BY <1>2, <1>4, <1>7, <2>1, <2>2 DEF NoReply, CliDrained, SrvDrains, SrvDrained, SrvLeft, SrvActive
<1>12. CASE SrvWrite
  <2>1. /\ UNCHANGED <<up, down, shop, srset>> /\ spc = "write"
        /\ toHop' = Append(toHop, sbuf.lo) /\ sbuf' = [sbuf EXCEPT !.lo = sbuf.lo + 1]
        /\ spc' = IF sbuf.lo = sbuf.hi THEN "select" ELSE "write"
    BY <1>4, <1>12 DEF SrvWrite, NoReply, Quiet, tunVars
  <2>2. sbuf.lo = Len(hopGot) + Len(toHop) + 1
    BY <2>1 DEF UpStream, UpChain, UpLive, UpHeld, SrvActive, Quiet
  <2>3. /\ Len(toHop') = Len(toHop) + 1 /\ sbuf'.hi = sbuf.hi
        /\ sbuf.lo \in Nat /\ sbuf.hi \in Nat
    BY <1>5, <2>1, AppendFacts DEF Chunk
  <2>4. UpNext' = UpNext
    BY <1>2, <1>5, <2>1, <2>2, <2>3 DEF UpNext, UpHeld
  <2>5. QED
    BY <1>2, <1>4, <1>7, <2>1, <2>4 DEF NoReply, CliDrained, SrvDrains, SrvDrained, SrvLeft, SrvActive
<1>13. CASE SrvCloseHop
  <2>1. /\ UNCHANGED <<up, down, srset>> /\ spc = "close" /\ spc' = "closeconn"
        /\ (shop' = "none" <=> shop = "none")
    BY <1>13 DEF SrvCloseHop, DropHop, tunVars
  <2>2. toHop' = toHop
    <3>1. ~(hopSent > hopTaken)
      BY <1>5 DEF Quiet
    <3>2. QED
      BY <1>13, <3>1 DEF SrvCloseHop, DropHop, AfterClose
  <2>3. QED
    BY <1>2, <1>4, <1>7, <2>1, <2>2 DEF NoReply, CliDrained, SrvDrains, SrvDrained, SrvLeft, SrvActive
<1>14. CASE SrvCloseConn
  <2>1. /\ UNCHANGED <<toHop, shop, srset>> /\ spc = "closeconn" /\ spc' = "done"
        /\ Len(down') <= Len(down) /\ down' \in Seq(Chunk)
    BY <1>14, DropConnFacts DEF SrvCloseConn
  <2>2. down' = <<>>
    BY <1>4, <2>1 DEF NoReply
  <2>3. QED
    BY <1>2, <1>4, <1>7, <2>1, <2>2 DEF NoReply, CliDrained, SrvDrains, SrvDrained, SrvLeft, SrvActive
<1>15. QED
  <2>1. ~(SrvHopRead \/ SrvHopMore \/ SrvReply)
    BY <1>4 DEF NoReply, SrvHopRead, SrvHopMore, SrvReply
  <2>2. QED
    BY <1>8, <1>9, <1>10, <1>11, <1>12, <1>13, <1>14, <2>1 DEF Srv

\* When nothing flows back, the end of the application's stream reaches the next hop
\* behind every byte of it (readall and sendn of passData, the deferred close of
\* dealConnectionImpl).
THEOREM OrderlyEndCorrect == Spec => []OrderlyEnd
<1>1. Init => EndInv
  BY InitEnd
<1>2. TypeOK /\ StreamLayout /\ EndInv /\ [Next]_vars => EndInv'
  <2> SUFFICES ASSUME TypeOK, StreamLayout, EndInv, [Next]_vars PROVE EndInv'
    OBVIOUS
  <2>1. CASE Next
    BY <2>1, EndAppStep, EndHopStep, EndCliStep, EndSrvStep DEF Next, StreamLayout
  <2>2. CASE UNCHANGED vars
    <3>1. EndSame /\ UNCHANGED <<app, sent, hop, hopSent>>
      BY <2>2 DEF vars, EndSame
    <3>2. (Quiet' => Quiet) /\ (cpc' = "read" => sent' > taken' \/ app' # "open")
      BY <3>1 DEF EndSame, Quiet, EndInv, CauseInv
    <3>3. QED
      BY <3>1, <3>2, EndFrame
  <2>3. QED
    BY <2>1, <2>2
<1>3. TypeOK /\ EndInv => OrderlyEnd
  <2> SUFFICES ASSUME EndInv, app = "fin", hop = "open", hopSent = 0, shop = "closed",
                      spc # "killed"
               PROVE  Len(hopGot) + Len(toHop) = sent
    BY DEF OrderlyEnd
  <2>1. Quiet /\ SrvLeft
    BY DEF Quiet, SrvLeft, EndInv, CauseInv
  <2>2. ~CliActive /\ Len(hopGot) + Len(toHop) = taken
    BY <2>1 DEF EndInv, SrvDrained
  <2>3. sent = taken
    BY <2>1, <2>2 DEF EndInv, CliDrained
  <2>4. QED
    BY <2>2, <2>3
<1>4. QED
  BY <1>1, <1>2, <1>3, TypeCorrect, LayoutCorrect, PTL DEF Spec

\* A mutual block of the two threads is never left.
THEOREM MutualBlockForever == Spec => MutualBlockIsFinal
<1>1. TypeOK /\ MutualBlock /\ [Next]_vars => MutualBlock'
  <2> SUFFICES ASSUME TypeOK, MutualBlock, [Next]_vars PROVE MutualBlock'
    OBVIOUS
  <2>1. cpc = "send" /\ spc = "reply" /\ sconn /\ ctun /\ Len(up) = TunBuf /\ Len(down) = TunBuf
    BY DEF MutualBlock
  <2>2. TunBuf \in Nat
    BY RelayAssumption
  <2>3. CASE App \/ Hop
    BY <2>1, <2>3, ZenonT(60) DEF App, AppSend, AppRecv, AppFin, AppClose, Hop, HopSend, HopRecv, HopFin,
       HopClose, cliVars, tunVars, srvVars, MutualBlock
  <2>4. CASE Cli
    BY <2>1, <2>2, <2>4 DEF Cli, CliSelect, CliRead, CliReadMore, CliSend, CliRecv, CliWrite,
       CliCloseTunnel, CliCloseFd
  <2>5. CASE Srv
    BY <2>1, <2>2, <2>5 DEF Srv, SrvSelect, SrvRecv, SrvConnect, SrvWrite, SrvHopRead, SrvHopMore,
       SrvReply, SrvCloseHop, SrvCloseConn
  <2>6. CASE UNCHANGED vars
    BY <2>1, <2>6 DEF vars, MutualBlock
  <2>7. QED
    BY <2>3, <2>4, <2>5, <2>6 DEF Next
<1>2. TypeOK /\ [Next]_vars => [MutualBlock => MutualBlock']_vars
  BY <1>1
<1>3. QED
  BY <1>2, TypeCorrect, PTL DEF Spec, MutualBlockIsFinal
=============================================================================
