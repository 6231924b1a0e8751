-------------------------- MODULE GoProxyDataProofs --------------------------
(***************************************************************************)
(* What the goroutines of GoProxy do with the data: theorems about its     *)
(* order, about how much of it is lost and about what ends a session, for  *)
(* every number of frames, chunks and buffer slots.                        *)
(***************************************************************************)
EXTENDS GoProxyProofs, SequenceTheorems

(* The invariant.  Until a remote connection is opened there is no data. *)

Early == {"auth", "reply", "spawn", "add3", "first", "lookup", "found", "notfound"}

NoData ==
  /\ chans2r = <<>> /\ chans2c = <<>> /\ remGot = <<>> /\ toRem = <<>>
  /\ remSent = 0 /\ remRead = 0 /\ rem = "open"
  /\ pc["s2r"] \notin {"loop", "write"} /\ pc["r2s"] \notin {"go", "select"}
  /\ pc["rdr"] = "off" /\ pc["s2c"] # "write"
  /\ pc["main"] \notin {"start1", "start2", "put"} /\ pc["c2s"] \notin {"start1", "start2", "put"}

\* The client's stream has ended, or its next frame is refused.
StreamEnded == (cli = "closed" /\ cliRead = cliSent) \/ cliRead + 1 = bad

StageInv ==
  /\ ~ dst => NoData
  /\ pc["main"] \in Early \cup {"dial", "err"} \/ pc["c2s"] = "dial" => ~ dst
  /\ dst /\ pc["c2s"] = "off" => pc["main"] \in {"start1", "start2", "put", "goc2s"}
  /\ pc["r2s"] \in {"wait", "go"} => pc["rdr"] = "off"
  /\ pc["main"] \in {"lookup", "found", "notfound"} => first = "dns"
  /\ pc["main"] = "dial" => first = "data"
  /\ pc["main"] = "auth" => cliRead = 0
  /\ pc["main"] \in {"reply", "spawn", "add3", "first"} => cliRead = 1
  /\ pc["main"] \in {"lookup", "found", "notfound"} => cliRead = 2

EndInv == dst /\ Ended("c2s") => StreamEnded

(* From the client to the remote host. *)

Holding(t) == pc[t] \in {"dial", "start1", "start2", "put"}
Waiting == pc["main"] = "goc2s" \/ pc["c2s"] = "read" \/ (dst /\ Ended("c2s"))

\* The frames that were taken out of the channel, and those that were put into it.
Out == IF pc["s2r"] = "write" THEN Len(remGot) + Len(toRem) + 1 ELSE Len(remGot) + Len(toRem)
Put2r == Preamble + Out + Len(chans2r)

UpOrder ==
  /\ \A i \in 1 .. Len(remGot) : remGot[i] = Preamble + i
  /\ \A i \in 1 .. Len(toRem) : toRem[i] = Preamble + Len(remGot) + i
  /\ rem = "closed" => toRem = <<>>

UpCount ==
  rem # "closed" =>
    /\ pc["s2r"] = "write" => held["s2r"] = Preamble + Out
    /\ chans2r # <<>> => chans2r[1] = Preamble + Out + 1
    /\ Waiting => cliRead = Put2r
    /\ \A t \in {"main", "c2s"} : Holding(t) => held[t] = Put2r + 1 /\ cliRead = Put2r + 1

(* And back. *)

DownNum(i) == IF i <= Preamble THEN 0 ELSE i - Preamble
Carrying == dst \/ pc["c2s"] # "off" \/ pc["main"] \in {"dial", "goc2s"}

Written == Len(cliGot) + Len(toCli)
In == IF pc["s2c"] = "write" THEN Written + 1 ELSE Written
Read2c == IF pc["rdr"] = "put" THEN In + Len(chans2c) + 1 ELSE In + Len(chans2c)

DownOrder ==
  /\ \A i \in 1 .. Len(cliGot) : cliGot[i] = DownNum(i)
  /\ \A i \in 1 .. Len(toCli) : toCli[i] = DownNum(Len(cliGot) + i)
  /\ cli = "closed" => toCli = <<>>

DownCount ==
  cli = "open" =>
    /\ pc["main"] \in {"auth", "reply"} => Written = 0
    /\ pc["main"] \in Early \ {"auth", "reply"} => Written = 1
    /\ Carrying => Written >= Preamble /\ Preamble + remRead = Read2c
    /\ pc["s2c"] = "write" => held["s2c"] + Preamble = In
    /\ chans2c # <<>> => chans2c[1] + Preamble = In + 1
    /\ pc["rdr"] = "put" => held["rdr"] = remRead

DataInv == StageInv /\ EndInv /\ UpOrder /\ UpCount /\ DownOrder /\ DownCount

-----------------------------------------------------------------------------
LEMMA StageInit == Init => StageInv /\ EndInv
BY DEF Init, StageInv, NoData, EndInv, Ended, Early, Thread

LEMMA StageStep == TypeOK /\ SyncInv /\ StageInv /\ [Next]_vars => StageInv'
<1> SUFFICES ASSUME TypeOK, SyncInv, StageInv, [Next]_vars PROVE StageInv'
  OBVIOUS
<1>T. pc \in [Thread -> Places] /\ cliRead \in Nat
  BY DEF TypeOK, PcOK, CliOK
<1>P. pc["c2s"] # "off" => pc["main"] \in {"add1", "wait", "close", "done"}
  BY DEF SyncInv, PhaseInv
<1> USE DEF Thread, Goto, syncVars, dataVars, cliVars, remVars, StageInv, NoData, Early
<1>1. CASE Client
  <2>1. CASE CliSend
    BY <1>T, <2>1 DEF CliSend
  <2>2. CASE CliRecv
    BY <1>T, <2>2 DEF CliRecv
  <2>3. CASE CliClose
    BY <1>T, <2>3 DEF CliClose
  <2> QED
    BY <1>1, <2>1, <2>2, <2>3 DEF Client
<1>2. CASE Remote
  <2>1. CASE RemSend
    BY <1>T, <2>1 DEF RemSend
  <2>2. CASE RemRecv
    BY <1>T, <2>2 DEF RemRecv
  <2>3. CASE RemFin
    BY <1>T, <2>3 DEF RemFin
  <2>4. CASE RemClose
    BY <1>T, <2>4 DEF RemClose
  <2> QED
    BY <1>2, <2>1, <2>2, <2>3, <2>4 DEF Remote
<1>3. CASE Main
  <2>1. CASE AuthRead
    BY <1>T, <2>1 DEF AuthRead
  <2>2. CASE AuthReply
    BY <1>T, <2>2 DEF AuthReply
  <2>3. CASE Spawn
    BY <1>T, <2>3 DEF Spawn
  <2>4. CASE Add3
    BY <1>T, <2>4 DEF Add3
  <2>5. CASE FirstRead
    <3>1. /\ pc["main"] = "first" /\ first' = first /\ UNCHANGED <<chans2r, chans2c, dst, remRead, remVars>>
          /\ \/ first = "dns" /\ pc' = [pc EXCEPT !["main"] = "lookup"] /\ cliRead' = cliRead + 1
             \/ first # "dns" /\ pc' = [pc EXCEPT !["main"] = "dial"]
             \/ pc' = [pc EXCEPT !["main"] = "err"]
      BY <2>5 DEF FirstRead
    <3>2. first # "dns" => first = "data"
      BY DEF TypeOK, CliOK
    <3> QED
      BY <1>T, <1>P, <3>1, <3>2
  <2>6. CASE Lookup
    BY <1>T, <2>6 DEF Lookup
  <2>7. CASE DnsReply
    BY <1>T, <2>7 DEF DnsReply
  <2>8. CASE Dial("main")
    BY <1>T, <1>P, <2>8 DEF Dial
  <2>9. CASE Start("main")
    BY <1>T, <2>9 DEF Start
  <2>10. CASE Put("main")
    BY <1>T, <2>10 DEF Put
  <2>11. CASE GoC2S
    BY <1>T, <2>11 DEF GoC2S
  <2>12. CASE Add1
    BY <1>T, <2>12 DEF Add1
  <2>13. CASE FirstFailed
    BY <1>T, <2>13 DEF FirstFailed
  <2>14. CASE Wait
    BY <1>T, <2>14 DEF Wait
  <2>15. CASE CloseSession
    BY <1>T, <2>15 DEF CloseSession
  <2> QED
    BY <1>3, <2>1, <2>2, <2>3, <2>4, <2>5, <2>6, <2>7, <2>8, <2>9, <2>10, <2>11, <2>12, <2>13, <2>14, <2>15 DEF Main
<1>4. CASE C2S
  <2>1. CASE C2SRead
    BY <1>T, <1>P, <2>1 DEF C2SRead
  <2>2. CASE Dial("c2s")
    BY <1>T, <1>P, <2>2 DEF Dial
  <2>3. CASE Start("c2s")
    BY <1>T, <2>3 DEF Start
  <2>4. CASE Put("c2s")
    BY <1>T, <2>4 DEF Put
  <2>5. CASE SendEnd("c2s", "s2r")
    BY <1>T, <2>5 DEF SendEnd
  <2>6. CASE WgDone("c2s")
    BY <1>T, <2>6 DEF WgDone
  <2> QED
    BY <1>4, <2>1, <2>2, <2>3, <2>4, <2>5, <2>6 DEF C2S
<1>5. CASE S2R
  <2>1. CASE TakeEnd("s2r", "wait")
    BY <1>T, <2>1 DEF TakeEnd
  <2>2. CASE TakeEnd("s2r", "loop")
    BY <1>T, <2>2 DEF TakeEnd
  <2>3. CASE S2RTake
    BY <1>T, <2>3 DEF S2RTake
  <2>4. CASE S2RWrite
    BY <1>T, <2>4 DEF S2RWrite
  <2>5. CASE SendEnd("s2r", "r2s")
    BY <1>T, <2>5 DEF SendEnd
  <2>6. CASE WgDone("s2r")
    BY <1>T, <2>6 DEF WgDone
  <2> QED
    BY <1>5, <2>1, <2>2, <2>3, <2>4, <2>5, <2>6 DEF S2R
<1>6. CASE R2S
  <2>1. CASE TakeEnd("r2s", "wait")
    BY <1>T, <2>1 DEF TakeEnd
  <2>2. CASE R2SGo
    BY <1>T, <2>2 DEF R2SGo
  <2>3. CASE R2SErr
    BY <1>T, <2>3 DEF R2SErr
  <2>4. CASE TakeEnd("r2s", "select")
    BY <1>T, <2>4 DEF TakeEnd
  <2>5. CASE SendEnd("r2s", "s2c")
    BY <1>T, <2>5 DEF SendEnd
  <2>6. CASE WgDone("r2s")
    BY <1>T, <2>6 DEF WgDone
  <2> QED
    BY <1>6, <2>1, <2>2, <2>3, <2>4, <2>5, <2>6 DEF R2S
<1>7. CASE Rdr
  <2>1. CASE RdrRead
    BY <1>T, <2>1 DEF RdrRead
  <2>2. CASE RdrPut
    BY <1>T, <2>2 DEF RdrPut
  <2> QED
    BY <1>7, <2>1, <2>2 DEF Rdr
<1>8. CASE S2C
  <2>1. CASE S2CTake
    BY <1>T, <2>1 DEF S2CTake
  <2>2. CASE S2CWrite
    BY <1>T, <2>2 DEF S2CWrite
  <2>3. CASE TakeEnd("s2c", "loop")
    BY <1>T, <2>3 DEF TakeEnd
  <2>4. CASE SendEnd("s2c", "s2c")
    BY <1>T, <2>4 DEF SendEnd
  <2>5. CASE WgDone("s2c")
    BY <1>T, <2>5 DEF WgDone
  <2> QED
    BY <1>8, <2>1, <2>2, <2>3, <2>4, <2>5 DEF S2C
<1>9. CASE UNCHANGED vars
  BY <1>9 DEF vars
<1> QED
  BY <1>1, <1>2, <1>3, <1>4, <1>5, <1>6, <1>7, <1>8, <1>9 DEF Next, Server

\* Nobody reads after the end of the client's stream.
LEMMA EndStep == TypeOK /\ SyncInv /\ StageInv /\ EndInv /\ [Next]_vars => EndInv'
<1> SUFFICES ASSUME TypeOK, SyncInv, StageInv, EndInv, [Next]_vars PROVE EndInv'
  OBVIOUS
<1>T. pc \in [Thread -> Places] /\ cliRead \in Nat /\ cliSent \in Nat /\ cliRead <= cliSent
  BY DEF TypeOK, PcOK, CliOK
<1>P. /\ pc["c2s"] # "off" => pc["main"] \in {"add1", "wait", "close", "done"}
      /\ pc["c2s"] = "dial" => ~ dst
  BY DEF SyncInv, PhaseInv, StageInv
<1> USE DEF Thread, Goto, syncVars, dataVars, cliVars, remVars, EndInv, StreamEnded, Ended, FrameReady, ReadFails
<1>1. CASE Client
  <2>1. CASE CliSend
    BY <1>T, <1>P, <2>1 DEF CliSend
  <2>2. CASE CliRecv
    BY <1>T, <1>P, <2>2 DEF CliRecv
  <2>3. CASE CliClose
    BY <1>T, <1>P, <2>3 DEF CliClose
  <2> QED
    BY <1>1, <2>1, <2>2, <2>3 DEF Client
<1>2. CASE Remote
  <2>1. CASE RemSend
    BY <1>T, <1>P, <2>1 DEF RemSend
  <2>2. CASE RemRecv
    BY <1>T, <1>P, <2>2 DEF RemRecv
  <2>3. CASE RemFin
    BY <1>T, <1>P, <2>3 DEF RemFin
  <2>4. CASE RemClose
    BY <1>T, <1>P, <2>4 DEF RemClose
  <2> QED
    BY <1>2, <2>1, <2>2, <2>3, <2>4 DEF Remote
<1>3. CASE Main
  <2>1. CASE AuthRead
    BY <1>T, <1>P, <2>1 DEF AuthRead
  <2>2. CASE AuthReply
    BY <1>T, <1>P, <2>2 DEF AuthReply
  <2>3. CASE Spawn
    BY <1>T, <1>P, <2>3 DEF Spawn
  <2>4. CASE Add3
    BY <1>T, <1>P, <2>4 DEF Add3
  <2>5. CASE FirstRead
    BY <1>T, <1>P, <2>5 DEF FirstRead
  <2>6. CASE Lookup
    BY <1>T, <1>P, <2>6 DEF Lookup
  <2>7. CASE DnsReply
    BY <1>T, <1>P, <2>7 DEF DnsReply
  <2>8. CASE Dial("main")
    BY <1>T, <1>P, <2>8 DEF Dial
  <2>9. CASE Start("main")
    BY <1>T, <1>P, <2>9 DEF Start
  <2>10. CASE Put("main")
    BY <1>T, <1>P, <2>10 DEF Put
  <2>11. CASE GoC2S
    BY <1>T, <1>P, <2>11 DEF GoC2S
  <2>12. CASE Add1
    BY <1>T, <1>P, <2>12 DEF Add1
  <2>13. CASE FirstFailed
    BY <1>T, <1>P, <2>13 DEF FirstFailed
  <2>14. CASE Wait
    BY <1>T, <1>P, <2>14 DEF Wait
  <2>15. CASE CloseSession
    BY <1>T, <1>P, <2>15 DEF CloseSession
  <2> QED
    BY <1>3, <2>1, <2>2, <2>3, <2>4, <2>5, <2>6, <2>7, <2>8, <2>9, <2>10, <2>11, <2>12, <2>13, <2>14, <2>15 DEF Main
<1>4. CASE C2S
  <2>1. CASE C2SRead
    BY <1>T, <1>P, <2>1 DEF C2SRead
  <2>2. CASE Dial("c2s")
    BY <1>T, <1>P, <2>2 DEF Dial
  <2>3. CASE Start("c2s")
    BY <1>T, <1>P, <2>3 DEF Start
  <2>4. CASE Put("c2s")
    BY <1>T, <1>P, <2>4 DEF Put
  <2>5. CASE SendEnd("c2s", "s2r")
    BY <1>T, <1>P, <2>5 DEF SendEnd
  <2>6. CASE WgDone("c2s")
    BY <1>T, <1>P, <2>6 DEF WgDone
  <2> QED
    BY <1>4, <2>1, <2>2, <2>3, <2>4, <2>5, <2>6 DEF C2S
<1>5. CASE S2R
  <2>1. CASE TakeEnd("s2r", "wait")
    BY <1>T, <1>P, <2>1 DEF TakeEnd
  <2>2. CASE TakeEnd("s2r", "loop")
    BY <1>T, <1>P, <2>2 DEF TakeEnd
  <2>3. CASE S2RTake
    BY <1>T, <1>P, <2>3 DEF S2RTake
  <2>4. CASE S2RWrite
    BY <1>T, <1>P, <2>4 DEF S2RWrite
  <2>5. CASE SendEnd("s2r", "r2s")
    BY <1>T, <1>P, <2>5 DEF SendEnd
  <2>6. CASE WgDone("s2r")
    BY <1>T, <1>P, <2>6 DEF WgDone
  <2> QED
    BY <1>5, <2>1, <2>2, <2>3, <2>4, <2>5, <2>6 DEF S2R
<1>6. CASE R2S
  <2>1. CASE TakeEnd("r2s", "wait")
    BY <1>T, <1>P, <2>1 DEF TakeEnd
  <2>2. CASE R2SGo
    BY <1>T, <1>P, <2>2 DEF R2SGo
  <2>3. CASE R2SErr
    BY <1>T, <1>P, <2>3 DEF R2SErr
  <2>4. CASE TakeEnd("r2s", "select")
    BY <1>T, <1>P, <2>4 DEF TakeEnd
  <2>5. CASE SendEnd("r2s", "s2c")
    BY <1>T, <1>P, <2>5 DEF SendEnd
  <2>6. CASE WgDone("r2s")
    BY <1>T, <1>P, <2>6 DEF WgDone
  <2> QED
    BY <1>6, <2>1, <2>2, <2>3, <2>4, <2>5, <2>6 DEF R2S
<1>7. CASE Rdr
  <2>1. CASE RdrRead
    BY <1>T, <1>P, <2>1 DEF RdrRead
  <2>2. CASE RdrPut
    BY <1>T, <1>P, <2>2 DEF RdrPut
  <2> QED
    BY <1>7, <2>1, <2>2 DEF Rdr
<1>8. CASE S2C
  <2>1. CASE S2CTake
    BY <1>T, <1>P, <2>1 DEF S2CTake
  <2>2. CASE S2CWrite
    BY <1>T, <1>P, <2>2 DEF S2CWrite
  <2>3. CASE TakeEnd("s2c", "loop")
    BY <1>T, <1>P, <2>3 DEF TakeEnd
  <2>4. CASE SendEnd("s2c", "s2c")
    BY <1>T, <1>P, <2>4 DEF SendEnd
  <2>5. CASE WgDone("s2c")
    BY <1>T, <1>P, <2>5 DEF WgDone
  <2> QED
    BY <1>8, <2>1, <2>2, <2>3, <2>4, <2>5 DEF S2C
<1>9. CASE UNCHANGED vars
  BY <1>9 DEF vars
<1> QED
  BY <1>1, <1>2, <1>3, <1>4, <1>5, <1>6, <1>7, <1>8, <1>9 DEF Next, Server

-----------------------------------------------------------------------------
(* The client's data *)

LEMMA UpTypes ==
  ASSUME TypeOK
  PROVE  /\ Preamble \in {1, 2} /\ (first = "dns" => Preamble = 2) /\ (first = "data" => Preamble = 1)
         /\ remGot \in Seq(Nat) /\ toRem \in Seq(Nat) /\ chans2r \in Seq(Nat)
         /\ Len(remGot) \in Nat /\ Len(toRem) \in Nat /\ Len(chans2r) \in {0, 1}
         /\ cliRead \in Nat /\ pc \in [Thread -> Places] /\ held \in [Thread -> Nat]
         /\ (Len(chans2r) = 0 => chans2r = <<>>)
<1>1. Preamble \in {1, 2} /\ (first = "dns" => Preamble = 2) /\ (first = "data" => Preamble = 1)
  BY DEF Preamble
<1>2. remGot \in Seq(Nat) /\ toRem \in Seq(Nat) /\ chans2r \in Seq(Nat) /\ Len(chans2r) <= 1
  BY DEF TypeOK, DataOK, RemOK, ChanCap
<1>3. Len(remGot) \in Nat /\ Len(toRem) \in Nat /\ Len(chans2r) \in Nat
  BY <1>2, LenProperties
<1>4. cliRead \in Nat /\ pc \in [Thread -> Places] /\ held \in [Thread -> Nat]
  BY DEF TypeOK, CliOK, PcOK, DataOK
<1>5. Len(chans2r) = 0 => chans2r = <<>>
  BY <1>2, EmptySeq
<1>6. Len(chans2r) \in {0, 1}
  <2>1. \A n \in Nat : n <= 1 => n \in {0, 1}
    OBVIOUS
  <2> QED
    BY <1>2, <1>3, <2>1
<1> QED
  BY <1>1, <1>2, <1>3, <1>4, <1>5, <1>6

\* A step that moves no frame of data.
UpSame ==
  /\ UNCHANGED <<first, remGot, toRem, chans2r, cliRead>> /\ (rem' = "closed" <=> rem = "closed")
  /\ held'["s2r"] = held["s2r"] /\ (pc'["s2r"] = "write" <=> pc["s2r"] = "write")
  /\ Waiting' => Waiting
  /\ Holding("main")' => Holding("main") /\ held'["main"] = held["main"]
  /\ Holding("c2s")' => Holding("c2s") /\ held'["c2s"] = held["c2s"]

LEMMA UpFrame ==
  ASSUME UpOrder, UpCount, UpSame
  PROVE  UpOrder' /\ UpCount'
<1>1. Preamble' = Preamble /\ Out' = Out
  BY DEF UpSame, Preamble, Out
<1>2. Put2r' = Put2r
  BY <1>1 DEF UpSame, Put2r
<1>3. UpOrder'
  BY <1>1 DEF UpSame, UpOrder
<1>4. UpCount'
  BY <1>1, <1>2 DEF UpSame, UpCount
<1> QED
  BY <1>3, <1>4

LEMMA UpRemRecv ==
  ASSUME TypeOK, UpOrder, UpCount, RemRecv
  PROVE  UpOrder' /\ UpCount'
<1>0. /\ Preamble \in Nat /\ remGot \in Seq(Nat) /\ toRem \in Seq(Nat) /\ Len(remGot) \in Nat
      /\ Len(toRem) \in Nat
  BY UpTypes
<1>1. /\ toRem # <<>> /\ remGot' = Append(remGot, Head(toRem)) /\ toRem' = Tail(toRem) /\ rem # "closed"
      /\ UNCHANGED <<pc, held, chans2r, dst, cliRead, first, rem>>
  BY DEF RemRecv, cliVars, dataVars
<1>2. /\ Len(toRem) >= 1 /\ Head(toRem) = toRem[1] /\ Head(toRem) \in Nat
      /\ Len(toRem') = Len(toRem) - 1 /\ \A i \in 1 .. Len(toRem') : toRem'[i] = toRem[i + 1]
  BY <1>0, <1>1, HeadTailProperties, EmptySeq
<1>3. /\ Len(remGot') = Len(remGot) + 1 /\ remGot'[Len(remGot) + 1] = toRem[1]
      /\ \A i \in 1 .. Len(remGot) : remGot'[i] = remGot[i]
  BY <1>0, <1>1, <1>2, AppendProperties
<1>4. Preamble' = Preamble /\ Len(remGot') + Len(toRem') = Len(remGot) + Len(toRem)
  BY <1>0, <1>1, <1>2, <1>3 DEF Preamble
<1>5. UpOrder'
  <2>1. ASSUME NEW i \in 1 .. Len(remGot') PROVE remGot'[i] = Preamble' + i
    <3>1. toRem[1] = Preamble + Len(remGot) + 1
      BY <1>0, <1>2 DEF UpOrder
    <3>2. CASE i = Len(remGot) + 1
      BY <1>0, <1>3, <1>4, <3>1, <3>2
    <3>3. CASE i \in 1 .. Len(remGot)
      BY <1>3, <1>4, <3>3 DEF UpOrder
    <3> QED
      BY <1>0, <1>3, <3>2, <3>3
  <2>2. ASSUME NEW i \in 1 .. Len(toRem') PROVE toRem'[i] = Preamble' + Len(remGot') + i
    <3>1. i + 1 \in 1 .. Len(toRem)
      BY <1>0, <1>2
    <3> QED
      BY <1>0, <1>2, <1>3, <1>4, <3>1 DEF UpOrder
  <2> QED
    BY <1>1, <2>1, <2>2 DEF UpOrder
<1>6. Out' = Out /\ Waiting' = Waiting /\ Holding("main")' = Holding("main") /\ Holding("c2s")' = Holding("c2s")
  BY <1>1, <1>2, <1>4 DEF Out, Waiting, Holding, Ended
<1>7. Put2r' = Put2r
  BY <1>1, <1>4, <1>6 DEF Put2r
<1>8. UpCount'
  BY <1>1, <1>4, <1>6, <1>7 DEF UpCount
<1> QED
  BY <1>5, <1>8

LEMMA UpRemClose ==
  ASSUME TypeOK, UpOrder, RemClose
  PROVE  UpOrder' /\ UpCount'
<1>1. rem' = "closed" /\ toRem' = <<>> /\ remGot' = remGot /\ first' = first
  BY DEF RemClose, cliVars
<1> QED
  BY <1>1 DEF UpOrder, UpCount, Preamble

LEMMA UpS2RTake ==
  ASSUME TypeOK, UpOrder, UpCount, S2RTake
  PROVE  UpOrder' /\ UpCount'
<1>0. /\ Preamble \in Nat /\ Len(remGot) \in Nat /\ Len(toRem) \in Nat
      /\ chans2r \in Seq(Nat) /\ Len(chans2r) \in {0, 1} /\ (Len(chans2r) = 0 => chans2r = <<>>)
      /\ pc \in [Thread -> Places] /\ held \in [Thread -> Nat]
  BY UpTypes
<1>1. /\ chans2r # <<>> /\ pc["s2r"] = "loop" /\ pc' = [pc EXCEPT !["s2r"] = "write"]
      /\ held' = [held EXCEPT !["s2r"] = Head(chans2r)] /\ chans2r' = Tail(chans2r)
      /\ UNCHANGED <<first, dst, cliRead, rem, remGot, toRem>>
  BY DEF S2RTake, Goto, cliVars, remVars
<1>2. Head(chans2r) = chans2r[1] /\ chans2r' = <<>> /\ Len(chans2r) = 1 /\ Len(chans2r') = 0
  <2>1. Len(chans2r) = 1
    BY <1>0, <1>1
  <2>2. Tail(chans2r) \in Seq(Nat) /\ Len(Tail(chans2r)) = 0 /\ Head(chans2r) = chans2r[1]
    BY <1>0, <1>1, <2>1, HeadTailProperties
  <2> QED
    BY <1>1, <2>1, <2>2, EmptySeq
<1>3. /\ pc'["s2r"] = "write" /\ held'["s2r"] = chans2r[1]
      /\ pc'["main"] = pc["main"] /\ pc'["c2s"] = pc["c2s"]
      /\ held'["main"] = held["main"] /\ held'["c2s"] = held["c2s"]
  BY <1>0, <1>1, <1>2 DEF Thread
<1>4. Preamble' = Preamble /\ Out' = Out + 1 /\ Out \in Nat
  BY <1>0, <1>1, <1>3 DEF Preamble, Out
<1>5. Put2r' = Put2r
  BY <1>0, <1>2, <1>4 DEF Put2r
<1>6. Waiting' = Waiting /\ Holding("main")' = Holding("main") /\ Holding("c2s")' = Holding("c2s")
  BY <1>1, <1>3 DEF Waiting, Holding, Ended
<1>7. UpCount'
  BY <1>0, <1>1, <1>2, <1>3, <1>4, <1>5, <1>6 DEF UpCount
<1>8. UpOrder'
  BY <1>1, <1>4 DEF UpOrder
<1> QED
  BY <1>7, <1>8

LEMMA UpS2RWrite ==
  ASSUME TypeOK, UpOrder, UpCount, S2RWrite
  PROVE  UpOrder' /\ UpCount'
<1>0. /\ Preamble \in Nat /\ Len(remGot) \in Nat /\ Len(toRem) \in Nat /\ toRem \in Seq(Nat)
      /\ pc \in [Thread -> Places] /\ held \in [Thread -> Nat] /\ Len(chans2r) \in Nat
  BY UpTypes
<1>1. /\ pc["s2r"] = "write" /\ held' = [held EXCEPT !["s2r"] = 0]
      /\ \/ pc' = [pc EXCEPT !["s2r"] = "loop"] /\ WriteRem(held["s2r"])
         \/ pc' = [pc EXCEPT !["s2r"] = "end"] /\ rem = "closed" /\ UNCHANGED toRem
      /\ UNCHANGED <<first, dst, cliRead, rem, remGot, chans2r>>
  BY DEF S2RWrite, Goto, cliVars
<1>2. Preamble' = Preamble
  BY <1>1 DEF Preamble
<1>3. CASE rem = "closed"
  <2>1. toRem' = toRem
    BY <1>1, <1>3 DEF WriteRem
  <2> QED
    BY <1>1, <1>2, <1>3, <2>1 DEF UpOrder, UpCount
<1>4. CASE rem # "closed"
  <2>1. toRem' = Append(toRem, held["s2r"]) /\ pc' = [pc EXCEPT !["s2r"] = "loop"]
    BY <1>1, <1>4 DEF WriteRem
  <2>2. held["s2r"] = Preamble + Len(remGot) + Len(toRem) + 1 /\ held["s2r"] \in Nat
    <3>1. held["s2r"] = Preamble + Out /\ Out = Len(remGot) + Len(toRem) + 1
      BY <1>1, <1>4 DEF UpCount, Out
    <3> QED
      BY <1>0, <3>1
  <2>3. /\ Len(toRem') = Len(toRem) + 1 /\ toRem'[Len(toRem) + 1] = held["s2r"]
        /\ \A i \in 1 .. Len(toRem) : toRem'[i] = toRem[i]
    BY <1>0, <2>1, <2>2, AppendProperties
  <2>4. UpOrder'
    <3>1. ASSUME NEW i \in 1 .. Len(toRem') PROVE toRem'[i] = Preamble + Len(remGot) + i
      <4>1. CASE i = Len(toRem) + 1
        BY <1>0, <2>2, <2>3, <4>1
      <4>2. CASE i \in 1 .. Len(toRem)
        BY <2>3, <4>2 DEF UpOrder
      <4> QED
        BY <1>0, <2>3, <4>1, <4>2
    <3> QED
      BY <1>1, <1>2, <1>4, <3>1 DEF UpOrder
  <2>5. /\ pc'["s2r"] = "loop" /\ pc'["main"] = pc["main"] /\ pc'["c2s"] = pc["c2s"]
        /\ held'["main"] = held["main"] /\ held'["c2s"] = held["c2s"]
    BY <1>0, <1>1, <2>1 DEF Thread
  <2>6. Out' = Out
    BY <1>0, <1>1, <2>3, <2>5 DEF Out
  <2>7. Put2r' = Put2r /\ Waiting' = Waiting /\ Holding("main")' = Holding("main") /\ Holding("c2s")' = Holding("c2s")
    BY <1>1, <1>2, <2>5, <2>6 DEF Put2r, Waiting, Holding, Ended
  <2>8. UpCount'
    BY <1>1, <1>2, <1>4, <2>5, <2>6, <2>7 DEF UpCount
  <2> QED
    BY <2>4, <2>8
<1> QED
  BY <1>3, <1>4

\* A frame goes into the channel, from main or from c2s.
LEMMA UpPut ==
  ASSUME TypeOK, SyncInv, UpOrder, UpCount, NEW t \in {"main", "c2s"}, Put(t)
  PROVE  UpOrder' /\ UpCount'
<1>0. /\ Preamble \in Nat /\ Len(remGot) \in Nat /\ Len(toRem) \in Nat
      /\ chans2r \in Seq(Nat) /\ Len(chans2r) \in {0, 1} /\ (Len(chans2r) = 0 => chans2r = <<>>)
      /\ pc \in [Thread -> Places] /\ held \in [Thread -> Nat] /\ t \in Thread /\ cliRead \in Nat
  BY UpTypes DEF Thread
<1>1. /\ pc[t] = "put" /\ pc' = [pc EXCEPT ![t] = IF t = "main" THEN "goc2s" ELSE "read"]
      /\ held' = [held EXCEPT ![t] = 0] /\ chans2r' = Append(chans2r, held[t]) /\ Len(chans2r) < 1
      /\ UNCHANGED <<first, dst, cliRead, rem, remGot, toRem>>
  BY DEF Put, Goto, cliVars, remVars, ChanCap
<1>2. Len(chans2r) = 0 /\ Len(chans2r') = 1 /\ chans2r'[1] = held[t]
  <2>1. Len(chans2r) = 0 /\ held[t] \in Nat
    BY <1>0, <1>1
  <2> QED
    BY <1>0, <1>1, <2>1, AppendProperties
<1>3. /\ pc'["s2r"] = pc["s2r"] /\ held'["s2r"] = held["s2r"]
      /\ pc'[t] = IF t = "main" THEN "goc2s" ELSE "read"
      /\ \A u \in {"main", "c2s"} : u # t => pc'[u] = pc[u] /\ held'[u] = held[u]
  BY <1>0, <1>1 DEF Thread
<1>4. Preamble' = Preamble /\ Out' = Out /\ Out \in Nat
  BY <1>0, <1>1, <1>3 DEF Preamble, Out
<1>5. Put2r' = Put2r + 1 /\ Put2r = Preamble + Out
  BY <1>0, <1>2, <1>4 DEF Put2r
<1>6. ~ Holding("main")' /\ ~ Holding("c2s")'
  <2>1. pc["main"] = "put" => pc["c2s"] = "off"
    BY DEF SyncInv, PhaseInv
  <2>2. pc["c2s"] = "put" => pc["main"] \in {"add1", "wait", "close", "done"}
    BY DEF SyncInv, PhaseInv
  <2> QED
    BY <1>1, <1>3, <2>1, <2>2 DEF Holding
<1>7. UpOrder'
  BY <1>1, <1>4 DEF UpOrder
<1>8. ASSUME rem # "closed" PROVE held[t] = Put2r + 1 /\ cliRead = Put2r + 1
  BY <1>1, <1>8 DEF UpCount, Holding
<1>9. UpCount'
  BY <1>0, <1>1, <1>2, <1>3, <1>4, <1>5, <1>6, <1>8 DEF UpCount
<1> QED
  BY <1>7, <1>9

\* c2s reads a frame, or meets the end of the stream.
LEMMA UpC2SRead ==
  ASSUME TypeOK, SyncInv, UpOrder, UpCount, C2SRead
  PROVE  UpOrder' /\ UpCount'
<1>0. /\ Preamble \in Nat /\ Len(remGot) \in Nat /\ Len(toRem) \in Nat /\ Len(chans2r) \in Nat
      /\ pc \in [Thread -> Places] /\ held \in [Thread -> Nat] /\ cliRead \in Nat
  BY UpTypes
<1>P. pc["c2s"] # "off" => pc["main"] \in {"add1", "wait", "close", "done"}
  BY DEF SyncInv, PhaseInv
<1>1. pc["c2s"] = "read" /\ UNCHANGED <<first, dst, rem, remGot, toRem, chans2r>>
  BY DEF C2SRead, Goto, cliVars, remVars
<1>2. CASE pc' = [pc EXCEPT !["c2s"] = "end"] /\ UNCHANGED <<cliRead, held>>
  <2>1. UpSame
    BY <1>0, <1>P, <1>1, <1>2 DEF UpSame, Thread, Waiting, Holding, Ended
  <2> QED
    BY <2>1, UpFrame
<1>3. ASSUME NEW q \in {"put", "dial"}, pc' = [pc EXCEPT !["c2s"] = q], cliRead' = cliRead + 1,
             held' = [held EXCEPT !["c2s"] = cliRead + 1]
      PROVE  UpOrder' /\ UpCount'
  <2>1. /\ pc'["s2r"] = pc["s2r"] /\ held'["s2r"] = held["s2r"] /\ held'["c2s"] = cliRead + 1
        /\ pc'["c2s"] \in {"put", "dial"} /\ pc'["main"] = pc["main"]
    BY <1>0, <1>3 DEF Thread
  <2>2. Preamble' = Preamble /\ Out' = Out /\ Out \in Nat
    BY <1>0, <1>1, <2>1 DEF Preamble, Out
  <2>3. Put2r' = Put2r /\ Put2r \in Nat
    BY <1>0, <1>1, <2>2 DEF Put2r
  <2>4. ~ Waiting' /\ Waiting /\ ~ Holding("main")'
    BY <1>P, <1>1, <2>1 DEF Waiting, Holding, Ended
  <2>5. UpOrder'
    BY <1>1, <2>2 DEF UpOrder
  <2>6. UpCount'
    BY <1>0, <1>1, <1>3, <2>1, <2>2, <2>3, <2>4 DEF UpCount
  <2> QED
    BY <2>5, <2>6
<1>4. \/ pc' = [pc EXCEPT !["c2s"] = "end"] /\ UNCHANGED <<cliRead, held>>
      \/ \E q \in {"put", "dial"} : /\ pc' = [pc EXCEPT !["c2s"] = q] /\ cliRead' = cliRead + 1
                                    /\ held' = [held EXCEPT !["c2s"] = cliRead + 1]
  BY DEF C2SRead, Goto
<1> QED
  BY <1>2, <1>3, <1>4

\* main, before there is data: the next frame is the first one.
LEMMA UpBegin ==
  ASSUME TypeOK, SyncInv, StageInv, AuthRead \/ FirstRead \/ DnsReply
  PROVE  UpOrder' /\ UpCount'
<1>0. /\ Preamble \in Nat /\ (first = "dns" => Preamble = 2) /\ (first = "data" => Preamble = 1)
      /\ pc \in [Thread -> Places] /\ held \in [Thread -> Nat] /\ cliRead \in Nat
      /\ (first = "dns" \/ first = "data")
  BY UpTypes DEF TypeOK, CliOK
<1>1. pc["main"] \in {"auth", "first", "found", "notfound"} /\ UNCHANGED <<first, dst, rem, remGot, toRem, chans2r>>
  BY DEF AuthRead, FirstRead, DnsReply, Goto, cliVars, remVars, dataVars
<1>2. pc["c2s"] = "off" /\ ~ dst /\ NoData
  BY <1>1 DEF SyncInv, PhaseInv, StageInv, Early
<1>3. \E q \in Places : pc' = [pc EXCEPT !["main"] = q]
  BY DEF AuthRead, FirstRead, DnsReply, Goto, Places, MainPC
<1>4. pc'["c2s"] = "off" /\ pc'["s2r"] = pc["s2r"] /\ pc["s2r"] # "write"
  BY <1>0, <1>2, <1>3 DEF Thread, NoData
<1>5. Len(remGot') = 0 /\ Len(toRem') = 0 /\ chans2r' = <<>> /\ Len(chans2r') = 0
  BY <1>1, <1>2 DEF NoData
<1>6. Preamble' = Preamble /\ Put2r' = Preamble
  BY <1>0, <1>1, <1>4, <1>5 DEF Preamble, Out, Put2r
<1>7. UpOrder'
  BY <1>1, <1>2, <1>5 DEF UpOrder, NoData
<1>8. pc'["main"] = "goc2s" => cliRead' = Preamble
  <2>1. pc'["main"] = "goc2s" => pc["main"] = "found" /\ cliRead' = cliRead
    BY <1>0 DEF AuthRead, FirstRead, DnsReply, Goto, Thread
  <2>2. pc["main"] = "found" => cliRead = 2 /\ first = "dns"
    BY DEF StageInv
  <2> QED
    BY <1>0, <2>1, <2>2
<1>9. Holding("main")' => cliRead' = Preamble + 1 /\ held'["main"] = Preamble + 1
  <2>1. Holding("main")' => /\ pc["main"] = "first" /\ first # "dns" /\ cliRead' = cliRead + 1
                            /\ held' = [held EXCEPT !["main"] = cliRead + 1]
    BY <1>0 DEF AuthRead, FirstRead, DnsReply, Goto, Thread, Holding
  <2>2. pc["main"] = "first" => cliRead = 1
    BY DEF StageInv
  <2> QED
    BY <1>0, <2>1, <2>2 DEF Thread
<1>10. Waiting' => pc'["main"] = "goc2s"
  BY <1>1, <1>2, <1>4 DEF Waiting, Ended
<1>11. UpCount'
  BY <1>4, <1>5, <1>6, <1>8, <1>9, <1>10 DEF UpCount, Holding
<1> QED
  BY <1>7, <1>11

LEMMA UpStep == TypeOK /\ SyncInv /\ StageInv /\ UpOrder /\ UpCount /\ [Next]_vars => UpOrder' /\ UpCount'
<1> SUFFICES ASSUME TypeOK, SyncInv, StageInv, UpOrder, UpCount, [Next]_vars PROVE UpOrder' /\ UpCount'
  OBVIOUS
<1>T. pc \in [Thread -> Places] /\ held \in [Thread -> Nat]
  BY UpTypes
<1>P. /\ pc["c2s"] # "off" => pc["main"] \in {"add1", "wait", "close", "done"}
      /\ pc["main"] = "dial" \/ pc["c2s"] = "dial" => ~ dst
  BY DEF SyncInv, PhaseInv, StageInv
<1> USE DEF Thread, Goto, syncVars, dataVars, cliVars, remVars, Waiting, Holding, Ended
<1>1. CASE Client
  <2>1. CASE CliSend
    <3>1. UpSame
      BY <1>T, <1>P, <2>1 DEF CliSend, UpSame
    <3> QED
      BY <3>1, UpFrame
  <2>2. CASE CliRecv
    <3>1. UpSame
      BY <1>T, <1>P, <2>2 DEF CliRecv, UpSame
    <3> QED
      BY <3>1, UpFrame
  <2>3. CASE CliClose
    <3>1. UpSame
      BY <1>T, <1>P, <2>3 DEF CliClose, UpSame
    <3> QED
      BY <3>1, UpFrame
  <2> QED
    BY <1>1, <2>1, <2>2, <2>3 DEF Client
<1>2. CASE Remote
  <2>1. CASE RemSend
    <3>1. UpSame
      BY <1>T, <1>P, <2>1 DEF RemSend, UpSame
    <3> QED
      BY <3>1, UpFrame
  <2>2. CASE RemRecv
    BY <2>2, UpRemRecv
  <2>3. CASE RemFin
    <3>1. UpSame
      BY <1>T, <1>P, <2>3 DEF RemFin, UpSame
    <3> QED
      BY <3>1, UpFrame
  <2>4. CASE RemClose
    BY <2>4, UpRemClose
  <2> QED
    BY <1>2, <2>1, <2>2, <2>3, <2>4 DEF Remote
<1>3. CASE Main
  <2>1. CASE AuthRead
    BY <2>1, UpBegin
  <2>2. CASE AuthReply
    <3>1. UpSame
      BY <1>T, <1>P, <2>2 DEF AuthReply, UpSame
    <3> QED
      BY <3>1, UpFrame
  <2>3. CASE Spawn
    <3>1. UpSame
      <4>1. /\ pc["main"] = "spawn" /\ pc'["main"] = "add3" /\ pc'["c2s"] = pc["c2s"] /\ pc'["s2r"] = "wait"
            /\ UNCHANGED <<held, dst, first, rem, remGot, toRem, chans2r, cliRead>>
        BY <1>T, <2>3 DEF Spawn
      <4>2. pc["s2r"] = "off"
        BY <4>1 DEF SyncInv, PhaseInv, Fresh
      <4> QED
        BY <4>1, <4>2 DEF UpSame
    <3> QED
      BY <3>1, UpFrame
  <2>4. CASE Add3
    <3>1. UpSame
      BY <1>T, <1>P, <2>4 DEF Add3, UpSame
    <3> QED
      BY <3>1, UpFrame
  <2>5. CASE FirstRead
    BY <2>5, UpBegin
  <2>6. CASE Lookup
    <3>1. UpSame
      BY <1>T, <1>P, <2>6 DEF Lookup, UpSame
    <3> QED
      BY <3>1, UpFrame
  <2>7. CASE DnsReply
    BY <2>7, UpBegin
  <2>8. CASE Dial("main")
    <3>1. UpSame
      BY <1>T, <1>P, <2>8 DEF Dial, UpSame
    <3> QED
      BY <3>1, UpFrame
  <2>9. CASE Start("main")
    <3>1. UpSame
      BY <1>T, <1>P, <2>9 DEF Start, UpSame
    <3> QED
      BY <3>1, UpFrame
  <2>10. CASE Put("main")
    BY <2>10, UpPut
  <2>11. CASE GoC2S
    <3>1. UpSame
      BY <1>T, <1>P, <2>11 DEF GoC2S, UpSame
    <3> QED
      BY <3>1, UpFrame
  <2>12. CASE Add1
    <3>1. UpSame
      BY <1>T, <1>P, <2>12 DEF Add1, UpSame
    <3> QED
      BY <3>1, UpFrame
  <2>13. CASE FirstFailed
    <3>1. UpSame
      BY <1>T, <1>P, <2>13 DEF FirstFailed, UpSame
    <3> QED
      BY <3>1, UpFrame
  <2>14. CASE Wait
    <3>1. UpSame
      BY <1>T, <1>P, <2>14 DEF Wait, UpSame
    <3> QED
      BY <3>1, UpFrame
  <2>15. CASE CloseSession
    <3>1. UpSame
      BY <1>T, <1>P, <2>15 DEF CloseSession, UpSame
    <3> QED
      BY <3>1, UpFrame
  <2> QED
    BY <1>3, <2>1, <2>2, <2>3, <2>4, <2>5, <2>6, <2>7, <2>8, <2>9, <2>10, <2>11, <2>12, <2>13, <2>14, <2>15 DEF Main
<1>4. CASE C2S
  <2>1. CASE C2SRead
    BY <2>1, UpC2SRead
  <2>2. CASE Dial("c2s")
    <3>1. UpSame
      BY <1>T, <1>P, <2>2 DEF Dial, UpSame
    <3> QED
      BY <3>1, UpFrame
  <2>3. CASE Start("c2s")
    <3>1. UpSame
      BY <1>T, <1>P, <2>3 DEF Start, UpSame
    <3> QED
      BY <3>1, UpFrame
  <2>4. CASE Put("c2s")
    BY <2>4, UpPut
  <2>5. CASE SendEnd("c2s", "s2r")
    <3>1. UpSame
      BY <1>T, <1>P, <2>5 DEF SendEnd, UpSame
    <3> QED
      BY <3>1, UpFrame
  <2>6. CASE WgDone("c2s")
    <3>1. UpSame
      BY <1>T, <1>P, <2>6 DEF WgDone, UpSame
    <3> QED
      BY <3>1, UpFrame
  <2> QED
    BY <1>4, <2>1, <2>2, <2>3, <2>4, <2>5, <2>6 DEF C2S
<1>5. CASE S2R
  <2>1. CASE TakeEnd("s2r", "wait")
    <3>1. UpSame
      BY <1>T, <1>P, <2>1 DEF TakeEnd, UpSame
    <3> QED
      BY <3>1, UpFrame
  <2>2. CASE TakeEnd("s2r", "loop")
    <3>1. UpSame
      BY <1>T, <1>P, <2>2 DEF TakeEnd, UpSame
    <3> QED
      BY <3>1, UpFrame
  <2>3. CASE S2RTake
    BY <2>3, UpS2RTake
  <2>4. CASE S2RWrite
    BY <2>4, UpS2RWrite
  <2>5. CASE SendEnd("s2r", "r2s")
    <3>1. UpSame
      BY <1>T, <1>P, <2>5 DEF SendEnd, UpSame
    <3> QED
      BY <3>1, UpFrame
  <2>6. CASE WgDone("s2r")
    <3>1. UpSame
      BY <1>T, <1>P, <2>6 DEF WgDone, UpSame
    <3> QED
      BY <3>1, UpFrame
  <2> QED
    BY <1>5, <2>1, <2>2, <2>3, <2>4, <2>5, <2>6 DEF S2R
<1>6. CASE R2S
  <2>1. CASE TakeEnd("r2s", "wait")
    <3>1. UpSame
      BY <1>T, <1>P, <2>1 DEF TakeEnd, UpSame
    <3> QED
      BY <3>1, UpFrame
  <2>2. CASE R2SGo
    <3>1. UpSame
      BY <1>T, <1>P, <2>2 DEF R2SGo, UpSame
    <3> QED
      BY <3>1, UpFrame
  <2>3. CASE R2SErr
    <3>1. UpSame
      BY <1>T, <1>P, <2>3 DEF R2SErr, UpSame
    <3> QED
      BY <3>1, UpFrame
  <2>4. CASE TakeEnd("r2s", "select")
    <3>1. UpSame
      BY <1>T, <1>P, <2>4 DEF TakeEnd, UpSame
    <3> QED
      BY <3>1, UpFrame
  <2>5. CASE SendEnd("r2s", "s2c")
    <3>1. UpSame
      BY <1>T, <1>P, <2>5 DEF SendEnd, UpSame
    <3> QED
      BY <3>1, UpFrame
  <2>6. CASE WgDone("r2s")
    <3>1. UpSame
      BY <1>T, <1>P, <2>6 DEF WgDone, UpSame
    <3> QED
      BY <3>1, UpFrame
  <2> QED
    BY <1>6, <2>1, <2>2, <2>3, <2>4, <2>5, <2>6 DEF R2S
<1>7. CASE Rdr
  <2>1. CASE RdrRead
    <3>1. UpSame
      BY <1>T, <1>P, <2>1 DEF RdrRead, UpSame
    <3> QED
      BY <3>1, UpFrame
  <2>2. CASE RdrPut
    <3>1. UpSame
      BY <1>T, <1>P, <2>2 DEF RdrPut, UpSame
    <3> QED
      BY <3>1, UpFrame
  <2> QED
    BY <1>7, <2>1, <2>2 DEF Rdr
<1>8. CASE S2C
  <2>1. CASE S2CTake
    <3>1. UpSame
      BY <1>T, <1>P, <2>1 DEF S2CTake, UpSame
    <3> QED
      BY <3>1, UpFrame
  <2>2. CASE S2CWrite
    <3>1. UpSame
      BY <1>T, <1>P, <2>2 DEF S2CWrite, UpSame
    <3> QED
      BY <3>1, UpFrame
  <2>3. CASE TakeEnd("s2c", "loop")
    <3>1. UpSame
      BY <1>T, <1>P, <2>3 DEF TakeEnd, UpSame
    <3> QED
      BY <3>1, UpFrame
  <2>4. CASE SendEnd("s2c", "s2c")
    <3>1. UpSame
      BY <1>T, <1>P, <2>4 DEF SendEnd, UpSame
    <3> QED
      BY <3>1, UpFrame
  <2>5. CASE WgDone("s2c")
    <3>1. UpSame
      BY <1>T, <1>P, <2>5 DEF WgDone, UpSame
    <3> QED
      BY <3>1, UpFrame
  <2> QED
    BY <1>8, <2>1, <2>2, <2>3, <2>4, <2>5 DEF S2C
<1>9. CASE UNCHANGED vars
  <2>1. UpSame
    BY <1>9 DEF vars, UpSame
  <2> QED
    BY <2>1, UpFrame
<1> QED
  BY <1>1, <1>2, <1>3, <1>4, <1>5, <1>6, <1>7, <1>8, <1>9 DEF Next, Server

-----------------------------------------------------------------------------
(* The remote host's data *)

LEMMA DownTypes ==
  ASSUME TypeOK
  PROVE  /\ Preamble \in {1, 2} /\ (first = "dns" => Preamble = 2) /\ (first = "data" => Preamble = 1)
         /\ cliGot \in Seq(Nat) /\ toCli \in Seq(Nat) /\ chans2c \in Seq(Nat)
         /\ Len(cliGot) \in Nat /\ Len(toCli) \in Nat /\ Len(chans2c) \in {0, 1}
         /\ remRead \in Nat /\ pc \in [Thread -> Places] /\ held \in [Thread -> Nat]
         /\ (Len(chans2c) = 0 => chans2c = <<>>)
<1>1. Preamble \in {1, 2} /\ (first = "dns" => Preamble = 2) /\ (first = "data" => Preamble = 1)
  BY DEF Preamble
<1>2. cliGot \in Seq(Nat) /\ toCli \in Seq(Nat) /\ chans2c \in Seq(Nat) /\ Len(chans2c) <= 1
  BY DEF TypeOK, DataOK, CliOK, ChanCap
<1>3. Len(cliGot) \in Nat /\ Len(toCli) \in Nat /\ Len(chans2c) \in Nat
  BY <1>2, LenProperties
<1>4. remRead \in Nat /\ pc \in [Thread -> Places] /\ held \in [Thread -> Nat]
  BY DEF TypeOK, RemOK, PcOK, DataOK
<1>5. Len(chans2c) = 0 => chans2c = <<>>
  BY <1>2, EmptySeq
<1>6. Len(chans2c) \in {0, 1}
  <2>1. \A n \in Nat : n <= 1 => n \in {0, 1}
    OBVIOUS
  <2> QED
    BY <1>2, <1>3, <2>1
<1> QED
  BY <1>1, <1>2, <1>3, <1>4, <1>5, <1>6

\* A step that moves nothing towards the client.
DownSame ==
  /\ UNCHANGED <<first, cli, cliGot, toCli, chans2c, remRead>>
  /\ held'["s2c"] = held["s2c"] /\ (pc'["s2c"] = "write" <=> pc["s2c"] = "write")
  /\ held'["rdr"] = held["rdr"] /\ (pc'["rdr"] = "put" <=> pc["rdr"] = "put")
  /\ Carrying' => Carrying
  /\ pc'["main"] \in {"auth", "reply"} => pc["main"] \in {"auth", "reply"}
  /\ pc'["main"] \in Early \ {"auth", "reply"} => pc["main"] \in Early \ {"auth", "reply"}

LEMMA DownFrame ==
  ASSUME DownOrder, DownCount, DownSame
  PROVE  DownOrder' /\ DownCount'
<1>1. Preamble' = Preamble /\ Written' = Written /\ In' = In /\ Read2c' = Read2c
  BY DEF DownSame, Preamble, Written, In, Read2c
<1>2. \A i : DownNum(i)' = DownNum(i)
  BY <1>1 DEF DownNum
<1>3. DownOrder'
  BY <1>1, <1>2 DEF DownSame, DownOrder, DownNum
<1>4. DownCount'
  BY <1>1 DEF DownSame, DownCount
<1> QED
  BY <1>3, <1>4

LEMMA DownCliRecv ==
  ASSUME TypeOK, DownOrder, DownCount, CliRecv
  PROVE  DownOrder' /\ DownCount'
<1>0. /\ Preamble \in Nat /\ cliGot \in Seq(Nat) /\ toCli \in Seq(Nat) /\ Len(cliGot) \in Nat
      /\ Len(toCli) \in Nat
  BY DownTypes
<1>1. /\ toCli # <<>> /\ cliGot' = Append(cliGot, Head(toCli)) /\ toCli' = Tail(toCli) /\ cli # "closed"
      /\ UNCHANGED <<pc, held, chans2c, dst, remRead, first, cli>>
  BY DEF CliRecv, dataVars
<1>2. /\ Len(toCli) >= 1 /\ Head(toCli) = toCli[1] /\ Head(toCli) \in Nat
      /\ Len(toCli') = Len(toCli) - 1 /\ \A i \in 1 .. Len(toCli') : toCli'[i] = toCli[i + 1]
  BY <1>0, <1>1, HeadTailProperties, EmptySeq
<1>3. /\ Len(cliGot') = Len(cliGot) + 1 /\ cliGot'[Len(cliGot) + 1] = toCli[1]
      /\ \A i \in 1 .. Len(cliGot) : cliGot'[i] = cliGot[i]
  BY <1>0, <1>1, <1>2, AppendProperties
<1>4. Preamble' = Preamble /\ Written' = Written
  BY <1>0, <1>1, <1>2, <1>3 DEF Preamble, Written
<1>D. \A i : DownNum(i)' = DownNum(i)
  BY <1>4 DEF DownNum
<1>5. DownOrder'
  <2>1. ASSUME NEW i \in 1 .. Len(cliGot') PROVE cliGot'[i] = DownNum(i)
    <3>1. toCli[1] = DownNum(Len(cliGot) + 1)
      BY <1>0, <1>2 DEF DownOrder
    <3>2. CASE i = Len(cliGot) + 1
      BY <1>0, <1>3, <3>1, <3>2
    <3>3. CASE i \in 1 .. Len(cliGot)
      BY <1>3, <3>3 DEF DownOrder
    <3> QED
      BY <1>0, <1>3, <3>2, <3>3
  <2>2. ASSUME NEW i \in 1 .. Len(toCli') PROVE toCli'[i] = DownNum(Len(cliGot') + i)
    <3>1. i + 1 \in 1 .. Len(toCli) /\ Len(cliGot') + i = Len(cliGot) + (i + 1)
      BY <1>0, <1>2, <1>3
    <3>2. toCli[i + 1] = DownNum(Len(cliGot) + (i + 1))
      BY <3>1 DEF DownOrder
    <3> QED
      BY <1>2, <3>1, <3>2
  <2> QED
    BY <1>1, <1>D, <1>4, <2>1, <2>2 DEF DownOrder, DownNum
<1>6. In' = In /\ Read2c' = Read2c /\ Carrying' = Carrying
  BY <1>1, <1>4 DEF In, Read2c, Carrying
<1>7. DownCount'
  BY <1>1, <1>4, <1>6 DEF DownCount
<1> QED
  BY <1>5, <1>7

LEMMA DownCliClose ==
  ASSUME TypeOK, DownOrder, CliClose
  PROVE  DownOrder' /\ DownCount'
<1>1. cli' = "closed" /\ toCli' = <<>> /\ cliGot' = cliGot /\ first' = first
  BY DEF CliClose
<1> QED
  BY <1>1 DEF DownOrder, DownCount, DownNum, Preamble

\* A write appends the number that comes next.
LEMMA DownAppend ==
  ASSUME TypeOK, DownOrder, NEW x \in Nat, cli = "open" => x = DownNum(Written + 1), WriteCli(x),
         UNCHANGED <<cli, cliGot, first>>
  PROVE  DownOrder' /\ (cli = "open" => Written' = Written + 1)
<1>0. /\ Preamble \in Nat /\ toCli \in Seq(Nat) /\ Len(cliGot) \in Nat /\ Len(toCli) \in Nat
  BY DownTypes
<1>1. Preamble' = Preamble
  BY DEF Preamble
<1>2. CASE cli = "open"
  <2>1. toCli' = Append(toCli, x) /\ x = DownNum(Len(cliGot) + Len(toCli) + 1)
    BY <1>2 DEF WriteCli, Written
  <2>2. /\ Len(toCli') = Len(toCli) + 1 /\ toCli'[Len(toCli) + 1] = x
        /\ \A i \in 1 .. Len(toCli) : toCli'[i] = toCli[i]
    BY <1>0, <2>1, AppendProperties
  <2>3. ASSUME NEW i \in 1 .. Len(toCli') PROVE toCli'[i] = DownNum(Len(cliGot) + i)
    <3>1. CASE i = Len(toCli) + 1
      <4>1. Len(cliGot) + i = Len(cliGot) + Len(toCli) + 1
        BY <1>0, <3>1
      <4> QED
        BY <2>1, <2>2, <3>1, <4>1
    <3>2. CASE i \in 1 .. Len(toCli)
      BY <2>2, <3>2 DEF DownOrder
    <3> QED
      BY <1>0, <2>2, <3>1, <3>2
  <2>4. DownOrder'
    BY <1>1, <1>2, <2>3 DEF DownOrder, DownNum
  <2> QED
    BY <1>0, <2>2, <2>4 DEF Written
<1>3. CASE cli # "open"
  <2>1. toCli' = toCli
    BY <1>3 DEF WriteCli
  <2> QED
    BY <1>1, <1>3, <2>1 DEF DownOrder, DownNum
<1> QED
  BY <1>2, <1>3

\* The replies of auth and of checkFirst.
LEMMA DownReply ==
  ASSUME TypeOK, SyncInv, StageInv, DownOrder, DownCount, AuthReply \/ DnsReply
  PROVE  DownOrder' /\ DownCount'
<1>0. /\ Preamble \in {1, 2} /\ (first = "dns" => Preamble = 2) /\ Len(cliGot) \in Nat /\ Len(toCli) \in Nat
      /\ pc \in [Thread -> Places] /\ remRead \in Nat /\ cli \in {"open", "closed"}
  BY DownTypes DEF TypeOK, CliOK
<1>1. /\ pc["main"] \in {"reply", "found", "notfound"}
      /\ UNCHANGED <<cli, cliGot, first, dst, held, chans2c, remRead>>
  BY DEF AuthReply, DnsReply, Goto, dataVars
<1>2. pc["c2s"] = "off" /\ ~ dst /\ NoData
  BY <1>1 DEF SyncInv, PhaseInv, StageInv, Early
<1>3. \E q \in {"spawn", "done", "goc2s", "err"} :
        pc' = [pc EXCEPT !["main"] = q] /\ (q = "spawn" => pc["main"] = "reply") /\ (q = "goc2s" => pc["main"] = "found")
  BY DEF AuthReply, DnsReply, Goto
<1>4. /\ pc'["c2s"] = "off" /\ pc'["s2c"] # "write" /\ pc'["rdr"] = "off"
      /\ pc'["main"] \in {"spawn", "done", "goc2s", "err"}
      /\ (pc'["main"] = "spawn" => pc["main"] = "reply") /\ (pc'["main"] = "goc2s" => pc["main"] = "found")
  BY <1>0, <1>2, <1>3 DEF Thread, NoData
<1>5. CASE cli = "closed"
  <2>1. toCli' = toCli
    BY <1>5 DEF AuthReply, DnsReply, WriteCli
  <2> QED
    BY <1>1, <1>5, <2>1 DEF DownOrder, DownCount, DownNum, Preamble
<1>6. CASE cli = "open"
  <2>1. WriteCli(0)
    BY <1>6 DEF AuthReply, DnsReply
  <2>2. Written \in Nat /\ Written + 1 <= Preamble
    <3>1. pc["main"] = "reply" => Written = 0
      BY <1>6 DEF DownCount
    <3>2. pc["main"] \in {"found", "notfound"} => Written = 1 /\ first = "dns"
      BY <1>6 DEF DownCount, Early, StageInv
    <3> QED
      BY <1>0, <1>1, <3>1, <3>2
  <2>3. 0 = DownNum(Written + 1)
    BY <2>2 DEF DownNum
  <2>4. DownOrder' /\ Written' = Written + 1
    BY <1>1, <1>6, <2>1, <2>3, DownAppend
  <2>5. pc'["main"] = "spawn" => Written' = 1
    BY <1>4, <1>6, <2>4 DEF DownCount
  <2>6. pc'["main"] = "goc2s" => Written' = Preamble
    <3>1. pc["main"] = "found" => Written = 1 /\ Preamble = 2
      BY <1>0, <1>6 DEF DownCount, Early, StageInv
    <3> QED
      BY <1>4, <2>4, <3>1
  <2>7. Preamble' = Preamble /\ Read2c' = Written' /\ remRead' = 0 /\ chans2c' = <<>> /\ Written' \in Nat
    <3>1. Len(chans2c') = 0 /\ chans2c' = <<>> /\ remRead' = 0
      BY <1>1, <1>2 DEF NoData
    <3> QED
      BY <1>1, <1>4, <2>2, <2>4, <3>1 DEF Preamble, Read2c, In
  <2>8. Carrying' => pc'["main"] = "goc2s"
    BY <1>1, <1>2, <1>4 DEF Carrying
  <2>9. DownCount'
    BY <1>0, <1>4, <2>5, <2>6, <2>7, <2>8 DEF DownCount, Early
  <2> QED
    BY <2>4, <2>9
<1> QED
  BY <1>0, <1>5, <1>6

\* checkFirst has read data: the client has had its reply, and no more.
LEMMA DownFirst ==
  ASSUME TypeOK, SyncInv, StageInv, DownOrder, DownCount, FirstRead
  PROVE  DownOrder' /\ DownCount'
<1>0. /\ Preamble \in {1, 2} /\ (first = "data" => Preamble = 1) /\ Len(cliGot) \in Nat /\ Len(toCli) \in Nat
      /\ pc \in [Thread -> Places] /\ held \in [Thread -> Nat] /\ first \in {"dns", "data"}
  BY DownTypes DEF TypeOK, CliOK
<1>1. /\ pc["main"] = "first" /\ UNCHANGED <<first, cli, cliGot, toCli, chans2c, remRead, dst>>
      /\ \/ pc' = [pc EXCEPT !["main"] = "dial"] /\ first # "dns"
         \/ pc' = [pc EXCEPT !["main"] = "lookup"]
         \/ pc' = [pc EXCEPT !["main"] = "err"]
      /\ \/ held' = held
         \/ \E h : held' = [held EXCEPT !["main"] = h]
  BY DEF FirstRead, Goto, cliVars
<1>2. pc["c2s"] = "off" /\ ~ dst /\ NoData
  BY <1>1 DEF SyncInv, PhaseInv, StageInv, Early
<1>3. held'["s2c"] = held["s2c"] /\ held'["rdr"] = held["rdr"]
  BY <1>0, <1>1 DEF Thread
<1>4. CASE pc' # [pc EXCEPT !["main"] = "dial"]
  <2>1. DownSame
    BY <1>0, <1>1, <1>2, <1>3, <1>4 DEF DownSame, Carrying, Early, Thread
  <2> QED
    BY <2>1, DownFrame
<1>5. CASE pc' = [pc EXCEPT !["main"] = "dial"]
  <2>1. pc'["main"] = "dial" /\ pc'["s2c"] # "write" /\ pc'["rdr"] = "off" /\ first = "data"
    BY <1>0, <1>1, <1>2, <1>5 DEF Thread, NoData
  <2>2. Preamble' = Preamble /\ Preamble = 1 /\ Written' = Written /\ Written \in Nat /\ remRead' = 0 /\ chans2c' = <<>>
    BY <1>0, <1>1, <1>2, <2>1 DEF Preamble, Written, NoData
  <2>3. cli' = "open" => Written = 1
    BY <1>1 DEF DownCount, Early
  <2>4. Read2c' = Written
    <3>1. Len(chans2c') = 0
      BY <2>2
    <3> QED
      BY <2>1, <2>2, <3>1 DEF Read2c, In
  <2>5. DownCount'
    BY <2>1, <2>2, <2>3, <2>4 DEF DownCount, Early
  <2>6. DownOrder'
    BY <1>1, <2>2 DEF DownOrder, DownNum
  <2> QED
    BY <2>5, <2>6
<1> QED
  BY <1>4, <1>5

LEMMA DownRdrRead ==
  ASSUME TypeOK, StageInv, DownOrder, DownCount, RdrRead
  PROVE  DownOrder' /\ DownCount'
<1>0. /\ Preamble \in Nat /\ Len(cliGot) \in Nat /\ Len(toCli) \in Nat /\ Len(chans2c) \in Nat
      /\ pc \in [Thread -> Places] /\ held \in [Thread -> Nat] /\ remRead \in Nat
  BY DownTypes
<1>1. pc["rdr"] = "read" /\ UNCHANGED <<first, cli, cliGot, toCli, chans2c, dst>>
  BY DEF RdrRead, Goto, cliVars
<1>2. CASE pc' = [pc EXCEPT !["rdr"] = "done"] /\ UNCHANGED <<remRead, held>>
  <2>1. DownSame
    BY <1>0, <1>1, <1>2 DEF DownSame, Thread, Carrying
  <2> QED
    BY <2>1, DownFrame
<1>3. CASE /\ pc' = [pc EXCEPT !["rdr"] = "put"] /\ remRead' = remRead + 1
           /\ held' = [held EXCEPT !["rdr"] = remRead + 1]
  <2>1. /\ pc'["rdr"] = "put" /\ held'["rdr"] = remRead' /\ held'["s2c"] = held["s2c"]
        /\ pc'["main"] = pc["main"] /\ pc'["s2c"] = pc["s2c"] /\ pc'["c2s"] = pc["c2s"]
    BY <1>0, <1>3 DEF Thread
  <2>2. /\ Preamble' = Preamble /\ Written' = Written /\ In' = In /\ In \in Nat /\ Carrying' = Carrying
        /\ Written \in Nat
    BY <1>0, <1>1, <2>1 DEF Preamble, Written, In, Carrying
  <2>3. Read2c' = Read2c + 1
    BY <1>0, <1>1, <2>1, <2>2 DEF Read2c
  <2>4. DownCount'
    BY <1>0, <1>1, <1>3, <2>1, <2>2, <2>3 DEF DownCount
  <2>5. DownOrder'
    BY <1>1, <2>2 DEF DownOrder, DownNum
  <2> QED
    BY <2>4, <2>5
<1> QED
  BY <1>2, <1>3 DEF RdrRead, Goto

LEMMA DownRdrPut ==
  ASSUME TypeOK, StageInv, DownOrder, DownCount, RdrPut
  PROVE  DownOrder' /\ DownCount'
<1>0. /\ Preamble \in Nat /\ Len(cliGot) \in Nat /\ Len(toCli) \in Nat
      /\ chans2c \in Seq(Nat) /\ Len(chans2c) \in {0, 1} /\ (Len(chans2c) = 0 => chans2c = <<>>)
      /\ pc \in [Thread -> Places] /\ held \in [Thread -> Nat] /\ remRead \in Nat
  BY DownTypes
<1>1. /\ pc["rdr"] = "put" /\ pc' = [pc EXCEPT !["rdr"] = "read"] /\ held' = [held EXCEPT !["rdr"] = 0]
      /\ chans2c' = Append(chans2c, held["rdr"]) /\ Len(chans2c) < 1
      /\ UNCHANGED <<first, cli, cliGot, toCli, dst, remRead>>
  BY DEF RdrPut, Goto, cliVars, ChanCap
<1>2. Len(chans2c) = 0 /\ Len(chans2c') = 1 /\ chans2c'[1] = held["rdr"]
  <2>1. Len(chans2c) = 0 /\ held["rdr"] \in Nat
    BY <1>0, <1>1 DEF Thread
  <2>2. Len(Append(chans2c, held["rdr"])) = 1 /\ Append(chans2c, held["rdr"])[1] = held["rdr"]
    <3>1. \A s \in Seq(Nat), x \in Nat : Len(Append(s, x)) = Len(s) + 1 /\ Append(s, x)[Len(s) + 1] = x
      BY AppendProperties
    <3> QED
      BY <1>0, <2>1, <3>1
  <2> QED
    BY <1>1, <2>1, <2>2
<1>3. /\ pc'["rdr"] = "read" /\ held'["s2c"] = held["s2c"]
      /\ pc'["main"] = pc["main"] /\ pc'["s2c"] = pc["s2c"] /\ pc'["c2s"] = pc["c2s"]
  BY <1>0, <1>1 DEF Thread
<1>4. /\ Preamble' = Preamble /\ Written' = Written /\ In' = In /\ In \in Nat /\ Carrying' = Carrying
      /\ Written \in Nat
  BY <1>0, <1>1, <1>3 DEF Preamble, Written, In, Carrying
<1>5. Read2c' = Read2c /\ Read2c = In + 1
  BY <1>0, <1>1, <1>2, <1>3, <1>4 DEF Read2c
<1>6. cli = "open" => held["rdr"] + Preamble = In + 1
  <2>1. Carrying
    BY <1>1 DEF StageInv, NoData, Carrying
  <2> QED
    BY <1>0, <1>1, <1>5, <2>1 DEF DownCount
<1>7. DownCount'
  BY <1>0, <1>1, <1>2, <1>3, <1>4, <1>5, <1>6 DEF DownCount
<1>8. DownOrder'
  BY <1>1, <1>4 DEF DownOrder, DownNum
<1> QED
  BY <1>7, <1>8

LEMMA DownS2CTake ==
  ASSUME TypeOK, DownOrder, DownCount, S2CTake
  PROVE  DownOrder' /\ DownCount'
<1>0. /\ Preamble \in Nat /\ Len(cliGot) \in Nat /\ Len(toCli) \in Nat
      /\ chans2c \in Seq(Nat) /\ Len(chans2c) \in {0, 1} /\ (Len(chans2c) = 0 => chans2c = <<>>)
      /\ pc \in [Thread -> Places] /\ held \in [Thread -> Nat]
  BY DownTypes
<1>1. /\ chans2c # <<>> /\ pc["s2c"] = "loop" /\ pc' = [pc EXCEPT !["s2c"] = "write"]
      /\ held' = [held EXCEPT !["s2c"] = Head(chans2c)] /\ chans2c' = Tail(chans2c)
      /\ UNCHANGED <<first, dst, remRead, cli, cliGot, toCli>>
  BY DEF S2CTake, Goto, cliVars
<1>2. Head(chans2c) = chans2c[1] /\ chans2c' = <<>> /\ Len(chans2c) = 1 /\ Len(chans2c') = 0
  <2>1. Len(chans2c) = 1
    BY <1>0, <1>1
  <2>2. Tail(chans2c) \in Seq(Nat) /\ Len(Tail(chans2c)) = 0 /\ Head(chans2c) = chans2c[1]
    BY <1>0, <1>1, <2>1, HeadTailProperties
  <2> QED
    BY <1>1, <2>1, <2>2, EmptySeq
<1>3. /\ pc'["s2c"] = "write" /\ held'["s2c"] = chans2c[1] /\ held'["rdr"] = held["rdr"]
      /\ pc'["main"] = pc["main"] /\ pc'["c2s"] = pc["c2s"] /\ pc'["rdr"] = pc["rdr"]
  BY <1>0, <1>1, <1>2 DEF Thread
<1>4. /\ Preamble' = Preamble /\ Written' = Written /\ Written \in Nat /\ In' = In + 1 /\ In \in Nat
      /\ Carrying' = Carrying
  BY <1>0, <1>1, <1>3 DEF Preamble, Written, In, Carrying
<1>5. Read2c' = Read2c
  BY <1>0, <1>2, <1>3, <1>4 DEF Read2c
<1>6. DownCount'
  BY <1>0, <1>1, <1>2, <1>3, <1>4, <1>5 DEF DownCount
<1>7. DownOrder'
  BY <1>1, <1>4 DEF DownOrder, DownNum
<1> QED
  BY <1>6, <1>7

LEMMA DownS2CWrite ==
  ASSUME TypeOK, StageInv, DownOrder, DownCount, S2CWrite
  PROVE  DownOrder' /\ DownCount'
<1>0. /\ Preamble \in Nat /\ Len(cliGot) \in Nat /\ Len(toCli) \in Nat /\ Len(chans2c) \in Nat
      /\ pc \in [Thread -> Places] /\ held \in [Thread -> Nat] /\ cli \in {"open", "closed"}
  BY DownTypes DEF TypeOK, CliOK
<1>1. /\ pc["s2c"] = "write" /\ held' = [held EXCEPT !["s2c"] = 0]
      /\ \/ pc' = [pc EXCEPT !["s2c"] = "loop"] /\ WriteCli(held["s2c"])
         \/ pc' = [pc EXCEPT !["s2c"] = "end"] /\ cli = "closed" /\ UNCHANGED toCli
      /\ UNCHANGED <<first, dst, remRead, cli, cliGot, chans2c>>
  BY DEF S2CWrite, Goto
<1>2. CASE cli = "closed"
  <2>1. toCli' = toCli
    BY <1>1, <1>2 DEF WriteCli
  <2> QED
    BY <1>1, <1>2, <2>1 DEF DownOrder, DownCount, DownNum, Preamble
<1>3. CASE cli = "open"
  <2>1. WriteCli(held["s2c"]) /\ pc' = [pc EXCEPT !["s2c"] = "loop"]
    BY <1>1, <1>3
  <2>2. held["s2c"] \in Nat /\ held["s2c"] = DownNum(Written + 1)
    <3>1. Carrying /\ held["s2c"] \in Nat
      BY <1>0, <1>1 DEF StageInv, NoData, Carrying, Thread
    <3>2. Written >= Preamble /\ held["s2c"] + Preamble = In /\ In = Written + 1 /\ Written \in Nat
      BY <1>0, <1>1, <1>3, <3>1 DEF DownCount, In, Written
    <3> QED
      BY <1>0, <3>1, <3>2 DEF DownNum
  <2>3. DownOrder' /\ Written' = Written + 1
    BY <1>1, <1>3, <2>1, <2>2, DownAppend
  <2>4. /\ pc'["s2c"] = "loop" /\ held'["rdr"] = held["rdr"]
        /\ pc'["main"] = pc["main"] /\ pc'["c2s"] = pc["c2s"] /\ pc'["rdr"] = pc["rdr"]
    BY <1>0, <1>1, <2>1 DEF Thread
  <2>5. /\ Preamble' = Preamble /\ In' = In /\ Written \in Nat /\ Carrying' = Carrying
    BY <1>0, <1>1, <2>3, <2>4 DEF Preamble, In, Written, Carrying
  <2>6. Read2c' = Read2c
    BY <1>1, <2>4, <2>5 DEF Read2c
  <2>7. pc["main"] \notin Early
    BY <1>1 DEF StageInv, NoData
  <2>8. DownCount'
    BY <1>0, <1>1, <1>3, <2>3, <2>4, <2>5, <2>6, <2>7 DEF DownCount, Early
  <2> QED
    BY <2>3, <2>8
<1> QED
  BY <1>0, <1>2, <1>3

LEMMA DownStep == TypeOK /\ SyncInv /\ StageInv /\ DownOrder /\ DownCount /\ [Next]_vars => DownOrder' /\ DownCount'
<1> SUFFICES ASSUME TypeOK, SyncInv, StageInv, DownOrder, DownCount, [Next]_vars PROVE DownOrder' /\ DownCount'
  OBVIOUS
<1>T. pc \in [Thread -> Places] /\ held \in [Thread -> Nat]
  BY DownTypes
<1>P. /\ pc["c2s"] # "off" => pc["main"] \in {"add1", "wait", "close", "done"}
      /\ pc["main"] \in {"start1", "start2", "put"} => dst
      /\ pc["r2s"] \in {"wait", "go"} => pc["rdr"] = "off"
      /\ pc["main"] = "spawn" => pc["s2c"] = "off"
  BY DEF SyncInv, PhaseInv, StageInv, NoData, Fresh
<1> USE DEF Thread, Goto, syncVars, dataVars, cliVars, remVars, Carrying, Early
<1>1. CASE Client
  <2>1. CASE CliSend
    <3>1. DownSame
      BY <1>T, <1>P, <2>1 DEF CliSend, DownSame
    <3> QED
      BY <3>1, DownFrame
  <2>2. CASE CliRecv
    BY <2>2, DownCliRecv
  <2>3. CASE CliClose
    BY <2>3, DownCliClose
  <2> QED
    BY <1>1, <2>1, <2>2, <2>3 DEF Client
<1>2. CASE Remote
  <2>1. CASE RemSend
    <3>1. DownSame
      BY <1>T, <1>P, <2>1 DEF RemSend, DownSame
    <3> QED
      BY <3>1, DownFrame
  <2>2. CASE RemRecv
    <3>1. DownSame
      BY <1>T, <1>P, <2>2 DEF RemRecv, DownSame
    <3> QED
      BY <3>1, DownFrame
  <2>3. CASE RemFin
    <3>1. DownSame
      BY <1>T, <1>P, <2>3 DEF RemFin, DownSame
    <3> QED
      BY <3>1, DownFrame
  <2>4. CASE RemClose
    <3>1. DownSame
      BY <1>T, <1>P, <2>4 DEF RemClose, DownSame
    <3> QED
      BY <3>1, DownFrame
  <2> QED
    BY <1>2, <2>1, <2>2, <2>3, <2>4 DEF Remote
<1>3. CASE Main
  <2>1. CASE AuthRead
    <3>1. DownSame
      BY <1>T, <1>P, <2>1 DEF AuthRead, DownSame
    <3> QED
      BY <3>1, DownFrame
  <2>2. CASE AuthReply
    BY <2>2, DownReply
  <2>3. CASE Spawn
    <3>1. DownSame
      BY <1>T, <1>P, <2>3 DEF Spawn, DownSame
    <3> QED
      BY <3>1, DownFrame
  <2>4. CASE Add3
    <3>1. DownSame
      BY <1>T, <1>P, <2>4 DEF Add3, DownSame
    <3> QED
      BY <3>1, DownFrame
  <2>5. CASE FirstRead
    BY <2>5, DownFirst
  <2>6. CASE Lookup
    <3>1. DownSame
      BY <1>T, <1>P, <2>6 DEF Lookup, DownSame
    <3> QED
      BY <3>1, DownFrame
  <2>7. CASE DnsReply
    BY <2>7, DownReply
  <2>8. CASE Dial("main")
    <3>1. DownSame
      BY <1>T, <1>P, <2>8 DEF Dial, DownSame
    <3> QED
      BY <3>1, DownFrame
  <2>9. CASE Start("main")
    <3>1. DownSame
      BY <1>T, <1>P, <2>9 DEF Start, DownSame
    <3> QED
      BY <3>1, DownFrame
  <2>10. CASE Put("main")
    <3>1. DownSame
      BY <1>T, <1>P, <2>10 DEF Put, DownSame
    <3> QED
      BY <3>1, DownFrame
  <2>11. CASE GoC2S
    <3>1. DownSame
      BY <1>T, <1>P, <2>11 DEF GoC2S, DownSame
    <3> QED
      BY <3>1, DownFrame
  <2>12. CASE Add1
    <3>1. DownSame
      BY <1>T, <1>P, <2>12 DEF Add1, DownSame
    <3> QED
      BY <3>1, DownFrame
  <2>13. CASE FirstFailed
    <3>1. DownSame
      BY <1>T, <1>P, <2>13 DEF FirstFailed, DownSame
    <3> QED
      BY <3>1, DownFrame
  <2>14. CASE Wait
    <3>1. DownSame
      BY <1>T, <1>P, <2>14 DEF Wait, DownSame
    <3> QED
      BY <3>1, DownFrame
  <2>15. CASE CloseSession
    <3>1. DownSame
      BY <1>T, <1>P, <2>15 DEF CloseSession, DownSame
    <3> QED
      BY <3>1, DownFrame
  <2> QED
    BY <1>3, <2>1, <2>2, <2>3, <2>4, <2>5, <2>6, <2>7, <2>8, <2>9, <2>10, <2>11, <2>12, <2>13, <2>14, <2>15 DEF Main
<1>4. CASE C2S
  <2>1. CASE C2SRead
    <3>1. DownSame
      BY <1>T, <1>P, <2>1 DEF C2SRead, DownSame
    <3> QED
      BY <3>1, DownFrame
  <2>2. CASE Dial("c2s")
    <3>1. DownSame
      BY <1>T, <1>P, <2>2 DEF Dial, DownSame
    <3> QED
      BY <3>1, DownFrame
  <2>3. CASE Start("c2s")
    <3>1. DownSame
      BY <1>T, <1>P, <2>3 DEF Start, DownSame
    <3> QED
      BY <3>1, DownFrame
  <2>4. CASE Put("c2s")
    <3>1. DownSame
      BY <1>T, <1>P, <2>4 DEF Put, DownSame
    <3> QED
      BY <3>1, DownFrame
  <2>5. CASE SendEnd("c2s", "s2r")
    <3>1. DownSame
      BY <1>T, <1>P, <2>5 DEF SendEnd, DownSame
    <3> QED
      BY <3>1, DownFrame
  <2>6. CASE WgDone("c2s")
    <3>1. DownSame
      BY <1>T, <1>P, <2>6 DEF WgDone, DownSame
    <3> QED
      BY <3>1, DownFrame
  <2> QED
    BY <1>4, <2>1, <2>2, <2>3, <2>4, <2>5, <2>6 DEF C2S
<1>5. CASE S2R
  <2>1. CASE TakeEnd("s2r", "wait")
    <3>1. DownSame
      BY <1>T, <1>P, <2>1 DEF TakeEnd, DownSame
    <3> QED
      BY <3>1, DownFrame
  <2>2. CASE TakeEnd("s2r", "loop")
    <3>1. DownSame
      BY <1>T, <1>P, <2>2 DEF TakeEnd, DownSame
    <3> QED
      BY <3>1, DownFrame
  <2>3. CASE S2RTake
    <3>1. DownSame
      BY <1>T, <1>P, <2>3 DEF S2RTake, DownSame
    <3> QED
      BY <3>1, DownFrame
  <2>4. CASE S2RWrite
    <3>1. DownSame
      BY <1>T, <1>P, <2>4 DEF S2RWrite, DownSame
    <3> QED
      BY <3>1, DownFrame
  <2>5. CASE SendEnd("s2r", "r2s")
    <3>1. DownSame
      BY <1>T, <1>P, <2>5 DEF SendEnd, DownSame
    <3> QED
      BY <3>1, DownFrame
  <2>6. CASE WgDone("s2r")
    <3>1. DownSame
      BY <1>T, <1>P, <2>6 DEF WgDone, DownSame
    <3> QED
      BY <3>1, DownFrame
  <2> QED
    BY <1>5, <2>1, <2>2, <2>3, <2>4, <2>5, <2>6 DEF S2R
<1>6. CASE R2S
  <2>1. CASE TakeEnd("r2s", "wait")
    <3>1. DownSame
      BY <1>T, <1>P, <2>1 DEF TakeEnd, DownSame
    <3> QED
      BY <3>1, DownFrame
  <2>2. CASE R2SGo
    <3>1. DownSame
      BY <1>T, <1>P, <2>2 DEF R2SGo, DownSame
    <3> QED
      BY <3>1, DownFrame
  <2>3. CASE R2SErr
    <3>1. DownSame
      BY <1>T, <1>P, <2>3 DEF R2SErr, DownSame
    <3> QED
      BY <3>1, DownFrame
  <2>4. CASE TakeEnd("r2s", "select")
    <3>1. DownSame
      BY <1>T, <1>P, <2>4 DEF TakeEnd, DownSame
    <3> QED
      BY <3>1, DownFrame
  <2>5. CASE SendEnd("r2s", "s2c")
    <3>1. DownSame
      BY <1>T, <1>P, <2>5 DEF SendEnd, DownSame
    <3> QED
      BY <3>1, DownFrame
  <2>6. CASE WgDone("r2s")
    <3>1. DownSame
      BY <1>T, <1>P, <2>6 DEF WgDone, DownSame
    <3> QED
      BY <3>1, DownFrame
  <2> QED
    BY <1>6, <2>1, <2>2, <2>3, <2>4, <2>5, <2>6 DEF R2S
<1>7. CASE Rdr
  <2>1. CASE RdrRead
    BY <2>1, DownRdrRead
  <2>2. CASE RdrPut
    BY <2>2, DownRdrPut
  <2> QED
    BY <1>7, <2>1, <2>2 DEF Rdr
<1>8. CASE S2C
  <2>1. CASE S2CTake
    BY <2>1, DownS2CTake
  <2>2. CASE S2CWrite
    BY <2>2, DownS2CWrite
  <2>3. CASE TakeEnd("s2c", "loop")
    <3>1. DownSame
      BY <1>T, <1>P, <2>3 DEF TakeEnd, DownSame
    <3> QED
      BY <3>1, DownFrame
  <2>4. CASE SendEnd("s2c", "s2c")
    <3>1. DownSame
      BY <1>T, <1>P, <2>4 DEF SendEnd, DownSame
    <3> QED
      BY <3>1, DownFrame
  <2>5. CASE WgDone("s2c")
    <3>1. DownSame
      BY <1>T, <1>P, <2>5 DEF WgDone, DownSame
    <3> QED
      BY <3>1, DownFrame
  <2> QED
    BY <1>8, <2>1, <2>2, <2>3, <2>4, <2>5 DEF S2C
<1>9. CASE UNCHANGED vars
  <2>1. DownSame
    BY <1>9 DEF vars, DownSame
  <2> QED
    BY <2>1, DownFrame
<1> QED
  BY <1>1, <1>2, <1>3, <1>4, <1>5, <1>6, <1>7, <1>8, <1>9 DEF Next, Server

-----------------------------------------------------------------------------
(* The theorems *)

LEMMA DataInit == Init => DataInv
<1> SUFFICES ASSUME Init PROVE DataInv
  OBVIOUS
<1>1. StageInv /\ EndInv
  BY StageInit
<1>2. pc["main"] = "auth" /\ \A t \in Thread \ {"main"} : pc[t] = "off"
  BY DEF Init, Thread
<1>3. UpOrder /\ UpCount
  BY <1>2 DEF Init, UpOrder, UpCount, Waiting, Holding, Ended, Thread
<1>4. DownOrder /\ DownCount
  BY <1>2 DEF Init, DownOrder, DownCount, Written, Carrying, Early, Thread
<1> QED
  BY <1>1, <1>3, <1>4 DEF DataInv

LEMMA DataAlways == Spec => [](TypeOK /\ SyncInv /\ DataInv)
<1>1. TypeOK /\ SyncInv /\ DataInv /\ [Next]_vars => DataInv'
  BY StageStep, EndStep, UpStep, DownStep DEF DataInv
<1> QED
  BY <1>1, DataInit, SyncAlways, PTL DEF Spec

\* The remote host receives the client's data, and the client its replies and the remote host's
\* data, in order and without a gap, and no two goroutines write to, or read from, the client at
\* once (dealc2s, deals2r, dealr2s, deals2c).
THEOREM InOrderCorrect == Spec => []InOrder
<1>1. TypeOK /\ SyncInv /\ DataInv => InOrder
  <2> SUFFICES ASSUME TypeOK, SyncInv, DataInv PROVE InOrder
    OBVIOUS
  <2>1. /\ remGot \in Seq(Nat) /\ toRem \in Seq(Nat) /\ cliGot \in Seq(Nat) /\ toCli \in Seq(Nat)
        /\ Len(remGot) \in Nat /\ Len(toRem) \in Nat /\ Len(cliGot) \in Nat /\ Len(toCli) \in Nat
        /\ Preamble \in Nat
    BY UpTypes, DownTypes
  <2>2. ASSUME NEW i \in 1 .. Len(remGot \o toRem) PROVE (remGot \o toRem)[i] = Preamble + i
    <3>1. /\ Len(remGot \o toRem) = Len(remGot) + Len(toRem)
          /\ (remGot \o toRem)[i] = IF i <= Len(remGot) THEN remGot[i] ELSE toRem[i - Len(remGot)]
      BY <2>1, <2>2, ConcatProperties
    <3>2. CASE i <= Len(remGot)
      BY <2>1, <3>1, <3>2 DEF DataInv, UpOrder
    <3>3. CASE ~ (i <= Len(remGot))
      <4>1. i - Len(remGot) \in 1 .. Len(toRem)
        BY <2>1, <2>2, <3>1, <3>3
      <4>2. toRem[i - Len(remGot)] = Preamble + Len(remGot) + (i - Len(remGot))
        BY <4>1 DEF DataInv, UpOrder
      <4> QED
        BY <2>1, <3>1, <3>3, <4>2
    <3> QED
      BY <3>2, <3>3
  <2>3. ASSUME NEW i \in 1 .. Len(cliGot \o toCli) PROVE (cliGot \o toCli)[i] = DownNum(i)
    <3>1. /\ Len(cliGot \o toCli) = Len(cliGot) + Len(toCli)
          /\ (cliGot \o toCli)[i] = IF i <= Len(cliGot) THEN cliGot[i] ELSE toCli[i - Len(cliGot)]
      BY <2>1, <2>3, ConcatProperties
    <3>2. CASE i <= Len(cliGot)
      BY <2>1, <3>1, <3>2 DEF DataInv, DownOrder
    <3>3. CASE ~ (i <= Len(cliGot))
      <4>1. i - Len(cliGot) \in 1 .. Len(toCli) /\ Len(cliGot) + (i - Len(cliGot)) = i
        BY <2>1, <2>3, <3>1, <3>3
      <4>2. toCli[i - Len(cliGot)] = DownNum(Len(cliGot) + (i - Len(cliGot)))
        BY <4>1 DEF DataInv, DownOrder
      <4> QED
        BY <3>1, <3>3, <4>1, <4>2
    <3> QED
      BY <3>2, <3>3
  <2>4. ~(pc["main"] \in {"reply", "found", "notfound"} /\ pc["s2c"] = "write")
    BY DEF DataInv, StageInv, NoData, Early
  <2>5. ~(pc["main"] \in {"auth", "first"} /\ pc["c2s"] = "read")
    BY DEF SyncInv, PhaseInv
  <2> QED
    BY <2>2, <2>3, <2>4, <2>5 DEF InOrder, DownNum
<1> QED
  BY <1>1, DataAlways, PTL

\* However the goroutines end, at most what fits into the channel is lost of a direction whose
\* receiver keeps its connection.
THEOREM LossBoundCorrect == Spec => []LossBound
<1>1. TypeOK /\ SyncInv /\ DataInv => LossBound
  <2> SUFFICES ASSUME TypeOK, SyncInv, DataInv PROVE LossBound
    OBVIOUS
  <2>1. /\ Len(remGot) \in Nat /\ Len(toRem) \in Nat /\ Len(cliGot) \in Nat /\ Len(toCli) \in Nat
        /\ Preamble \in Nat /\ Len(chans2r) \in {0, 1} /\ Len(chans2c) \in {0, 1} /\ cliRead \in Nat
        /\ remRead \in Nat
    BY UpTypes, DownTypes
  <2>0. /\ \A x, p, r, t \in Nat, n \in {0, 1} : x = p + (r + t) + n => x - p - r - t <= 1
        /\ \A x, p, r, t \in Nat, n \in {0, 1} : x + p = (r + t) + n => x + p - r - t <= 1
    OBVIOUS
  <2>2. ASSUME Ended("c2s"), Ended("s2r"), dst, rem # "closed"
        PROVE  cliRead - Preamble - Len(remGot) - Len(toRem) <= ChanCap
    <3>1. cliRead = Preamble + (Len(remGot) + Len(toRem)) + Len(chans2r)
      BY <2>2 DEF DataInv, UpCount, Waiting, Put2r, Out, Ended
    <3> QED
      BY <2>1, <3>1, <2>0 DEF ChanCap
  <2>3. ASSUME pc["rdr"] = "done", Ended("s2c"), cli = "open"
        PROVE  remRead + Preamble - Len(cliGot) - Len(toCli) <= ChanCap
    <3>1. Carrying
      BY <2>3 DEF DataInv, StageInv, NoData, Carrying
    <3>2. Preamble + remRead = Len(cliGot) + Len(toCli) + Len(chans2c)
      BY <2>3, <3>1 DEF DataInv, DownCount, Read2c, In, Written, Ended
    <3>3. remRead + Preamble = (Len(cliGot) + Len(toCli)) + Len(chans2c)
      BY <2>1, <3>2
    <3> QED
      BY <2>0, <2>1, <3>3 DEF ChanCap
  <2> QED
    BY <2>2, <2>3 DEF LossBound
<1> QED
  BY <1>1, DataAlways, PTL

\* A session that opened a remote connection is closed only after the client's stream has ended,
\* whatever becomes of the remote connection.
THEOREM OnlyClientEndsCorrect == Spec => []OnlyClientEnds
<1>1. TypeOK /\ SyncInv /\ DataInv => OnlyClientEnds
  <2> SUFFICES ASSUME TypeOK, SyncInv, DataInv, mod = "closed", dst PROVE StreamEnded
    BY DEF OnlyClientEnds, StreamEnded
  <2>1. pc["c2s"] \in {"off", "done"} /\ pc["main"] = "done"
    BY DEF SyncInv, CloseAfterUsers, PhaseInv
  <2>2. pc["c2s"] = "done"
    BY <2>1 DEF DataInv, StageInv
  <2> QED
    BY <2>2 DEF DataInv, EndInv, Ended
<1> QED
  BY <1>1, DataAlways, PTL
=============================================================================
