---------------------------- MODULE GoProxyProofs ----------------------------
(***************************************************************************)
(* Theorems about GoProxy for every number of frames, chunks and buffer    *)
(* slots.                                                                  *)
(***************************************************************************)
EXTENDS GoProxy, TLAPS

\* A write appends to the socket buffer only where there is room.
LEMMA WriteCliRoom ==
  ASSUME NEW x \in Nat, toCli \in Seq(Nat), Len(toCli) <= SockBuf, WriteCli(x)
  PROVE  toCli' \in Seq(Nat) /\ Len(toCli') <= SockBuf
<1>1. CASE cli = "open" /\ Len(toCli) < SockBuf /\ toCli' = Append(toCli, x)
  BY <1>1, ProxyAssumption
<1>2. CASE cli = "closed" /\ UNCHANGED toCli
  BY <1>2
<1> QED
  BY <1>1, <1>2 DEF WriteCli

LEMMA WriteRemRoom ==
  ASSUME NEW x \in Nat, toRem \in Seq(Nat), Len(toRem) <= SockBuf, WriteRem(x)
  PROVE  toRem' \in Seq(Nat) /\ Len(toRem') <= SockBuf
<1>1. CASE rem # "closed" /\ Len(toRem) < SockBuf /\ toRem' = Append(toRem, x)
  BY <1>1, ProxyAssumption
<1>2. CASE rem = "closed" /\ UNCHANGED toRem
  BY <1>2
<1> QED
  BY <1>1, <1>2 DEF WriteRem

LEMMA TypeInit == Init => TypeOK
<1> SUFFICES ASSUME Init PROVE TypeOK
  OBVIOUS
<1> USE ProxyAssumption DEF Init
<1>1. PcOK
  BY DEF PcOK, MainPC, Places, Thread
<1>2. SyncOK
  <2>1. ends \in [{"s2r", "r2s", "s2c"} -> 0 .. EndCap]
    BY DEF EndCap
  <2>2. wg \in Int
    OBVIOUS
  <2>3. panicked \in BOOLEAN /\ ech \in BOOLEAN /\ mod \in {"none", "session", "closed"}
    OBVIOUS
  <2> QED
    BY <2>1, <2>2, <2>3 DEF SyncOK
<1>3. DataOK
  <2>1. held \in [Thread -> Nat]
    OBVIOUS
  <2>2. dst \in BOOLEAN
    OBVIOUS
  <2>3. chans2r \in Seq(Nat) /\ Len(chans2r) <= ChanCap /\ chans2c \in Seq(Nat) /\ Len(chans2c) <= ChanCap
    BY DEF ChanCap
  <2> QED
    BY <2>1, <2>2, <2>3 DEF DataOK
<1>4. CliOK
  BY DEF CliOK
<1>5. RemOK
  BY DEF RemOK
<1> QED
  BY <1>1, <1>2, <1>3, <1>4, <1>5 DEF TypeOK

LEMMA PcStep == TypeOK /\ [Next]_vars => PcOK'
<1> SUFFICES ASSUME TypeOK, [Next]_vars PROVE PcOK'
  OBVIOUS
<1> USE ProxyAssumption DEF TypeOK, Goto, syncVars, dataVars, cliVars, remVars, PcOK, MainPC, Places, Thread
<1>1. CASE Client
  BY <1>1 DEF Client, CliSend, CliRecv, CliClose
<1>2. CASE Remote
  BY <1>2 DEF Remote, RemSend, RemRecv, RemFin, RemClose
<1>3. CASE Main
  <2>1. CASE AuthRead
    BY <2>1 DEF AuthRead
  <2>2. CASE AuthReply
    BY <2>2 DEF AuthReply
  <2>3. CASE Spawn
    BY <2>3 DEF Spawn
  <2>4. CASE Add3
    BY <2>4 DEF Add3
  <2>5. CASE FirstRead
    BY <2>5 DEF FirstRead
  <2>6. CASE Lookup
    BY <2>6 DEF Lookup
  <2>7. CASE DnsReply
    BY <2>7 DEF DnsReply
  <2>8. CASE Dial("main")
    BY <2>8 DEF Dial
  <2>9. CASE Start("main")
    BY <2>9 DEF Start
  <2>10. CASE Put("main")
    BY <2>10 DEF Put
  <2>11. CASE GoC2S
    BY <2>11 DEF GoC2S
  <2>12. CASE Add1
    BY <2>12 DEF Add1
  <2>13. CASE FirstFailed
    BY <2>13 DEF FirstFailed
  <2>14. CASE Wait
    BY <2>14 DEF Wait
  <2>15. CASE CloseSession
    BY <2>15 DEF CloseSession
  <2> QED
    BY <1>3, <2>1, <2>2, <2>3, <2>4, <2>5, <2>6, <2>7, <2>8, <2>9, <2>10, <2>11, <2>12, <2>13, <2>14,
       <2>15 DEF Main
<1>4. CASE C2S
  BY <1>4 DEF C2S, C2SRead, Dial, Start, Put, SendEnd, WgDone, FrameReady
<1>5. CASE S2R
  BY <1>5 DEF S2R, TakeEnd, S2RTake, S2RWrite, SendEnd, WgDone
<1>6. CASE R2S
  BY <1>6 DEF R2S, TakeEnd, R2SGo, R2SErr, SendEnd, WgDone
<1>7. CASE Rdr
  BY <1>7 DEF Rdr, RdrRead, RdrPut
<1>8. CASE S2C
  BY <1>8 DEF S2C, S2CTake, S2CWrite, TakeEnd, SendEnd, WgDone
<1>9. CASE UNCHANGED vars
  BY <1>9 DEF vars
<1> QED
  BY <1>1, <1>2, <1>3, <1>4, <1>5, <1>6, <1>7, <1>8, <1>9 DEF Next, Server

LEMMA SyncTypeStep == TypeOK /\ [Next]_vars => SyncOK'
<1> SUFFICES ASSUME TypeOK, [Next]_vars PROVE SyncOK'
  OBVIOUS
<1> USE ProxyAssumption DEF TypeOK, Goto, syncVars, dataVars, cliVars, remVars, SyncOK, EndCap
<1>1. CASE Client
  BY <1>1 DEF Client, CliSend, CliRecv, CliClose
<1>2. CASE Remote
  BY <1>2 DEF Remote, RemSend, RemRecv, RemFin, RemClose
<1>3. CASE Main
  <2>1. CASE AuthRead
    BY <2>1 DEF AuthRead
  <2>2. CASE AuthReply
    BY <2>2 DEF AuthReply
  <2>3. CASE Spawn
    BY <2>3 DEF Spawn
  <2>4. CASE Add3
    BY <2>4 DEF Add3
  <2>5. CASE FirstRead
    BY <2>5 DEF FirstRead
  <2>6. CASE Lookup
    BY <2>6 DEF Lookup
  <2>7. CASE DnsReply
    BY <2>7 DEF DnsReply
  <2>8. CASE Dial("main")
    BY <2>8 DEF Dial
  <2>9. CASE Start("main")
    BY <2>9 DEF Start
  <2>10. CASE Put("main")
    BY <2>10 DEF Put
  <2>11. CASE GoC2S
    BY <2>11 DEF GoC2S
  <2>12. CASE Add1
    BY <2>12 DEF Add1
  <2>13. CASE FirstFailed
    BY <2>13 DEF FirstFailed
  <2>14. CASE Wait
    BY <2>14 DEF Wait
  <2>15. CASE CloseSession
    BY <2>15 DEF CloseSession
  <2> QED
    BY <1>3, <2>1, <2>2, <2>3, <2>4, <2>5, <2>6, <2>7, <2>8, <2>9, <2>10, <2>11, <2>12, <2>13, <2>14,
       <2>15 DEF Main
<1>4. CASE C2S
  <2>1. CASE SendEnd("c2s", "s2r")
    BY <2>1 DEF SendEnd
  <2>2. CASE WgDone("c2s")
    BY <2>2 DEF WgDone
  <2>3. CASE C2SRead \/ Dial("c2s") \/ Start("c2s") \/ Put("c2s")
    BY <2>3 DEF C2SRead, Dial, Start, Put
  <2> QED
    BY <1>4, <2>1, <2>2, <2>3 DEF C2S
<1>5. CASE S2R
  <2>1. CASE TakeEnd("s2r", "wait")
    BY <2>1 DEF TakeEnd
  <2>2. CASE TakeEnd("s2r", "loop")
    BY <2>2 DEF TakeEnd
  <2>3. CASE SendEnd("s2r", "r2s")
    BY <2>3 DEF SendEnd
  <2>4. CASE WgDone("s2r")
    BY <2>4 DEF WgDone
  <2>5. CASE S2RTake \/ S2RWrite
    BY <2>5 DEF S2RTake, S2RWrite
  <2> QED
    BY <1>5, <2>1, <2>2, <2>3, <2>4, <2>5 DEF S2R
<1>6. CASE R2S
  <2>1. CASE TakeEnd("r2s", "wait")
    BY <2>1 DEF TakeEnd
  <2>2. CASE R2SErr
    BY <2>2, ZenonT(60) DEF R2SErr
  <2>3. CASE TakeEnd("r2s", "select")
    BY <2>3 DEF TakeEnd
  <2>4. CASE SendEnd("r2s", "s2c")
    BY <2>4 DEF SendEnd
  <2>5. CASE WgDone("r2s")
    BY <2>5 DEF WgDone
  <2>6. CASE R2SGo
    BY <2>6 DEF R2SGo
  <2> QED
    BY <1>6, <2>1, <2>2, <2>3, <2>4, <2>5, <2>6 DEF R2S
<1>7. CASE Rdr
  BY <1>7, ZenonT(60) DEF Rdr, RdrRead, RdrPut
<1>8. CASE S2C
  <2>1. CASE TakeEnd("s2c", "loop")
    BY <2>1 DEF TakeEnd
  <2>2. CASE SendEnd("s2c", "s2c")
    BY <2>2 DEF SendEnd
  <2>3. CASE WgDone("s2c")
    BY <2>3 DEF WgDone
  <2>4. CASE S2CTake \/ S2CWrite
    BY <2>4 DEF S2CTake, S2CWrite
  <2> QED
    BY <1>8, <2>1, <2>2, <2>3, <2>4 DEF S2C
<1>9. CASE UNCHANGED vars
  BY <1>9 DEF vars
<1> QED
  BY <1>1, <1>2, <1>3, <1>4, <1>5, <1>6, <1>7, <1>8, <1>9 DEF Next, Server

LEMMA DataStep == TypeOK /\ [Next]_vars => DataOK'
<1> SUFFICES ASSUME TypeOK, [Next]_vars PROVE DataOK'
  OBVIOUS
<1> USE ProxyAssumption DEF TypeOK, Goto, syncVars, dataVars, cliVars, remVars, DataOK, ChanCap, Thread
<1>1. CASE Client
  BY <1>1 DEF Client, CliSend, CliRecv, CliClose
<1>2. CASE Remote
  BY <1>2 DEF Remote, RemSend, RemRecv, RemFin, RemClose
<1>3. CASE Main
  <2>1. CASE FirstRead
    BY <2>1 DEF FirstRead, CliOK
  <2>2. CASE Dial("main")
    BY <2>2, ZenonT(60) DEF Dial
  <2>3. CASE Put("main")
    BY <2>3 DEF Put
  <2>4. CASE AuthRead \/ AuthReply \/ Spawn \/ Add3 \/ Lookup \/ DnsReply \/
       Start("main") \/ GoC2S \/ Add1 \/ FirstFailed \/ Wait \/ CloseSession
    BY <2>4 DEF AuthRead, AuthReply, Spawn, Add3, Lookup, DnsReply, Start, GoC2S, Add1,
         FirstFailed, Wait, CloseSession
  <2> QED
    BY <1>3, <2>1, <2>2, <2>3, <2>4 DEF Main
<1>4. CASE C2S
  <2>1. CASE C2SRead
    BY <2>1 DEF C2SRead, CliOK
  <2>2. CASE Dial("c2s")
    BY <2>2, ZenonT(60) DEF Dial
  <2>3. CASE Put("c2s")
    BY <2>3 DEF Put
  <2>4. CASE Start("c2s") \/ SendEnd("c2s", "s2r") \/ WgDone("c2s")
    BY <2>4 DEF Start, SendEnd, WgDone
  <2> QED
    BY <1>4, <2>1, <2>2, <2>3, <2>4 DEF C2S
<1>5. CASE S2R
  <2>1. CASE S2RTake
    BY <2>1 DEF S2RTake
  <2>2. CASE S2RWrite
    BY <2>2 DEF S2RWrite
  <2>3. CASE TakeEnd("s2r", "wait") \/ TakeEnd("s2r", "loop") \/ SendEnd("s2r", "r2s") \/
       WgDone("s2r")
    BY <2>3 DEF TakeEnd, SendEnd, WgDone
  <2> QED
    BY <1>5, <2>1, <2>2, <2>3 DEF S2R
<1>6. CASE R2S
  BY <1>6 DEF R2S, TakeEnd, R2SGo, R2SErr, SendEnd, WgDone
<1>7. CASE Rdr
  <2>1. CASE RdrRead
    BY <2>1 DEF RdrRead, RemOK
  <2>2. CASE RdrPut
    BY <2>2 DEF RdrPut
  <2> QED
    BY <1>7, <2>1, <2>2 DEF Rdr
<1>8. CASE S2C
  <2>1. CASE S2CTake
    BY <2>1 DEF S2CTake
  <2>2. CASE S2CWrite
    BY <2>2 DEF S2CWrite
  <2>3. CASE TakeEnd("s2c", "loop") \/ SendEnd("s2c", "s2c") \/ WgDone("s2c")
    BY <2>3 DEF TakeEnd, SendEnd, WgDone
  <2> QED
    BY <1>8, <2>1, <2>2, <2>3 DEF S2C
<1>9. CASE UNCHANGED vars
  BY <1>9 DEF vars
<1> QED
  BY <1>1, <1>2, <1>3, <1>4, <1>5, <1>6, <1>7, <1>8, <1>9 DEF Next, Server

LEMMA CliStep == TypeOK /\ [Next]_vars => CliOK'
<1> SUFFICES ASSUME TypeOK, [Next]_vars PROVE CliOK'
  OBVIOUS
<1> USE ProxyAssumption DEF TypeOK, Goto, syncVars, dataVars, cliVars, remVars, CliOK
<1>1. CASE Client
  <2>1. CASE CliSend
    BY <2>1 DEF CliSend
  <2>2. CASE CliRecv
    BY <2>2 DEF CliRecv
  <2>3. CASE CliClose
    BY <2>3 DEF CliClose
  <2> QED
    BY <1>1, <2>1, <2>2, <2>3 DEF Client
<1>2. CASE Remote
  BY <1>2 DEF Remote, RemSend, RemRecv, RemFin, RemClose
<1>3. CASE Main
  <2>1. CASE AuthRead
    BY <2>1 DEF AuthRead, FrameReady
  <2>2. CASE AuthReply
    BY <2>2, WriteCliRoom DEF AuthReply
  <2>3. CASE FirstRead
    BY <2>3 DEF FirstRead, FrameReady
  <2>4. CASE DnsReply
    BY <2>4, WriteCliRoom DEF DnsReply
  <2>5. CASE Spawn \/ Add3 \/ Lookup \/ Dial("main") \/ Start("main") \/ Put("main") \/
       GoC2S \/ Add1 \/ FirstFailed \/ Wait \/ CloseSession
    BY <2>5 DEF Spawn, Add3, Lookup, Dial, Start, Put, GoC2S, Add1, FirstFailed, Wait,
         CloseSession
  <2> QED
    BY <1>3, <2>1, <2>2, <2>3, <2>4, <2>5 DEF Main
<1>4. CASE C2S
  <2>1. CASE C2SRead
    BY <2>1 DEF C2SRead, FrameReady
  <2>2. CASE Dial("c2s") \/ Start("c2s") \/ Put("c2s") \/ SendEnd("c2s", "s2r") \/
       WgDone("c2s")
    BY <2>2 DEF Dial, Start, Put, SendEnd, WgDone
  <2> QED
    BY <1>4, <2>1, <2>2 DEF C2S
<1>5. CASE S2R
  BY <1>5 DEF S2R, TakeEnd, S2RTake, S2RWrite, SendEnd, WgDone
<1>6. CASE R2S
  BY <1>6 DEF R2S, TakeEnd, R2SGo, R2SErr, SendEnd, WgDone
<1>7. CASE Rdr
  BY <1>7 DEF Rdr, RdrRead, RdrPut
<1>8. CASE S2C
  BY <1>8, WriteCliRoom, ZenonT(60) DEF S2C, S2CTake, S2CWrite, TakeEnd, SendEnd, WgDone, DataOK,
       Thread
<1>9. CASE UNCHANGED vars
  BY <1>9 DEF vars
<1> QED
  BY <1>1, <1>2, <1>3, <1>4, <1>5, <1>6, <1>7, <1>8, <1>9 DEF Next, Server

LEMMA RemStep == TypeOK /\ [Next]_vars => RemOK'
<1> SUFFICES ASSUME TypeOK, [Next]_vars PROVE RemOK'
  OBVIOUS
<1> USE ProxyAssumption DEF TypeOK, Goto, syncVars, dataVars, cliVars, remVars, RemOK
<1>1. CASE Client
  BY <1>1 DEF Client, CliSend, CliRecv, CliClose
<1>2. CASE Remote
  <2>1. CASE RemSend
    BY <2>1 DEF RemSend
  <2>2. CASE RemRecv
    BY <2>2 DEF RemRecv
  <2>3. CASE RemFin
    BY <2>3 DEF RemFin
  <2>4. CASE RemClose
    BY <2>4 DEF RemClose
  <2> QED
    BY <1>2, <2>1, <2>2, <2>3, <2>4 DEF Remote
<1>3. CASE Main
  BY <1>3 DEF Main, AuthRead, AuthReply, Spawn, Add3, FirstRead, Lookup, DnsReply, Dial,
       Start, Put, GoC2S, Add1, FirstFailed, Wait, CloseSession, FrameReady
<1>4. CASE C2S
  BY <1>4 DEF C2S, C2SRead, Dial, Start, Put, SendEnd, WgDone, FrameReady
<1>5. CASE S2R
  BY <1>5, WriteRemRoom, ZenonT(60) DEF S2R, TakeEnd, S2RTake, S2RWrite, SendEnd, WgDone, DataOK,
       Thread
<1>6. CASE R2S
  BY <1>6 DEF R2S, TakeEnd, R2SGo, R2SErr, SendEnd, WgDone
<1>7. CASE Rdr
  BY <1>7 DEF Rdr, RdrRead, RdrPut
<1>8. CASE S2C
  BY <1>8 DEF S2C, S2CTake, S2CWrite, TakeEnd, SendEnd, WgDone
<1>9. CASE UNCHANGED vars
  BY <1>9 DEF vars
<1> QED
  BY <1>1, <1>2, <1>3, <1>4, <1>5, <1>6, <1>7, <1>8, <1>9 DEF Next, Server

LEMMA TypeStep == TypeOK /\ [Next]_vars => TypeOK'
  BY PcStep, SyncTypeStep, DataStep, CliStep, RemStep DEF TypeOK

\* The channels and the socket buffers never hold more than their capacity, the server never
\* reads more than was sent, and every goroutine is at a place of its own code.
THEOREM TypeCorrect == Spec => []TypeOK
<1>1. Init => TypeOK
  BY TypeInit
<1>2. TypeOK /\ [Next]_vars => TypeOK'
  BY TypeStep
<1> QED
  BY <1>1, <1>2, PTL DEF Spec

LEMMA SyncInit == Init => SyncInv
  BY DEF Init, SyncInv, PhaseInv, Fresh, WgInv, Added, Done, EndsInv, CloseAfterUsers,
         PanicOnlyInGap, Thread

LEMMA PhaseInvStep == TypeOK /\ SyncInv /\ [Next]_vars => PhaseInv'
<1> SUFFICES ASSUME TypeOK, SyncInv, [Next]_vars PROVE PhaseInv'
  OBVIOUS
<1>0. /\ pc \in [Thread -> Places] /\ wg \in Int
      /\ ends \in [{"s2r", "r2s", "s2c"} -> 0 .. EndCap]
      /\ "main" \in Thread /\ "c2s" \in Thread /\ "s2r" \in Thread
      /\ "r2s" \in Thread /\ "s2c" \in Thread /\ "rdr" \in Thread
  BY DEF TypeOK, PcOK, SyncOK, Thread
<1> USE <1>0 DEF Goto, syncVars, dataVars, cliVars, remVars, SyncInv, PhaseInv, Fresh
<1>1. CASE Client
  BY <1>1 DEF Client, CliSend, CliRecv, CliClose
<1>2. CASE Remote
  BY <1>2 DEF Remote, RemSend, RemRecv, RemFin, RemClose
<1>3. CASE Main
  <2>1. CASE AuthRead
    BY <2>1 DEF AuthRead
  <2>2. CASE AuthReply
    BY <2>2 DEF AuthReply
  <2>3. CASE Spawn
    BY <2>3 DEF Spawn
  <2>4. CASE Add3
    BY <2>4 DEF Add3
  <2>5. CASE FirstRead
    BY <2>5 DEF FirstRead
  <2>6. CASE Lookup
    BY <2>6 DEF Lookup
  <2>7. CASE DnsReply
    BY <2>7 DEF DnsReply
  <2>8. CASE Dial("main")
    BY <2>8 DEF Dial
  <2>9. CASE Start("main")
    BY <2>9 DEF Start
  <2>10. CASE Put("main")
    BY <2>10 DEF Put
  <2>11. CASE GoC2S
    BY <2>11 DEF GoC2S
  <2>12. CASE Add1
    BY <2>12 DEF Add1
  <2>13. CASE FirstFailed
    BY <2>13 DEF FirstFailed
  <2>14. CASE Wait
    BY <2>14 DEF Wait
  <2>15. CASE CloseSession
    BY <2>15 DEF CloseSession
  <2> QED
    BY <1>3, <2>1, <2>2, <2>3, <2>4, <2>5, <2>6, <2>7, <2>8, <2>9, <2>10, <2>11,
       <2>12, <2>13, <2>14, <2>15 DEF Main
<1>4. CASE C2S
  <2>1. CASE C2SRead
    BY <2>1 DEF C2SRead
  <2>2. CASE Dial("c2s")
    BY <2>2 DEF Dial
  <2>3. CASE Start("c2s")
    BY <2>3 DEF Start
  <2>4. CASE Put("c2s")
    BY <2>4 DEF Put
  <2>5. CASE SendEnd("c2s", "s2r")
    BY <2>5 DEF SendEnd
  <2>6. CASE WgDone("c2s")
    BY <2>6 DEF WgDone
  <2> QED
    BY <1>4, <2>1, <2>2, <2>3, <2>4, <2>5, <2>6 DEF C2S
<1>5. CASE S2R
  <2>1. CASE TakeEnd("s2r", "wait")
    BY <2>1 DEF TakeEnd, EndsInv, EndCap
  <2>2. CASE TakeEnd("s2r", "loop")
    BY <2>2 DEF TakeEnd, EndsInv, EndCap
  <2>3. CASE S2RTake
    BY <2>3 DEF S2RTake
  <2>4. CASE S2RWrite
    BY <2>4 DEF S2RWrite
  <2>5. CASE SendEnd("s2r", "r2s")
    BY <2>5 DEF SendEnd
  <2>6. CASE WgDone("s2r")
    BY <2>6 DEF WgDone
  <2> QED
    BY <1>5, <2>1, <2>2, <2>3, <2>4, <2>5, <2>6 DEF S2R
<1>6. CASE R2S
  <2>1. CASE TakeEnd("r2s", "wait")
    BY <2>1 DEF TakeEnd, EndsInv, EndCap
  <2>2. CASE R2SGo
    BY <2>2 DEF R2SGo
  <2>3. CASE R2SErr
    BY <2>3 DEF R2SErr
  <2>4. CASE TakeEnd("r2s", "select")
    BY <2>4 DEF TakeEnd, EndsInv, EndCap
  <2>5. CASE SendEnd("r2s", "s2c")
    BY <2>5 DEF SendEnd
  <2>6. CASE WgDone("r2s")
    BY <2>6 DEF WgDone
  <2> QED
    BY <1>6, <2>1, <2>2, <2>3, <2>4, <2>5, <2>6 DEF R2S
<1>7. CASE Rdr
  <2>1. CASE RdrRead
    BY <2>1 DEF RdrRead
  <2>2. CASE RdrPut
    BY <2>2 DEF RdrPut
  <2> QED
    BY <1>7, <2>1, <2>2 DEF Rdr
<1>8. CASE S2C
  <2>1. CASE S2CTake
    BY <2>1 DEF S2CTake
  <2>2. CASE S2CWrite
    BY <2>2 DEF S2CWrite
  <2>3. CASE TakeEnd("s2c", "loop")
    BY <2>3 DEF TakeEnd, EndsInv, EndCap
  <2>4. CASE SendEnd("s2c", "s2c")
    BY <2>4 DEF SendEnd
  <2>5. CASE WgDone("s2c")
    BY <2>5 DEF WgDone
  <2> QED
    BY <1>8, <2>1, <2>2, <2>3, <2>4, <2>5 DEF S2C
<1>9. CASE UNCHANGED vars
  BY <1>9 DEF vars
<1> QED
  BY <1>1, <1>2, <1>3, <1>4, <1>5, <1>6, <1>7, <1>8, <1>9 DEF Next, Server

\* What Added and Done are, without their conditionals.
LEMMA AddedIs ==
  /\ Fresh \/ pc["main"] = "add3" => Added = 0
  /\ ~Fresh /\ pc["main"] # "add3" /\ (pc["main"] = "add1" \/ pc["c2s"] = "off") => Added = 3
  /\ ~Fresh /\ pc["main"] # "add3" /\ pc["main"] # "add1" /\ pc["c2s"] # "off" => Added = 4
  BY DEF Added

LEMMA DoneIs ==
  ASSUME NEW t
  PROVE  Done(t) \in {0, 1} /\ (Done(t) = 1 <=> pc[t] = "done")
  BY DEF Done

\* What of the state Added and Done depend on.
LEMMA AddedFrame ==
  ASSUME pc'["main"] = pc["main"], mod' = mod, pc'["c2s"] = "off" <=> pc["c2s"] = "off"
  PROVE  Added' = Added
<1>1. Fresh' <=> Fresh
  BY DEF Fresh
<1> QED
  BY <1>1 DEF Added

LEMMA DoneFrame ==
  ASSUME NEW t, pc'[t] = "done" <=> pc[t] = "done"
  PROVE  Done(t)' = Done(t)
  BY DEF Done

LEMMA WgFrame ==
  ASSUME WgInv, wg' = wg, Added' = Added,
         pc'["c2s"] = "done" <=> pc["c2s"] = "done", pc'["s2r"] = "done" <=> pc["s2r"] = "done",
         pc'["r2s"] = "done" <=> pc["r2s"] = "done", pc'["s2c"] = "done" <=> pc["s2c"] = "done"
  PROVE  WgInv'
  BY DoneFrame DEF WgInv

LEMMA WgInvStep == TypeOK /\ SyncInv /\ [Next]_vars => WgInv'
<1> SUFFICES ASSUME TypeOK, SyncInv, [Next]_vars PROVE WgInv'
  OBVIOUS
<1>0. /\ pc \in [Thread -> Places] /\ wg \in Int
      /\ ends \in [{"s2r", "r2s", "s2c"} -> 0 .. EndCap]
      /\ "main" \in Thread /\ "c2s" \in Thread /\ "s2r" \in Thread
      /\ "r2s" \in Thread /\ "s2c" \in Thread /\ "rdr" \in Thread
  BY DEF TypeOK, PcOK, SyncOK, Thread
<1>a. WgInv /\ PhaseInv /\ CloseAfterUsers
  BY DEF SyncInv
<1> USE <1>0, <1>a DEF Goto, syncVars, dataVars, cliVars, remVars
<1>1. CASE Client
  BY <1>1, AddedFrame, WgFrame DEF Client, CliSend, CliRecv, CliClose
<1>2. CASE Remote
  BY <1>2, AddedFrame, WgFrame DEF Remote, RemSend, RemRecv, RemFin, RemClose
<1>3. CASE Main
  <2>1. CASE AuthRead
    <3>1. Added' = Added
      BY <2>1 DEF AuthRead, Added, Fresh, PhaseInv
    <3> QED
      BY <2>1, <3>1, WgFrame DEF AuthRead, PhaseInv, Fresh
  <2>2. CASE AuthReply
    <3>1. Added' = Added
      BY <2>2 DEF AuthReply, Added, Fresh, PhaseInv
    <3> QED
      BY <2>2, <3>1, WgFrame DEF AuthReply, PhaseInv, Fresh
  <2>3. CASE Spawn
    <3>1. Added' = Added
      BY <2>3 DEF Spawn, Added, Fresh, PhaseInv
    <3> QED
      BY <2>3, <3>1, WgFrame DEF Spawn, PhaseInv, Fresh
  <2>4. CASE Add3
    <3>1. wg' = wg + 3
      BY <2>4 DEF Add3
    <3>2. Added' = Added + 3
      <4>1. pc["main"] = "add3" /\ pc'["main"] = "first" /\ pc'["c2s"] = pc["c2s"] /\ mod' = mod
        BY <2>4 DEF Add3
      <4>2. pc["c2s"] = "off" /\ ~Fresh /\ ~Fresh'
        BY <4>1 DEF PhaseInv, Fresh
      <4>3. Added = 0 /\ Added' = 3
        BY <4>1, <4>2 DEF Added
      <4> QED
        BY <4>3
    <3>3. Done("c2s")' = Done("c2s") /\ Done("s2r")' = Done("s2r") /\ Done("r2s")' = Done("r2s")
          /\ Done("s2c")' = Done("s2c")
      BY <2>4, DoneFrame DEF Add3
    <3>4. Added \in Int
      BY AddedIs
    <3> QED
      BY <3>1, <3>2, <3>3, <3>4, DoneIs DEF WgInv
  <2>5. CASE FirstRead
    <3>1. Added' = Added
      BY <2>5 DEF FirstRead, Added, Fresh, PhaseInv
    <3> QED
      BY <2>5, <3>1, WgFrame DEF FirstRead, PhaseInv, Fresh
  <2>6. CASE Lookup
    <3>1. Added' = Added
      BY <2>6 DEF Lookup, Added, Fresh, PhaseInv
    <3> QED
      BY <2>6, <3>1, WgFrame DEF Lookup, PhaseInv, Fresh
  <2>7. CASE DnsReply
    <3>1. Added' = Added
      BY <2>7 DEF DnsReply, Added, Fresh, PhaseInv
    <3> QED
      BY <2>7, <3>1, WgFrame DEF DnsReply, PhaseInv, Fresh
  <2>8. CASE Dial("main")
    <3>1. Added' = Added
      BY <2>8 DEF Dial, Added, Fresh, PhaseInv
    <3> QED
      BY <2>8, <3>1, WgFrame DEF Dial, PhaseInv, Fresh
  <2>9. CASE Start("main")
    <3>1. Added' = Added
      BY <2>9 DEF Start, Added, Fresh, PhaseInv
    <3> QED
      BY <2>9, <3>1, WgFrame DEF Start, PhaseInv, Fresh
  <2>10. CASE Put("main")
    <3>1. Added' = Added
      BY <2>10 DEF Put, Added, Fresh, PhaseInv
    <3> QED
      BY <2>10, <3>1, WgFrame DEF Put, PhaseInv, Fresh
  <2>11. CASE GoC2S
    <3>1. Added' = Added
      BY <2>11 DEF GoC2S, Added, Fresh, PhaseInv
    <3> QED
      BY <2>11, <3>1, WgFrame DEF GoC2S, PhaseInv, Fresh
  <2>12. CASE Add1
    <3>1. wg' = wg + 1
      BY <2>12 DEF Add1
    <3>2. Added' = Added + 1
      <4>1. pc["main"] = "add1" /\ pc'["main"] = "wait" /\ pc'["c2s"] = pc["c2s"] /\ mod' = mod
        BY <2>12 DEF Add1
      <4>2. pc["c2s"] # "off" /\ ~Fresh /\ ~Fresh'
        BY <4>1 DEF PhaseInv, Fresh
      <4>3. Added = 3 /\ Added' = 4
        BY <4>1, <4>2 DEF Added
      <4> QED
        BY <4>3
    <3>3. Done("c2s")' = Done("c2s") /\ Done("s2r")' = Done("s2r") /\ Done("r2s")' = Done("r2s")
          /\ Done("s2c")' = Done("s2c")
      BY <2>12, DoneFrame DEF Add1
    <3>4. Added \in Int
      BY AddedIs
    <3> QED
      BY <3>1, <3>2, <3>3, <3>4, DoneIs DEF WgInv
  <2>13. CASE FirstFailed
    <3>1. Added' = Added
      BY <2>13 DEF FirstFailed, Added, Fresh, PhaseInv
    <3> QED
      BY <2>13, <3>1, WgFrame DEF FirstFailed, PhaseInv, Fresh
  <2>14. CASE Wait
    <3>1. Added' = Added
      BY <2>14 DEF Wait, Added, Fresh, PhaseInv
    <3> QED
      BY <2>14, <3>1, WgFrame DEF Wait, PhaseInv, Fresh
  <2>15. CASE CloseSession
    <3>1. Added' = Added
      BY <2>15 DEF CloseSession, Added, Fresh, PhaseInv
    <3> QED
      BY <2>15, <3>1, WgFrame DEF CloseSession, PhaseInv, Fresh
  <2> QED
    BY <1>3, <2>1, <2>2, <2>3, <2>4, <2>5, <2>6, <2>7, <2>8, <2>9, <2>10, <2>11,
       <2>12, <2>13, <2>14, <2>15 DEF Main
<1>4. CASE C2S
  <2>1. Added' = Added
    BY <1>4, AddedFrame DEF C2S, C2SRead, Dial, Start, Put, SendEnd, WgDone
  <2>2. CASE C2SRead \/ Dial("c2s") \/ Start("c2s") \/ Put("c2s") \/ SendEnd("c2s", "s2r")
    BY <2>1, <2>2, WgFrame DEF C2SRead, Dial, Start, Put, SendEnd
  <2>3. CASE WgDone("c2s")
    <3>1. wg' = wg - 1 /\ Done("c2s") = 0 /\ Done("c2s")' = 1
      BY <2>3 DEF WgDone, Done
    <3>2. Done("s2r")' = Done("s2r") /\ Done("r2s")' = Done("r2s") /\ Done("s2c")' = Done("s2c")
      BY <2>3, DoneFrame DEF WgDone
    <3>3. Added \in Int
      BY AddedIs
    <3> QED
      BY <2>1, <3>1, <3>2, <3>3, DoneIs DEF WgInv
  <2> QED
    BY <1>4, <2>2, <2>3 DEF C2S
<1>5. CASE S2R
  <2>1. Added' = Added
    BY <1>5, AddedFrame DEF S2R, TakeEnd, S2RTake, S2RWrite, SendEnd, WgDone
  <2>2. CASE TakeEnd("s2r", "wait") \/ TakeEnd("s2r", "loop") \/ S2RTake \/ S2RWrite \/
       SendEnd("s2r", "r2s")
    BY <2>1, <2>2, WgFrame DEF TakeEnd, S2RTake, S2RWrite, SendEnd
  <2>3. CASE WgDone("s2r")
    <3>1. wg' = wg - 1 /\ Done("s2r") = 0 /\ Done("s2r")' = 1
      BY <2>3 DEF WgDone, Done
    <3>2. Done("c2s")' = Done("c2s") /\ Done("r2s")' = Done("r2s") /\ Done("s2c")' = Done("s2c")
      BY <2>3, DoneFrame DEF WgDone
    <3>3. Added \in Int
      BY AddedIs
    <3> QED
      BY <2>1, <3>1, <3>2, <3>3, DoneIs DEF WgInv
  <2> QED
    BY <1>5, <2>2, <2>3 DEF S2R
<1>6. CASE R2S
  <2>1. Added' = Added
    BY <1>6, AddedFrame DEF R2S, TakeEnd, R2SGo, R2SErr, SendEnd, WgDone
  <2>2. CASE TakeEnd("r2s", "wait") \/ R2SGo \/ R2SErr \/ TakeEnd("r2s", "select") \/
       SendEnd("r2s", "s2c")
    BY <2>1, <2>2, WgFrame DEF TakeEnd, R2SGo, R2SErr, SendEnd
  <2>3. CASE WgDone("r2s")
    <3>1. wg' = wg - 1 /\ Done("r2s") = 0 /\ Done("r2s")' = 1
      BY <2>3 DEF WgDone, Done
    <3>2. Done("c2s")' = Done("c2s") /\ Done("s2r")' = Done("s2r") /\ Done("s2c")' = Done("s2c")
      BY <2>3, DoneFrame DEF WgDone
    <3>3. Added \in Int
      BY AddedIs
    <3> QED
      BY <2>1, <3>1, <3>2, <3>3, DoneIs DEF WgInv
  <2> QED
    BY <1>6, <2>2, <2>3 DEF R2S
<1>7. CASE Rdr
  <2>1. Added' = Added
    BY <1>7, AddedFrame DEF Rdr, RdrRead, RdrPut
  <2>2. CASE RdrRead \/ RdrPut
    BY <2>1, <2>2, WgFrame DEF RdrRead, RdrPut
  <2> QED
    BY <1>7, <2>2 DEF Rdr
<1>8. CASE S2C
  <2>1. Added' = Added
    BY <1>8, AddedFrame DEF S2C, S2CTake, S2CWrite, TakeEnd, SendEnd, WgDone
  <2>2. CASE S2CTake \/ S2CWrite \/ TakeEnd("s2c", "loop") \/ SendEnd("s2c", "s2c")
    BY <2>1, <2>2, WgFrame DEF S2CTake, S2CWrite, TakeEnd, SendEnd
  <2>3. CASE WgDone("s2c")
    <3>1. wg' = wg - 1 /\ Done("s2c") = 0 /\ Done("s2c")' = 1
      BY <2>3 DEF WgDone, Done
    <3>2. Done("c2s")' = Done("c2s") /\ Done("s2r")' = Done("s2r") /\ Done("r2s")' = Done("r2s")
      BY <2>3, DoneFrame DEF WgDone
    <3>3. Added \in Int
      BY AddedIs
    <3> QED
      BY <2>1, <3>1, <3>2, <3>3, DoneIs DEF WgInv
  <2> QED
    BY <1>8, <2>2, <2>3 DEF S2C
<1>9. CASE UNCHANGED vars
  BY <1>9, AddedFrame, WgFrame DEF vars
<1> QED
  BY <1>1, <1>2, <1>3, <1>4, <1>5, <1>6, <1>7, <1>8, <1>9 DEF Next, Server

LEMMA EndsInvStep == TypeOK /\ SyncInv /\ [Next]_vars => EndsInv'
<1> SUFFICES ASSUME TypeOK, SyncInv, [Next]_vars PROVE EndsInv'
  OBVIOUS
<1>0. /\ pc \in [Thread -> Places] /\ wg \in Int
      /\ ends \in [{"s2r", "r2s", "s2c"} -> 0 .. EndCap]
      /\ "main" \in Thread /\ "c2s" \in Thread /\ "s2r" \in Thread
      /\ "r2s" \in Thread /\ "s2c" \in Thread /\ "rdr" \in Thread
  BY DEF TypeOK, PcOK, SyncOK, Thread
<1> USE <1>0 DEF Goto, syncVars, dataVars, cliVars, remVars, SyncInv, EndsInv, EndCap
<1>1. CASE Client
  BY <1>1 DEF Client, CliSend, CliRecv, CliClose
<1>2. CASE Remote
  BY <1>2 DEF Remote, RemSend, RemRecv, RemFin, RemClose
<1>3. CASE Main
  <2>1. CASE AuthRead
    BY <2>1 DEF AuthRead, PhaseInv, Fresh
  <2>2. CASE AuthReply
    BY <2>2 DEF AuthReply, PhaseInv, Fresh
  <2>3. CASE Spawn
    BY <2>3 DEF Spawn, PhaseInv, Fresh
  <2>4. CASE Add3
    BY <2>4 DEF Add3
  <2>5. CASE FirstRead
    BY <2>5 DEF FirstRead
  <2>6. CASE Lookup
    BY <2>6 DEF Lookup
  <2>7. CASE DnsReply
    BY <2>7 DEF DnsReply
  <2>8. CASE Dial("main")
    BY <2>8 DEF Dial
  <2>9. CASE Start("main")
    BY <2>9 DEF Start
  <2>10. CASE Put("main")
    BY <2>10 DEF Put
  <2>11. CASE GoC2S
    BY <2>11 DEF GoC2S, PhaseInv, Fresh
  <2>12. CASE Add1
    BY <2>12 DEF Add1
  <2>13. CASE FirstFailed
    <3>1. pc["main"] = "err" /\ pc' = [pc EXCEPT !["main"] = "wait"]
      BY <2>13 DEF FirstFailed
    <3>2. ends' = [ends EXCEPT !["s2r"] = @ + 1]
      BY <2>13 DEF FirstFailed
    <3>3. pc["c2s"] = "off"
      BY <3>1 DEF PhaseInv
    <3>4. ends["s2r"] = 0
      BY <3>1, <3>3
    <3> QED
      BY <3>1, <3>2, <3>3, <3>4
  <2>14. CASE Wait
    BY <2>14 DEF Wait, PhaseInv, Fresh
  <2>15. CASE CloseSession
    BY <2>15 DEF CloseSession, PhaseInv, Fresh
  <2> QED
    BY <1>3, <2>1, <2>2, <2>3, <2>4, <2>5, <2>6, <2>7, <2>8, <2>9, <2>10, <2>11,
       <2>12, <2>13, <2>14, <2>15 DEF Main
<1>4. CASE C2S
  <2>1. CASE C2SRead
    BY <2>1 DEF C2SRead
  <2>2. CASE Dial("c2s")
    BY <2>2 DEF Dial
  <2>3. CASE Start("c2s")
    BY <2>3 DEF Start
  <2>4. CASE Put("c2s")
    BY <2>4 DEF Put
  <2>5. CASE SendEnd("c2s", "s2r")
    <3>1. pc["c2s"] = "end" /\ pc' = [pc EXCEPT !["c2s"] = "wgdone"]
      BY <2>5 DEF SendEnd
    <3>2. ends' = [ends EXCEPT !["s2r"] = @ + 1]
      BY <2>5 DEF SendEnd
    <3>3. ends["s2r"] = 0
      BY <3>1 DEF PhaseInv
    <3> QED
      BY <3>1, <3>2, <3>3
  <2>6. CASE WgDone("c2s")
    BY <2>6 DEF WgDone
  <2> QED
    BY <1>4, <2>1, <2>2, <2>3, <2>4, <2>5, <2>6 DEF C2S
<1>5. CASE S2R
  <2>1. CASE TakeEnd("s2r", "wait")
    <3>1. pc["s2r"] = "wait" /\ pc' = [pc EXCEPT !["s2r"] = "end"]
      BY <2>1 DEF TakeEnd
    <3>2. ends["s2r"] > 0 /\ ends' = [ends EXCEPT !["s2r"] = @ - 1]
      BY <2>1 DEF TakeEnd
    <3> QED
      BY <3>1, <3>2
  <2>2. CASE TakeEnd("s2r", "loop")
    <3>1. pc["s2r"] = "loop" /\ pc' = [pc EXCEPT !["s2r"] = "end"]
      BY <2>2 DEF TakeEnd
    <3>2. ends["s2r"] > 0 /\ ends' = [ends EXCEPT !["s2r"] = @ - 1]
      BY <2>2 DEF TakeEnd
    <3> QED
      BY <3>1, <3>2
  <2>3. CASE S2RTake
    BY <2>3 DEF S2RTake
  <2>4. CASE S2RWrite
    BY <2>4 DEF S2RWrite
  <2>5. CASE SendEnd("s2r", "r2s")
    <3>1. pc["s2r"] = "end" /\ pc' = [pc EXCEPT !["s2r"] = "wgdone"]
      BY <2>5 DEF SendEnd
    <3>2. ends' = [ends EXCEPT !["r2s"] = @ + 1]
      BY <2>5 DEF SendEnd
    <3>3. ends["r2s"] = 0
      BY <3>1 DEF PhaseInv
    <3> QED
      BY <3>1, <3>2, <3>3
  <2>6. CASE WgDone("s2r")
    BY <2>6 DEF WgDone
  <2> QED
    BY <1>5, <2>1, <2>2, <2>3, <2>4, <2>5, <2>6 DEF S2R
<1>6. CASE R2S
  <2>1. CASE TakeEnd("r2s", "wait")
    <3>1. pc["r2s"] = "wait" /\ pc' = [pc EXCEPT !["r2s"] = "end"]
      BY <2>1 DEF TakeEnd
    <3>2. ends["r2s"] > 0 /\ ends' = [ends EXCEPT !["r2s"] = @ - 1]
      BY <2>1 DEF TakeEnd
    <3> QED
      BY <3>1, <3>2
  <2>2. CASE R2SGo
    BY <2>2 DEF R2SGo
  <2>3. CASE R2SErr
    BY <2>3 DEF R2SErr
  <2>4. CASE TakeEnd("r2s", "select")
    <3>1. pc["r2s"] = "select" /\ pc' = [pc EXCEPT !["r2s"] = "end"]
      BY <2>4 DEF TakeEnd
    <3>2. ends["r2s"] > 0 /\ ends' = [ends EXCEPT !["r2s"] = @ - 1]
      BY <2>4 DEF TakeEnd
    <3> QED
      BY <3>1, <3>2
  <2>5. CASE SendEnd("r2s", "s2c")
    <3>1. pc["r2s"] = "end" /\ pc' = [pc EXCEPT !["r2s"] = "wgdone"]
      BY <2>5 DEF SendEnd
    <3>2. ends' = [ends EXCEPT !["s2c"] = @ + 1]
      BY <2>5 DEF SendEnd
    <3>3. ends["s2c"] <= 1 /\ (ends["s2c"] = 1 => pc["s2c"] \in {"wgdone", "done"})
      BY <3>1 DEF PhaseInv
    <3> QED
      BY <3>1, <3>2, <3>3
  <2>6. CASE WgDone("r2s")
    BY <2>6 DEF WgDone
  <2> QED
    BY <1>6, <2>1, <2>2, <2>3, <2>4, <2>5, <2>6 DEF R2S
<1>7. CASE Rdr
  <2>1. CASE RdrRead
    BY <2>1 DEF RdrRead
  <2>2. CASE RdrPut
    BY <2>2 DEF RdrPut
  <2> QED
    BY <1>7, <2>1, <2>2 DEF Rdr
<1>8. CASE S2C
  <2>1. CASE S2CTake
    BY <2>1 DEF S2CTake
  <2>2. CASE S2CWrite
    BY <2>2 DEF S2CWrite
  <2>3. CASE TakeEnd("s2c", "loop")
    <3>1. pc["s2c"] = "loop" /\ pc' = [pc EXCEPT !["s2c"] = "end"]
      BY <2>3 DEF TakeEnd
    <3>2. ends["s2c"] > 0 /\ ends' = [ends EXCEPT !["s2c"] = @ - 1]
      BY <2>3 DEF TakeEnd
    <3> QED
      BY <3>1, <3>2
  <2>4. CASE SendEnd("s2c", "s2c")
    <3>1. pc["s2c"] = "end" /\ pc' = [pc EXCEPT !["s2c"] = "wgdone"]
      BY <2>4 DEF SendEnd
    <3>2. ends' = [ends EXCEPT !["s2c"] = @ + 1]
      BY <2>4 DEF SendEnd
    <3>3. ends["s2c"] <= 1 /\ (ends["s2c"] = 1 => pc["r2s"] \in {"wgdone", "done"})
      BY <3>1 DEF PhaseInv
    <3> QED
      BY <3>1, <3>2, <3>3
  <2>5. CASE WgDone("s2c")
    BY <2>5 DEF WgDone
  <2> QED
    BY <1>8, <2>1, <2>2, <2>3, <2>4, <2>5 DEF S2C
<1>9. CASE UNCHANGED vars
  BY <1>9 DEF vars
<1> QED
  BY <1>1, <1>2, <1>3, <1>4, <1>5, <1>6, <1>7, <1>8, <1>9 DEF Next, Server

LEMMA CloseAfterUsersStep == TypeOK /\ SyncInv /\ [Next]_vars => CloseAfterUsers'
<1> SUFFICES ASSUME TypeOK, SyncInv, [Next]_vars PROVE CloseAfterUsers'
  OBVIOUS
<1>0. /\ pc \in [Thread -> Places] /\ wg \in Int
      /\ ends \in [{"s2r", "r2s", "s2c"} -> 0 .. EndCap]
      /\ "main" \in Thread /\ "c2s" \in Thread /\ "s2r" \in Thread
      /\ "r2s" \in Thread /\ "s2c" \in Thread /\ "rdr" \in Thread
  BY DEF TypeOK, PcOK, SyncOK, Thread
<1> USE <1>0 DEF Goto, syncVars, dataVars, cliVars, remVars, EndCap, SyncInv, CloseAfterUsers
<1>1. CASE Client
  BY <1>1 DEF Client, CliSend, CliRecv, CliClose
<1>2. CASE Remote
  BY <1>2 DEF Remote, RemSend, RemRecv, RemFin, RemClose
<1>3. CASE Main
  <2>1. CASE AuthRead
    BY <1>3, <2>1 DEF AuthRead
  <2>2. CASE AuthReply
    BY <1>3, <2>2 DEF AuthReply
  <2>3. CASE Spawn
    BY <1>3, <2>3 DEF Spawn, PhaseInv, Fresh
  <2>4. CASE Add3
    BY <1>3, <2>4 DEF Add3
  <2>5. CASE FirstRead
    BY <1>3, <2>5 DEF FirstRead
  <2>6. CASE Lookup
    BY <1>3, <2>6 DEF Lookup
  <2>7. CASE DnsReply
    BY <1>3, <2>7 DEF DnsReply
  <2>8. CASE Dial("main")
    BY <1>3, <2>8 DEF Dial
  <2>9. CASE Start("main")
    BY <1>3, <2>9 DEF Start, PhaseInv, Fresh
  <2>10. CASE Put("main")
    BY <1>3, <2>10 DEF Put
  <2>11. CASE GoC2S
    BY <1>3, <2>11 DEF GoC2S, PhaseInv, Fresh
  <2>12. CASE Add1
    BY <1>3, <2>12 DEF Add1
  <2>13. CASE FirstFailed
    BY <1>3, <2>13 DEF FirstFailed
  <2>14. CASE Wait
    <3>1. WgInv /\ PhaseInv /\ wg = 0 /\ pc["main"] = "wait" /\ pc' = [pc EXCEPT !["main"] = "close"]
      BY <2>14 DEF Wait
    <3>2. (pc["c2s"] = "off" => Added = 3) /\ (pc["c2s"] # "off" => Added = 4)
      BY <3>1, AddedIs DEF Fresh
    <3>3. pc["c2s"] \in {"off", "done"} /\ pc["s2r"] = "done" /\ pc["r2s"] = "done" /\ pc["s2c"] = "done"
      BY <3>1, <3>2, DoneIs DEF WgInv
    <3> QED
      BY <3>1, <3>3
  <2>15. CASE CloseSession
    BY <1>3, <2>15 DEF CloseSession, PhaseInv, Fresh
  <2> QED
    BY <1>3, <2>1, <2>2, <2>3, <2>4, <2>5, <2>6, <2>7, <2>8, <2>9, <2>10, <2>11,
       <2>12, <2>13, <2>14, <2>15 DEF Main
<1>4. CASE C2S
  <2>1. pc["c2s"] \notin {"off", "done"}
    BY <1>4 DEF C2S, C2SRead, Dial, Start, Put, SendEnd, WgDone
  <2>2. pc'["main"] = pc["main"] /\ mod' = mod
    BY <1>4 DEF C2S, C2SRead, Dial, Start, Put, SendEnd, WgDone
  <2> QED
    BY <2>1, <2>2
<1>5. CASE S2R
  <2>1. pc["s2r"] # "done"
    BY <1>5 DEF S2R, TakeEnd, S2RTake, S2RWrite, SendEnd, WgDone
  <2>2. pc'["main"] = pc["main"] /\ mod' = mod
    BY <1>5 DEF S2R, TakeEnd, S2RTake, S2RWrite, SendEnd, WgDone
  <2> QED
    BY <2>1, <2>2
<1>6. CASE R2S
  <2>1. pc["r2s"] # "done"
    BY <1>6 DEF R2S, TakeEnd, R2SGo, R2SErr, SendEnd, WgDone
  <2>2. pc'["main"] = pc["main"] /\ mod' = mod
    BY <1>6 DEF R2S, TakeEnd, R2SGo, R2SErr, SendEnd, WgDone
  <2> QED
    BY <2>1, <2>2
<1>7. CASE Rdr
  BY <1>7 DEF Rdr, RdrRead, RdrPut
<1>8. CASE S2C
  <2>1. pc["s2c"] # "done"
    BY <1>8 DEF S2C, S2CTake, S2CWrite, TakeEnd, SendEnd, WgDone
  <2>2. pc'["main"] = pc["main"] /\ mod' = mod
    BY <1>8 DEF S2C, S2CTake, S2CWrite, TakeEnd, SendEnd, WgDone
  <2> QED
    BY <2>1, <2>2
<1>9. CASE UNCHANGED vars
  BY <1>9 DEF vars
<1> QED
  BY <1>1, <1>2, <1>3, <1>4, <1>5, <1>6, <1>7, <1>8, <1>9 DEF Next, Server

LEMMA PanicOnlyInGapStep == TypeOK /\ SyncInv /\ [Next]_vars => PanicOnlyInGap'
<1> SUFFICES ASSUME TypeOK, SyncInv, [Next]_vars PROVE PanicOnlyInGap'
  OBVIOUS
<1>0. /\ pc \in [Thread -> Places] /\ wg \in Int
      /\ ends \in [{"s2r", "r2s", "s2c"} -> 0 .. EndCap]
      /\ "main" \in Thread /\ "c2s" \in Thread /\ "s2r" \in Thread
      /\ "r2s" \in Thread /\ "s2c" \in Thread /\ "rdr" \in Thread
  BY DEF TypeOK, PcOK, SyncOK, Thread
<1> USE <1>0 DEF Goto, syncVars, dataVars, cliVars, remVars, EndCap, SyncInv, PanicOnlyInGap
<1>1. CASE ~panicked /\ Client
  BY <1>1, ZenonT(60) DEF Client, CliSend, CliRecv, CliClose
<1>2. CASE ~panicked /\ Remote
  BY <1>2, ZenonT(60) DEF Remote, RemSend, RemRecv, RemFin, RemClose
<1>3. CASE ~panicked /\ Main
  BY <1>3, ZenonT(60) DEF Main, AuthRead, AuthReply, Spawn, Add3, FirstRead, Lookup, DnsReply, Dial,
       Start, Put, GoC2S, Add1, FirstFailed, Wait, CloseSession
<1>4. CASE ~panicked /\ C2S
  <2>1. CASE WgDone("c2s")
    <3>1. panicked' => wg = 0
      BY <2>1, ZenonT(60) DEF WgDone
    <3>2. pc' = [pc EXCEPT !["c2s"] = "done"] /\ pc["c2s"] = "wgdone"
      BY <2>1 DEF WgDone
    <3>3. wg = 0 => pc["main"] = "add1" /\ \A t \in {"c2s", "s2r", "r2s", "s2c"} : pc'[t] = "done"
      <4>1. WgInv /\ PhaseInv /\ CloseAfterUsers
        OBVIOUS
      <4>2. wg = 0 => Added <= 3
        BY <3>2, <4>1, AddedIs, DoneIs DEF WgInv
      <4>3. ~Fresh /\ pc["main"] # "add3" /\ pc["main"] \notin {"close", "done"}
        BY <3>2, <4>1 DEF PhaseInv, Fresh, CloseAfterUsers
      <4>4. wg = 0 => Added = 3 /\ (pc["main"] = "add1" \/ pc["c2s"] = "off")
        BY <4>2, <4>3, AddedIs
      <4>5. wg = 0 => \A t \in {"c2s", "s2r", "r2s", "s2c"} : pc'[t] = "done"
        BY <3>2, <4>1, <4>4, DoneIs DEF WgInv
      <4> QED
        BY <3>2, <4>4, <4>5
    <3> QED
      BY <3>1, <3>2, <3>3
  <2>2. CASE C2SRead \/ Dial("c2s") \/ Start("c2s") \/ Put("c2s") \/ SendEnd("c2s", "s2r")
    BY <1>4, <2>2, ZenonT(60) DEF C2SRead, Dial, Start, Put, SendEnd
  <2> QED
    BY <1>4, <2>1, <2>2 DEF C2S
<1>5. CASE ~panicked /\ S2R
  <2>1. CASE WgDone("s2r")
    <3>1. panicked' => wg = 0
      BY <2>1, ZenonT(60) DEF WgDone
    <3>2. pc' = [pc EXCEPT !["s2r"] = "done"] /\ pc["s2r"] = "wgdone"
      BY <2>1 DEF WgDone
    <3>3. wg = 0 => pc["main"] = "add1" /\ \A t \in {"c2s", "s2r", "r2s", "s2c"} : pc'[t] = "done"
      <4>1. WgInv /\ PhaseInv /\ CloseAfterUsers
        OBVIOUS
      <4>2. wg = 0 => Added <= 3
        BY <3>2, <4>1, AddedIs, DoneIs DEF WgInv
      <4>3. ~Fresh /\ pc["main"] # "add3" /\ pc["main"] \notin {"close", "done"}
        BY <3>2, <4>1 DEF PhaseInv, Fresh, CloseAfterUsers
      <4>4. wg = 0 => Added = 3 /\ (pc["main"] = "add1" \/ pc["c2s"] = "off")
        BY <4>2, <4>3, AddedIs
      <4>5. wg = 0 => \A t \in {"c2s", "s2r", "r2s", "s2c"} : pc'[t] = "done"
        BY <3>2, <4>1, <4>4, DoneIs DEF WgInv
      <4> QED
        BY <3>2, <4>4, <4>5
    <3> QED
      BY <3>1, <3>2, <3>3
  <2>2. CASE TakeEnd("s2r", "wait") \/ TakeEnd("s2r", "loop") \/ S2RTake \/ S2RWrite \/
       SendEnd("s2r", "r2s")
    BY <1>5, <2>2, ZenonT(60) DEF TakeEnd, S2RTake, S2RWrite, SendEnd
  <2> QED
    BY <1>5, <2>1, <2>2 DEF S2R
<1>6. CASE ~panicked /\ R2S
  <2>1. CASE WgDone("r2s")
    <3>1. panicked' => wg = 0
      BY <2>1, ZenonT(60) DEF WgDone
    <3>2. pc' = [pc EXCEPT !["r2s"] = "done"] /\ pc["r2s"] = "wgdone"
      BY <2>1 DEF WgDone
    <3>3. wg = 0 => pc["main"] = "add1" /\ \A t \in {"c2s", "s2r", "r2s", "s2c"} : pc'[t] = "done"
      <4>1. WgInv /\ PhaseInv /\ CloseAfterUsers
        OBVIOUS
      <4>2. wg = 0 => Added <= 3
        BY <3>2, <4>1, AddedIs, DoneIs DEF WgInv
      <4>3. ~Fresh /\ pc["main"] # "add3" /\ pc["main"] \notin {"close", "done"}
        BY <3>2, <4>1 DEF PhaseInv, Fresh, CloseAfterUsers
      <4>4. wg = 0 => Added = 3 /\ (pc["main"] = "add1" \/ pc["c2s"] = "off")
        BY <4>2, <4>3, AddedIs
      <4>5. wg = 0 => \A t \in {"c2s", "s2r", "r2s", "s2c"} : pc'[t] = "done"
        BY <3>2, <4>1, <4>4, DoneIs DEF WgInv
      <4> QED
        BY <3>2, <4>4, <4>5
    <3> QED
      BY <3>1, <3>2, <3>3
  <2>2. CASE TakeEnd("r2s", "wait") \/ R2SGo \/ R2SErr \/ TakeEnd("r2s", "select") \/
       SendEnd("r2s", "s2c")
    BY <1>6, <2>2, ZenonT(60) DEF TakeEnd, R2SGo, R2SErr, SendEnd
  <2> QED
    BY <1>6, <2>1, <2>2 DEF R2S
<1>7. CASE ~panicked /\ Rdr
  BY <1>7, ZenonT(60) DEF Rdr, RdrRead, RdrPut
<1>8. CASE ~panicked /\ S2C
  <2>1. CASE WgDone("s2c")
    <3>1. panicked' => wg = 0
      BY <2>1, ZenonT(60) DEF WgDone
    <3>2. pc' = [pc EXCEPT !["s2c"] = "done"] /\ pc["s2c"] = "wgdone"
      BY <2>1 DEF WgDone
    <3>3. wg = 0 => pc["main"] = "add1" /\ \A t \in {"c2s", "s2r", "r2s", "s2c"} : pc'[t] = "done"
      <4>1. WgInv /\ PhaseInv /\ CloseAfterUsers
        OBVIOUS
      <4>2. wg = 0 => Added <= 3
        BY <3>2, <4>1, AddedIs, DoneIs DEF WgInv
      <4>3. ~Fresh /\ pc["main"] # "add3" /\ pc["main"] \notin {"close", "done"}
        BY <3>2, <4>1 DEF PhaseInv, Fresh, CloseAfterUsers
      <4>4. wg = 0 => Added = 3 /\ (pc["main"] = "add1" \/ pc["c2s"] = "off")
        BY <4>2, <4>3, AddedIs
      <4>5. wg = 0 => \A t \in {"c2s", "s2r", "r2s", "s2c"} : pc'[t] = "done"
        BY <3>2, <4>1, <4>4, DoneIs DEF WgInv
      <4> QED
        BY <3>2, <4>4, <4>5
    <3> QED
      BY <3>1, <3>2, <3>3
  <2>2. CASE S2CTake \/ S2CWrite \/ TakeEnd("s2c", "loop") \/ SendEnd("s2c", "s2c")
    BY <1>8, <2>2, ZenonT(60) DEF S2CTake, S2CWrite, TakeEnd, SendEnd
  <2> QED
    BY <1>8, <2>1, <2>2 DEF S2C
<1>9. CASE UNCHANGED vars
  BY <1>9 DEF vars
<1> QED
  BY <1>1, <1>2, <1>3, <1>4, <1>5, <1>6, <1>7, <1>8, <1>9 DEF Next, Server

\* Every step of the session keeps the goroutines, the counter and the End channels in
\* agreement.
LEMMA SyncStep == TypeOK /\ SyncInv /\ [Next]_vars => SyncInv'
  BY PhaseInvStep, WgInvStep, EndsInvStep, CloseAfterUsersStep, PanicOnlyInGapStep DEF SyncInv

LEMMA SyncAlways == Spec => [](TypeOK /\ SyncInv)
<1>1. Init => TypeOK /\ SyncInv
  BY TypeInit, SyncInit
<1>2. TypeOK /\ SyncInv /\ [Next]_vars => TypeOK' /\ SyncInv'
  BY TypeStep, SyncStep
<1> QED
  BY <1>1, <1>2, PTL DEF Spec

\* The module's session is closed only after all goroutines that use it, for every order
\* in which they end.
THEOREM CloseAfterUsersCorrect == Spec => []CloseAfterUsers
<1>1. SyncInv => CloseAfterUsers
  BY DEF SyncInv
<1> QED
  BY <1>1, SyncAlways, PTL

\* The WaitGroup's counter goes below zero only if all four goroutines finish between
\* go s.dealc2s(c) and c.wg.Add(1).
THEOREM PanicOnlyInGapCorrect == Spec => []PanicOnlyInGap
<1>1. SyncInv => PanicOnlyInGap
  BY DEF SyncInv
<1> QED
  BY <1>1, SyncAlways, PTL

\* Two slots are enough for the End channels: no deferred function blocks.
THEOREM EndRoomCorrect == Spec => []EndRoom
<1>1. TypeOK /\ SyncInv => EndRoom
  <2> SUFFICES ASSUME TypeOK, SyncInv PROVE EndRoom
    OBVIOUS
  <2>1. ends \in [{"s2r", "r2s", "s2c"} -> 0 .. EndCap] /\ PhaseInv /\ EndsInv
    BY DEF TypeOK, SyncOK, SyncInv
  <2>2. pc["main"] = "err" \/ pc["c2s"] = "end" => ends["s2r"] < EndCap
    BY <2>1 DEF PhaseInv, EndsInv, EndCap
  <2> QED
    BY <2>1, <2>2 DEF EndsInv, EndRoom, EndCap
<1> QED
  BY <1>1, SyncAlways, PTL

\* A session in which c2s waits for a departed s2r stays so for ever and never returns to
\* its worker.
THEOREM StrandedForeverCorrect == Spec => StrandedForever
<1>1. TypeOK /\ SyncInv /\ (TypeOK /\ SyncInv)' /\ [Next]_vars
        => [Stranded => Stranded' /\ pc'["main"] \notin {"close", "done"}]_vars
  <2> SUFFICES ASSUME TypeOK, SyncInv, SyncInv', Next, Stranded
               PROVE  Stranded' /\ pc'["main"] \notin {"close", "done"}
    OBVIOUS
  <2>0. PcOK /\ DataOK
    BY DEF TypeOK
  <2>1. pc'["c2s"] = "put" /\ Ended("s2r")' /\ chans2r' = chans2r
    <3> USE <2>0 DEF Stranded, Ended, Goto, PcOK, DataOK, Thread,
                     syncVars, dataVars, cliVars, remVars
    <3>1. CASE Client \/ Remote
      BY <3>1 DEF Client, CliSend, CliRecv, CliClose, Remote, RemSend, RemRecv, RemFin, RemClose
    <3>2. CASE Main
      BY <3>2, ZenonT(60) DEF Main, AuthRead, AuthReply, Spawn, Add3, FirstRead, Lookup, DnsReply, Dial,
                  Start, Put, GoC2S, Add1, FirstFailed, Wait, CloseSession, SyncInv, PhaseInv
    <3>3. CASE C2S
      <4>1. ~Put("c2s")
        BY DEF Put
      <4> QED
        BY <3>3, <4>1 DEF C2S, C2SRead, Dial, Start, SendEnd, WgDone
    <3>4. CASE S2R
      BY <3>4 DEF S2R, TakeEnd, S2RTake, S2RWrite, SendEnd, WgDone
    <3>5. CASE R2S \/ Rdr
      BY <3>5 DEF R2S, TakeEnd, R2SGo, R2SErr, SendEnd, WgDone, Rdr, RdrRead, RdrPut
    <3>6. CASE S2C
      BY <3>6 DEF S2C, S2CTake, S2CWrite, TakeEnd, SendEnd, WgDone
    <3> QED
      BY <3>1, <3>2, <3>3, <3>4, <3>5, <3>6 DEF Next, Server
  <2>2. Stranded'
    BY <2>1 DEF Stranded
  <2>3. pc'["main"] \notin {"close", "done"}
    BY <2>1 DEF SyncInv, CloseAfterUsers, PhaseInv, Fresh
  <2> QED
    BY <2>2, <2>3
<1> QED
  BY <1>1, SyncAlways, PTL DEF Spec, StrandedForever
=============================================================================
