--------------------------- MODULE MingwSyncProofs ---------------------------
(***************************************************************************)
(* Theorems about MingwSync for every number of threads and operations.    *)
(***************************************************************************)
EXTENDS MingwSync, FiniteSetTheorems, TLAPS

Places ==
  {"out", "in", "used", "done", "threw", "enter", "unlock", "sleep", "left", "signal", "relock"}
  \cup One \cup All

TypeOK ==
  /\ held \in Thread \cup {None} /\ mMutex \in Thread \cup {None}
  /\ mNumWaiters \in Int /\ mSemaphore \in Int
  /\ pc \in [Thread -> Places]
  /\ targetWaiters \in [Thread -> Int]

\* mMutex is held by the worker that notifies.
LatchSound == \A t \in Thread : t \in Notifying <=> mMutex = t

\* mNumWaiters counts the waiters, although Leave decrements it without mMutex.
CountSound == mNumWaiters = Cardinality(Counted) /\ mNumWaiters >= 0

\* Between its loop and its return no one waits whom notify_all should have woken.
DrainSound == \A t \in Thread : pc[t] = "drain" => mNumWaiters = 0

\* The workers that have left the semaphore and are still counted.
Left == {t \in Thread : pc[t] = "left"}

\* The tokens in the semaphore and the workers that took one add up to the waiters that the
\* present notification still waits for; between notifications there are none.
TokenSound ==
  /\ ~ aborted /\ mSemaphore >= 0
  /\ (\A t \in Thread : ~ Awaiting(t)) => mSemaphore = 0 /\ Left = {}
  /\ \A t \in Thread :
       /\ pc[t] = "load1" => mNumWaiters > 0
       /\ pc[t] = "release1" => targetWaiters[t] = mNumWaiters - 1 /\ mNumWaiters > 0
       /\ pc[t] \in {"loop1", "block1"} =>
            mSemaphore + Cardinality(Left) = mNumWaiters - targetWaiters[t] /\ targetWaiters[t] >= 0
       /\ pc[t] = "assert1" => mNumWaiters = targetWaiters[t]
       /\ pc[t] \in {"loopAll", "blockAll"} => mSemaphore + Cardinality(Left) = mNumWaiters

IInv == TypeOK /\ MutexSound /\ LatchSound /\ CountSound /\ DrainSound /\ (~ lapsed => TokenSound)

USE SyncAssumption
-----------------------------------------------------------------------------
LEMMA TypeInit == Init => TypeOK
  BY DEF Init, TypeOK, Places

LEMMA TypeStep == TypeOK /\ [Next]_vars => TypeOK'
<1> SUFFICES ASSUME TypeOK, [Next]_vars PROVE TypeOK'
  OBVIOUS
<1> USE DEF TypeOK, Goto, cvVars
<1>p. /\ One \cup All \subseteq Places
      /\ {"out", "in", "used", "done", "threw", "enter", "unlock", "sleep", "left", "signal", "relock"} \subseteq Places
  BY DEF Places
<1>q. /\ {"test1", "load1", "release1", "loop1", "block1", "assert1"} \subseteq Places
      /\ {"testAll", "releaseAll", "loopAll", "blockAll", "drain"} \subseteq Places
  BY <1>p DEF One, All
<1>1. ASSUME NEW t \in Thread, Join(t) \/ Finish(t) PROVE TypeOK'
  BY <1>1, <1>p DEF Join, Finish
<1>2. ASSUME NEW t \in Thread, Lock(t) \/ Relock(t) PROVE TypeOK'
  BY <1>2, <1>p DEF Lock, Relock, MutexLock, BaseLock
<1>3. ASSUME NEW t \in Thread, Unlock(t) \/ GiveUpLock(t) PROVE TypeOK'
  BY <1>3, <1>p DEF Unlock, GiveUpLock, MutexUnlock, BaseUnlock
<1>4. ASSUME NEW t \in Thread, CallWait(t) \/ CallWaitFor(t) PROVE TypeOK'
  BY <1>4, <1>p DEF CallWait, CallWaitFor, BeginWait
<1>5. ASSUME NEW t \in Thread, Enter(t) \/ Wake(t) \/ Lapse(t) \/ Leave(t) \/ SignalLeft(t) PROVE TypeOK'
  BY <1>5, <1>p DEF Enter, Wake, Lapse, Leave, SignalLeft
<1>6. ASSUME NEW t \in Thread, CallNotify(t) PROVE TypeOK'
  BY <1>6, <1>q DEF CallNotify
<1>7. ASSUME NEW t \in Thread, TestWaiters(t) \/ Assert1(t) \/ Drain(t) PROVE TypeOK'
  BY <1>7, <1>p, <1>q DEF TestWaiters, Assert1, Drain, Return
<1>8. ASSUME NEW t \in Thread, LoadTarget(t) \/ Release(t) \/ Loop(t) \/ Block(t) PROVE TypeOK'
  BY <1>8, <1>q DEF LoadTarget, Release, Loop, Block
<1>9. CASE UNCHANGED vars
  BY <1>9 DEF vars
<1> QED
  BY <1>1, <1>2, <1>3, <1>4, <1>5, <1>6, <1>7, <1>8, <1>9 DEF Next, Step, Notify
-----------------------------------------------------------------------------
LEMMA MutexStep ==
  TypeOK /\ MutexSound /\ LatchSound /\ [Next]_vars => MutexSound' /\ LatchSound'
<1> SUFFICES ASSUME TypeOK, MutexSound, LatchSound, [Next]_vars PROVE MutexSound' /\ LatchSound'
  OBVIOUS
<1> USE DEF TypeOK, Goto, cvVars, MutexSound, LatchSound, Holds, Notifying, One, All
<1>1. ASSUME NEW t \in Thread, Join(t) \/ Finish(t) PROVE MutexSound' /\ LatchSound'
  BY <1>1 DEF Join, Finish
<1>2. ASSUME NEW t \in Thread, Lock(t) \/ Relock(t) PROVE MutexSound' /\ LatchSound'
  BY <1>2 DEF Lock, Relock, MutexLock, BaseLock
<1>3. ASSUME NEW t \in Thread, Unlock(t) \/ GiveUpLock(t) PROVE MutexSound' /\ LatchSound'
  BY <1>3 DEF Unlock, GiveUpLock, MutexUnlock, BaseUnlock
<1>4. ASSUME NEW t \in Thread, CallWait(t) \/ CallWaitFor(t) PROVE MutexSound' /\ LatchSound'
  BY <1>4 DEF CallWait, CallWaitFor, BeginWait
<1>5. ASSUME NEW t \in Thread, Enter(t) \/ Wake(t) \/ Lapse(t) \/ Leave(t) \/ SignalLeft(t)
      PROVE MutexSound' /\ LatchSound'
  BY <1>5 DEF Enter, Wake, Lapse, Leave, SignalLeft
<1>6. ASSUME NEW t \in Thread, CallNotify(t) PROVE MutexSound' /\ LatchSound'
  BY <1>6 DEF CallNotify
<1>7. ASSUME NEW t \in Thread, TestWaiters(t) \/ Assert1(t) \/ Drain(t) PROVE MutexSound' /\ LatchSound'
  BY <1>7 DEF TestWaiters, Assert1, Drain, Return
<1>8. ASSUME NEW t \in Thread, LoadTarget(t) \/ Release(t) \/ Loop(t) \/ Block(t)
      PROVE MutexSound' /\ LatchSound'
  BY <1>8 DEF LoadTarget, Release, Loop, Block
<1>9. CASE UNCHANGED vars
  BY <1>9 DEF vars
<1> QED
  BY <1>1, <1>2, <1>3, <1>4, <1>5, <1>6, <1>7, <1>8, <1>9 DEF Next, Step, Notify
-----------------------------------------------------------------------------
LEMMA Finite == IsFiniteSet(Counted) /\ IsFiniteSet(Left) /\ Cardinality(Counted) \in Nat /\ Cardinality(Left) \in Nat
  BY FS_Subset, FS_CardinalityType DEF Counted, Left

\* Every step but Enter and Leave keeps the waiters and their number.
LEMMA CountSame ==
  ASSUME TypeOK, MutexSound, [Next]_vars, \A t \in Thread : ~ Enter(t) /\ ~ Leave(t)
  PROVE  Counted' = Counted /\ mNumWaiters' = mNumWaiters
<1> USE DEF TypeOK, Goto, cvVars, Counted
<1>1. ASSUME NEW t \in Thread, Join(t) \/ Finish(t) PROVE Counted' = Counted /\ mNumWaiters' = mNumWaiters
  BY <1>1 DEF Join, Finish
<1>2. ASSUME NEW t \in Thread, Lock(t) \/ Relock(t) PROVE Counted' = Counted /\ mNumWaiters' = mNumWaiters
  BY <1>2 DEF Lock, Relock, MutexLock
<1>3. ASSUME NEW t \in Thread, Unlock(t) \/ GiveUpLock(t) PROVE Counted' = Counted /\ mNumWaiters' = mNumWaiters
  BY <1>3 DEF Unlock, GiveUpLock, MutexUnlock, MutexSound, Holds
<1>4. ASSUME NEW t \in Thread, CallWait(t) \/ CallWaitFor(t) PROVE Counted' = Counted /\ mNumWaiters' = mNumWaiters
  BY <1>4 DEF CallWait, CallWaitFor, BeginWait
<1>5. ASSUME NEW t \in Thread, Wake(t) \/ Lapse(t) \/ SignalLeft(t) PROVE Counted' = Counted /\ mNumWaiters' = mNumWaiters
  BY <1>5 DEF Wake, Lapse, SignalLeft
<1>6. ASSUME NEW t \in Thread, CallNotify(t) PROVE Counted' = Counted /\ mNumWaiters' = mNumWaiters
  BY <1>6 DEF CallNotify
<1>7. ASSUME NEW t \in Thread, TestWaiters(t) \/ Assert1(t) \/ Drain(t)
      PROVE  Counted' = Counted /\ mNumWaiters' = mNumWaiters
  BY <1>7 DEF TestWaiters, Assert1, Drain, Return
<1>8. ASSUME NEW t \in Thread, LoadTarget(t) \/ Release(t) \/ Loop(t) \/ Block(t)
      PROVE  Counted' = Counted /\ mNumWaiters' = mNumWaiters
  BY <1>8 DEF LoadTarget, Release, Loop, Block
<1>9. CASE UNCHANGED vars
  BY <1>9 DEF vars
<1> QED
  BY <1>1, <1>2, <1>3, <1>4, <1>5, <1>6, <1>7, <1>8, <1>9 DEF Next, Step, Notify

LEMMA CountStep == TypeOK /\ MutexSound /\ CountSound /\ [Next]_vars => CountSound'
<1> SUFFICES ASSUME TypeOK, MutexSound, CountSound, [Next]_vars PROVE CountSound'
  OBVIOUS
<1>1. ASSUME NEW t \in Thread, Enter(t) PROVE CountSound'
  <2>1. t \notin Counted /\ Counted' = Counted \cup {t} /\ mNumWaiters' = mNumWaiters + 1
    BY <1>1 DEF Enter, Goto, Counted, TypeOK
  <2>2. Cardinality(Counted') = Cardinality(Counted) + 1
    BY <2>1, Finite, FS_AddElement
  <2> QED
    BY <2>1, <2>2, Finite DEF CountSound
<1>2. ASSUME NEW t \in Thread, Leave(t) PROVE CountSound'
  <2>1. t \in Counted /\ Counted' = Counted \ {t} /\ mNumWaiters' = mNumWaiters - 1
    BY <1>2 DEF Leave, Goto, Counted, TypeOK
  <2>2. Cardinality(Counted') = Cardinality(Counted) - 1 /\ Cardinality(Counted') \in Nat
    BY <2>1, Finite, FS_RemoveElement, FS_CardinalityType
  <2> QED
    BY <2>1, <2>2 DEF CountSound
<1>3. CASE \A t \in Thread : ~ Enter(t) /\ ~ Leave(t)
  BY <1>3, CountSame DEF CountSound
<1> QED
  BY <1>1, <1>2, <1>3

\* While a notification holds mMutex nobody joins the waiters.
LEMMA DrainStep == TypeOK /\ MutexSound /\ LatchSound /\ CountSound /\ DrainSound /\ [Next]_vars => DrainSound'
<1> SUFFICES ASSUME TypeOK, MutexSound, LatchSound, CountSound, DrainSound, [Next]_vars,
                    NEW u \in Thread, pc'[u] = "drain"
             PROVE  mNumWaiters' = 0
  BY DEF DrainSound
<1> USE DEF TypeOK, Goto
<1>1. ASSUME NEW t \in Thread, Enter(t) PROVE FALSE
  <2>1. pc[u] = "drain"
    BY <1>1 DEF Enter
  <2> QED
    BY <1>1, <2>1 DEF Enter, LatchSound, Notifying, All
<1>2. ASSUME NEW t \in Thread, Leave(t) PROVE FALSE
  <2>1. pc[u] = "drain" /\ t \in Counted
    BY <1>2 DEF Leave, Counted
  <2>2. Cardinality(Counted) = 0
    BY <2>1 DEF DrainSound, CountSound
  <2> QED
    BY <2>1, <2>2, Finite, FS_EmptySet
<1>3. CASE \A t \in Thread : ~ Enter(t) /\ ~ Leave(t)
  <2>1. mNumWaiters' = mNumWaiters
    BY <1>3, CountSame
  <2>2. CASE pc[u] = "drain"
    BY <2>1, <2>2 DEF DrainSound
  <2>3. CASE pc[u] # "drain"
    <3>1. Loop(u)
      <4>1. \A t \in Thread : ~ (Join(t) \/ Finish(t) \/ Lock(t) \/ Relock(t) \/ Unlock(t) \/ GiveUpLock(t))
        BY <2>3 DEF Join, Finish, Lock, Relock, Unlock, GiveUpLock, MutexLock, MutexUnlock
      <4>2. \A t \in Thread : ~ (CallWait(t) \/ CallWaitFor(t) \/ Wake(t) \/ Lapse(t) \/ SignalLeft(t) \/ CallNotify(t))
        BY <2>3 DEF CallWait, CallWaitFor, BeginWait, Wake, Lapse, SignalLeft, CallNotify
      <4>3. \A t \in Thread : ~ (TestWaiters(t) \/ Assert1(t) \/ Drain(t) \/ LoadTarget(t) \/ Release(t) \/ Block(t))
        BY <2>3 DEF TestWaiters, Assert1, Drain, Return, LoadTarget, Release, Block
      <4>4. ~ UNCHANGED vars
        BY <2>3 DEF vars
      <4>5. \A t \in Thread : Loop(t) => t = u
        BY <2>3 DEF Loop
      <4> QED
        BY <1>3, <4>1, <4>2, <4>3, <4>4, <4>5 DEF Next, Step, Notify
    <3> QED
      BY <3>1, <2>1 DEF Loop, CountSound
  <2> QED
    BY <2>2, <2>3
<1> QED
  BY <1>1, <1>2, <1>3
-----------------------------------------------------------------------------
\* Before the first lapse, nobody leaves the semaphore outside a notification's loop.
LEMMA TokenStep == IInv /\ [Next]_vars => (~ lapsed' => TokenSound')
<1> SUFFICES ASSUME IInv, [Next]_vars, ~ lapsed' PROVE TokenSound'
  OBVIOUS
<1> DEFINE l == Cardinality(Left)
<1>0. /\ TypeOK /\ MutexSound /\ LatchSound /\ CountSound
      /\ l \in Nat /\ IsFiniteSet(Left) /\ (l = 0 <=> Left = {})
  BY Finite, FS_EmptySet DEF IInv
<1> USE DEF Goto, cvVars
<1>a. \A t \in Thread : ~ Lapse(t)
  BY DEF Lapse
<1>b. ~ lapsed
  BY <1>a DEF vars, Next, Join, Step, Lock, Unlock, Finish, CallWait, CallWaitFor, BeginWait, Enter, GiveUpLock,
     Wake, Leave, SignalLeft, Relock, CallNotify, Notify, TestWaiters, LoadTarget, Release, Loop, Block,
     Assert1, Drain
<1>c. TokenSound
  BY <1>b DEF IInv
<1>d. \A t, u \in Thread : t \in Notifying /\ u \in Notifying => t = u
  BY <1>0 DEF LatchSound
<1>e. \A t \in Thread : Awaiting(t) => t \in Notifying
  BY DEF Awaiting, Notifying, One, All
<1>f. \A t \in Thread : pc[t] \in One \cup All <=> t \in Notifying
  BY DEF Notifying
\* The steps of a worker that is outside the notifications and not about to be counted out.
<1>1. ASSUME NEW t \in Thread, UNCHANGED <<mNumWaiters, mSemaphore, targetWaiters, aborted>>,
             \A u \in Thread : pc'[u] # pc[u] => /\ pc[u] \notin One \cup All \cup {"left"}
                                                 /\ pc'[u] \notin One \cup All \cup {"left"}
      PROVE  TokenSound'
  <2>1. Left' = Left
    BY <1>1 DEF Left
  <2>2. \A u \in Thread : \A p \in One \cup All : pc'[u] = p <=> pc[u] = p
    BY <1>1
  <2>3. \A u \in Thread : (Awaiting(u))' <=> Awaiting(u)
    BY <2>2 DEF Awaiting, One, All
  <2> QED
    BY <1>1, <1>c, <2>1, <2>2, <2>3 DEF TokenSound, One, All
<1>2. ASSUME NEW t \in Thread, Join(t) \/ Finish(t) \/ Lock(t) \/ Relock(t) \/ Unlock(t) \/ GiveUpLock(t)
      PROVE  TokenSound'
  BY <1>2, <1>1, <1>0 DEF Join, Finish, Lock, Relock, Unlock, GiveUpLock, MutexLock, MutexUnlock, TypeOK, One, All
<1>3. ASSUME NEW t \in Thread, CallWait(t) \/ CallWaitFor(t) \/ SignalLeft(t) PROVE TokenSound'
  BY <1>3, <1>1, <1>0 DEF CallWait, CallWaitFor, BeginWait, SignalLeft, TypeOK, One, All
<1>4. ASSUME NEW t \in Thread, Enter(t) PROVE TokenSound'
  <2>1. \A u \in Thread : pc[u] \notin One \cup All /\ pc'[u] \notin One \cup All
    BY <1>4, <1>0, <1>f DEF Enter, LatchSound, TypeOK, One, All
  <2>2. Left' = Left
    BY <1>4, <1>0 DEF Enter, Left, TypeOK
  <2>3. UNCHANGED <<mSemaphore, aborted>>
    BY <1>4 DEF Enter
  <2> QED
    BY <2>1, <2>2, <2>3, <1>c DEF TokenSound, Awaiting, One, All
<1>5. ASSUME NEW t \in Thread, Wake(t) PROVE TokenSound'
  <2>1. /\ Left' = Left \cup {t} /\ t \notin Left /\ mSemaphore > 0 /\ mSemaphore' = mSemaphore - 1
        /\ UNCHANGED <<mNumWaiters, targetWaiters, aborted>>
        /\ \A u \in Thread : \A p \in One \cup All : pc'[u] = p <=> pc[u] = p
    BY <1>5, <1>0 DEF Wake, Left, TypeOK, One, All
  <2>2. Cardinality(Left') = l + 1
    BY <2>1, <1>0, FS_AddElement
  <2>3. PICK n \in Thread : Awaiting(n)
    BY <2>1, <1>c DEF TokenSound
  <2>4. (Awaiting(n))'
    BY <2>1, <2>3 DEF Awaiting, One, All
  <2>5. \A u \in Thread : pc'[u] \in One \cup All => u = n
    BY <2>1, <2>3, <1>d, <1>e, <1>f
  <2>6. /\ pc'[n] \notin {"load1", "release1", "assert1"}
        /\ pc'[n] \in {"loop1", "block1"} =>
             mSemaphore' + Cardinality(Left') = mNumWaiters' - targetWaiters'[n] /\ targetWaiters'[n] >= 0
        /\ pc'[n] \in {"loopAll", "blockAll"} => mSemaphore' + Cardinality(Left') = mNumWaiters'
    BY <2>1, <2>2, <2>4, <1>0, <1>c DEF TokenSound, Awaiting, TypeOK, One, All
  <2>7. mSemaphore' >= 0 /\ ~ aborted'
    BY <2>1, <1>0, <1>c DEF TokenSound, TypeOK
  <2> QED
    BY <2>4, <2>5, <2>6, <2>7 DEF TokenSound, One, All
<1>6. ASSUME NEW t \in Thread, Leave(t) PROVE TokenSound'
  <2>1. /\ Left' = Left \ {t} /\ t \in Left /\ mNumWaiters' = mNumWaiters - 1
        /\ UNCHANGED <<mSemaphore, targetWaiters, aborted>>
        /\ \A u \in Thread : \A p \in One \cup All : pc'[u] = p <=> pc[u] = p
    BY <1>6, <1>0 DEF Leave, Left, TypeOK, One, All
  <2>2. Cardinality(Left') = l - 1
    BY <2>1, <1>0, FS_RemoveElement
  <2>3. PICK n \in Thread : Awaiting(n)
    BY <2>1, <1>c DEF TokenSound
  <2>4. (Awaiting(n))'
    BY <2>1, <2>3 DEF Awaiting, One, All
  <2>5. \A u \in Thread : pc'[u] \in One \cup All => u = n
    BY <2>1, <2>3, <1>d, <1>e, <1>f
  <2>6. /\ pc'[n] \notin {"load1", "release1", "assert1"}
        /\ pc'[n] \in {"loop1", "block1"} =>
             mSemaphore' + Cardinality(Left') = mNumWaiters' - targetWaiters'[n] /\ targetWaiters'[n] >= 0
        /\ pc'[n] \in {"loopAll", "blockAll"} => mSemaphore' + Cardinality(Left') = mNumWaiters'
    BY <2>1, <2>2, <2>4, <1>0, <1>c DEF TokenSound, Awaiting, TypeOK, One, All
  <2>7. mSemaphore' >= 0 /\ ~ aborted'
    BY <2>1, <1>c DEF TokenSound
  <2> QED
    BY <2>4, <2>5, <2>6, <2>7 DEF TokenSound, One, All
\* The steps of a notification: t is the only one.
<1>7. ASSUME NEW t \in Thread, CallNotify(t) PROVE TokenSound'
  <2>1. \A u \in Thread : pc[u] \notin One \cup All
    BY <1>7, <1>0, <1>f DEF CallNotify, LatchSound
  <2>2. /\ UNCHANGED <<mSemaphore, aborted>> /\ Left' = Left
        /\ \A u \in Thread : pc'[u] \in {"test1", "testAll"} \/ pc'[u] = pc[u]
    BY <1>7, <1>0 DEF CallNotify, Left, TypeOK
  <2> QED
    BY <2>1, <2>2, <1>c DEF TokenSound, Awaiting, One, All
<1>8. ASSUME NEW t \in Thread, Notify(t) PROVE TokenSound'
  <2>1. t \in Notifying
    BY <1>8 DEF Notify, TestWaiters, LoadTarget, Release, Loop, Block, Assert1, Drain, Notifying, One, All
  <2>2. \A u \in Thread \ {t} : pc[u] \notin One \cup All /\ pc'[u] = pc[u] /\ ~ Awaiting(u) /\ ~ (Awaiting(u))'
    <3>1. \A u \in Thread \ {t} : pc[u] \notin One \cup All
      BY <2>1, <1>d, <1>f
    <3>2. \A u \in Thread \ {t} : pc'[u] = pc[u]
      BY <1>8, <1>0 DEF Notify, TestWaiters, LoadTarget, Release, Loop, Block, Assert1, Drain, Return, TypeOK
    <3> QED
      BY <3>1, <3>2 DEF Awaiting, One, All
  <2>3. Left' = Left /\ mNumWaiters' = mNumWaiters
    <3>1. pc[t] # "left" /\ pc'[t] # "left"
      BY <1>8, <1>0 DEF Notify, TestWaiters, LoadTarget, Release, Loop, Block, Assert1, Drain, Return, TypeOK
    <3> QED
      BY <1>8, <2>2, <3>1 DEF Left, Notify, TestWaiters, LoadTarget, Release, Loop, Block, Assert1, Drain
  <2>4. SUFFICES /\ ~ aborted' /\ mSemaphore' >= 0
                 /\ ~ (Awaiting(t))' => mSemaphore' = 0 /\ l = 0
                 /\ pc'[t] = "load1" => mNumWaiters > 0
                 /\ pc'[t] = "release1" => targetWaiters'[t] = mNumWaiters - 1 /\ mNumWaiters > 0
                 /\ pc'[t] \in {"loop1", "block1"} =>
                      mSemaphore' + l = mNumWaiters - targetWaiters'[t] /\ targetWaiters'[t] >= 0
                 /\ pc'[t] = "assert1" => mNumWaiters = targetWaiters'[t]
                 /\ pc'[t] \in {"loopAll", "blockAll"} => mSemaphore' + l = mNumWaiters
    BY <2>2, <2>3, <1>0 DEF TokenSound, One, All
  <2>5. /\ ~ aborted /\ mSemaphore >= 0
        /\ ~ Awaiting(t) => mSemaphore = 0 /\ l = 0
        /\ pc[t] = "load1" => mNumWaiters > 0
        /\ pc[t] = "release1" => targetWaiters[t] = mNumWaiters - 1 /\ mNumWaiters > 0
        /\ pc[t] \in {"loop1", "block1"} =>
             mSemaphore + l = mNumWaiters - targetWaiters[t] /\ targetWaiters[t] >= 0
        /\ pc[t] = "assert1" => mNumWaiters = targetWaiters[t]
        /\ pc[t] \in {"loopAll", "blockAll"} => mSemaphore + l = mNumWaiters
    BY <2>2, <1>0, <1>c DEF TokenSound
  <2>6. mNumWaiters \in Nat /\ mSemaphore \in Int /\ l \in Nat /\ targetWaiters \in [Thread -> Int] /\ pc \in [Thread -> Places]
        /\ (pc[t] = "drain" => mNumWaiters = 0)
    BY <1>0 DEF TypeOK, CountSound, IInv, DrainSound
  <2> HIDE DEF l
  <2> USE <2>5, <2>6 DEF Awaiting
  <2>7. CASE TestWaiters(t)
    BY <2>7 DEF TestWaiters, Return
  <2>8. CASE LoadTarget(t)
    BY <2>8 DEF LoadTarget
  <2>9. CASE Release(t)
    BY <2>9 DEF Release
  <2>10. CASE Loop(t)
    BY <2>10 DEF Loop
  <2>11. CASE Block(t)
    BY <2>11 DEF Block
  <2>12. CASE Assert1(t)
    BY <2>12 DEF Assert1, Return
  <2>13. CASE Drain(t)
    BY <2>13 DEF Drain, Return
  <2> QED
    BY <1>8, <2>7, <2>8, <2>9, <2>10, <2>11, <2>12, <2>13 DEF Notify
<1>9. CASE UNCHANGED vars
  BY <1>9, <1>c DEF vars, TokenSound, Left, Awaiting
<1> QED
  BY <1>a, <1>2, <1>3, <1>4, <1>5, <1>6, <1>7, <1>8, <1>9 DEF Next, Step

LEMMA Invariance == Spec => []IInv
<1>1. Init => IInv
  <2> SUFFICES ASSUME Init PROVE IInv
    OBVIOUS
  <2>1. Counted = {} /\ Left = {} /\ Notifying = {}
    BY DEF Init, Counted, Left, Notifying, One, All
  <2>2. Cardinality(Counted) = 0
    BY <2>1, FS_EmptySet
  <2>3. CountSound /\ DrainSound /\ TokenSound
    BY <2>1, <2>2 DEF Init, CountSound, DrainSound, TokenSound, Awaiting
  <2>4. MutexSound /\ LatchSound
    BY <2>1 DEF Init, MutexSound, LatchSound, Holds
  <2> QED
    BY <2>3, <2>4, TypeInit DEF IInv
<1>2. IInv /\ [Next]_vars => IInv'
  BY TypeStep, MutexStep, CountStep, DrainStep, TokenStep DEF IInv
<1> QED
  BY <1>1, <1>2, PTL DEF Spec

\* One worker at a time holds the mutex, and _NonRecursive's record of the owner is right,
\* so that neither of its checks throws.
THEOREM MutexSoundCorrect == Spec => []MutexSound
<1>1. IInv => MutexSound
  BY DEF IInv
<1> QED
  BY <1>1, Invariance, PTL

\* At notify_all's assertion no waiter is left, although waiters are counted out without
\* mMutex and may lapse at any time.
THEOREM NotifyAllWakesAllCorrect == Spec => []NotifyAllWakesAll
<1>1. IInv => NotifyAllWakesAll
  BY Finite, FS_EmptySet DEF IInv, DrainSound, CountSound, NotifyAllWakesAll
<1> QED
  BY <1>1, Invariance, PTL

\* Without lapses notify_one's assertion holds, it is never overtaken, and nobody is woken
\* whom no notification waits for.
THEOREM SoundUntilLapseCorrect == Spec => []SoundUntilLapse
<1>1. IInv => SoundUntilLapse
  <2> SUFFICES ASSUME IInv, ~ lapsed PROVE ~ aborted /\ (\A t \in Thread : ~ Overtaken(t))
                                           /\ (mSemaphore > 0 => \E t \in Thread : Awaiting(t))
    BY DEF SoundUntilLapse
  <2> QED
    BY DEF IInv, TokenSound, Overtaken, TypeOK
<1> QED
  BY <1>1, Invariance, PTL
=============================================================================
