----------------------------- MODULE MingwSync -----------------------------
(***************************************************************************)
(* mingw-thread-fix: the std::mutex, std::condition_variable and           *)
(* std::thread that the MinGW build uses, over the objects of Win32.  A    *)
(* main thread has started workers and joins them; the workers perform     *)
(* waits, with or without a time limit, and notifications, with or without *)
(* the mutex held.                                                         *)
(***************************************************************************)
EXTENDS Integers, FiniteSets

CONSTANTS
  Thread,       \* the workers
  None,         \* no worker: a thread id of zero
  MaxOps        \* bound: how many waits and notifications the workers perform in all

ASSUME SyncAssumption == IsFiniteSet(Thread) /\ None \notin Thread /\ MaxOps \in Nat

VARIABLES
  held,         \* who is inside the CRITICAL_SECTION of the mutex, or None
  mOwnerThread, \* the mutex's own record of it: a worker, or None for 0
  mMutex,       \* who holds the condition variable's mMutex, or None
  mNumWaiters,
  mSemaphore,   \* its count
  mWakeEvent,   \* an auto-reset event
  pc,           \* where a worker is
  timed,        \* whether its present wait has a time limit
  targetWaiters,
  ops,          \* the waits and notifications performed so far
  joined,       \* the workers whose std::thread has been joined
  lapsed,       \* history: a wait has ended by its time limit
  aborted       \* an assertion has failed

cvVars  == <<mMutex, mNumWaiters, mSemaphore, mWakeEvent>>
vars    == <<held, mOwnerThread, cvVars, pc, timed, targetWaiters, ops, joined, lapsed, aborted>>

\* Counted in mNumWaiters.
Counted == {t \in Thread : pc[t] \in {"unlock", "sleep", "left"}}

\* In notify_one() or notify_all() with mMutex held.
One       == {"test1", "load1", "release1", "loop1", "block1", "assert1"}
All       == {"testAll", "releaseAll", "loopAll", "blockAll", "drain"}
Notifying == {t \in Thread : pc[t] \in One \cup All}

Init ==
  /\ held = None /\ mOwnerThread = None
  /\ mMutex = None /\ mNumWaiters = 0 /\ mSemaphore = 0 /\ mWakeEvent = FALSE
  /\ pc = [t \in Thread |-> "out"]
  /\ timed = [t \in Thread |-> FALSE]
  /\ targetWaiters = [t \in Thread |-> 0]
  /\ ops = 0
  /\ joined = {}
  /\ lapsed = FALSE /\ aborted = FALSE

Goto(t, p) == pc' = [pc EXCEPT ![t] = p]

-----------------------------------------------------------------------------
(* std::thread *)

\* join(): WaitForSingleObject on the thread, then its handle is closed.
Join(t) ==
  /\ t \notin joined /\ pc[t] = "done"
  /\ joined' = joined \cup {t}
  /\ UNCHANGED <<held, mOwnerThread, cvVars, pc, timed, targetWaiters, ops, lapsed, aborted>>

-----------------------------------------------------------------------------
(* std::mutex: _NonRecursive<recursive_mutex> *)

\* recursive_mutex: EnterCriticalSection and LeaveCriticalSection.
BaseLock(t) == held = None /\ held' = t
BaseUnlock  == held' = None

\* Then checkSetOwnerAfterLock.
MutexLock(t, next) ==
  /\ BaseLock(t)
  /\ IF mOwnerThread = t THEN Goto(t, "threw") /\ UNCHANGED mOwnerThread
     ELSE Goto(t, next) /\ mOwnerThread' = t

\* Variant: the record of the owner is not cleared.
MutexUnlockKeepsOwner(t, next) ==
  IF mOwnerThread # t THEN Goto(t, "threw") /\ UNCHANGED <<held, mOwnerThread>>
  ELSE Goto(t, next) /\ BaseUnlock /\ UNCHANGED mOwnerThread

\* checkSetOwnerBeforeUnlock first.
MutexUnlock(t, next) ==
  IF mOwnerThread # t THEN Goto(t, "threw") /\ UNCHANGED <<held, mOwnerThread>>
  ELSE Goto(t, next) /\ BaseUnlock /\ mOwnerThread' = None

\* What a worker does between its calls: take the mutex, use it at least once, give it up.
Lock(t) ==
  /\ pc[t] = "out" /\ ops < MaxOps
  /\ MutexLock(t, "in")
  /\ UNCHANGED <<cvVars, timed, targetWaiters, ops, joined, lapsed, aborted>>

Unlock(t) ==
  /\ pc[t] = "used" \/ (pc[t] = "in" /\ ops = MaxOps)
  /\ MutexUnlock(t, "out")
  /\ UNCHANGED <<cvVars, timed, targetWaiters, ops, joined, lapsed, aborted>>

Finish(t) ==
  /\ pc[t] = "out"
  /\ Goto(t, "done")
  /\ UNCHANGED <<held, mOwnerThread, cvVars, timed, targetWaiters, ops, joined, lapsed, aborted>>

-----------------------------------------------------------------------------
(* condition_variable_any::wait_impl, which wait and wait_for call *)

BeginWait(t, limit) ==
  /\ pc[t] \in {"in", "used"} /\ ops < MaxOps
  /\ ops' = ops + 1
  /\ timed' = [timed EXCEPT ![t] = limit]
  /\ Goto(t, "enter")
  /\ UNCHANGED <<held, mOwnerThread, cvVars, targetWaiters, joined, lapsed, aborted>>

\* wait(lock), once or in the loop of wait(lock, pred).
CallWait(t) == BeginWait(t, FALSE)

\* wait_for(lock, rel_time): a negative time is taken for zero.
CallWaitFor(t) == BeginWait(t, TRUE)

\* Variant: mMutex is not taken.
EnterUnguarded(t) ==
  /\ pc[t] = "enter"
  /\ mNumWaiters' = mNumWaiters + 1
  /\ Goto(t, "unlock")
  /\ UNCHANGED <<held, mOwnerThread, mMutex, mSemaphore, mWakeEvent, timed, targetWaiters, ops,
                 joined, lapsed, aborted>>

\* Under mMutex: one waiter more.
Enter(t) ==
  /\ pc[t] = "enter" /\ mMutex = None
  /\ mNumWaiters' = mNumWaiters + 1
  /\ Goto(t, "unlock")
  /\ UNCHANGED <<held, mOwnerThread, mMutex, mSemaphore, mWakeEvent, timed, targetWaiters, ops,
                 joined, lapsed, aborted>>

GiveUpLock(t) ==
  /\ pc[t] = "unlock"
  /\ MutexUnlock(t, "sleep")
  /\ UNCHANGED <<cvVars, timed, targetWaiters, ops, joined, lapsed, aborted>>

\* WaitForSingleObject(mSemaphore, timeout): WAIT_OBJECT_0.
Wake(t) ==
  /\ pc[t] = "sleep" /\ mSemaphore > 0
  /\ mSemaphore' = mSemaphore - 1
  /\ Goto(t, "left")
  /\ UNCHANGED <<held, mOwnerThread, mMutex, mNumWaiters, mWakeEvent, timed, targetWaiters, ops,
                 joined, lapsed, aborted>>

\* WAIT_TIMEOUT.
Lapse(t) ==
  /\ pc[t] = "sleep" /\ timed[t]
  /\ lapsed' = TRUE
  /\ Goto(t, "left")
  /\ UNCHANGED <<held, mOwnerThread, cvVars, timed, targetWaiters, ops, joined, aborted>>

\* Variant: only a waiter that was woken is taken off the count.
LeaveKeepsTimed(t) ==
  /\ pc[t] = "left"
  /\ mNumWaiters' = IF timed[t] THEN mNumWaiters ELSE mNumWaiters - 1
  /\ Goto(t, "signal")
  /\ UNCHANGED <<held, mOwnerThread, mMutex, mSemaphore, mWakeEvent, timed, targetWaiters, ops,
                 joined, lapsed, aborted>>

\* mNumWaiters is decremented without mMutex.
Leave(t) ==
  /\ pc[t] = "left"
  /\ mNumWaiters' = mNumWaiters - 1
  /\ Goto(t, "signal")
  /\ UNCHANGED <<held, mOwnerThread, mMutex, mSemaphore, mWakeEvent, timed, targetWaiters, ops,
                 joined, lapsed, aborted>>

SignalLeft(t) ==
  /\ pc[t] = "signal"
  /\ mWakeEvent' = TRUE
  /\ Goto(t, "relock")
  /\ UNCHANGED <<held, mOwnerThread, mMutex, mNumWaiters, mSemaphore, timed, targetWaiters, ops,
                 joined, lapsed, aborted>>

Relock(t) ==
  /\ pc[t] = "relock"
  /\ MutexLock(t, "used")
  /\ UNCHANGED <<cvVars, timed, targetWaiters, ops, joined, lapsed, aborted>>

-----------------------------------------------------------------------------
(* notify_one and notify_all *)

\* Either is called with or without the mutex, and takes mMutex.
CallNotify(t) ==
  /\ pc[t] \in {"in", "used", "out"} /\ ops < MaxOps
  /\ mMutex = None /\ mMutex' = t
  /\ ops' = ops + 1
  /\ \E p \in {"test1", "testAll"} : Goto(t, p)
  /\ UNCHANGED <<held, mOwnerThread, mNumWaiters, mSemaphore, mWakeEvent, timed, targetWaiters,
                 joined, lapsed, aborted>>

\* The lock_guard leaves.
Return(t) == mMutex' = None /\ Goto(t, IF held = t THEN "used" ELSE "out")

\* if (!mNumWaiters) return;  if (mNumWaiters.load() <= 0) return;
TestWaiters(t) ==
  /\ pc[t] \in {"test1", "testAll"}
  /\ IF mNumWaiters = 0 THEN Return(t)
     ELSE Goto(t, IF pc[t] = "test1" THEN "load1" ELSE "releaseAll") /\ UNCHANGED mMutex
  /\ UNCHANGED <<held, mOwnerThread, mNumWaiters, mSemaphore, mWakeEvent, timed, targetWaiters, ops,
                 joined, lapsed, aborted>>

\* int targetWaiters = mNumWaiters.load() - 1: a second read of mNumWaiters.
LoadTarget(t) ==
  /\ pc[t] = "load1"
  /\ targetWaiters' = [targetWaiters EXCEPT ![t] = mNumWaiters - 1]
  /\ Goto(t, "release1")
  /\ UNCHANGED <<held, mOwnerThread, cvVars, timed, ops, joined, lapsed, aborted>>

\* Variant: notify_one releases one token too many.
ReleaseTwo(t) ==
  /\ pc[t] \in {"release1", "releaseAll"}
  /\ mSemaphore' = mSemaphore + (IF pc[t] = "release1" THEN 2 ELSE mNumWaiters)
  /\ Goto(t, IF pc[t] = "release1" THEN "loop1" ELSE "loopAll")
  /\ UNCHANGED <<held, mOwnerThread, mMutex, mNumWaiters, mWakeEvent, timed, targetWaiters, ops,
                 joined, lapsed, aborted>>

\* ReleaseSemaphore, by one or by mNumWaiters; a count of zero makes it fail, unnoticed.
Release(t) ==
  /\ pc[t] \in {"release1", "releaseAll"}
  /\ mSemaphore' = mSemaphore + (IF pc[t] = "release1" THEN 1 ELSE mNumWaiters)
  /\ Goto(t, IF pc[t] = "release1" THEN "loop1" ELSE "loopAll")
  /\ UNCHANGED <<held, mOwnerThread, mMutex, mNumWaiters, mWakeEvent, timed, targetWaiters, ops,
                 joined, lapsed, aborted>>

\* The head of the loop that waits for the woken to leave.
Loop(t) ==
  /\ \/ pc[t] = "loop1" /\ Goto(t, IF mNumWaiters > targetWaiters[t] THEN "block1" ELSE "assert1")
     \/ pc[t] = "loopAll" /\ Goto(t, IF mNumWaiters > 0 THEN "blockAll" ELSE "drain")
  /\ UNCHANGED <<held, mOwnerThread, cvVars, timed, targetWaiters, ops, joined, lapsed, aborted>>

\* WaitForSingleObject(mWakeEvent, 1000) returns, because of the event or after a second.
Block(t) ==
  /\ pc[t] \in {"block1", "blockAll"}
  /\ mWakeEvent' = FALSE
  /\ Goto(t, IF pc[t] = "block1" THEN "loop1" ELSE "loopAll")
  /\ UNCHANGED <<held, mOwnerThread, mMutex, mNumWaiters, mSemaphore, timed, targetWaiters, ops,
                 joined, lapsed, aborted>>

\* assert(mNumWaiters == targetWaiters): another read.
Assert1(t) ==
  /\ pc[t] = "assert1"
  /\ IF mNumWaiters = targetWaiters[t] THEN Return(t) /\ UNCHANGED aborted
     ELSE aborted' = TRUE /\ UNCHANGED <<mMutex, pc>>
  /\ UNCHANGED <<held, mOwnerThread, mNumWaiters, mSemaphore, mWakeEvent, timed, targetWaiters, ops,
                 joined, lapsed>>

\* The assertion of notify_all, then the semaphore is emptied.
Drain(t) ==
  /\ pc[t] = "drain"
  /\ IF mNumWaiters = 0 THEN mSemaphore' = 0 /\ Return(t) /\ UNCHANGED aborted
     ELSE aborted' = TRUE /\ UNCHANGED <<mSemaphore, mMutex, pc>>
  /\ UNCHANGED <<held, mOwnerThread, mNumWaiters, mWakeEvent, timed, targetWaiters, ops, joined, lapsed>>

-----------------------------------------------------------------------------
Notify(t) == TestWaiters(t) \/ LoadTarget(t) \/ Release(t) \/ Loop(t) \/ Block(t) \/ Assert1(t) \/ Drain(t)

Step(t) ==
  \/ Lock(t) \/ Unlock(t) \/ Finish(t)
  \/ CallWait(t) \/ CallWaitFor(t)
  \/ Enter(t) \/ GiveUpLock(t) \/ Wake(t) \/ Lapse(t) \/ Leave(t) \/ SignalLeft(t) \/ Relock(t)
  \/ CallNotify(t) \/ Notify(t)

Next == ~ aborted /\ \E t \in Thread : Join(t) \/ Step(t)

\* Windows runs every thread that can run, and main joins whatever has ended.  A wait with
\* a time limit lapses at last; a CRITICAL_SECTION promises no turn.
Fairness == \A t \in Thread : WF_vars(~ aborted /\ Step(t)) /\ WF_vars(~ aborted /\ Join(t))

Spec == Init /\ [][Next]_vars /\ Fairness

-----------------------------------------------------------------------------
\* In the loop of a notification, after the semaphore was released.
Awaiting(t) == pc[t] \in {"loop1", "block1", "loopAll", "blockAll"}

\* notify_one read mNumWaiters twice, a waiter left in between, and it waits for one more
\* to leave than there are.
Overtaken(t) == pc[t] \in {"release1", "loop1", "block1"} /\ targetWaiters[t] < 0

\* Where a worker holds the mutex: around its calls, and in wait_impl up to the unlock; in
\* a notification it may.
Holds(t) ==
  \/ pc[t] \in {"in", "used", "enter", "unlock"}
  \/ t \in Notifying /\ held = t

\* At most one worker holds the mutex, the record of the owner follows the critical section
\* through every unlock and lock of a wait, and so neither check of _NonRecursive throws
\* EDEADLK out of a correct program.
MutexSound ==
  /\ \A t \in Thread : pc[t] # "threw" /\ (Holds(t) <=> held = t)
  /\ mOwnerThread = held

\* When notify_all comes to its assertion, no worker that was waiting is still asleep, and none
\* is on its way to sleep: with or without time limits the assertion holds and the
\* semaphore may be emptied.
NotifyAllWakesAll == \A t \in Thread : pc[t] = "drain" => mNumWaiters = 0 /\ Counted = {}

\* As long as no wait has ended by its time limit: the assertion of notify_one holds, no
\* notification waits for a worker that is not there, and a worker can leave the semaphore
\* only while a notification waits for it, so that there are no spurious wake-ups.
SoundUntilLapse ==
  ~ lapsed => /\ ~ aborted
              /\ \A t \in Thread : ~ Overtaken(t)
              /\ mSemaphore > 0 => \E t \in Thread : Awaiting(t)

\* Nobody is left that could wake the sleepers.
Forgotten ==
  /\ mSemaphore = 0
  /\ \A t \in Thread : pc[t] = "done" \/ (pc[t] = "sleep" /\ ~ timed[t])

\* Every use of the mutex and the condition variable comes to its end as long as no wait
\* ends by its time limit: every notification returns, every worker it wakes gets the mutex
\* back, and main joins all workers, or those that are left sleep in a wait without a limit
\* and nobody is there to notify them.
Settles == [] ~ lapsed => <>[](joined = Thread \/ Forgotten)

\* assert(mNumWaiters == targetWaiters) in notify_one, and the one of notify_all, hold
\* whenever they are reached, also when waits end by their time limits.
AssertionsHold == ~ aborted
=============================================================================
