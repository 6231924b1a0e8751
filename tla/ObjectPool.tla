----------------------------- MODULE ObjectPool -----------------------------
(***************************************************************************)
(* rlib::fixed_object_pool: threads borrow objects from a pool of at most  *)
(* max_size, wait when all are lent, and give them back.  A step is what a *)
(* thread does while it holds buffer_mutex; release_one notifies after it  *)
(* has let go of the mutex, and borrow_one takes the mutex twice.  The     *)
(* condition variable may wake a waiter that nobody notified.              *)
(***************************************************************************)
EXTENDS TraceableList

CONSTANTS
  Thread,
  max_size,
  MaxBorrow   \* how often the threads borrow, in all

ASSUME PoolAssumption == max_size \in Nat /\ MaxBorrow \in Nat

VARIABLES
  buffer,         \* every object, and if it is free
  free_list,
  cter,           \* the counter of fill_full's loop, max_size when it is not called
  new_obj_ready,
  pc,             \* "idle", "second", "asleep", "woken", "holding", "notify" or "threw"
  hold,           \* the object that a thread has borrowed
  borrows

vars == <<buffer, free_list, cter, new_obj_ready, pc, hold, borrows>>

\* new_obj_to_buffer, and what it made to the free list.
NewObj(b) == PushBack(b, b.size + 1, TRUE)

\* A new pool, and one for which fill_full is called before the threads start.
Init ==
  /\ buffer = EmptyList /\ free_list = <<>>
  /\ cter \in {0, max_size}
  /\ new_obj_ready = FALSE
  /\ pc = [t \in Thread |-> "idle"]
  /\ hold = [t \in Thread |-> Null]
  /\ borrows = 0

\* The loop of fill_full
FillFull ==
  /\ cter < max_size
  /\ cter' = cter + 1
  /\ buffer' = NewObj(buffer)
  /\ free_list' = Append(free_list, NewObj(buffer).tail)
  /\ UNCHANGED <<new_obj_ready, pc, hold, borrows>>

\* The threads start after it.
Filled == cter = max_size /\ UNCHANGED cter

\* Variant: the first free object is returned and stays in the list.
DoTryBorrowKeeps(t) ==
  \/ /\ free_list # <<>>
     /\ hold' = [hold EXCEPT ![t] = Head(free_list)]
     /\ UNCHANGED free_list
     /\ buffer' = Mark(buffer, Head(free_list), FALSE)
  \/ /\ free_list = <<>> /\ buffer.size < max_size
     /\ hold' = [hold EXCEPT ![t] = NewObj(buffer).tail]
     /\ UNCHANGED free_list
     /\ buffer' = Mark(NewObj(buffer), NewObj(buffer).tail, FALSE)

\* do_try_borrow_one gets an object for t: a free one, or a new one, which passes through
\* the empty free list.
DoTryBorrow(t) ==
  \/ /\ free_list # <<>>
     /\ hold' = [hold EXCEPT ![t] = Head(free_list)]
     /\ free_list' = Tail(free_list)
     /\ buffer' = Mark(buffer, Head(free_list), FALSE)
  \/ /\ free_list = <<>> /\ buffer.size < max_size
     /\ hold' = [hold EXCEPT ![t] = NewObj(buffer).tail]
     /\ UNCHANGED free_list
     /\ buffer' = Mark(NewObj(buffer), NewObj(buffer).tail, FALSE)

\* do_try_borrow_one returns nullptr.
Starved == free_list = <<>> /\ buffer.size >= max_size

Lend(t) == DoTryBorrow(t) /\ new_obj_ready' = FALSE /\ pc' = [pc EXCEPT ![t] = "holding"]

Move(t, here, there) ==
  /\ pc[t] = here /\ pc' = [pc EXCEPT ![t] = there]
  /\ UNCHANGED <<buffer, free_list, new_obj_ready, hold>>

\* try_borrow_one of a caller that does without when there is none.
TryBorrowOne(t) ==
  /\ Filled /\ pc[t] = "idle" /\ borrows < MaxBorrow
  /\ borrows' = borrows + 1
  /\ Lend(t) \/ (Starved /\ Move(t, "idle", "idle"))

\* borrow_one up to the end of its try_borrow_one.
BorrowOne(t) ==
  /\ Filled /\ pc[t] = "idle" /\ borrows < MaxBorrow
  /\ borrows' = borrows + 1
  /\ Lend(t) \/ (Starved /\ Move(t, "idle", "second"))

\* borrow_cv.wait: the predicate, first with the mutex just taken and again after each
\* wake-up; when it holds, another do_try_borrow_one.
Wait(t) ==
  /\ Filled /\ pc[t] \in {"second", "woken"}
  /\ \/ ~ new_obj_ready /\ Move(t, pc[t], "asleep")
     \/ new_obj_ready /\ (IF Starved THEN Move(t, pc[t], "threw") ELSE Lend(t))
  /\ UNCHANGED borrows

SpuriousWakeup(t) == Filled /\ Move(t, "asleep", "woken") /\ UNCHANGED borrows

\* release_one with the mutex
ReleaseOne(t) ==
  /\ Filled /\ pc[t] = "holding"
  /\ free_list' = <<hold[t]>> \o free_list
  /\ buffer' = Mark(buffer, hold[t], TRUE)
  /\ new_obj_ready' = TRUE
  /\ hold' = [hold EXCEPT ![t] = Null]
  /\ pc' = [pc EXCEPT ![t] = "notify"]
  /\ UNCHANGED borrows

\* Variant: the notification is left out.
NotifyOneForgotten(t) == Filled /\ Move(t, "notify", "idle") /\ UNCHANGED borrows

\* borrow_cv.notify_one() wakes one of the waiters, if there is any.
NotifyOne(t) ==
  /\ Filled /\ pc[t] = "notify"
  /\ \/ \E s \in Thread : pc[s] = "asleep" /\ pc' = [pc EXCEPT ![t] = "idle", ![s] = "woken"]
     \/ (\A s \in Thread : pc[s] # "asleep") /\ pc' = [pc EXCEPT ![t] = "idle"]
  /\ UNCHANGED <<buffer, free_list, new_obj_ready, hold, borrows>>

Step(t) == TryBorrowOne(t) \/ BorrowOne(t) \/ Wait(t) \/ ReleaseOne(t) \/ NotifyOne(t)

Next == FillFull \/ \E t \in Thread : Step(t) \/ SpuriousWakeup(t)

\* A thread inside the pool's functions goes on.
Scheduled == \A t \in Thread : WF_vars(Wait(t) \/ NotifyOne(t))

\* Besides, a borrower gives its object back at last.
Fairness == \A t \in Thread : WF_vars(Wait(t) \/ ReleaseOne(t) \/ NotifyOne(t))

Spec == Init /\ [][Next]_vars /\ Fairness

\* Borrowers that may keep an object for as long as they like.
SpecKeeping == Init /\ [][Next]_vars /\ Scheduled
-----------------------------------------------------------------------------
Created == 1 .. buffer.size
Free == {free_list[i] : i \in DOMAIN free_list}
Lent == {hold[t] : t \in Thread} \ {Null}

\* No object is ever lent twice, lost or lent and free at once: every object the pool made is
\* either exactly once in the free list and marked free, or with exactly one thread; the pool
\* makes no more than max_size; and the flag that ends a wait only shows while an object is
\* free, so that the "unknown par error" of borrow_one is never thrown.
PoolSound ==
  /\ buffer.size <= max_size
  /\ \A i, j \in DOMAIN free_list : free_list[i] = free_list[j] => i = j
  /\ \A t, u \in Thread : hold[t] = hold[u] /\ hold[t] # Null => t = u
  /\ Free \cap Lent = {} /\ Free \cup Lent = Created
  /\ \A o \in Created : buffer.extra[o] <=> o \in Free
  /\ \A t \in Thread : hold[t] # Null <=> pc[t] = "holding"
  /\ new_obj_ready => free_list # <<>>
  /\ \A t \in Thread : pc[t] # "threw"

Waiting(t) == pc[t] \in {"second", "asleep", "woken"}

\* When every thread gives back what it borrows, every thread that waits in borrow_one gets
\* an object: the releases that no waiter noticed, because a borrower reset new_obj_ready
\* after them, are made up for by that borrower's own release.
WaitersServed == \A t \in Thread : Waiting(t) ~> pc[t] = "holding"

\* borrow_one waits until other threads release an object, and no longer, also when a
\* borrower keeps its own: no thread waits for ever beside a free object.
WaitsUntilRelease == \A t \in Thread : ~ <>[](Waiting(t) /\ free_list # <<>>)
=============================================================================
