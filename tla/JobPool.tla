------------------------------- MODULE JobPool -------------------------------
(***************************************************************************)
(* What the Go server's worker pool promises: every accepted connection    *)
(* waits until a worker takes it, one worker runs one connection at a      *)
(* time, and a connection that was run is never run again.                 *)
(***************************************************************************)
EXTENDS Integers, FiniteSets

CONSTANTS Job, Worker

VARIABLES
  waiting,   \* accepted and not yet taken by a worker
  running,   \* running[w]: the jobs worker w runs
  served     \* jobs whose handler has returned

vars == <<waiting, running, served>>

Init == waiting = {} /\ running = [w \in Worker |-> {}] /\ served = {}

Fresh(j) == j \notin waiting \cup served /\ \A w \in Worker : j \notin running[w]

Accept(j) ==
  /\ Fresh(j)
  /\ waiting' = waiting \cup {j}
  /\ UNCHANGED <<running, served>>

Take(j, w) ==
  /\ j \in waiting /\ running[w] = {}
  /\ waiting' = waiting \ {j}
  /\ running' = [running EXCEPT ![w] = {j}]
  /\ UNCHANGED served

Return(j, w) ==
  /\ running[w] = {j}
  /\ running' = [running EXCEPT ![w] = {}]
  /\ served' = served \cup {j}
  /\ UNCHANGED waiting

Next == \E j \in Job : Accept(j) \/ \E w \in Worker : Take(j, w) \/ Return(j, w)

Spec == Init /\ [][Next]_vars
=============================================================================
