----------------------------- MODULE GoWorkerPool -----------------------------
(***************************************************************************)
(* The Go server's accept loop, dispatcher and workers: Server.Start and   *)
(* worker_pool.go.                                                         *)
(*                                                                         *)
(*   Accept -> JobQueue -> dispatch -> one goroutine per job               *)
(*                                        <- WorkerPool <- idle workers    *)
(*                                        -> JobChannel of the worker      *)
(*                                                                         *)
(* Start makes JobQueue only after it has started dispatch, which reads    *)
(* the variable without synchronisation: a select that meets the nil       *)
(* channel waits for ever.                                                 *)
(***************************************************************************)
EXTENDS Integers, Sequences, FiniteSets

CONSTANTS
  Worker,    \* the MaxWorker workers
  MaxQueue,  \* capacity of JobQueue
  MaxJobs    \* connections that are ever accepted

ASSUME PoolAssumption ==
  /\ IsFiniteSet(Worker) /\ Worker # {}
  /\ MaxQueue \in Nat \ {0} /\ MaxJobs \in Nat

VARIABLES
  lpc,       \* Start: "run", "make", "accept", "put"
  made,      \* JobQueue # nil
  accepted,  \* connections accepted so far; they are numbered 1, 2, ...
  failed,    \* the unserved ones for which Accept returned an error and no connection
  queue,     \* JobQueue
  dpc,       \* dispatch: "off", "eval" (about to evaluate JobQueue), "recv", "nil"
  spawned,   \* jobs whose goroutine waits for a worker
  given,     \* <<job, worker>>: the goroutine is sending the job to the worker
  pool,      \* WorkerPool: the workers that have registered
  wpc,       \* each worker: "off", "register", "select", "handle", "hung"
  wjob,      \* the job a worker handles, 0 when none
  served     \* jobs whose handle has returned

vars == <<lpc, made, accepted, failed, queue, dpc, spawned, given, pool, wpc, wjob, served>>
lisVars == <<lpc, made, accepted, failed>>
disVars == <<dpc, spawned, given>>
wrkVars == <<wpc, wjob, served>>

Job == 1 .. MaxJobs

Init ==
  /\ lpc = "run" /\ made = FALSE /\ accepted = 0 /\ failed = {}
  /\ queue = <<>> /\ dpc = "off" /\ spawned = {} /\ given = {} /\ pool = <<>>
  /\ wpc = [w \in Worker |-> "off"] /\ wjob = [w \in Worker |-> 0] /\ served = {}
-----------------------------------------------------------------------------
(* Server.Start *)

\* dispatcher.Run: the workers and dispatch start.
Run ==
  /\ lpc = "run"
  /\ lpc' = "make"
  /\ wpc' = [w \in Worker |-> "register"]
  /\ dpc' = "eval"
  /\ UNCHANGED <<made, accepted, failed, queue, spawned, given, pool, wjob, served>>

\* JobQueue = make(chan Job, maxq)
Make ==
  /\ lpc = "make"
  /\ lpc' = "accept"
  /\ made' = TRUE
  /\ UNCHANGED <<accepted, failed, queue, disVars, pool, wrkVars>>

\* s.l.Accept(); an error is logged and its nil connection becomes a job as well.
Accept ==
  /\ lpc = "accept" /\ accepted < MaxJobs
  /\ lpc' = "put"
  /\ accepted' = accepted + 1
  /\ failed' = failed \/ failed' = failed \cup {accepted + 1}
  /\ UNCHANGED <<made, queue, disVars, pool, wrkVars>>

\* JobQueue <- work
Enqueue ==
  /\ lpc = "put" /\ Len(queue) < MaxQueue
  /\ lpc' = "accept"
  /\ queue' = Append(queue, accepted)
  /\ UNCHANGED <<made, accepted, failed, disVars, pool, wrkVars>>
-----------------------------------------------------------------------------
(* Dispatcher.dispatch and the goroutine it starts per job *)

\* select evaluates JobQueue.
Evaluate ==
  /\ dpc = "eval"
  /\ dpc' = IF made THEN "recv" ELSE "nil"
  /\ UNCHANGED <<lisVars, queue, spawned, given, pool, wrkVars>>

\* Variant: the goroutine waits for a worker in the dispatcher's own loop.
ReceiveInline ==
  /\ dpc = "recv" /\ queue # <<>> /\ spawned = {}
  /\ dpc' = "eval"
  /\ spawned' = spawned \cup {Head(queue)}
  /\ queue' = Tail(queue)
  /\ UNCHANGED <<lisVars, given, pool, wrkVars>>

\* Variant: dispatch returns after its first job.
ReceiveOnce ==
  /\ dpc = "recv" /\ queue # <<>>
  /\ dpc' = "off"
  /\ spawned' = spawned \cup {Head(queue)}
  /\ queue' = Tail(queue)
  /\ UNCHANGED <<lisVars, given, pool, wrkVars>>

\* job := <-JobQueue; go func(job Job)
Receive ==
  /\ dpc = "recv" /\ queue # <<>>
  /\ dpc' = "eval"
  /\ spawned' = spawned \cup {Head(queue)}
  /\ queue' = Tail(queue)
  /\ UNCHANGED <<lisVars, given, pool, wrkVars>>

\* Variant: the worker stays in the pool while the job is on its way.
TakeWorkerPeek(j) ==
  /\ j \in spawned /\ pool # <<>>
  /\ spawned' = spawned \ {j}
  /\ given' = given \cup {<<j, Head(pool)>>}
  /\ UNCHANGED <<lisVars, queue, dpc, pool, wrkVars>>

\* jobChannel := <-d.WorkerPool
TakeWorker(j) ==
  /\ j \in spawned /\ pool # <<>>
  /\ spawned' = spawned \ {j}
  /\ given' = given \cup {<<j, Head(pool)>>}
  /\ pool' = Tail(pool)
  /\ UNCHANGED <<lisVars, queue, dpc, wrkVars>>

\* Variant: the goroutine keeps its job after handing it over.
GiveAgain(j, w) ==
  /\ <<j, w>> \in given /\ wpc[w] = "select"
  /\ given' = given \ {<<j, w>>}
  /\ spawned' = spawned \cup {j}
  /\ wpc' = [wpc EXCEPT ![w] = "handle"]
  /\ wjob' = [wjob EXCEPT ![w] = j]
  /\ UNCHANGED <<lisVars, queue, dpc, pool, served>>

\* jobChannel <- job meets the worker's select.
Give(j, w) ==
  /\ <<j, w>> \in given /\ wpc[w] = "select"
  /\ given' = given \ {<<j, w>>}
  /\ wpc' = [wpc EXCEPT ![w] = "handle"]
  /\ wjob' = [wjob EXCEPT ![w] = j]
  /\ UNCHANGED <<lisVars, queue, dpc, spawned, pool, served>>

Dispatch == Evaluate \/ Receive \/ \E j \in spawned : TakeWorker(j)
-----------------------------------------------------------------------------
(* Worker.Start *)

\* w.WorkerPool <- w.JobChannel
Register(w) ==
  /\ wpc[w] = "register" /\ Len(pool) < Cardinality(Worker)
  /\ wpc' = [wpc EXCEPT ![w] = "select"]
  /\ pool' = Append(pool, w)
  /\ UNCHANGED <<lisVars, queue, disVars, wjob, served>>

\* s.handle returns.
Return(w) ==
  /\ wpc[w] = "handle"
  /\ wpc' = [wpc EXCEPT ![w] = "register"]
  /\ served' = served \cup {wjob[w]}
  /\ failed' = failed \ {wjob[w]}
  /\ wjob' = [wjob EXCEPT ![w] = 0]
  /\ UNCHANGED <<lpc, made, accepted, queue, disVars, pool>>

\* s.handle never returns: a stranded session, or a client that stays connected.  The
\* handler of a nil connection returns at once.
Hang(w) ==
  /\ wpc[w] = "handle" /\ wjob[w] \notin failed
  /\ wpc' = [wpc EXCEPT ![w] = "hung"]
  /\ UNCHANGED <<lisVars, queue, disVars, pool, wjob, served>>
-----------------------------------------------------------------------------
Listener == Run \/ Make \/ Enqueue
Deliver == \E w \in Worker : \E j \in Job : Give(j, w)

Next ==
  \/ Listener \/ Accept \/ Dispatch \/ Deliver
  \/ \E w \in Worker : Register(w) \/ Return(w) \/ Hang(w)

\* Goroutines that can run do; a handler that has not hung returns.
Fairness ==
  /\ WF_vars(Listener) /\ WF_vars(Dispatch) /\ WF_vars(Deliver)
  /\ \A w \in Worker : WF_vars(Register(w)) /\ WF_vars(Return(w))

Spec == Init /\ [][Next]_vars /\ Fairness
-----------------------------------------------------------------------------
Queued == {queue[i] : i \in 1 .. Len(queue)}
Pooled == {pool[i] : i \in 1 .. Len(pool)}
Busy(w) == wpc[w] \in {"handle", "hung"}
Given == {g[1] : g \in given}
Waiting == Queued \cup spawned \cup Given \cup (IF lpc = "put" THEN {accepted} ELSE {})

\* The variables' types; the two channels stay within their capacity, a busy worker has a
\* job.
TypeOK ==
  /\ lpc \in {"run", "make", "accept", "put"} /\ made \in BOOLEAN
  /\ accepted \in 0 .. MaxJobs /\ failed \subseteq Job
  /\ queue \in Seq(Job) /\ Len(queue) <= MaxQueue
  /\ dpc \in {"off", "eval", "recv", "nil"}
  /\ spawned \subseteq Job /\ given \subseteq Job \X Worker
  /\ pool \in Seq(Worker) /\ Len(pool) <= Cardinality(Worker)
  /\ wpc \in [Worker -> {"off", "register", "select", "handle", "hung"}]
  /\ wjob \in [Worker -> 0 .. MaxJobs] /\ served \subseteq Job
  /\ lpc = "put" => accepted \in Job
  /\ \A w \in Worker : Busy(w) => wjob[w] \in Job

\* No value twice.
Distinct(s) == \A i, k \in 1 .. Len(s) : s[i] = s[k] => i = k

Running == {wjob[w] : w \in {v \in Worker : Busy(v)}}

\* A connection that was accepted is waiting, running or served, and nowhere twice: none
\* is lost between Accept, the queue, its goroutine and the worker, and no two workers
\* get the same one.
JobConserved ==
  /\ 1 .. accepted = Waiting \cup Running \cup served
  /\ Waiting \cap Running = {} /\ Waiting \cap served = {} /\ Running \cap served = {}
  /\ Distinct(queue) /\ Queued \cap spawned = {} /\ Queued \cap Given = {} /\ spawned \cap Given = {}
  /\ \A g, h \in given : g[1] = h[1] => g = h
  /\ lpc = "put" => accepted \notin Queued \cup spawned \cup Given
  /\ \A v, w \in Worker : Busy(v) /\ Busy(w) /\ wjob[v] = wjob[w] => v = w

\* Before Run nothing is started.
NotStarted == lpc = "run" => \A w \in Worker : wpc[w] = "off"

\* A worker at its select is either in WorkerPool or promised to exactly one job, so the
\* send on its JobChannel never waits for a worker that is busy.
WorkerPromised ==
  /\ \A g \in given : wpc[g[2]] = "select" /\ g[2] \notin Pooled
  /\ \A g, h \in given : g[2] = h[2] => g = h
  /\ \A w \in Pooled : wpc[w] = "select"
  /\ Distinct(pool)

\* The pool implements the abstract one.
Abstract == INSTANCE JobPool WITH
  waiting <- Waiting,
  running <- [w \in Worker |-> IF Busy(w) THEN {wjob[w]} ELSE {}]
AbstractSpec == Abstract!Spec

\* The accept loop is never held up by busy or hung workers: while the dispatcher lives
\* the queue drains into goroutines, however many jobs already wait for a worker.
AcceptNeverBlocked == lpc = "put" ~> (lpc = "accept" \/ dpc = "nil")

\* Every accepted connection is served or handled for ever, unless the dispatcher died or
\* all the workers hang.  What is settled stays so, and MaxJobs connections come: from some
\* point on all of them are.
Settled(j) ==
  \/ j \in served \/ dpc = "nil"
  \/ \E w \in Worker : wpc[w] = "hung" /\ wjob[w] = j
  \/ \A w \in Worker : wpc[w] = "hung"
EveryJobServed == <>[](\A j \in Job : j <= accepted => Settled(j))
=============================================================================
