-------------------------- MODULE GoWorkerPoolProofs --------------------------
(***************************************************************************)
(* Theorems about GoWorkerPool for every number of workers, queue slots    *)
(* and connections.                                                        *)
(***************************************************************************)
EXTENDS GoWorkerPool, FiniteSetTheorems, TLAPS

\* The elements of a sequence.
Elems(s) == {s[i] : i \in 1 .. Len(s)}

\* What a send adds to a channel's buffer.
LEMMA AppendElems ==
  ASSUME NEW S, NEW s \in Seq(S), NEW x \in S
  PROVE  /\ Append(s, x) \in Seq(S) /\ Len(Append(s, x)) = Len(s) + 1
         /\ Elems(Append(s, x)) = Elems(s) \cup {x}
         /\ Distinct(s) /\ x \notin Elems(s) => Distinct(Append(s, x))
<1> DEFINE t == Append(s, x)
<1>1. /\ t \in Seq(S) /\ Len(t) = Len(s) + 1 /\ Len(s) \in Nat
      /\ t[Len(s) + 1] = x
      /\ \A i \in 1 .. Len(s) : t[i] = s[i]
  OBVIOUS
<1> HIDE DEF t
<1>2. 1 .. Len(t) = (1 .. Len(s)) \cup {Len(s) + 1}
  BY <1>1
<1>3. Elems(t) = Elems(s) \cup {x}
  BY <1>1, <1>2 DEF Elems
<1>4. ASSUME Distinct(s), x \notin Elems(s) PROVE Distinct(t)
  BY <1>1, <1>2, <1>4 DEF Distinct, Elems
<1> QED
  BY <1>1, <1>3, <1>4 DEF t

\* What a receive leaves of it.
LEMMA TailElems ==
  ASSUME NEW S, NEW s \in Seq(S), s # <<>>
  PROVE  /\ Tail(s) \in Seq(S) /\ Len(Tail(s)) = Len(s) - 1
         /\ Head(s) \in S /\ Elems(s) = Elems(Tail(s)) \cup {Head(s)}
         /\ Distinct(s) => Distinct(Tail(s)) /\ Head(s) \notin Elems(Tail(s))
<1> DEFINE t == Tail(s)
<1>1. /\ t \in Seq(S) /\ Len(t) = Len(s) - 1 /\ Len(s) \in Nat \ {0}
      /\ Head(s) = s[1] /\ Head(s) \in S
      /\ \A i \in 1 .. Len(t) : t[i] = s[i + 1]
  OBVIOUS
<1> HIDE DEF t
<1>2. \A i \in 1 .. Len(s) : i = 1 \/ i - 1 \in 1 .. Len(t)
  BY <1>1
<1>3. \A i \in 1 .. Len(t) : i + 1 \in 1 .. Len(s) /\ i + 1 # 1
  BY <1>1
<1>4. Elems(s) = Elems(t) \cup {Head(s)}
  <2>1. ASSUME NEW y \in Elems(s) PROVE y \in Elems(t) \cup {Head(s)}
    <3>1. PICK i \in 1 .. Len(s) : y = s[i]
      BY DEF Elems
    <3>2. CASE i = 1
      BY <3>1, <3>2, <1>1
    <3>3. CASE i - 1 \in 1 .. Len(t)
      <4>1. t[i - 1] = s[i]
        BY <3>1, <3>3, <1>1
      <4> QED
        BY <3>1, <3>3, <4>1 DEF Elems
    <3> QED
      BY <3>2, <3>3, <1>2
  <2>2. ASSUME NEW y \in Elems(t) PROVE y \in Elems(s)
    <3>1. PICK i \in 1 .. Len(t) : y = t[i]
      BY DEF Elems
    <3> QED
      BY <3>1, <1>1, <1>3 DEF Elems
  <2>3. Head(s) \in Elems(s)
    BY <1>1 DEF Elems
  <2> QED
    BY <2>1, <2>2, <2>3
<1>5. ASSUME Distinct(s) PROVE Distinct(t) /\ Head(s) \notin Elems(t)
  <2>1. ASSUME NEW i \in 1 .. Len(t), NEW k \in 1 .. Len(t), t[i] = t[k] PROVE i = k
    <3>1. i + 1 = k + 1
      BY <2>1, <1>1, <1>3, <1>5 DEF Distinct
    <3> QED
      BY <3>1
  <2>2. ASSUME NEW i \in 1 .. Len(t), t[i] = Head(s) PROVE FALSE
    <3>1. i + 1 = 1
      BY <2>2, <1>1, <1>3, <1>5 DEF Distinct
    <3> QED
      BY <3>1, <1>3
  <2> QED
    BY <2>1, <2>2 DEF Distinct, Elems
<1> QED
  BY <1>1, <1>4, <1>5 DEF t

LEMMA CardNat == Cardinality(Worker) \in Nat
  BY FS_CardinalityType, PoolAssumption
-----------------------------------------------------------------------------
LEMMA TypeInit == Init => TypeOK
<1> SUFFICES ASSUME Init PROVE TypeOK
  OBVIOUS
<1> USE PoolAssumption, CardNat DEF Init
<1>1. queue \in Seq(Job) /\ Len(queue) <= MaxQueue /\ pool \in Seq(Worker) /\ Len(pool) <= Cardinality(Worker)
  OBVIOUS
<1>2. accepted \in 0 .. MaxJobs /\ wjob \in [Worker -> 0 .. MaxJobs]
  OBVIOUS
<1> QED
  BY <1>1, <1>2 DEF TypeOK, Busy

LEMMA TypeStep == TypeOK /\ [Next]_vars => TypeOK'
<1> SUFFICES ASSUME TypeOK, [Next]_vars PROVE TypeOK'
  OBVIOUS
<1> USE PoolAssumption, CardNat DEF TypeOK, Busy
<1>1. CASE Run
  BY <1>1 DEF Run
<1>2. CASE Make
  BY <1>2 DEF Make, disVars, wrkVars
<1>3. CASE Accept
  <2>1. accepted + 1 \in Job /\ accepted + 1 \in 0 .. MaxJobs
    BY <1>3 DEF Accept, Job
  <2>2. failed' \subseteq Job
    BY <1>3, <2>1 DEF Accept
  <2> QED
    BY <1>3, <2>1, <2>2 DEF Accept, disVars, wrkVars
<1>4. CASE Enqueue
  <2>1. Append(queue, accepted) \in Seq(Job) /\ Len(Append(queue, accepted)) <= MaxQueue
    BY <1>4, AppendElems DEF Enqueue
  <2> QED
    BY <1>4, <2>1 DEF Enqueue, disVars, wrkVars
<1>5. CASE Evaluate
  BY <1>5 DEF Evaluate, lisVars, wrkVars
<1>6. CASE Receive
  BY <1>6, TailElems DEF Receive, lisVars, wrkVars
<1>7. ASSUME NEW j \in spawned, TakeWorker(j) PROVE TypeOK'
  <2>1. /\ Tail(pool) \in Seq(Worker) /\ Len(Tail(pool)) <= Cardinality(Worker)
        /\ <<j, Head(pool)>> \in Job \X Worker
    BY <1>7, TailElems DEF TakeWorker
  <2> QED
    BY <1>7, <2>1 DEF TakeWorker, lisVars, wrkVars
<1>8. ASSUME NEW j \in Job, NEW w \in Worker, Give(j, w) PROVE TypeOK'
  BY <1>8 DEF Give, lisVars, Job
<1>9. ASSUME NEW w \in Worker, Register(w) PROVE TypeOK'
  <2>1. Append(pool, w) \in Seq(Worker) /\ Len(Append(pool, w)) <= Cardinality(Worker)
    BY <1>9, AppendElems DEF Register
  <2> QED
    BY <1>9, <2>1 DEF Register, lisVars, disVars
<1>10. ASSUME NEW w \in Worker, Return(w) PROVE TypeOK'
  <2>1. wjob[w] \in Job
    BY <1>10 DEF Return
  <2>2. failed' \subseteq Job /\ served' \subseteq Job
    BY <1>10, <2>1 DEF Return
  <2>3. wjob' \in [Worker -> 0 .. MaxJobs] /\ \A v \in Worker : v # w => wjob'[v] = wjob[v]
    BY <1>10 DEF Return
  <2>4. \A v \in Worker : (Busy(v))' => v # w /\ Busy(v)
    BY <1>10 DEF Return
  <2> QED
    BY <1>10, <2>2, <2>3, <2>4 DEF Return, disVars
<1>11. ASSUME NEW w \in Worker, Hang(w) PROVE TypeOK'
  BY <1>11 DEF Hang, lisVars, disVars
<1>12. CASE UNCHANGED vars
  BY <1>12 DEF vars
<1> QED
  BY <1>1, <1>2, <1>3, <1>4, <1>5, <1>6, <1>7, <1>8, <1>9, <1>10, <1>11, <1>12
     DEF Next, Listener, Dispatch, Deliver
-----------------------------------------------------------------------------
LEMMA PromisedInit == Init => WorkerPromised /\ NotStarted
  BY DEF Init, WorkerPromised, NotStarted, Pooled, Distinct

LEMMA PromisedStep ==
  TypeOK /\ WorkerPromised /\ NotStarted /\ [Next]_vars => WorkerPromised' /\ NotStarted'
<1> SUFFICES ASSUME TypeOK, WorkerPromised, NotStarted, [Next]_vars
             PROVE  WorkerPromised' /\ NotStarted'
  OBVIOUS
<1>a. /\ pool \in Seq(Worker) /\ wpc \in [Worker -> {"off", "register", "select", "handle", "hung"}]
      /\ given \subseteq Job \X Worker /\ Pooled = Elems(pool) /\ Pooled' = Elems(pool')
      /\ Pooled \subseteq Worker /\ \A g \in given : g[2] \in Worker
  BY DEF TypeOK, Pooled, Elems
<1>1. CASE Run
  <2>1. Pooled = {} /\ given = {}
    BY <1>1, <1>a DEF Run, NotStarted, WorkerPromised
  <2> QED
    BY <1>1, <1>a, <2>1 DEF Run, NotStarted, WorkerPromised
<1>2. CASE UNCHANGED <<pool, wpc, given>> /\ lpc' # "run"
  BY <1>2 DEF WorkerPromised, NotStarted, Pooled
<1>3. CASE UNCHANGED <<pool, wpc, given, lpc>>
  BY <1>3 DEF WorkerPromised, NotStarted, Pooled
<1>4. ASSUME NEW j \in spawned, TakeWorker(j) PROVE WorkerPromised' /\ NotStarted'
  <2> DEFINE w == Head(pool)
  <2>1. /\ w \in Pooled /\ w \notin Pooled' /\ Pooled' \subseteq Pooled /\ Distinct(pool)'
    BY <1>4, <1>a, TailElems DEF TakeWorker, WorkerPromised
  <2>2. given' = given \cup {<<j, w>>} /\ UNCHANGED <<wpc, lpc>>
    BY <1>4 DEF TakeWorker, lisVars, wrkVars
  <2> HIDE DEF w
  <2>3. \A g \in given : g[2] # w
    BY <2>1 DEF WorkerPromised
  <2> QED
    BY <2>1, <2>2, <2>3 DEF WorkerPromised, NotStarted
<1>5. ASSUME NEW j \in Job, NEW w \in Worker, Give(j, w) PROVE WorkerPromised' /\ NotStarted'
  <2>1. /\ given' = given \ {<<j, w>>} /\ <<j, w>> \in given /\ UNCHANGED <<pool, lpc>>
        /\ \A v \in Worker : v # w => wpc'[v] = wpc[v]
    BY <1>5, <1>a DEF Give, lisVars
  <2>2. w \notin Pooled /\ \A g \in given' : g[2] # w
    BY <2>1 DEF WorkerPromised
  <2>3. Pooled' = Pooled /\ Distinct(pool)'
    BY <2>1 DEF Pooled, WorkerPromised
  <2>4. lpc # "run"
    BY <1>5 DEF NotStarted, Give
  <2> QED
    BY <1>a, <2>1, <2>2, <2>3, <2>4 DEF WorkerPromised, NotStarted
<1>6. ASSUME NEW w \in Worker, Register(w) PROVE WorkerPromised' /\ NotStarted'
  <2>1. w \notin Pooled /\ \A g \in given : g[2] # w
    BY <1>6 DEF WorkerPromised, Register
  <2>2. Pooled' = Pooled \cup {w} /\ Distinct(pool)'
    BY <1>6, <1>a, <2>1, AppendElems DEF Register, WorkerPromised
  <2>3. /\ wpc'[w] = "select" /\ UNCHANGED <<given, lpc>> /\ \A v \in Worker : v # w => wpc'[v] = wpc[v]
    BY <1>6, <1>a DEF Register, lisVars, disVars
  <2>4. lpc # "run"
    BY <1>6 DEF NotStarted, Register
  <2> QED
    BY <1>a, <2>1, <2>2, <2>3, <2>4 DEF WorkerPromised, NotStarted
<1>7. ASSUME NEW w \in Worker, Return(w) \/ Hang(w) PROVE WorkerPromised' /\ NotStarted'
  <2>1. w \notin Pooled /\ \A g \in given : g[2] # w
    BY <1>7 DEF WorkerPromised, Return, Hang
  <2>2. UNCHANGED <<given, lpc, pool>> /\ \A v \in Worker : v # w => wpc'[v] = wpc[v]
    BY <1>7, <1>a DEF Return, Hang, lisVars, disVars
  <2>3. lpc # "run"
    BY <1>7 DEF NotStarted, Return, Hang
  <2>4. Pooled' = Pooled /\ Distinct(pool)'
    BY <2>2 DEF Pooled, WorkerPromised
  <2> QED
    BY <1>a, <2>1, <2>2, <2>3, <2>4 DEF WorkerPromised, NotStarted
<1>8. CASE Make \/ Accept \/ Enqueue
  BY <1>8, <1>2 DEF Make, Accept, Enqueue, disVars, wrkVars
<1>9. CASE Evaluate \/ Receive \/ UNCHANGED vars
  BY <1>9, <1>3 DEF Evaluate, Receive, vars, lisVars, wrkVars
<1> QED
  BY <1>1, <1>4, <1>5, <1>6, <1>7, <1>8, <1>9 DEF Next, Listener, Dispatch, Deliver
-----------------------------------------------------------------------------
IInv == TypeOK /\ WorkerPromised /\ NotStarted /\ JobConserved

\* The connection Start holds between Accept and its send on JobQueue.
Put == IF lpc = "put" THEN {accepted} ELSE {}

LEMMA ConservedInit == Init => JobConserved
<1> SUFFICES ASSUME Init PROVE JobConserved
  OBVIOUS
<1>1. Queued = {} /\ Given = {} /\ Running = {} /\ Waiting = {} /\ Distinct(queue)
  BY DEF Init, Queued, Given, Running, Waiting, Busy, Distinct
<1>2. 1 .. accepted = {}
  BY DEF Init
<1> QED
  BY <1>1, <1>2 DEF Init, JobConserved, Busy

\* The steps that move no job between waiting, running and served.
LEMMA ConservedIdle ==
  ASSUME JobConserved, UNCHANGED <<accepted, queue, spawned, given, wjob, served>>,
         Put' = Put, \A w \in Worker : (Busy(w))' = Busy(w)
  PROVE  JobConserved' /\ Waiting' = Waiting /\ Running' = Running
<1>1. Queued' = Queued /\ Given' = Given /\ Distinct(queue)' = Distinct(queue)
  BY DEF Queued, Given, Distinct
<1>2. Waiting' = Waiting
  BY <1>1 DEF Waiting, Put
<1>3. Running' = Running
  BY DEF Running
<1>4. lpc' = "put" => lpc = "put"
  BY DEF Put
<1> QED
  BY <1>1, <1>2, <1>3, <1>4 DEF JobConserved

\* What Accept does to the sets of jobs.
LEMMA ConservedAccept ==
  ASSUME IInv, Accept
  PROVE  JobConserved' /\ Waiting' = Waiting \cup {accepted + 1} /\ Running' = Running
<1>1. /\ accepted \in Nat /\ accepted' = accepted + 1 /\ lpc = "accept" /\ lpc' = "put"
      /\ UNCHANGED <<queue, spawned, given, wpc, wjob, served>>
  BY DEF Accept, IInv, TypeOK, disVars, wrkVars
<1>2. Queued' = Queued /\ Given' = Given /\ Running' = Running /\ Distinct(queue)' = Distinct(queue)
  BY <1>1 DEF Queued, Given, Running, Busy, Distinct
<1>3. Waiting = Queued \cup spawned \cup Given /\ Waiting' = Waiting \cup {accepted + 1}
  BY <1>1, <1>2 DEF Waiting
<1>4. accepted + 1 \notin 1 .. accepted /\ 1 .. (accepted + 1) = (1 .. accepted) \cup {accepted + 1}
  BY <1>1
<1>5. accepted + 1 \notin Waiting \cup Running \cup served
  BY <1>4 DEF IInv, JobConserved
<1>6. \A w \in Worker : (Busy(w))' = Busy(w)
  BY <1>1 DEF Busy
<1> QED
  BY <1>1, <1>2, <1>3, <1>4, <1>5, <1>6 DEF IInv, JobConserved

\* The steps that carry a waiting job from Start to the queue, to a goroutine, to a
\* worker's channel.
LEMMA ConservedMove ==
  ASSUME IInv, Enqueue \/ Receive \/ \E j \in spawned : TakeWorker(j)
  PROVE  JobConserved' /\ Waiting' = Waiting /\ Running' = Running
<1> SUFFICES ASSUME TRUE
             PROVE  /\ Waiting' = Waiting
                    /\ UNCHANGED <<accepted, wpc, wjob, served>>
                    /\ Distinct(queue)' /\ (Queued \cap spawned = {})' /\ (Queued \cap Given = {})'
                    /\ (spawned \cap Given = {})'
                    /\ \A g, h \in given' : g[1] = h[1] => g = h
                    /\ lpc' = "put" => accepted \notin (Queued \cup spawned \cup Given)'
  <2>1. UNCHANGED <<accepted, wpc, wjob, served>>
    BY DEF Enqueue, Receive, TakeWorker, lisVars, wrkVars
  <2>2. Running' = Running /\ \A w \in Worker : (Busy(w))' = Busy(w)
    BY <2>1 DEF Running, Busy
  <2> QED
    BY <2>1, <2>2 DEF IInv, JobConserved
<1>a. /\ queue \in Seq(Job) /\ spawned \subseteq Job /\ Queued = Elems(queue) /\ Queued' = Elems(queue')
      /\ lpc = "put" => accepted \in Job
  BY DEF IInv, TypeOK, Queued, Elems
<1>b. /\ Distinct(queue) /\ Queued \cap spawned = {} /\ Queued \cap Given = {} /\ spawned \cap Given = {}
      /\ \A g, h \in given : g[1] = h[1] => g = h
      /\ lpc = "put" => accepted \notin Queued \cup spawned \cup Given
  BY DEF IInv, JobConserved
<1>c. /\ Waiting = Queued \cup spawned \cup Given \cup Put
      /\ Waiting' = Queued' \cup spawned' \cup Given' \cup Put'
  BY DEF Waiting, Put
<1>1. CASE Enqueue
  <2>1. /\ lpc = "put" /\ lpc' = "accept" /\ queue' = Append(queue, accepted)
        /\ UNCHANGED <<accepted, spawned, given, wpc, wjob, served>>
    BY <1>1 DEF Enqueue, disVars, wrkVars
  <2>2. Queued' = Queued \cup {accepted} /\ Distinct(queue)' /\ Given' = Given
    BY <2>1, <1>a, <1>b, AppendElems DEF Given
  <2>3. Put = {accepted} /\ Put' = {}
    BY <2>1 DEF Put
  <2> QED
    BY <2>1, <2>2, <2>3, <1>b, <1>c
<1>2. CASE Receive
  <2> DEFINE j == Head(queue)
  <2>1. /\ spawned' = spawned \cup {j} /\ queue # <<>> /\ queue' = Tail(queue)
        /\ UNCHANGED <<accepted, lpc, given, wpc, wjob, served>>
    BY <1>2 DEF Receive, lisVars, wrkVars
  <2>2. Queued = Queued' \cup {j} /\ j \notin Queued' /\ Distinct(queue)' /\ Given' = Given
    BY <2>1, <1>a, <1>b, TailElems DEF Given
  <2>3. Put' = Put
    BY <2>1 DEF Put
  <2> HIDE DEF j
  <2> QED
    BY <2>1, <2>2, <2>3, <1>b, <1>c
<1>3. ASSUME NEW j \in spawned, TakeWorker(j)
      PROVE  /\ Waiting' = Waiting
             /\ UNCHANGED <<accepted, wpc, wjob, served>>
             /\ Distinct(queue)' /\ (Queued \cap spawned = {})' /\ (Queued \cap Given = {})'
             /\ (spawned \cap Given = {})'
             /\ \A g, h \in given' : g[1] = h[1] => g = h
             /\ lpc' = "put" => accepted \notin (Queued \cup spawned \cup Given)'
  <2> DEFINE w == Head(pool)
  <2>1. /\ spawned' = spawned \ {j} /\ given' = given \cup {<<j, w>>}
        /\ UNCHANGED <<accepted, lpc, queue, wpc, wjob, served>>
    BY <1>3 DEF TakeWorker, lisVars, wrkVars
  <2> HIDE DEF w
  <2>2. Queued' = Queued /\ Distinct(queue)' /\ Given' = Given \cup {j} /\ Put' = Put
    <3>1. Queued' = Queued /\ Distinct(queue)' /\ Put' = Put
      BY <2>1, <1>b DEF Put, Queued, Distinct
    <3>2. Given' = {g[1] : g \in given \cup {<<j, w>>}}
      BY <2>1 DEF Given
    <3>3. {g[1] : g \in given \cup {<<j, w>>}} = {g[1] : g \in given} \cup {j}
      <4>1. <<j, w>>[1] = j
        OBVIOUS
      <4> DEFINE p == <<j, w>>
      <4> HIDE DEF p
      <4>2. p[1] = j => {g[1] : g \in given \cup {p}} = {g[1] : g \in given} \cup {j}
        OBVIOUS
      <4> QED
        BY <4>1, <4>2 DEF p
    <3> QED
      BY <3>1, <3>2, <3>3 DEF Given
  <2>3. \A g \in given : g[1] # j
    BY <1>b DEF Given
  <2>4. \A g, h \in given' : g[1] = h[1] => g = h
    BY <2>1, <2>3, <1>b
  <2> QED
    BY <2>1, <2>2, <2>4, <1>b, <1>c
<1> QED
  BY <1>1, <1>2, <1>3

\* What a worker's start on a job does to the sets of jobs.
LEMMA ConservedGive ==
  ASSUME IInv, NEW j \in Job, NEW w \in Worker, Give(j, w)
  PROVE  /\ JobConserved' /\ Waiting' = Waiting \ {j}
         /\ j \in Waiting /\ ~Busy(w) /\ (Busy(w))' /\ wjob'[w] = j
         /\ \A v \in Worker \ {w} : (Busy(v))' = Busy(v) /\ wjob'[v] = wjob[v]
<1>1. /\ <<j, w>> \in given /\ given' = given \ {<<j, w>>} /\ ~Busy(w) /\ (Busy(w))' /\ wjob'[w] = j
      /\ UNCHANGED <<lpc, accepted, queue, spawned, served>>
      /\ \A v \in Worker \ {w} : (Busy(v))' = Busy(v) /\ wjob'[v] = wjob[v]
  BY DEF Give, IInv, TypeOK, Busy, lisVars
<1>2. Queued' = Queued /\ Put' = Put /\ Distinct(queue)' = Distinct(queue)
  BY <1>1 DEF Queued, Put, Distinct
<1>b. /\ Distinct(queue) /\ Queued \cap spawned = {} /\ Queued \cap Given = {} /\ spawned \cap Given = {}
      /\ \A g, h \in given : g[1] = h[1] => g = h
      /\ lpc = "put" => accepted \notin Queued \cup spawned \cup Given
  BY DEF IInv, JobConserved
<1>3. Given' = Given \ {j} /\ j \in Given
  <2>1. j = <<j, w>>[1]
    OBVIOUS
  <2>2. j \in Given /\ j \notin Given'
    BY <1>1, <1>b, <2>1 DEF Given
  <2>3. ASSUME NEW g \in given, g[1] # j PROVE g[1] \in Given'
    BY <1>1, <2>1, <2>3 DEF Given
  <2>4. Given' \subseteq Given
    BY <1>1 DEF Given
  <2>5. Given \ {j} \subseteq Given'
    BY <2>3 DEF Given
  <2> QED
    BY <2>2, <2>4, <2>5
<1>4. Waiting' = Waiting \ {j} /\ j \in Waiting
  <2>1. /\ Waiting = Queued \cup spawned \cup Given \cup Put
        /\ Waiting' = Queued' \cup spawned' \cup Given' \cup Put'
    BY DEF Waiting, Put
  <2>2. j \notin Queued \cup spawned \cup Put
    BY <1>3, <1>b DEF Put
  <2> QED
    BY <1>1, <1>2, <1>3, <2>1, <2>2
<1>5. Running' = Running \cup {j}
  <2>1. Running' = {wjob'[v] : v \in {u \in Worker : (Busy(u))'}}
    BY DEF Running
  <2>2. {u \in Worker : (Busy(u))'} = {u \in Worker : Busy(u)} \cup {w}
    BY <1>1
  <2>3. \A v \in {u \in Worker : Busy(u)} : v \in Worker \ {w} /\ wjob'[v] = wjob[v]
    BY <1>1
  <2> QED
    BY <1>1, <2>1, <2>2, <2>3 DEF Running
<1>6. j \notin Running \cup served /\ \A v \in Worker : Busy(v) => wjob[v] # j
  BY <1>4 DEF IInv, JobConserved, Running
<1>7. \A u, v \in Worker : (Busy(u))' /\ (Busy(v))' /\ wjob'[u] = wjob'[v] => u = v
  BY <1>1, <1>6 DEF IInv, JobConserved
<1>8. 1 .. accepted = Waiting' \cup Running' \cup served /\ accepted' = accepted /\ served' = served
  BY <1>1, <1>4, <1>5 DEF IInv, JobConserved
<1>9. Waiting' \cap Running' = {} /\ Waiting' \cap served' = {} /\ Running' \cap served' = {}
  BY <1>1, <1>4, <1>5, <1>6 DEF IInv, JobConserved
<1>10. /\ Distinct(queue)' /\ (Queued \cap spawned = {})' /\ (Queued \cap Given = {})' /\ (spawned \cap Given = {})'
       /\ \A g, h \in given' : g[1] = h[1] => g = h
       /\ lpc' = "put" => accepted' \notin (Queued \cup spawned \cup Given)'
  BY <1>1, <1>2, <1>3, <1>b
<1> QED
  BY <1>1, <1>4, <1>7, <1>8, <1>9, <1>10 DEF JobConserved

\* What a handler's return does to the sets of jobs.
LEMMA ConservedReturn ==
  ASSUME IInv, NEW w \in Worker, Return(w)
  PROVE  /\ JobConserved' /\ Waiting' = Waiting
         /\ wjob[w] \in Job /\ Busy(w) /\ ~(Busy(w))' /\ served' = served \cup {wjob[w]}
         /\ \A v \in Worker \ {w} : (Busy(v))' = Busy(v) /\ wjob'[v] = wjob[v]
<1>1. /\ wjob[w] \in Job /\ Busy(w) /\ ~(Busy(w))' /\ served' = served \cup {wjob[w]}
      /\ UNCHANGED <<lpc, accepted, queue, spawned, given>>
      /\ \A v \in Worker \ {w} : (Busy(v))' = Busy(v) /\ wjob'[v] = wjob[v]
  BY DEF Return, IInv, TypeOK, Busy, disVars
<1>2. /\ Queued' = Queued /\ Given' = Given /\ Waiting' = Waiting /\ Distinct(queue)' = Distinct(queue)
  BY <1>1 DEF Queued, Given, Waiting, Distinct
<1> DEFINE j == wjob[w]
<1>3. Running' = Running \ {j} /\ j \in Running
  <2>1. Running' = {wjob'[v] : v \in {u \in Worker : (Busy(u))'}}
    BY DEF Running
  <2>2. {u \in Worker : (Busy(u))'} = {u \in Worker : Busy(u)} \ {w}
    BY <1>1
  <2>3. \A v \in {u \in Worker : Busy(u)} \ {w} : wjob'[v] = wjob[v] /\ wjob[v] # j
    BY <1>1 DEF IInv, JobConserved
  <2>4. j \in Running
    BY <1>1 DEF Running
  <2>5. Running' = {wjob[v] : v \in {u \in Worker : Busy(u)} \ {w}}
    BY <2>1, <2>2, <2>3
  <2> QED
    BY <2>3, <2>4, <2>5 DEF Running
<1>4. \A u, v \in Worker : (Busy(u))' /\ (Busy(v))' /\ wjob'[u] = wjob'[v] => u = v
  BY <1>1 DEF IInv, JobConserved
<1> HIDE DEF j
<1>5. served' = served \cup {j} /\ served' \cap Waiting = {} /\ Running' \cap served' = {}
      /\ 1 .. accepted = Waiting \cup Running' \cup served' /\ Waiting \cap Running' = {}
  BY <1>1, <1>3 DEF IInv, JobConserved, j
<1>6. JobConserved'
  BY <1>1, <1>2, <1>4, <1>5 DEF IInv, JobConserved
<1> QED
  BY <1>1, <1>2, <1>6

LEMMA BusySame ==
  ASSUME IInv,
         \/ Run \/ Make \/ Evaluate \/ UNCHANGED vars
         \/ \E w \in Worker : Register(w) \/ Hang(w)
  PROVE  /\ UNCHANGED <<accepted, queue, spawned, given, wjob, served>>
         /\ Put' = Put /\ \A w \in Worker : (Busy(w))' = Busy(w)
<1>1. UNCHANGED <<accepted, queue, spawned, given, wjob, served>>
  BY DEF Run, Make, Evaluate, Register, Hang, vars, lisVars, disVars, wrkVars
<1>2. Put' = Put
  BY <1>1 DEF Run, Make, Evaluate, Register, Hang, vars, lisVars, Put
<1>3. CASE Run
  BY <1>1, <1>2, <1>3 DEF Run, Busy, IInv, NotStarted
<1>4. CASE Make \/ Evaluate \/ UNCHANGED vars
  BY <1>1, <1>2, <1>4 DEF Make, Evaluate, vars, wrkVars, Busy
<1>5. ASSUME NEW w \in Worker, Register(w) \/ Hang(w) PROVE \A v \in Worker : (Busy(v))' = Busy(v)
  BY <1>5 DEF Register, Hang, Busy, IInv, TypeOK
<1> QED
  BY <1>1, <1>2, <1>3, <1>4, <1>5

LEMMA Inductive == IInv /\ [Next]_vars => IInv'
<1> SUFFICES ASSUME IInv, [Next]_vars PROVE IInv'
  OBVIOUS
<1>1. TypeOK' /\ WorkerPromised' /\ NotStarted'
  BY TypeStep, PromisedStep DEF IInv
<1>2. JobConserved'
  <2>1. CASE \/ Run \/ Make \/ Evaluate \/ UNCHANGED vars
             \/ \E w \in Worker : Register(w) \/ Hang(w)
    <3>1. /\ UNCHANGED <<accepted, queue, spawned, given, wjob, served>>
          /\ Put' = Put /\ \A w \in Worker : (Busy(w))' = Busy(w)
      BY <2>1, BusySame
    <3> QED
      BY <3>1, ConservedIdle DEF IInv
  <2>2. CASE Accept
    BY <2>2, ConservedAccept
  <2>3. CASE Enqueue \/ Receive \/ \E j \in spawned : TakeWorker(j)
    BY <2>3, ConservedMove
  <2>4. ASSUME NEW j \in Job, NEW w \in Worker, Give(j, w) PROVE JobConserved'
    BY <2>4, ConservedGive
  <2>5. ASSUME NEW w \in Worker, Return(w) PROVE JobConserved'
    BY <2>5, ConservedReturn
  <2> QED
    BY <2>1, <2>2, <2>3, <2>4, <2>5 DEF Next, Listener, Dispatch, Deliver
<1> QED
  BY <1>1, <1>2 DEF IInv

LEMMA Invariance == Spec => []IInv
<1>1. Init => IInv
  BY TypeInit, PromisedInit, ConservedInit DEF IInv
<1> QED
  BY <1>1, Inductive, PTL DEF Spec

\* The two channels stay within their capacity and a busy worker has a job.
THEOREM TypeCorrect == Spec => []TypeOK
<1>1. IInv => TypeOK
  BY DEF IInv
<1> QED
  BY <1>1, Invariance, PTL

\* No accepted connection is lost or handled twice, however Accept, dispatch, the
\* goroutines and the workers interleave.
THEOREM JobConservedCorrect == Spec => []JobConserved
<1>1. IInv => JobConserved
  BY DEF IInv
<1> QED
  BY <1>1, Invariance, PTL

\* The worker whose JobChannel a goroutine took from WorkerPool waits at its select.
THEOREM WorkerPromisedCorrect == Spec => []WorkerPromised
<1>1. IInv => WorkerPromised
  BY DEF IInv
<1> QED
  BY <1>1, Invariance, PTL
-----------------------------------------------------------------------------
(* The refinement *)

\* What the workers run, seen from the abstract pool.
Runs == [w \in Worker |-> IF Busy(w) THEN {wjob[w]} ELSE {}]

LEMMA AbstractInit == Init => Abstract!Init
  BY DEF Init, Abstract!Init, Waiting, Queued, Given, Busy

LEMMA RunsSame ==
  ASSUME UNCHANGED wjob, \A w \in Worker : (Busy(w))' = Busy(w)
  PROVE  Runs' = Runs
  BY DEF Runs

LEMMA AbstractStep == IInv /\ [Next]_vars => [Abstract!Next]_(Abstract!vars)
<1> SUFFICES ASSUME IInv, [Next]_vars PROVE Abstract!Next \/ UNCHANGED <<Waiting, Runs, served>>
  BY DEF Abstract!vars, Runs
<1>1. CASE \/ Run \/ Make \/ Evaluate \/ UNCHANGED vars
           \/ \E w \in Worker : Register(w) \/ Hang(w)
  <2>1. /\ UNCHANGED <<accepted, queue, spawned, given, wjob, served>>
        /\ Put' = Put /\ \A w \in Worker : (Busy(w))' = Busy(w)
    BY <1>1, BusySame
  <2> QED
    BY <2>1, ConservedIdle, RunsSame DEF IInv
<1>2. CASE Accept
  <2> DEFINE j == accepted + 1
  <2>1. Waiting' = Waiting \cup {j} /\ UNCHANGED <<wpc, wjob, served>> /\ j \in Job /\ accepted \in Nat
    <3>1. Waiting' = Waiting \cup {j}
      BY <1>2, ConservedAccept
    <3>2. UNCHANGED <<wpc, wjob, served>> /\ j \in Job /\ accepted \in Nat
      BY <1>2, PoolAssumption DEF Accept, wrkVars, IInv, TypeOK, Job
    <3> QED
      BY <3>1, <3>2
  <2>2. j \notin 1 .. accepted
    BY <2>1
  <2> HIDE DEF j
  <2>3. j \notin Waiting \cup served /\ \A w \in Worker : j \notin Runs[w]
    BY <2>2 DEF IInv, JobConserved, Running, Runs
  <2>4. Runs' = Runs
    BY <2>1, RunsSame DEF Busy
  <2>5. Abstract!Accept(j)
    BY <2>1, <2>3, <2>4 DEF Abstract!Accept, Abstract!Fresh, Runs
  <2> QED
    BY <2>1, <2>5 DEF Abstract!Next
<1>3. CASE Enqueue \/ Receive \/ \E j \in spawned : TakeWorker(j)
  <2>1. UNCHANGED <<wpc, wjob, served>>
    BY <1>3 DEF Enqueue, Receive, TakeWorker, wrkVars
  <2>2. Runs' = Runs
    BY <2>1, RunsSame DEF Busy
  <2> QED
    BY <1>3, <2>1, <2>2, ConservedMove
<1>4. ASSUME NEW j \in Job, NEW w \in Worker, Give(j, w) PROVE Abstract!Next
  <2>1. /\ Waiting' = Waiting \ {j} /\ j \in Waiting /\ ~Busy(w) /\ (Busy(w))' /\ wjob'[w] = j
        /\ \A v \in Worker \ {w} : (Busy(v))' = Busy(v) /\ wjob'[v] = wjob[v]
        /\ served' = served
    BY <1>4, ConservedGive DEF Give
  <2>2. Runs[w] = {} /\ Runs' = [Runs EXCEPT ![w] = {j}]
    BY <2>1 DEF Runs
  <2>3. Abstract!Take(j, w)
    BY <2>1, <2>2 DEF Abstract!Take, Runs
  <2> QED
    BY <2>3 DEF Abstract!Next
<1>5. ASSUME NEW w \in Worker, Return(w) PROVE Abstract!Next
  <2> DEFINE j == wjob[w]
  <2>1. /\ Waiting' = Waiting /\ j \in Job /\ Busy(w) /\ ~(Busy(w))' /\ served' = served \cup {j}
        /\ \A v \in Worker \ {w} : (Busy(v))' = Busy(v) /\ wjob'[v] = wjob[v]
    BY <1>5, ConservedReturn
  <2>2. Runs[w] = {j} /\ Runs' = [Runs EXCEPT ![w] = {}]
    BY <2>1 DEF Runs
  <2> HIDE DEF j
  <2>3. Abstract!Return(j, w)
    BY <2>1, <2>2 DEF Abstract!Return, Runs
  <2> QED
    BY <2>1, <2>3 DEF Abstract!Next
<1> QED
  BY <1>1, <1>2, <1>3, <1>4, <1>5 DEF Next, Listener, Dispatch, Deliver

\* Accept loop, dispatcher, goroutines and workers together implement the abstract pool:
\* every connection is taken by one worker once, and a worker runs one at a time.
THEOREM RefinementCorrect == Spec => AbstractSpec
  BY AbstractInit, AbstractStep, Invariance, PTL DEF Spec, AbstractSpec, Abstract!Spec
=============================================================================
