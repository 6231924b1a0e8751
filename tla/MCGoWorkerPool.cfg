SPECIFICATION Spec
CONSTANTS
  Worker = {w1, w2}
  MaxQueue = 1
  MaxJobs = 5
INVARIANTS WorkerPromised
PROPERTIES AbstractSpec EveryJobServed AcceptNeverBlocked
CHECK_DEADLOCK FALSE
