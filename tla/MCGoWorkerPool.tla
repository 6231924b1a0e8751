--------------------------- MODULE MCGoWorkerPool ---------------------------
(* GoWorkerPool with more jobs than workers and queue slots, so that jobs      *)
(* wait in the queue, in goroutines and at the listener.                       *)
EXTENDS GoWorkerPool
=============================================================================
