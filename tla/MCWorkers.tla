------------------------------ MODULE MCWorkers ------------------------------
(* Indexing jobs under two workers, and the process that such a worker is. *)
(* The two share no state: part says which of them runs.                   *)
EXTENDS IndexingJobs, WorkerProcess

VARIABLE part

WorkerIdle == NewProcess /\ beat = FALSE

WorkersInit ==
  /\ IndexInit
  /\ \/ part = "jobs" /\ WorkerIdle
     \/ part = "process" /\ WorkerInit

WorkersNext ==
  /\ UNCHANGED part
  /\ \/ part = "jobs" /\ IndexNext /\ UNCHANGED workerVars
     \/ part = "process" /\ WorkerNext /\ UNCHANGED vars

WorkersSpec ==
  WorkersInit /\ [][WorkersNext]_<<part, vars, workerVars>> /\ IndexFairness
=============================================================================
