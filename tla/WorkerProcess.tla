---------------------------- MODULE WorkerProcess ----------------------------
(***************************************************************************)
(* The worker process around its lanes: it removes the heartbeat of the    *)
(* process before it, starts its background tasks and supervises them, and *)
(* ends when it is told to stop or when one of them ends.  What a consumer *)
(* does with a lease is in ChatRuns and IndexingJobs.                      *)
(*                                                                         *)
(* All tasks share one event loop: a step here is what runs between two    *)
(* awaits.  A killed process leaves its heartbeat file to the next one.    *)
(***************************************************************************)
CONSTANTS Consumers  \* the lanes that are consumed

Background == Consumers \union {"janitor", "reconciler", "heartbeat"}

VARIABLES
  process,  \* where serve is
  told,     \* the event that tells every task to stop
  beat,     \* the heartbeat file exists
  exitCode, \* what main returns, "none" before it does
  doing     \* per background task: what it is doing

workerVars == <<process, told, beat, exitCode, doing>>

Ended   == {"returned", "raised", "cancelled"}
AllOver == \A t \in Background : doing[t] \in Ended \union {"unborn"}

NewProcess ==
  /\ process = "new" /\ told = FALSE /\ exitCode = "none"
  /\ doing = [t \in Background |-> "unborn"]

WorkerInit == NewProcess /\ beat \in BOOLEAN

Do(t, what) == doing' = [doing EXCEPT ![t] = what]

(***************************************************************************)
(* serve                                                                   *)
(***************************************************************************)

(* The file of an earlier process goes first; where it cannot be removed   *)
(* nothing is started and there is nothing to close.                       *)
RemoveOldHeartbeat ==
  /\ process = "new"
  /\ \/ beat' = FALSE /\ process' = "starting" /\ UNCHANGED exitCode
     \/ beat /\ process' = "exited" /\ exitCode' = "failure" /\ UNCHANGED beat
  /\ UNCHANGED <<told, doing>>

(* dependencies.start fails, or the heartbeat cannot be published.         *)
StartFails ==
  /\ process = "starting"
  /\ process' = "closing" /\ told' = TRUE /\ exitCode' = "failure"
  /\ UNCHANGED <<beat, doing>>

Start ==
  /\ process = "starting"
  /\ process' = "supervising" /\ beat' = TRUE
  /\ doing' = [t \in Background |-> "waiting"]
  /\ UNCHANGED <<told, exitCode>>

(* SIGINT or SIGTERM.                                                      *)
Signal ==
  /\ process \in {"starting", "supervising"} /\ ~told
  /\ told' = TRUE
  /\ UNCHANGED <<process, beat, exitCode, doing>>

(***************************************************************************)
(* The background tasks                                                    *)
(***************************************************************************)

(* A pass of the loop: a lease is claimed, stale work is reconciled, files *)
(* are swept, the heartbeat is touched.                                    *)
Pass(t) ==
  /\ doing[t] = "waiting" /\ ~told
  /\ \/ t # "heartbeat" /\ Do(t, "busy") /\ UNCHANGED beat
     \/ t = "heartbeat" /\ beat' = TRUE /\ UNCHANGED doing
  /\ UNCHANGED <<process, told, exitCode>>

(* The pass ends, its errors logged: the task waits again.                 *)
PassOver(t) ==
  /\ doing[t] = "busy"
  /\ Do(t, "waiting")
  /\ UNCHANGED <<process, told, beat, exitCode>>

(* The stop event wakes a waiting task and ends its loop.                  *)
LoopOver(t) ==
  /\ doing[t] = "waiting" /\ told
  /\ Do(t, "returned")
  /\ UNCHANGED <<process, told, beat, exitCode>>

(* What a loop does not catch: the file cannot be touched; a cancellation  *)
(* inside a pass that is not the supervisor's.                             *)
Breaks(t) ==
  /\ process \in {"supervising", "draining"}
  /\ \/ t = "heartbeat" /\ doing[t] = "waiting" /\ ~told /\ Do(t, "raised")
     \/ doing[t] = "busy" /\ Do(t, "cancelled")
  /\ UNCHANGED <<process, told, beat, exitCode>>

(* A cancelled task runs its handlers, which may await, and is over.       *)
Unwound(t) ==
  /\ doing[t] = "unwinding"
  /\ Do(t, "cancelled")
  /\ UNCHANGED <<process, told, beat, exitCode>>

(***************************************************************************)
(* _supervise_background_tasks                                             *)
(***************************************************************************)
OneOver == \E t \in Background : doing[t] \in Ended

(* The first of the tasks and the stop event.  When the process was told   *)
(* to stop, even a moment after a task ended, the others end by themselves.*)
WakeToDrain ==
  /\ process = "supervising" /\ told
  /\ process' = "draining"
  /\ UNCHANGED <<told, beat, exitCode, doing>>

WakeToCancel ==
  /\ process = "supervising" /\ ~told /\ OneOver
  /\ process' = "gathering" /\ told' = TRUE /\ exitCode' = "failure"
  /\ doing' = [t \in Background |->
                 IF doing[t] \in Ended THEN doing[t] ELSE "unwinding"]
  /\ UNCHANGED beat

Drained ==
  /\ process = "draining" /\ AllOver
  /\ process' = "closing"
  /\ exitCode' = IF \E t \in Background : doing[t] = "raised" THEN "failure" ELSE "none"
  /\ UNCHANGED <<told, beat, doing>>

LeaveThem == process = "gathering"                              \* mutant
Settled   == process = "gathering" /\ AllOver

Gathered ==
  /\ Settled
  /\ process' = "closing"
  /\ UNCHANGED <<told, beat, exitCode, doing>>

(* The heartbeat is removed if it can be; the parser's child is reaped and *)
(* the database is closed.                                                 *)
Close ==
  /\ process = "closing"
  /\ process' = "exited" /\ beat' \in {FALSE, beat}
  /\ exitCode' = IF exitCode = "none" THEN "success" ELSE exitCode
  /\ UNCHANGED <<told, doing>>

(* The process is killed, and a new one started in its place.              *)
Killed ==
  /\ process \notin {"exited", "killed"}
  /\ process' = "killed"
  /\ doing' = [t \in Background |-> "unborn"]
  /\ UNCHANGED <<told, beat, exitCode>>

Restart ==
  /\ process \in {"exited", "killed"}
  /\ process' = "new" /\ told' = FALSE /\ exitCode' = "none"
  /\ doing' = [t \in Background |-> "unborn"]
  /\ UNCHANGED beat

WorkerNext ==
  \/ RemoveOldHeartbeat \/ StartFails \/ Start \/ Signal
  \/ \E t \in Background :
       Pass(t) \/ PassOver(t) \/ LoopOver(t) \/ Breaks(t) \/ Unwound(t)
  \/ WakeToDrain \/ WakeToCancel \/ Drained \/ Gathered \/ Close
  \/ Killed \/ Restart

WorkerSpec == WorkerInit /\ [][WorkerNext]_workerVars

(***************************************************************************)
(* Properties                                                              *)
(***************************************************************************)
WorkerTypeOK ==
  /\ process \in {"new", "starting", "supervising", "draining", "gathering",
                  "closing", "exited", "killed"}
  /\ told \in BOOLEAN /\ beat \in BOOLEAN
  /\ exitCode \in {"none", "success", "failure"}
  /\ doing \in [Background -> Ended \union {"unborn", "waiting", "busy", "unwinding"}]

(* However a stop, the end of one task and the ends of the others fall     *)
(* together: the database is closed under no task that still runs, no task *)
(* touches the heartbeat after its removal, a process whose task failed    *)
(* answers with a failure, and one whose tasks all returned with success.  *)
WorkerEndsWhole ==
  /\ process \in {"closing", "exited"} => AllOver
  /\ process = "exited" =>
       /\ (\E t \in Background : doing[t] = "raised") => exitCode = "failure"
       /\ (\A t \in Background : doing[t] = "returned") => exitCode = "success"
=============================================================================
