---------------------------- MODULE IndexingJobs ----------------------------
(***************************************************************************)
(* The indexing lane of one document: its versions, and for every version  *)
(* that was activated one IndexedDocumentVersion (the target) and one      *)
(* IndexingJob, with the consumers that execute jobs, the reconciler, the  *)
(* API calls that publish, delete and retry, and the janitor's             *)
(* compensation of a lost source file.                                     *)
(*                                                                         *)
(* Every action on the rows is one transaction of the code.  The time      *)
(* columns are abstracted to the comparisons made with them: heartbeat[v]  *)
(* is null ("none"), newer ("fresh") or older ("stale") than the stale     *)
(* limit, and due[v] tells whether next_attempt_at lies in the future.     *)
(***************************************************************************)
EXTENDS Naturals, FiniteSets

CONSTANTS Versions,     \* versions of the document
          Workers,      \* consumers of the indexing lane
          MaxAttempts,  \* RetryPolicy.max_attempts
          BatchSize,    \* rows one reconciliation transaction may recover
          MaxSegments,  \* bound: page-segment yields of one job
          NoVersion     \* null

ASSUME IndexConstants == /\ MaxAttempts \in Nat \ {0}
                         /\ BatchSize \in Nat \ {0}
                         /\ MaxSegments \in Nat
                         /\ NoVersion \notin Versions

Sources  == {"absent", "unavailable", "available", "deleted"}
Builds   == {"absent", "queued", "processing", "ready", "failed"}
Servings == {"absent", "candidate", "serving", "retired"}
JobStatuses == {"absent", "queued", "running", "completed", "failed", "cancelled"}

(* IndexingPipeline.execute ("prepare" to "fail") and, after it,           *)
(* IndexingJobScheduler: "settle", "release", and "stopping" in the        *)
(* handler of a cancellation.                                              *)
PipelineSteps == {"prepare", "build", "complete", "promote", "fail"}
Steps  == {"idle", "settle", "stopping", "release"} \cup PipelineSteps
Errors == {"retryable", "final"}

VARIABLES
  kb,          \* KnowledgeBase.deleted_at: "live" or "deleted"
  document,    \* Document.deleted_at: "live" or "deleted"
  current,     \* Document.current_version_id
  lastChange,  \* the largest SourceChange.source_change_seq of the document
  source,      \* DocumentVersion.source_status ("absent": no row)
  seq,         \* IndexedDocumentVersion.source_change_seq
  build,       \* IndexedDocumentVersion.build_status
  serving,     \* IndexedDocumentVersion.serving_status
  status,      \* IndexingJob.status
  attempt,     \* IndexingJob.attempt
  heartbeat,   \* IndexingJob.heartbeat_at
  due,         \* IndexingJob.next_attempt_at
  segments,    \* IndexingJob.continuation_count
  pending,     \* the versions whose job has continuation_pending
  lane         \* per worker: step, lease (job, attempt), error to settle

docVars    == <<kb, document, current, lastChange, source, seq>>
targetVars == <<build, serving>>
jobVars    == <<status, attempt, heartbeat, due, segments, pending>>
rowVars    == <<docVars, targetVars, jobVars>>
vars       == <<rowVars, lane>>

Idle == [step |-> "idle", job |-> NoVersion, attempt |-> 0, error |-> "none"]

IndexInit ==
  /\ kb = "live" /\ document = "live" /\ current = NoVersion /\ lastChange = 0
  /\ source    = [v \in Versions |-> "absent"]
  /\ seq       = [v \in Versions |-> 0]
  /\ build     = [v \in Versions |-> "absent"]
  /\ serving   = [v \in Versions |-> "absent"]
  /\ status    = [v \in Versions |-> "absent"]
  /\ attempt   = [v \in Versions |-> 0]
  /\ heartbeat = [v \in Versions |-> "none"]
  /\ due       = [v \in Versions |-> "now"]
  /\ segments  = [v \in Versions |-> 0]
  /\ pending   = {}
  /\ lane      = [w \in Workers |-> Idle]

(* f with the value x in the rows of S.                                    *)
Set(f, S, x) == [v \in Versions |-> IF v \in S THEN x ELSE f[v]]

-----------------------------------------------------------------------------
(* The API and the janitor: content rows.                                  *)

Reserve(v) == /\ kb = "live"
              /\ source[v] = "absent"
              /\ source' = Set(source, {v}, "unavailable")
              /\ UNCHANGED <<kb, document, current, lastChange, seq,
                             targetVars, jobVars, lane>>

(* A version is activated once: its mutation replays afterwards.           *)
ActivateVersion(v) ==
  /\ kb = "live"
  /\ source[v] = "unavailable" /\ serving[v] = "absent"
  /\ lastChange' = lastChange + 1
  /\ source'   = Set(source, {v}, "available")
  /\ current'  = v
  /\ document' = "live"
  /\ seq'      = Set(seq, {v}, lastChange')
  /\ build'    = Set(build, {v}, "queued")
  /\ serving'  = Set(serving, {v}, "candidate")
  /\ status'   = Set(status, {v}, "queued")
  /\ UNCHANGED <<kb, attempt, heartbeat, due, segments, pending, lane>>

Existing == {v \in Versions : source[v] # "absent"}
Targets  == {v \in Versions : serving[v] # "absent"}

CandidatesOf(S) == {v \in S : serving[v] = "candidate"}            \* mutant
TargetsOf(S) == S \cap Targets

OpenJobs(S) == {v \in S : status[v] \in {"queued", "running"}}

(* Retire the targets of S and cancel their open jobs.                     *)
Withdraw(S) ==
  /\ serving'   = Set(serving, TargetsOf(S), "retired")
  /\ status'    = Set(status, OpenJobs(S), "cancelled")
  /\ heartbeat' = Set(heartbeat, OpenJobs(S), "none")
  /\ due'       = Set(due, OpenJobs(S), "now")
  /\ UNCHANGED <<build, attempt, segments, pending, lane>>

SoftDelete ==
  /\ kb = "live" /\ document = "live" /\ Existing # {}
  /\ document' = "deleted"
  /\ lastChange' = lastChange + 1
  /\ source' = Set(source, Existing, "deleted")
  /\ Withdraw(Versions)
  /\ UNCHANGED <<kb, current, seq>>

DeleteKnowledgeBase ==
  /\ kb = "live"
  /\ kb' = "deleted"
  /\ document' = "deleted"
  /\ source' = Set(source, Existing, "deleted")
  /\ Withdraw(Versions)
  /\ UNCHANGED <<current, lastChange, seq>>

(* The janitor found that the source file of v is missing.                 *)
CompensateMissingFile(v) ==
  /\ source[v] = "available"
  /\ source' = Set(source, {v}, "unavailable")
  /\ lastChange' = lastChange + 1
  /\ Withdraw({v})
  /\ UNCHANGED <<kb, document, current, seq>>

Retryable(v) == /\ kb = "live" /\ document = "live" /\ current = v
                /\ source[v] = "available"
                /\ status[v] = "failed" /\ build[v] = "failed"
                /\ serving[v] = "candidate"

(* The user retries a failed job: it starts over with all its attempts.    *)
RetryFailed(v) ==
  /\ Retryable(v)
  /\ build'     = Set(build, {v}, "queued")
  /\ status'    = Set(status, {v}, "queued")
  /\ attempt'   = Set(attempt, {v}, 0)
  /\ heartbeat' = Set(heartbeat, {v}, "none")
  /\ due'       = Set(due, {v}, "now")
  /\ pending'   = pending \ {v}
  /\ UNCHANGED <<docVars, serving, segments, lane>>

-----------------------------------------------------------------------------
(* The executor.                                                           *)

At(w, step) == lane[w].step = step

Move(w, step, error) ==
  lane' = [lane EXCEPT ![w] = [step |-> step, job |-> lane[w].job,
                               attempt |-> lane[w].attempt, error |-> error]]
GoTo(w, step)   == Move(w, step, "none")
Raise(w, error) == Move(w, "fail", error)
Return(w)       == lane' = [lane EXCEPT ![w] = Idle]

(* A queued job starts, or continues after a segment; a completed one that *)
(* nobody heartbeats is claimed again only to be promoted.                 *)
ClaimableQueued(v) ==
  /\ status[v] = "queued" /\ due[v] = "now"
  /\ v \in pending \/ attempt[v] < MaxAttempts
  /\ build[v] \in {"queued", "failed"} \/ (v \in pending /\ build[v] = "processing")

ClaimableCompleted(v) ==
  status[v] = "completed" /\ heartbeat[v] = "none" /\ build[v] = "ready"

AttemptClaimedAnew(v) == IF status[v] = "completed"                \* mutant
                         THEN attempt[v] ELSE attempt[v] + 1
AttemptClaimed(v) == IF v \in pending \/ status[v] = "completed"
                     THEN attempt[v] ELSE attempt[v] + 1

(* SKIP LOCKED: any claimable job may be the one that is claimed.          *)
Claim(w, v) ==
  /\ At(w, "idle")
  /\ kb = "live" /\ serving[v] = "candidate"
  /\ \/ ClaimableQueued(v) /\ status' = Set(status, {v}, "running")
                           /\ pending' = pending \ {v}
     \/ ClaimableCompleted(v) /\ UNCHANGED <<status, pending>>
  /\ attempt'   = Set(attempt, {v}, AttemptClaimed(v))
  /\ heartbeat' = Set(heartbeat, {v}, "fresh")
  /\ due'       = Set(due, {v}, "now")
  /\ lane'      = [lane EXCEPT ![w] = [step |-> "prepare", job |-> v,
                               attempt |-> AttemptClaimed(v), error |-> "none"]]
  /\ UNCHANGED <<docVars, targetVars, segments>>

Found(w) == attempt[lane[w].job] = lane[w].attempt

(* The first attempt may also find its job not yet numbered or cancelled.  *)
FoundInitial(w) == LET v == lane[w].job IN
  \/ Found(w)
  \/ lane[w].attempt = 1 /\ attempt[v] = 0 /\ status[v] = "queued"
  \/ lane[w].attempt = 1 /\ status[v] = "cancelled"

AlreadyComplete(v) == status[v] = "completed" /\ build[v] = "ready"
Cancelled(v) == status[v] = "cancelled" \/ serving[v] = "retired" \/ kb = "deleted"

StartableAgain(v) == ~Cancelled(v) /\ source[v] = "available"      \* mutant
Startable(v) == /\ ~Cancelled(v) /\ source[v] = "available"
                /\ build[v] # "ready" /\ status[v] # "completed"

(* prepare: it looks neither at the heartbeat nor at whether the job is    *)
(* still running.  What it raises rolls its transaction back.              *)
Prepare(w) == LET v == lane[w].job IN
  /\ At(w, "prepare")
  /\ \/ /\ FoundInitial(w) /\ AlreadyComplete(v)
        /\ GoTo(w, "promote") /\ UNCHANGED <<build, status, attempt>>
     \/ /\ FoundInitial(w) /\ ~AlreadyComplete(v) /\ Cancelled(v)
        /\ GoTo(w, "release") /\ UNCHANGED <<build, status, attempt>>
     \/ /\ FoundInitial(w) /\ Startable(v)
        /\ build'   = Set(build, {v}, "processing")
        /\ status'  = Set(status, {v}, "running")
        /\ attempt' = Set(attempt, {v}, lane[w].attempt)
        /\ GoTo(w, "build")
     \/ /\ ~FoundInitial(w) \/ ~(AlreadyComplete(v) \/ Cancelled(v) \/ Startable(v))
        /\ Raise(w, "final") /\ UNCHANGED <<build, status, attempt>>
     \/ Raise(w, "retryable") /\ UNCHANGED <<build, status, attempt>>
  /\ UNCHANGED <<docVars, serving, heartbeat, due, segments, pending>>

Writable(w) == LET v == lane[w].job IN
  /\ Found(w)
  /\ status[v] = "running" /\ build[v] = "processing" /\ serving[v] = "candidate"

(* Reading, parsing, chunking, embedding: many compare-and-set writes of   *)
(* derived rows.  The first one that finds the job no longer writable      *)
(* cancels the pipeline; any of them may raise; a PDF yields the lane      *)
(* after each page segment.                                                *)
Build(w) == LET v == lane[w].job IN
  /\ At(w, "build")
  /\ \/ /\ Writable(w) /\ segments[v] < MaxSegments
        /\ status'    = Set(status, {v}, "queued")
        /\ pending'   = pending \cup {v}
        /\ segments'  = Set(segments, {v}, segments[v] + 1)
        /\ heartbeat' = Set(heartbeat, {v}, "none")
        /\ due'       = Set(due, {v}, "now")
        /\ GoTo(w, "release")
     \/ /\ \/ GoTo(w, "complete")
           \/ ~Writable(w) /\ GoTo(w, "release")
           \/ \E error \in Errors : Raise(w, error)
        /\ UNCHANGED <<status, pending, segments, heartbeat, due>>
  /\ UNCHANGED <<docVars, targetVars, attempt>>

(* Validates the derived rows and marks target and job finished.           *)
Complete(w) == LET v == lane[w].job IN
  /\ At(w, "complete")
  /\ \/ /\ Writable(w) /\ source[v] = "available"
        /\ build'  = Set(build, {v}, "ready")
        /\ status' = Set(status, {v}, "completed")
        /\ GoTo(w, "promote")
     \/ /\ \/ Found(w) /\ AlreadyComplete(v) /\ GoTo(w, "promote")
           \/ ~Writable(w) /\ ~(Found(w) /\ AlreadyComplete(v)) /\ GoTo(w, "release")
           \/ \E error \in Errors : Raise(w, error)
        /\ UNCHANGED <<build, status>>
  /\ UNCHANGED <<docVars, serving, attempt, heartbeat, due, segments, pending>>

(* Why a finished candidate may not be served any more.                    *)
ObsoleteIfGone(v) == document = "deleted" \/ kb = "deleted"         \* mutant
Obsolete(v) == \/ document = "deleted" \/ kb = "deleted"
               \/ current # v
               \/ lastChange > seq[v]

OthersServingLater(v) ==                                           \* mutant
  {u \in Versions : u # v /\ serving[u] = "serving" /\ seq[u] > seq[v]}
OthersServing(v) == {u \in Versions : u # v /\ serving[u] = "serving"}

SwitchServing(v) ==
  \/ /\ Obsolete(v)
     /\ serving' = Set(serving, {v}, "retired")
  \/ /\ ~Obsolete(v)
     /\ serving' = [u \in Versions |->
                      IF u = v THEN "serving"
                      ELSE IF u \in OthersServing(v) THEN "retired" ELSE serving[u]]

Promotable(v) == /\ serving[v] = "candidate"
                 /\ build[v] = "ready" /\ status[v] = "completed"

(* Every outcome but an unknown lease ends the pipeline normally.          *)
Promote(w) == LET v == lane[w].job IN
  /\ At(w, "promote")
  /\ \/ Found(w) /\ Promotable(v) /\ SwitchServing(v) /\ GoTo(w, "release")
     \/ /\ \/ Found(w) /\ ~Promotable(v) /\ GoTo(w, "release")
           \/ ~Found(w) /\ Raise(w, "final")
           \/ Raise(w, "retryable")
        /\ UNCHANGED serving
  /\ UNCHANGED <<docVars, build, jobVars>>

(* IndexingPipeline._record_failure; if it raises, the scheduler settles   *)
(* an unknown exception, which is retryable.                               *)
Fail(w) == LET v == lane[w].job IN
  /\ At(w, "fail")
  /\ \/ /\ Found(w)
        /\ status[v] \notin {"completed", "cancelled"}
        /\ build[v] # "ready" /\ serving[v] # "retired"
        /\ build'  = Set(build, {v}, "failed")
        /\ status' = Set(status, {v}, "failed")
        /\ Move(w, "settle", lane[w].error)
     \/ /\ ~ /\ Found(w)
             /\ status[v] \notin {"completed", "cancelled"}
             /\ build[v] # "ready" /\ serving[v] # "retired"
        /\ Move(w, "settle", lane[w].error)
        /\ UNCHANGED <<build, status>>
     \/ Move(w, "settle", "retryable") /\ UNCHANGED <<build, status>>
  /\ UNCHANGED <<docVars, serving, attempt, heartbeat, due, segments, pending>>

-----------------------------------------------------------------------------
(* The scheduler.                                                          *)

RequeuesWhileRetryable(error, a) == error = "retryable"             \* mutant
Requeues(error, a) == error = "retryable" /\ a < MaxAttempts

StatusAfter(w) == IF Requeues(lane[w].error, lane[w].attempt) THEN "queued" ELSE "failed"
DueAfter(w)    == IF Requeues(lane[w].error, lane[w].attempt) THEN "later" ELSE "now"

(* _mark_target_failed                                                     *)
UnfinishedCandidate(v) == serving[v] = "candidate" /\ build[v] # "ready"

SettleableByLease(w) == Found(w)                                    \* mutant
Settleable(w) == Found(w) /\ status[lane[w].job] \in {"running", "failed"}

(* reschedule and fail_owned                                               *)
SettleOwned(w) ==
  LET v == lane[w].job IN
  /\ Settleable(w)
  /\ status'    = Set(status, {v}, StatusAfter(w))
  /\ heartbeat' = Set(heartbeat, {v}, "none")
  /\ due'       = Set(due, {v}, DueAfter(w))
  /\ pending'   = pending \ {v}
  /\ build'     = Set(build, {u \in {v} : UnfinishedCandidate(u)}, "failed")

(* A settlement that raises is only logged.  One that is cancelled after   *)
(* its commit is repeated, once, as INDEXING_WORKER_STOPPED (retryable).   *)
Settle(w) ==
  /\ lane[w].step \in {"settle", "stopping"}
  /\ \/ SettleOwned(w) /\ Return(w)
     \/ At(w, "settle") /\ SettleOwned(w) /\ Move(w, "stopping", "retryable")
     \/ /\ \/ ~Settleable(w) /\ At(w, "settle") /\ GoTo(w, "release")
           \/ ~Settleable(w) /\ At(w, "stopping") /\ Move(w, "release", "retryable")
           \/ Return(w)
        /\ UNCHANGED <<build, status, heartbeat, due, pending>>
  /\ UNCHANGED <<docVars, serving, attempt, segments>>

Release(w) ==
  LET v == lane[w].job
      Released == {u \in {v} : /\ Found(w)
                               /\ status[u] \in {"completed", "failed", "cancelled"}}
  IN /\ At(w, "release")
     /\ heartbeat' = Set(heartbeat, Released, "none")
     /\ due'       = Set(due, Released, "now")
     /\ Return(w)
     /\ UNCHANGED <<docVars, targetVars, status, attempt, segments, pending>>

OwnsExecution(w) == /\ Found(w)
                    /\ status[lane[w].job] \in {"running", "failed", "completed"}

(* Losing the lease cancels the pipeline and nothing is settled.           *)
HeartbeatJob(w) ==
  /\ \/ /\ ~At(w, "idle") /\ OwnsExecution(w)
        /\ heartbeat' = Set(heartbeat, {lane[w].job}, "fresh")
        /\ UNCHANGED lane
     \/ /\ lane[w].step \in PipelineSteps /\ ~OwnsExecution(w)
        /\ Return(w)
        /\ UNCHANGED heartbeat
  /\ UNCHANGED <<docVars, targetVars, status, attempt, due, segments, pending>>

(* A stop signal cancels the pipeline; INDEXING_WORKER_STOPPED is retried. *)
(* A cancellation is also handled while the lease is being released.       *)
Stop(w) == /\ \/ lane[w].step \in PipelineSteps /\ Move(w, "settle", "retryable")
              \/ /\ At(w, "release") /\ lane[w].error = "none"
                 /\ Move(w, "stopping", "retryable")
           /\ UNCHANGED rowVars

Crash(w) == ~At(w, "idle") /\ Return(w) /\ UNCHANGED rowVars

-----------------------------------------------------------------------------
(* Time and the reconciler.                                                *)

HeartbeatAges(v) ==
  /\ heartbeat[v] = "fresh"
  /\ heartbeat' = Set(heartbeat, {v}, "stale")
  /\ UNCHANGED <<docVars, targetVars, status, attempt, due, segments, pending, lane>>

BackoffElapses(v) ==
  /\ due[v] = "later"
  /\ due' = Set(due, {v}, "now")
  /\ UNCHANGED <<docVars, targetVars, status, attempt, heartbeat, segments,
                 pending, lane>>

StaleRunning(v) == status[v] = "running" /\ heartbeat[v] = "stale"

StaleCompletedIgnored(v) == FALSE                                   \* mutant
StaleCompleted(v) == status[v] = "completed" /\ heartbeat[v] = "stale"

(* A stale running job is requeued or failed and its target failed; a      *)
(* stale completed one only loses its heartbeat, so that it is claimable.  *)
ReconcileStale(S) ==
  LET running  == {v \in S : StaleRunning(v)}
      requeued == {v \in running : attempt[v] < MaxAttempts}
  IN /\ S # {} /\ Cardinality(S) <= BatchSize
     /\ \A v \in S : StaleRunning(v) \/ StaleCompleted(v)
     /\ heartbeat' = Set(heartbeat, S, "none")
     /\ build'     = Set(build, running, "failed")
     /\ status'    = Set(Set(status, running, "failed"), requeued, "queued")
     /\ due'       = Set(Set(due, running, "now"), requeued, "later")
     /\ pending'   = pending \ running
     /\ UNCHANGED <<docVars, serving, attempt, segments, lane>>

-----------------------------------------------------------------------------
Work(w) == \/ Prepare(w) \/ Build(w) \/ Complete(w) \/ Promote(w)
           \/ Fail(w) \/ Settle(w) \/ Release(w)

Executor(w) == Work(w) \/ HeartbeatJob(w) \/ Stop(w) \/ Crash(w)

Content == \/ \E v \in Versions : \/ Reserve(v) \/ ActivateVersion(v)
                                  \/ CompensateMissingFile(v)
           \/ SoftDelete \/ DeleteKnowledgeBase

IndexNext ==
  \/ Content
  \/ \E v \in Versions : RetryFailed(v) \/ HeartbeatAges(v) \/ BackoffElapses(v)
  \/ \E w \in Workers : Executor(w) \/ (\E v \in Versions : Claim(w, v))
  \/ \E S \in SUBSET Versions : ReconcileStale(S)

IndexSafety == IndexInit /\ [][IndexNext]_vars

(* No consumer executes v: its heartbeat_at can only grow older.           *)
Orphaned(v) == \A w \in Workers : ~(lane[w].job = v /\ Found(w))

(* Consumers poll in the order of due time and the reconciler loops in the *)
(* order of the heartbeats, so that neither passes a job over for ever;    *)
(* time passes; and among infinitely many attempts to promote a finished   *)
(* build, one is neither cut off by a crash nor by a failing database.     *)
IndexFairness ==
  /\ \A v \in Versions : /\ SF_vars(\E w \in Workers : Claim(w, v))
                         /\ WF_vars(Orphaned(v) /\ HeartbeatAges(v))
                         /\ WF_vars(BackoffElapses(v))
                         /\ SF_vars(\E S \in SUBSET Versions :
                                       v \in S /\ ReconcileStale(S))
  /\ \A w \in Workers : /\ WF_vars(Work(w))
                        /\ SF_vars(Prepare(w) /\ lane'[w].step = "promote")
                        /\ SF_vars(Promote(w) /\ lane'[w].step = "release")

IndexSpec == IndexSafety /\ IndexFairness

(***************************************************************************)
(* Properties                                                              *)
(***************************************************************************)

Lease == [step : Steps, job : Versions \cup {NoVersion},
          attempt : 0 .. MaxAttempts, error : {"none"} \cup Errors]

(* The types of the columns and of the executor's local state.             *)
IndexTypeOK ==
  /\ kb \in {"live", "deleted"} /\ document \in {"live", "deleted"}
  /\ current \in Versions \cup {NoVersion} /\ lastChange \in Nat
  /\ source    \in [Versions -> Sources]
  /\ seq       \in [Versions -> Nat]
  /\ build     \in [Versions -> Builds]
  /\ serving   \in [Versions -> Servings]
  /\ status    \in [Versions -> JobStatuses]
  /\ attempt   \in [Versions -> 0 .. MaxAttempts]
  /\ heartbeat \in [Versions -> {"none", "fresh", "stale"}]
  /\ due       \in [Versions -> {"now", "later"}]
  /\ segments  \in [Versions -> 0 .. MaxSegments]
  /\ pending   \subseteq Versions
  /\ lane      \in [Workers -> Lease]

(* uq_one_serving_version_per_document_revision is never hit: however the  *)
(* builds of several versions overtake each other, one version is served.  *)
OneServingVersion == \A u, v \in Versions :
  serving[u] = "serving" /\ serving[v] = "serving" => u = v

(* What a search sees was built completely, from a source file that is     *)
(* still there, of a document and a knowledge base that were not deleted.  *)
ServedVersionIsSound == \A v \in Versions : serving[v] = "serving" =>
  /\ build[v] = "ready" /\ status[v] = "completed"
  /\ source[v] = "available" /\ document = "live" /\ kb = "live"

(* No queued job of a candidate is out of reach of claim: it has attempts  *)
(* left or continues, and its target is in a state claim accepts.          *)
QueuedJobsAreClaimable == \A v \in Versions :
  status[v] = "queued" /\ serving[v] = "candidate" =>
    /\ v \in pending \/ attempt[v] < MaxAttempts
    /\ build[v] \in {"queued", "failed"} \/ (v \in pending /\ build[v] = "processing")

(* A late worker cannot bring back what was deleted, superseded or         *)
(* compensated: retired targets and cancelled jobs stay what they are.     *)
LateWorkersRestoreNothing == [][\A v \in Versions :
  /\ serving[v] = "retired"  => serving'[v] = "retired" /\ build'[v] = build[v]
  /\ status[v] = "cancelled" => status'[v] = "cancelled"]_vars

(* A finished build is never torn down again, not by a settlement, a       *)
(* reconciliation or a second executor that comes late.                    *)
FinishedBuildsAreFrozen == [][\A v \in Versions :
  build[v] = "ready" => build'[v] = "ready" /\ status'[v] = status[v]]_vars

(* Searches only move forward: IndexingJobs implements SearchIndex.        *)
Search == INSTANCE SearchIndex WITH
  published <- Targets,
  newest    <- current,
  shown     <- {v \in Versions : serving[v] = "serving"},
  withdrawn <- {v \in Versions : serving[v] = "retired"}

ImplementsSearchIndex == Search!IndexSafety

(* A finished build is promoted or retired, also when the worker dies      *)
(* between the transaction that finishes it and the one that promotes it.  *)
FinishedBuildsAreDecided == \A v \in Versions :
  build[v] = "ready" /\ serving[v] = "candidate"
    ~> serving[v] \in {"serving", "retired"}

-----------------------------------------------------------------------------
(* What the documentation says and the code does not do.                   *)

(* "claimed_at/heartbeat_at continue to support timeout recovery": a       *)
(* running job without an executor has a heartbeat that can go stale.      *)
OrphansCanTimeOut == \A v \in Versions :
  status[v] = "running" /\ Orphaned(v) => heartbeat[v] # "none"

(* Deletion leaves a retired target with a job that is over, so that the   *)
(* retention clean-up can remove it.                                       *)
RetiredTargetsHaveNoOpenJob == \A v \in Versions :
  serving[v] = "retired" => status[v] \notin {"queued", "running"}
=============================================================================
