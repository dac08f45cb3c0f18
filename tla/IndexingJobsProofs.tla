-------------------------- MODULE IndexingJobsProofs --------------------------
(***************************************************************************)
(* Proofs about IndexingJobs, for any versions, consumers, attempts, batch *)
(* size and segments; about Catalog, which says what knowledge bases there *)
(* are; and about Listings, which page through all of these.               *)
(***************************************************************************)
EXTENDS IndexingJobs, Catalog, Listings, FiniteSetTheorems, TLAPS

(* The parts of the type invariant.                                        *)
ContentTypes == /\ kb \in {"live", "deleted"} /\ document \in {"live", "deleted"}
                /\ current \in Versions \cup {NoVersion} /\ lastChange \in Nat
                /\ source \in [Versions -> Sources] /\ seq \in [Versions -> Nat]
TargetTypes == build \in [Versions -> Builds] /\ serving \in [Versions -> Servings]
JobTypes == /\ status    \in [Versions -> JobStatuses]
            /\ attempt   \in [Versions -> 0 .. MaxAttempts]
            /\ heartbeat \in [Versions -> {"none", "fresh", "stale"}]
            /\ due       \in [Versions -> {"now", "later"}]
            /\ segments  \in [Versions -> 0 .. MaxSegments]
            /\ pending   \subseteq Versions
LaneTypes == lane \in [Workers -> Lease]

(* A version has its target and its job together; a target that may be or  *)
(* become visible has its source file, in a document that is not deleted;  *)
(* a finished build has a finished job; no job of a retired target runs.   *)
Rows == \A v \in Versions :
  /\ serving[v] = "absent" <=> status[v] = "absent"
  /\ serving[v] = "absent" => build[v] = "absent" /\ attempt[v] = 0
  /\ serving[v] \in {"candidate", "serving"} =>
       source[v] = "available" /\ document = "live" /\ kb = "live"
  /\ build[v] = "ready" => status[v] = "completed"
  /\ serving[v] = "serving" => build[v] = "ready"
  /\ serving[v] = "retired" => status[v] # "running"

(* A consumer at work holds the lease of a job that exists.                *)
Leases == \A w \in Workers : lane[w].step # "idle" =>
            lane[w].job \in Versions /\ serving[lane[w].job] # "absent"

IndexInv == /\ ContentTypes /\ TargetTypes /\ JobTypes /\ LaneTypes
            /\ Rows /\ Leases /\ OneServingVersion /\ QueuedJobsAreClaimable

(* The invariant implies what the runs check.                              *)
LEMMA InvImplies == IndexInv =>
  IndexTypeOK /\ OneServingVersion /\ ServedVersionIsSound /\ QueuedJobsAreClaimable
  BY DEF IndexInv, ContentTypes, TargetTypes, JobTypes, LaneTypes, Rows,
         IndexTypeOK, ServedVersionIsSound

(* Initially there is no version.                                          *)
LEMMA InitInv == IndexInit => IndexInv
  BY IndexConstants DEF IndexInit, Idle, IndexInv, ContentTypes, TargetTypes, JobTypes,
     LaneTypes, Lease, Steps, Sources, Builds, Servings, JobStatuses, Rows, Leases,
     OneServingVersion, QueuedJobsAreClaimable

-----------------------------------------------------------------------------
(* Content.                                                                *)
LEMMA ContentStep ==
  ASSUME IndexInv, Content
  PROVE  IndexInv'
<1> USE DEF IndexInv, ContentTypes, TargetTypes, JobTypes, LaneTypes, Rows, Leases,
            OneServingVersion, QueuedJobsAreClaimable, Set
<1>1. ASSUME NEW v \in Versions, Reserve(v) PROVE IndexInv'
      BY <1>1 DEF Reserve, Sources, targetVars, jobVars
<1>2. ASSUME NEW v \in Versions, ActivateVersion(v) PROVE IndexInv'
      BY <1>2, IndexConstants DEF ActivateVersion, Sources, Builds, Servings, JobStatuses
<1>3. ASSUME NEW v \in Versions, CompensateMissingFile(v) PROVE IndexInv'
      BY <1>3 DEF CompensateMissingFile, Withdraw, TargetsOf, Targets, OpenJobs, Sources, Servings, JobStatuses
<1>4. ASSUME SoftDelete PROVE IndexInv'
      BY <1>4 DEF SoftDelete, Existing, Withdraw, TargetsOf, Targets, OpenJobs, Sources, Servings, JobStatuses
<1>5. ASSUME DeleteKnowledgeBase PROVE IndexInv'
      BY <1>5 DEF DeleteKnowledgeBase, Existing, Withdraw, TargetsOf, Targets, OpenJobs, Sources, Servings, JobStatuses
<1> QED
    BY <1>1, <1>2, <1>3, <1>4, <1>5 DEF Content

(* Retries and time.                                                       *)
LEMMA OutsideStep ==
  ASSUME IndexInv, NEW v \in Versions,
         RetryFailed(v) \/ HeartbeatAges(v) \/ BackoffElapses(v)
  PROVE  IndexInv'
<1> USE DEF IndexInv, ContentTypes, TargetTypes, JobTypes, LaneTypes, Rows, Leases,
            OneServingVersion, QueuedJobsAreClaimable, Set
<1>1. ASSUME RetryFailed(v) PROVE IndexInv'
      BY <1>1, IndexConstants DEF RetryFailed, Retryable, Builds, JobStatuses, docVars
<1>2. ASSUME HeartbeatAges(v) PROVE IndexInv'
      BY <1>2 DEF HeartbeatAges, docVars, targetVars
<1>3. ASSUME BackoffElapses(v) PROVE IndexInv'
      BY <1>3 DEF BackoffElapses, docVars, targetVars
<1> QED
    BY <1>1, <1>2, <1>3

-----------------------------------------------------------------------------
(* The executor.                                                           *)

(* Taking a lease.                                                         *)
LEMMA ClaimStep ==
  ASSUME IndexInv, NEW w \in Workers, NEW v \in Versions, Claim(w, v)
  PROVE  IndexInv'
<1> USE DEF IndexInv, ContentTypes, TargetTypes, JobTypes, LaneTypes, Rows, Leases,
            OneServingVersion, QueuedJobsAreClaimable, Set
<1>1. AttemptClaimed(v) \in 0 .. MaxAttempts
      BY IndexConstants DEF Claim, ClaimableQueued, ClaimableCompleted, AttemptClaimed
<1>2. lane' \in [Workers -> Lease] /\ Leases'
      BY <1>1 DEF Claim, Lease, Steps, PipelineSteps, Errors, targetVars
<1>3. JobTypes' /\ Rows' /\ QueuedJobsAreClaimable'
      BY <1>1 DEF Claim, ClaimableQueued, ClaimableCompleted, JobStatuses, docVars, targetVars
<1> QED
    BY <1>2, <1>3 DEF Claim, docVars, targetVars

(* A consumer goes on with its lease, or gives it up.                      *)
LEMMA LaneMoves ==
  ASSUME IndexInv, NEW w \in Workers,
         \/ Return(w)
         \/ /\ lane[w].step # "idle"
            /\ \E step \in Steps, error \in {"none"} \cup Errors : Move(w, step, error),
         \A v \in Versions : serving[v] # "absent" => serving'[v] # "absent"
  PROVE  LaneTypes' /\ Leases'
<1> USE DEF IndexInv, LaneTypes, Leases
<1>1. CASE Return(w)
      BY <1>1, IndexConstants DEF Return, Idle, Lease, Steps
<1>2. ASSUME lane[w].step # "idle", NEW step \in Steps, NEW error \in {"none"} \cup Errors,
             Move(w, step, error)
      PROVE  LaneTypes' /\ Leases'
      BY <1>2 DEF Move, Lease
<1> QED
    BY <1>1, <1>2

(* The transactions of the pipeline and of the scheduler.                  *)
LEMMA WorkStep ==
  ASSUME IndexInv, NEW w \in Workers, Work(w)
  PROVE  IndexInv'
<1> USE DEF IndexInv, ContentTypes, TargetTypes, JobTypes, LaneTypes, Rows, Leases,
            OneServingVersion, QueuedJobsAreClaimable, Set
<1> DEFINE v == lane[w].job
<1>0. /\ v \in Versions /\ lane[w].attempt \in 0 .. MaxAttempts
      /\ lane[w].error \in {"none"} \cup Errors /\ serving[v] # "absent"
      BY DEF Lease, Work, Prepare, Build, Complete, Promote, Fail, Settle, Release, At
<1>1. LaneTypes' /\ Leases'
      <2>1. \/ Return(w)
            \/ /\ lane[w].step # "idle"
               /\ \E step \in Steps, error \in {"none"} \cup Errors : Move(w, step, error)
            BY <1>0 DEF Work, Prepare, Build, Complete, Promote, Fail, Settle, Release, At,
                        GoTo, Raise, Steps, PipelineSteps, Errors
      <2>2. \A u \in Versions : serving[u] # "absent" => serving'[u] # "absent"
            BY <1>0 DEF Work, Prepare, Build, Complete, Promote, Fail, Settle, Release,
                        SwitchServing, targetVars
      <2> QED
          BY <2>1, <2>2, LaneMoves
<1> DEFINE Rest == ContentTypes' /\ TargetTypes' /\ JobTypes' /\ Rows'
                  /\ OneServingVersion' /\ QueuedJobsAreClaimable'
<1>2. ASSUME Prepare(w) PROVE Rest
      BY <1>0, <1>2 DEF Prepare, FoundInitial, Found, AlreadyComplete, Cancelled, Startable,
         Builds, JobStatuses, docVars
<1>3. ASSUME Build(w) PROVE Rest
      BY <1>0, <1>3, IndexConstants DEF Build, Writable, JobStatuses, docVars, targetVars
<1>4. ASSUME Complete(w) PROVE Rest
      BY <1>0, <1>4 DEF Complete, Writable, Builds, JobStatuses, docVars
<1>5. ASSUME Promote(w) PROVE Rest
      BY <1>0, <1>5 DEF Promote, Promotable, SwitchServing, OthersServing, Servings,
         docVars, jobVars
<1>6. ASSUME Fail(w) PROVE Rest
      BY <1>0, <1>6 DEF Fail, Builds, JobStatuses, docVars
<1>7. ASSUME Settle(w) PROVE Rest
      BY <1>0, <1>7 DEF Settle, SettleOwned, Settleable, Found, Requeues, StatusAfter, DueAfter,
         UnfinishedCandidate, Builds, JobStatuses, docVars
<1>8. ASSUME Release(w) PROVE Rest
      BY <1>0, <1>8 DEF Release, docVars, targetVars
<1> QED
    BY <1>1, <1>2, <1>3, <1>4, <1>5, <1>6, <1>7, <1>8 DEF Work

(* Heartbeats, and the ends of an execution.                               *)
LEMMA InterruptStep ==
  ASSUME IndexInv, NEW w \in Workers, HeartbeatJob(w) \/ Stop(w) \/ Crash(w)
  PROVE  IndexInv'
<1> USE DEF IndexInv, ContentTypes, TargetTypes, JobTypes, LaneTypes, Rows, Leases,
            OneServingVersion, QueuedJobsAreClaimable, Set
<1>1. LaneTypes' /\ Leases'
      <2>1. \/ UNCHANGED lane
            \/ Return(w)
            \/ /\ lane[w].step # "idle"
               /\ \E step \in Steps, error \in {"none"} \cup Errors : Move(w, step, error)
            BY DEF HeartbeatJob, Stop, Crash, At, Steps, PipelineSteps, Errors
      <2>2. UNCHANGED serving
            BY DEF HeartbeatJob, Stop, Crash, rowVars, targetVars
      <2> QED
          BY <2>1, <2>2, LaneMoves
<1>2. /\ UNCHANGED <<docVars, targetVars, status, attempt, due, segments, pending>>
      /\ UNCHANGED heartbeat \/ heartbeat' = Set(heartbeat, {lane[w].job}, "fresh")
      BY DEF HeartbeatJob, Stop, Crash, rowVars, jobVars
<1> QED
    BY <1>1, <1>2 DEF docVars, targetVars

(* The reconciler.                                                         *)
LEMMA ReconcileStep ==
  ASSUME IndexInv, NEW S \in SUBSET Versions, ReconcileStale(S)
  PROVE  IndexInv'
  BY DEF IndexInv, ContentTypes, TargetTypes, JobTypes, LaneTypes, Rows, Leases,
     OneServingVersion, QueuedJobsAreClaimable, Set, ReconcileStale, StaleRunning, StaleCompleted,
     Builds, JobStatuses, docVars

-----------------------------------------------------------------------------
(* The invariant is inductive.                                             *)
LEMMA NextInv == IndexInv /\ [IndexNext]_vars => IndexInv'
<1> SUFFICES ASSUME IndexInv, [IndexNext]_vars PROVE IndexInv'
    OBVIOUS
<1>1. ASSUME UNCHANGED vars PROVE IndexInv'
      BY <1>1 DEF vars, rowVars, docVars, targetVars, jobVars, IndexInv, ContentTypes,
         TargetTypes, JobTypes, LaneTypes, Rows, Leases, OneServingVersion,
         QueuedJobsAreClaimable
<1> QED
    BY <1>1, ContentStep, OutsideStep, ClaimStep, WorkStep, InterruptStep, ReconcileStep
       DEF IndexNext, Executor

(* In every reachable state the invariant holds.                           *)
LEMMA Invariant == IndexSafety => []IndexInv
  BY InitInv, NextInv, PTL DEF IndexSafety

(* Every column keeps to its domain; no job is attempted more often than   *)
(* RetryPolicy.max_attempts.                                               *)
THEOREM IndexTyped == IndexSafety => []IndexTypeOK
  BY Invariant, InvImplies, PTL

(* At most one version of the document is served.                          *)
THEOREM OneIsServed == IndexSafety => []OneServingVersion
  BY Invariant, InvImplies, PTL

(* What is served was built completely, from a source file that is still   *)
(* there, of a document and a knowledge base that are not deleted.         *)
THEOREM ServedIsSound == IndexSafety => []ServedVersionIsSound
  BY Invariant, InvImplies, PTL

(* No queued job of a candidate is out of reach of claim.                  *)
THEOREM QueuedIsClaimable == IndexSafety => []QueuedJobsAreClaimable
  BY Invariant, InvImplies, PTL

-----------------------------------------------------------------------------
(* What a step may do to the targets and their jobs.                       *)

(* In any step, a retired target stays retired and its build as it is, a   *)
(* cancelled job stays cancelled, and a finished build stays finished.     *)
Late == \A v \in Versions :
  /\ serving[v] = "retired"  => serving'[v] = "retired" /\ build'[v] = build[v]
  /\ status[v] = "cancelled" => status'[v] = "cancelled"
Frozen == \A v \in Versions :
  build[v] = "ready" => build'[v] = "ready" /\ status'[v] = status[v]

(* A step is one of the abstract index, or does not change what it sees.   *)
Abstract == Search!IndexNext \/ UNCHANGED Search!indexVars

(* The abstract step that a version is shown.                              *)
LEMMA ShowIsNext == ASSUME NEW v \in Versions, Search!Show(v) PROVE Abstract
  BY DEF Abstract, Search!IndexNext, Search!Show

(* The abstract step that versions leave the view.                         *)
LEMMA WithdrawIsNext ==
  ASSUME NEW S \in SUBSET Versions, Search!Withdraw(S) PROVE Abstract
  BY DEF Abstract, Search!IndexNext, Search!Withdraw

(* Content rows.                                                           *)
LEMMA ContentGuarantee ==
  ASSUME IndexInv, Content
  PROVE  Late /\ Frozen /\ Abstract
<1> USE DEF IndexInv, ContentTypes, TargetTypes, JobTypes, Rows, Set, Late, Frozen
<1>1. ASSUME NEW v \in Versions, Reserve(v) PROVE Late /\ Frozen /\ Abstract
      BY <1>1 DEF Reserve, targetVars, jobVars, Abstract, Search!indexVars, Targets
<1>2. ASSUME NEW v \in Versions, ActivateVersion(v) PROVE Late /\ Frozen /\ Abstract
      <2>1. Late /\ Frozen
            BY <1>2 DEF ActivateVersion
      <2>2. Search!Publish(v)
            BY <1>2 DEF ActivateVersion, Search!Publish, Targets
      <2> QED
          BY <2>1, <2>2 DEF Abstract, Search!IndexNext
<1>3. ASSUME \/ SoftDelete \/ DeleteKnowledgeBase
             \/ \E v \in Versions : CompensateMissingFile(v)
      PROVE  Late /\ Frozen /\ Abstract
      <2>1. PICK S \in SUBSET Versions : Withdraw(S) /\ UNCHANGED current
            BY <1>3 DEF SoftDelete, DeleteKnowledgeBase, CompensateMissingFile
      <2>2. Late /\ Frozen
            BY <2>1 DEF Withdraw, TargetsOf, Targets, OpenJobs
      <2>3. PICK T \in SUBSET Versions : T = TargetsOf(S)
            BY DEF TargetsOf, Targets
      <2>4. Search!Withdraw(T)
            BY <2>1, <2>3 DEF Withdraw, Search!Withdraw, TargetsOf, Targets
      <2> QED
          BY <2>2, <2>4, WithdrawIsNext
<1> QED
    BY <1>1, <1>2, <1>3 DEF Content

(* Promotion, the only step that shows a version or withdraws one that was *)
(* overtaken.                                                              *)
LEMMA PromoteGuarantee ==
  ASSUME IndexInv, NEW w \in Workers, Promote(w)
  PROVE  Late /\ Frozen /\ Abstract
<1> USE DEF IndexInv, ContentTypes, TargetTypes, JobTypes, Rows, Set, Late, Frozen
<1>0. PICK v \in Versions : v = lane[w].job
      BY DEF Leases, Promote, At
<1>1. ASSUME UNCHANGED serving PROVE Late /\ Frozen /\ Abstract
      BY <1>1 DEF Promote, docVars, jobVars, Abstract, Search!indexVars, Targets
<1>2. ASSUME Promotable(v), SwitchServing(v) PROVE Late /\ Frozen /\ Abstract
      <2>1. Late /\ Frozen
            BY <1>0, <1>2 DEF Promote, Promotable, SwitchServing, OthersServing, jobVars
      <2>2. CASE Obsolete(v)
            <3>1. Search!Withdraw({v})
                  BY <1>0, <1>2, <2>2 DEF Promote, Promotable, SwitchServing, Search!Withdraw,
                     Targets, docVars
            <3> QED
                BY <1>0, <2>1, <3>1, WithdrawIsNext
      <2>3. CASE ~Obsolete(v)
            <3>1. Search!Show(v)
                  BY <1>0, <1>2, <2>3 DEF Promote, Promotable, SwitchServing, OthersServing,
                     Obsolete, Search!Show, Targets, docVars
            <3> QED
                BY <1>0, <2>1, <3>1, ShowIsNext
      <2> QED
          BY <2>2, <2>3
<1> QED
    BY <1>0, <1>1, <1>2 DEF Promote

(* All other steps leave the index as it is seen.                          *)
LEMMA OtherGuarantee ==
  ASSUME IndexInv,
         \/ \E v \in Versions : RetryFailed(v) \/ HeartbeatAges(v) \/ BackoffElapses(v)
         \/ \E w \in Workers, v \in Versions : Claim(w, v)
         \/ \E w \in Workers : \/ HeartbeatJob(w) \/ Stop(w) \/ Crash(w)
                               \/ Prepare(w) \/ Build(w) \/ Complete(w)
                               \/ Fail(w) \/ Settle(w) \/ Release(w)
         \/ \E S \in SUBSET Versions : ReconcileStale(S)
  PROVE  Late /\ Frozen /\ Abstract
<1> USE DEF IndexInv, ContentTypes, TargetTypes, JobTypes, Rows, Set, Late, Frozen
<1>1. UNCHANGED <<serving, current>>
      BY DEF RetryFailed, HeartbeatAges, BackoffElapses, Claim, HeartbeatJob, Stop, Crash,
         Prepare, Build, Complete, Fail, Settle, Release, ReconcileStale,
         docVars, targetVars, rowVars
<1>2. Abstract
      BY <1>1 DEF Abstract, Search!indexVars, Targets
<1>3. ASSUME NEW v \in Versions, RetryFailed(v) \/ HeartbeatAges(v) \/ BackoffElapses(v)
      PROVE  Late /\ Frozen
      BY <1>3 DEF RetryFailed, Retryable, HeartbeatAges, BackoffElapses, targetVars
<1>4. ASSUME NEW w \in Workers, NEW v \in Versions, Claim(w, v) PROVE Late /\ Frozen
      BY <1>4 DEF Claim, ClaimableQueued, ClaimableCompleted, targetVars
<1>5. ASSUME NEW w \in Workers, HeartbeatJob(w) \/ Stop(w) \/ Crash(w) \/ Release(w)
      PROVE  Late /\ Frozen
      BY <1>5 DEF HeartbeatJob, Stop, Crash, Release, targetVars, rowVars, jobVars
<1>6. ASSUME NEW w \in Workers,
             Prepare(w) \/ Build(w) \/ Complete(w) \/ Fail(w) \/ Settle(w)
      PROVE  Late /\ Frozen
      <2> DEFINE v == lane[w].job
      <2>0. v \in Versions /\ serving[v] # "absent"
            BY <1>6 DEF Leases, Prepare, Build, Complete, Fail, Settle, At
      <2>1. CASE Prepare(w)
            BY <2>0, <2>1 DEF Prepare, Startable, Cancelled
      <2>2. CASE Build(w)
            BY <2>0, <2>2 DEF Build, Writable, targetVars
      <2>3. CASE Complete(w)
            BY <2>0, <2>3 DEF Complete, Writable
      <2>4. CASE Fail(w)
            BY <2>0, <2>4 DEF Fail
      <2>5. CASE Settle(w)
            BY <2>0, <2>5 DEF Settle, SettleOwned, Settleable, UnfinishedCandidate
      <2> QED
          BY <1>6, <2>1, <2>2, <2>3, <2>4, <2>5
<1>7. ASSUME NEW S \in SUBSET Versions, ReconcileStale(S) PROVE Late /\ Frozen
      BY <1>7 DEF ReconcileStale, StaleRunning
<1> QED
    BY <1>2, <1>3, <1>4, <1>5, <1>6, <1>7

(* Every step keeps the promises.                                          *)
LEMMA Guarantee ==
  IndexInv /\ [IndexNext]_vars => [Late]_vars /\ [Frozen]_vars /\ Abstract
<1> SUFFICES ASSUME IndexInv, [IndexNext]_vars
             PROVE  [Late]_vars /\ [Frozen]_vars /\ Abstract
    OBVIOUS
<1>1. ASSUME UNCHANGED vars PROVE Abstract
      BY <1>1 DEF vars, rowVars, docVars, targetVars, Abstract, Search!indexVars, Targets
<1>2. ASSUME IndexNext PROVE Late /\ Frozen /\ Abstract
      BY <1>2, ContentGuarantee, PromoteGuarantee, OtherGuarantee
         DEF IndexNext, Executor, Work
<1> QED
    BY <1>1, <1>2

(* Neither a late worker nor the reconciler brings back what was deleted,  *)
(* superseded or compensated.                                              *)
THEOREM LateIsHarmless == IndexSafety => LateWorkersRestoreNothing
  BY Guarantee, Invariant, PTL DEF IndexSafety, LateWorkersRestoreNothing, Late

(* A finished build and its job never change their status again.           *)
THEOREM FinishedIsFrozen == IndexSafety => FinishedBuildsAreFrozen
  BY Guarantee, Invariant, PTL DEF IndexSafety, FinishedBuildsAreFrozen, Frozen

(* The indexing lane implements the index a search sees: one version at a  *)
(* time, only the newest published one is shown, and none comes back.      *)
THEOREM Implements == IndexSafety => ImplementsSearchIndex
<1>1. IndexInit => Search!IndexInit
      BY DEF IndexInit, Search!IndexInit, Targets
<1>2. IndexInv /\ [IndexNext]_vars => [Search!IndexNext]_(Search!indexVars)
      BY Guarantee DEF Abstract
<1> QED
    BY <1>1, <1>2, Invariant, PTL DEF IndexSafety, ImplementsSearchIndex, Search!IndexSafety

-----------------------------------------------------------------------------
(***************************************************************************)
(* Catalog: for any number of concurrent calls, keys, bases and models.    *)
(***************************************************************************)

(* Who is asked for what, and which step which operation reaches.          *)
CallSteps == {"done", "asked", "select", "found", "row", "name", "commit"}
CallRecords ==
  [step : CallSteps, key : Tickets \cup {None}, ask : Requests \cup {NoRequest},
   models : [Roles -> Models \cup {None}]]
CallIsSound(k) ==
  /\ k.step # "done" => k.key \in Tickets /\ k.ask \in Requests
  /\ k.step \in {"select", "found"} => k.ask.op = "create"
  /\ k.step = "row" => k.ask.op # "create"
  /\ k.ask.op # "create" => k.models = NoModels
CatalogTypeOK ==
  /\ calls \in [Calls -> CallRecords]
  /\ records \in [Scopes -> [ask : Requests \cup {NoRequest}, base : Bases \cup {NoBase}]]
  /\ spaces \in [Prints -> Models \cup {None}]
  /\ bases \in [Bases -> [state : {"unborn", "live", "deleted"}, name : Names \cup {None},
                          prints : [Roles -> Prints \cup {None}]]]
  /\ \A c \in Calls : CallIsSound(calls[c])

(* Who works on a key has it to itself, and finds it unrecorded.           *)
KeysAreLocked ==
  \A c \in Calls : Working(c) =>
    /\ records[ScopeOf(c)].base = NoBase
    /\ \A d \in Calls \ {c} : Working(d) => ScopeOf(d) # ScopeOf(c)

(* One create at a time has looked at the spaces and not written its own.  *)
Founding(c) == calls[c].ask.op = "create" /\ calls[c].step \in {"name", "commit"}
SpacesAreLocked ==
  \A c \in Calls : Founding(c) =>
    SpacesFit(calls[c].models) /\ \A d \in Calls \ {c} : ~Founding(d)

CatalogInv == CatalogTypeOK /\ KeysAreLocked /\ SpacesAreLocked


(* What requests look like.                                                *)
LEMMA RequestShapes ==
  /\ \A q \in Requests :
       /\ q.op \in {"create", "update", "delete"}
       /\ q = Request(q.op, q.base, q.name, q.strategy, q.model)
       /\ q.op = "create" => q.base = NoBase /\ q.name \in Names
       /\ q.op = "update" => q.base \in Bases /\ q.name \in Names
       /\ q.op = "delete" => q.base \in Bases
  /\ NoRequest.op = None /\ NoRequest.base = NoBase
BY DEF Requests, CreateRequests, RenameRequests, DeleteRequests, Request, NoRequest, None

(* A call that is over.                                                    *)
LEMMA CallOverIsSound ==
  /\ CallOver \in CallRecords /\ CallIsSound(CallOver)
  /\ CallOver.step = "done" /\ NoModels \in [Roles -> Models \cup {None}]
BY RequestShapes DEF CallOver, CallRecords, CallSteps, CallIsSound, NoModels

(* A call at work has a scope.                                             *)
LEMMA ScopesKnown ==
  ASSUME CatalogTypeOK, NEW c \in Calls, calls[c].step # "done"
  PROVE  ScopeOf(c) \in Scopes /\ calls[c].ask \in Requests
BY RequestShapes DEF CatalogTypeOK, CallIsSound, ScopeOf, Scopes

(* A call goes on; nothing else does.                                      *)
LEMMA CallGoesOn ==
  ASSUME CatalogInv, NEW c \in Calls, NEW k \in CallRecords, CallIsSound(k),
         calls' = [calls EXCEPT ![c] = k], UNCHANGED <<bases, records, spaces>>,
         k.step \notin {"asked", "done"} =>
           /\ records[<<k.ask.op, k.key>>].base = NoBase
           /\ \A d \in Calls \ {c} : Working(d) => ScopeOf(d) # <<k.ask.op, k.key>>,
         k.ask.op = "create" /\ k.step \in {"name", "commit"} =>
           SpacesFit(k.models) /\ \A d \in Calls \ {c} : ~Founding(d)
  PROVE  CatalogInv'
<1>1. calls'[c] = k /\ \A d \in Calls \ {c} : calls'[d] = calls[d]
      BY DEF CatalogInv, CatalogTypeOK
<1>2. CatalogTypeOK'
      BY <1>1 DEF CatalogInv, CatalogTypeOK, CallIsSound
<1>3. KeysAreLocked'
      BY <1>1 DEF CatalogInv, KeysAreLocked, Working, ScopeOf
<1>4. SpacesAreLocked'
  <2>1. SpacesFit(k.models)' = SpacesFit(k.models)
        BY DEF SpacesFit, Matches
  <2>2. \A d \in Calls : SpacesFit(calls[d].models) /\ calls'[d] = calls[d]
                           => SpacesFit(calls[d].models)'
        BY DEF SpacesFit, Matches
  <2> QED BY <1>1, <2>1, <2>2 DEF CatalogInv, SpacesAreLocked, Founding
<1> QED BY <1>2, <1>3, <1>4 DEF CatalogInv

(* A call that is over, however, holds nothing.                            *)
LEMMA AnswerStep ==
  ASSUME CatalogInv, NEW c \in Calls, calls' = [calls EXCEPT ![c] = CallOver],
         UNCHANGED <<bases, records, spaces>>
  PROVE  CatalogInv'
BY CallGoesOn, CallOverIsSound, RequestShapes DEF CallOver, None

(* A call keeps its scope from one step to the next.                       *)
LEMMA ProceedStep ==
  ASSUME CatalogInv, NEW c \in Calls, NEW step \in {"select", "found", "row", "name", "commit"},
         Proceed(c, step), UNCHANGED <<bases, records, spaces>>,
         calls[c].step # "done",
         \/ Working(c)
         \/ calls[c].step = "asked" /\ ScopeIsFree(c) /\ records[ScopeOf(c)].base = NoBase,
         step \in {"select", "found"} => calls[c].ask.op = "create",
         step = "row" => calls[c].ask.op # "create",
         calls[c].ask.op = "create" /\ step \in {"name", "commit"} =>
           SpacesFit(calls[c].models) /\ \A d \in Calls \ {c} : ~Founding(d)
  PROVE  CatalogInv'
<1>1. PICK old : /\ old = calls[c] /\ old \in CallRecords /\ CallIsSound(old)
      BY DEF CatalogInv, CatalogTypeOK
<1>2. PICK k : k = [old EXCEPT !.step = step]
      OBVIOUS
<1>3. /\ k \in CallRecords /\ k.step = step /\ k.key = old.key /\ k.ask = old.ask
      /\ k.models = old.models
      BY <1>1, <1>2 DEF CallRecords, CallSteps
<1>4. CallIsSound(k)
      BY <1>1, <1>3 DEF CallIsSound
<1>5. calls' = [calls EXCEPT ![c] = k]
      BY <1>1, <1>2 DEF Proceed
<1>6. /\ records[<<k.ask.op, k.key>>].base = NoBase
      /\ \A d \in Calls \ {c} : Working(d) => ScopeOf(d) # <<k.ask.op, k.key>>
      BY <1>1, <1>3 DEF CatalogInv, KeysAreLocked, ScopeIsFree, ScopeOf
<1>7. k.ask.op = "create" /\ k.step \in {"name", "commit"} =>
        SpacesFit(k.models) /\ \A d \in Calls \ {c} : ~Founding(d)
      BY <1>1, <1>3
<1> QED BY <1>3, <1>4, <1>5, <1>6, <1>7, CallGoesOn

(* A request arrives, with a key that may have been used.                  *)
LEMMA AskStep ==
  ASSUME CatalogInv, NEW c \in Calls, NEW want \in Wanted, Asks(c, want[1], want[2])
  PROVE  CatalogInv'
<1>1. want[1] \in Tickets /\ want[2] \in Requests
      BY CatalogBounds DEF CatalogBounds
<1>2. PICK k : k = [step |-> "asked", key |-> want[1], ask |-> want[2], models |-> NoModels]
      OBVIOUS
<1>3. k \in CallRecords /\ CallIsSound(k) /\ k.step = "asked"
      BY <1>1, <1>2, CallOverIsSound DEF CallRecords, CallSteps, CallIsSound
<1>4. calls' = [calls EXCEPT ![c] = k] /\ UNCHANGED <<bases, records, spaces>>
      BY <1>2 DEF Asks
<1> QED BY <1>3, <1>4, CallGoesOn

(* A call gets the lock of its key and looks for its record.               *)
LEMMA BeginStep ==
  ASSUME CatalogInv, NEW c \in Calls, Begins(c) PROVE CatalogInv'
<1>1. UNCHANGED <<bases, records, spaces>> /\ calls[c].step = "asked" /\ ScopeIsFree(c)
      BY DEF Begins
<1>2. \/ /\ records[ScopeOf(c)].base = NoBase
         /\ Proceed(c, IF calls[c].ask.op = "create" THEN "select" ELSE "row")
      \/ calls' = [calls EXCEPT ![c] = CallOver]
      BY DEF Begins, Answer
<1> QED BY <1>1, <1>2, AnswerStep, ProceedStep

(* The models of a new base are selected.                                  *)
LEMMA SelectStep ==
  ASSUME CatalogInv, NEW c \in Calls, SelectsModels(c) PROVE CatalogInv'
<1> DEFINE models == [r \in Roles |-> ModelFor(calls[c].ask, r)]
<1>1. UNCHANGED <<bases, records, spaces>> /\ calls[c].step = "select"
      BY DEF SelectsModels
<1>2. CASE calls' = [calls EXCEPT ![c] = CallOver]
      BY <1>1, <1>2, AnswerStep
<1>3. CASE /\ \A r \in Roles : KindOf(calls[c].ask.strategy, r) # None => Usable(models[r])
           /\ calls' = [calls EXCEPT ![c].step = "found", ![c].models = models]
  <2>1. models \in [Roles -> Models \cup {None}]
    <3>1. \A r \in Roles : ModelFor(calls[c].ask, r) \in Models \cup {None}
      <4> TAKE r \in Roles
      <4>1. CASE KindOf(calls[c].ask.strategy, r) = None
            BY <4>1 DEF ModelFor, OfKind, None
      <4>2. CASE KindOf(calls[c].ask.strategy, r) # None
            BY <1>3, <4>2 DEF Usable
      <4> QED BY <4>1, <4>2
    <3> QED BY <3>1
  <2> HIDE DEF models
  <2>2. PICK old : old = calls[c] /\ old \in CallRecords /\ CallIsSound(old)
        BY DEF CatalogInv, CatalogTypeOK
  <2>3. PICK k : k = [old EXCEPT !.step = "found", !.models = models]
        OBVIOUS
  <2>4. /\ k \in CallRecords /\ k.step = "found" /\ k.key = old.key /\ k.ask = old.ask
        /\ k.models = models
        BY <2>1, <2>2, <2>3 DEF CallRecords, CallSteps
  <2>5. CallIsSound(k)
        BY <1>1, <2>2, <2>4 DEF CallIsSound
  <2>6. calls' = [calls EXCEPT ![c] = k]
        BY <1>3, <2>2, <2>3
  <2>7. /\ records[<<k.ask.op, k.key>>].base = NoBase
        /\ \A d \in Calls \ {c} : Working(d) => ScopeOf(d) # <<k.ask.op, k.key>>
        BY <1>1, <2>2, <2>4 DEF CatalogInv, KeysAreLocked, ScopeOf, Working
  <2> QED BY <1>1, <2>4, <2>5, <2>6, <2>7, CallGoesOn
<1> QED BY <1>2, <1>3 DEF SelectsModels, Answer

(* The other locks: of the foundation, of a row and of a name.             *)
LEMMA FoundStep ==
  ASSUME CatalogInv, NEW c \in Calls, Founds(c) \/ LocksRow(c) \/ WritesName(c)
  PROVE  CatalogInv'
<1>1. /\ UNCHANGED <<bases, records, spaces>> /\ Working(c) /\ calls[c].step # "done"
      /\ CallIsSound(calls[c])
      BY DEF Founds, LocksRow, WritesName, Working, CatalogInv, CatalogTypeOK
<1>2. CASE calls' = [calls EXCEPT ![c] = CallOver]
      BY <1>1, <1>2, AnswerStep
<1>3. CASE Founds(c) /\ ~(calls' = [calls EXCEPT ![c] = CallOver])
  <2>1. Proceed(c, "name") /\ SpacesFit(calls[c].models) /\ FoundationIsFree(c)
        BY <1>3 DEF Founds, Answer
  <2> QED BY <1>1, <2>1, ProceedStep DEF FoundationIsFree, Founding
<1>4. CASE LocksRow(c) /\ ~(calls' = [calls EXCEPT ![c] = CallOver])
  <2>1. calls[c].step = "row" /\ \E step \in {"name", "commit"} : Proceed(c, step)
        BY <1>4 DEF LocksRow, Answer
  <2>2. calls[c].ask.op # "create"
        BY <1>1, <2>1 DEF CallIsSound
  <2> QED BY <1>1, <2>1, <2>2, ProceedStep
<1>5. CASE WritesName(c) /\ ~(calls' = [calls EXCEPT ![c] = CallOver])
  <2>1. calls[c].step = "name" /\ Proceed(c, "commit")
        BY <1>5 DEF WritesName, Answer
  <2>2. calls[c].ask.op = "create" =>
          SpacesFit(calls[c].models) /\ \A d \in Calls \ {c} : ~Founding(d)
        BY <2>1 DEF CatalogInv, SpacesAreLocked, Founding
  <2> QED BY <1>1, <2>1, <2>2, ProceedStep
<1> QED BY <1>2, <1>3, <1>4, <1>5

(* The spaces a create leaves: for each of its models the one it was       *)
(* founded with.                                                           *)
LEMMA SpacesFounded ==
  ASSUME CatalogInv, NEW c \in Calls, calls[c].step = "commit"
  PROVE  /\ WithSpaces(c) \in [Prints -> Models \cup {None}]
         /\ calls[c].ask.op # "create" => WithSpaces(c) = spaces
         /\ calls[c].ask.op = "create" =>
              \A r \in Roles : calls[c].models[r] # None =>
                WithSpaces(c)[PrintOf[calls[c].models[r]]] = calls[c].models[r]
<1> DEFINE models == calls[c].models
           uses(p) == \E r \in Roles : models[r] # None /\ PrintOf[models[r]] = p
           founder(p) == CHOOSE m \in Models : PrintOf[m] = p /\ \E r \in Roles : models[r] = m
<1>1. models \in [Roles -> Models \cup {None}] /\ spaces \in [Prints -> Models \cup {None}]
      BY DEF CatalogInv, CatalogTypeOK, CallRecords
<1>2. WithSpaces(c) = [p \in Prints |-> IF spaces[p] = None /\ uses(p)
                                        THEN founder(p) ELSE spaces[p]]
      BY Zenon DEF WithSpaces
<1>3. ASSUME NEW p \in Prints, uses(p)
      PROVE  /\ founder(p) \in Models /\ PrintOf[founder(p)] = p
             /\ \E r \in Roles : models[r] = founder(p)
  <2>1. PICK r \in Roles : models[r] # None /\ PrintOf[models[r]] = p
        BY <1>3
  <2>2. models[r] \in Models
        BY <1>1, <2>1
  <2>3. \E m \in Models : PrintOf[m] = p /\ \E q \in Roles : models[q] = m
        BY <2>1, <2>2
  <2> HIDE DEF models
  <2> QED BY <2>3
<1>4. WithSpaces(c) \in [Prints -> Models \cup {None}]
  <2>1. \A p \in Prints : (IF spaces[p] = None /\ uses(p) THEN founder(p) ELSE spaces[p])
                            \in Models \cup {None}
    <3> HIDE DEF uses, founder
    <3> QED BY <1>1, <1>3
  <2> HIDE DEF uses, founder
  <2> QED BY <1>2, <2>1
<1>5. ASSUME calls[c].ask.op # "create" PROVE WithSpaces(c) = spaces
  <2>1. models = NoModels
        BY <1>5 DEF CatalogInv, CatalogTypeOK, CallIsSound
  <2>2. \A p \in Prints : ~uses(p)
        BY <2>1 DEF NoModels
  <2> HIDE DEF uses, founder
  <2> QED BY <1>1, <1>2, <2>2
<1>6. ASSUME calls[c].ask.op = "create", NEW r \in Roles, models[r] # None
      PROVE  WithSpaces(c)[PrintOf[models[r]]] = models[r]
  <2>1. SpacesFit(models)
        BY <1>6 DEF CatalogInv, SpacesAreLocked, Founding
  <2>2. PICK m : m = models[r] /\ m \in Models /\ m # None
        BY <1>1, <1>6
  <2>3. PICK p : p = PrintOf[m] /\ p \in Prints
        BY <2>2 DEF Prints
  <2>4. uses(p) /\ spaces[p] \in {None, m}
        BY <1>6, <2>1, <2>2, <2>3 DEF SpacesFit, Matches
  <2>5. ASSUME spaces[p] = None PROVE founder(p) = m
    <3>1. /\ founder(p) \in Models /\ PrintOf[founder(p)] = p
          /\ \E q \in Roles : models[q] = founder(p)
          BY <1>3, <2>3, <2>4
    <3> HIDE DEF founder
    <3>2. PICK q \in Roles : models[q] = founder(p)
          BY <3>1
    <3>3. models[q] # None
          BY <3>1, <3>2, CatalogBounds DEF CatalogBounds
    <3> QED BY <1>6, <2>1, <2>2, <2>3, <2>5, <3>1, <3>2, <3>3 DEF SpacesFit
  <2> HIDE DEF founder, uses, models
  <2>6. WithSpaces(c)[p] = m
        BY <1>2, <2>3, <2>4, <2>5
  <2> QED BY <2>2, <2>3, <2>6
<1> QED BY <1>4, <1>5, <1>6

(* A transaction commits: the base, its spaces and the record appear at    *)
(* once.                                                                   *)
LEMMA CommitStep ==
  ASSUME CatalogInv, NEW c \in Calls, Commits(c)
  PROVE  /\ CatalogInv'
         /\ \E b \in Bases :
              /\ reply' = [outcome |-> "ok", base |-> b]
              /\ records[ScopeOf(c)].base = NoBase
              /\ records' = [records EXCEPT ![ScopeOf(c)] = [ask |-> calls[c].ask, base |-> b]]
              /\ calls' = [calls EXCEPT ![c] = CallOver]
              /\ calls[c].ask.op = "create" => UsesItsModels(c)
<1>1. /\ calls[c].step = "commit" /\ Working(c) /\ records[ScopeOf(c)].base = NoBase
      /\ ScopeOf(c) \in Scopes /\ calls[c].ask \in Requests
      BY ScopesKnown DEF Commits, Working, CatalogInv, KeysAreLocked
<1>2. PICK b \in Bases :
        /\ IF calls[c].ask.op = "create" THEN bases[b].state = "unborn"
           ELSE b = calls[c].ask.base
        /\ bases' = [bases EXCEPT ![b] = IF calls[c].ask.op = "create" THEN Made(c)
                                         ELSE Changed(c)]
        /\ records' = [records EXCEPT ![ScopeOf(c)] = [ask |-> calls[c].ask, base |-> b]]
        /\ Answer(c, "ok", b) /\ spaces' = WithSpaces(c)
      BY <1>1, Zenon DEF Commits
<1>3. /\ calls' = [calls EXCEPT ![c] = CallOver] /\ reply' = [outcome |-> "ok", base |-> b]
      /\ calls'[c] = CallOver /\ \A d \in Calls \ {c} : calls'[d] = calls[d]
      BY <1>2 DEF Answer, CatalogInv, CatalogTypeOK
<1> DEFINE models == calls[c].models
<1>4. models \in [Roles -> Models \cup {None}] /\ calls[c].ask.name \in Names \cup {None}
      BY <1>1 DEF CatalogInv, CatalogTypeOK, CallRecords, Requests, CreateRequests,
                  RenameRequests, DeleteRequests, Request
<1> DEFINE BaseRows == [state : {"unborn", "live", "deleted"}, name : Names \cup {None},
                        prints : [Roles -> Prints \cup {None}]]
           prints == [r \in Roles |-> IF models[r] = None THEN None ELSE PrintOf[models[r]]]
<1>5. prints \in [Roles -> Prints \cup {None}]
  <2>1. \A r \in Roles : models[r] # None => PrintOf[models[r]] \in Prints
        BY <1>4 DEF Prints
  <2> HIDE DEF models
  <2> QED BY <2>1
<1>6. PICK row : row = IF calls[c].ask.op = "create" THEN Made(c) ELSE Changed(c)
      OBVIOUS
<1>7. row \in BaseRows /\ (calls[c].ask.op = "create" => row.prints = prints)
  <2>1. CASE calls[c].ask.op = "create"
    <3>1. row = [state |-> "live", name |-> calls[c].ask.name, prints |-> prints]
          BY <1>6, <2>1, Zenon DEF Made
    <3> HIDE DEF prints
    <3> QED BY <1>4, <1>5, <3>1
  <2>2. CASE calls[c].ask.op # "create"
    <3>1. PICK old : old = bases[b] /\ old \in BaseRows /\ b = calls[c].ask.base
          BY <1>2, <2>2 DEF CatalogInv, CatalogTypeOK
    <3>2. row \in {[old EXCEPT !.name = calls[c].ask.name], [old EXCEPT !.state = "deleted"]}
          BY <1>6, <2>2, <3>1 DEF Changed
    <3> QED BY <1>4, <2>2, <3>1, <3>2
  <2> QED BY <2>1, <2>2
<1>8. bases' = [bases EXCEPT ![b] = row]
      BY <1>2, <1>6
<1>9. CatalogTypeOK'
  <2>1. bases' \in [Bases -> BaseRows]
    <3> HIDE DEF BaseRows
    <3>1. bases \in [Bases -> BaseRows]
          BY DEF CatalogInv, CatalogTypeOK, BaseRows
    <3> QED BY <1>7, <1>8, <3>1
  <2>2. records' \in [Scopes -> [ask : Requests \cup {NoRequest}, base : Bases \cup {NoBase}]]
        BY <1>1, <1>2 DEF CatalogInv, CatalogTypeOK
  <2>3. spaces' \in [Prints -> Models \cup {None}]
        BY <1>1, <1>2, SpacesFounded
  <2>4. calls' \in [Calls -> CallRecords] /\ \A d \in Calls : CallIsSound(calls'[d])
        BY <1>3, CallOverIsSound DEF CatalogInv, CatalogTypeOK
  <2> QED BY <2>1, <2>2, <2>3, <2>4 DEF CatalogTypeOK, CallIsSound
<1>10. KeysAreLocked'
  <2>1. ASSUME NEW d \in Calls, Working(d)' PROVE d # c /\ Working(d) /\ ScopeOf(d)' = ScopeOf(d)
        BY <1>3, <2>1 DEF Working, ScopeOf, CallOver
  <2>2. ASSUME NEW d \in Calls \ {c}, Working(d)
        PROVE  records'[ScopeOf(d)].base = NoBase
    <3>1. ScopeOf(d) # ScopeOf(c) /\ records[ScopeOf(d)].base = NoBase
          BY <1>1, <2>2 DEF CatalogInv, KeysAreLocked
    <3>2. ScopeOf(d) \in Scopes
          BY <2>2, ScopesKnown DEF CatalogInv, Working
    <3> QED BY <1>2, <3>1, <3>2 DEF CatalogInv, CatalogTypeOK
  <2> SUFFICES ASSUME NEW d \in Calls, Working(d)'
               PROVE  /\ records'[ScopeOf(d)'].base = NoBase
                      /\ \A e \in Calls \ {d} : Working(e)' => ScopeOf(e)' # ScopeOf(d)'
      BY DEF KeysAreLocked
  <2>3. d # c /\ Working(d) /\ ScopeOf(d)' = ScopeOf(d)
        BY <2>1
  <2>4. \A e \in Calls \ {d} : Working(e)' => ScopeOf(e)' # ScopeOf(d)'
    <3> TAKE e \in Calls \ {d}
    <3> HAVE Working(e)'
    <3>1. e # c /\ Working(e) /\ ScopeOf(e)' = ScopeOf(e)
          BY <2>1
    <3> QED BY <2>3, <3>1 DEF CatalogInv, KeysAreLocked
  <2> QED BY <2>2, <2>3, <2>4
<1>11. SpacesAreLocked'
  <2> SUFFICES ASSUME NEW d \in Calls, Founding(d)'
               PROVE  /\ SpacesFit(calls[d].models)'
                      /\ \A e \in Calls \ {d} : ~Founding(e)'
      BY DEF SpacesAreLocked
  <2>1. \A e \in Calls : Founding(e)' => e # c /\ Founding(e)
        BY <1>3 DEF Founding, CallOver
  <2>2. /\ d # c /\ Founding(d) /\ SpacesFit(calls[d].models)
        /\ \A e \in Calls \ {d} : ~Founding(e)
        BY <2>1 DEF CatalogInv, SpacesAreLocked
  <2>3. calls[c].ask.op # "create"
        BY <1>1, <2>2 DEF Founding
  <2>4. spaces' = spaces
        BY <1>1, <1>2, <2>3, SpacesFounded
  <2>5. SpacesFit(calls[d].models)'
        BY <1>3, <2>2, <2>4 DEF SpacesFit, Matches
  <2> QED BY <2>1, <2>2, <2>5
<1>12. ASSUME calls[c].ask.op = "create" PROVE UsesItsModels(c)
  <2> SUFFICES ASSUME NEW r \in Roles, models[r] # None
               PROVE  spaces'[bases'[b].prints[r]] = models[r]
      BY <1>3 DEF UsesItsModels
  <2>1. bases'[b].prints[r] = PrintOf[models[r]]
    <3>1. bases'[b] = row
          BY <1>8 DEF CatalogInv, CatalogTypeOK
    <3> HIDE DEF models
    <3>2. prints[r] = PrintOf[models[r]]
          OBVIOUS
    <3> HIDE DEF prints
    <3> QED BY <1>7, <1>12, <3>1, <3>2
  <2> QED BY <1>1, <1>2, <1>12, <2>1, SpacesFounded
<1> QED BY <1>1, <1>2, <1>3, <1>9, <1>10, <1>11, <1>12 DEF CatalogInv

(* Every step of the catalog.                                              *)
LEMMA CatalogStep ==
  ASSUME CatalogInv, [CatalogNext]_catalogVars PROVE CatalogInv'
<1>1. CASE UNCHANGED catalogVars \/ SettingsChange
  <2>1. UNCHANGED <<bases, records, spaces, calls>>
        BY <1>1 DEF catalogVars, SettingsChange
  <2> QED BY <2>1 DEF CatalogInv, CatalogTypeOK, CallIsSound, KeysAreLocked, Working, ScopeOf,
                      SpacesAreLocked, Founding, SpacesFit, Matches
<1>2. ASSUME NEW c \in Calls, Crashes(c) PROVE CatalogInv'
      BY <1>2, AnswerStep DEF Crashes, Answer
<1> QED BY <1>1, <1>2, AskStep, BeginStep, SelectStep, FoundStep, CommitStep
        DEF CatalogNext, Takes

(* The catalog keeps its invariant: whoever works on a key works alone,    *)
(* and one create at a time founds spaces.                                 *)
THEOREM CatalogInvariant == CatalogSpec => []CatalogInv
<1>1. CatalogInit => CatalogInv
  <2> SUFFICES ASSUME CatalogInit PROVE CatalogInv
      OBVIOUS
  <2>1. \A c \in Calls : calls[c] = CallOver
        BY DEF CatalogInit
  <2>2. CatalogTypeOK
        BY <2>1, CallOverIsSound DEF CatalogInit, CatalogTypeOK, NoModels
  <2>3. \A c \in Calls : ~Working(c) /\ ~Founding(c)
        BY <2>1 DEF Working, Founding, CallOver
  <2> QED BY <2>2, <2>3 DEF CatalogInv, KeysAreLocked, SpacesAreLocked
<1> QED BY <1>1, CatalogStep, PTL DEF CatalogSpec

(* A step of the catalog on its keys: see KeysMakeOneBase.                 *)
CallEndsRightly(c) ==
  Ends(c) =>
    LET record == records[ScopeOf(c)]
    IN  /\ record.base # NoBase /\ record.ask = calls[c].ask => AnsweredFrom(c, record)
        /\ reply'.outcome = "ok" =>
             /\ records'[ScopeOf(c)] = [ask |-> calls[c].ask, base |-> reply'.base]
             /\ calls[c].ask.op = "create" => UsesItsModels(c)

(* The call that a step ends is the one that takes it.                     *)
LEMMA OthersGoOn ==
  ASSUME CatalogInv, NEW c \in Calls, NEW k, calls' = [calls EXCEPT ![c] = k],
         NEW d \in Calls, Ends(d)
  PROVE  d = c
BY DEF CatalogInv, CatalogTypeOK, Ends

(* No step overwrites a record, and every call ends rightly.               *)
LEMMA KeysStep ==
  ASSUME CatalogInv, [CatalogNext]_catalogVars
  PROVE  /\ \A scope \in Scopes : records[scope].base # NoBase => records'[scope] = records[scope]
         /\ \A d \in Calls : CallEndsRightly(d)
<1>1. CASE UNCHANGED catalogVars \/ SettingsChange
  <2>1. UNCHANGED <<records, calls>>
        BY <1>1 DEF catalogVars, SettingsChange
  <2> QED BY <2>1 DEF CallEndsRightly, Ends
<1>2. ASSUME NEW c \in Calls, Commits(c)
      PROVE  /\ \A scope \in Scopes : records[scope].base # NoBase => records'[scope] = records[scope]
             /\ \A d \in Calls : CallEndsRightly(d)
  <2>1. PICK b \in Bases :
          /\ reply' = [outcome |-> "ok", base |-> b]
          /\ records[ScopeOf(c)].base = NoBase
          /\ records' = [records EXCEPT ![ScopeOf(c)] = [ask |-> calls[c].ask, base |-> b]]
          /\ calls' = [calls EXCEPT ![c] = CallOver]
          /\ calls[c].ask.op = "create" => UsesItsModels(c)
        BY <1>2, CommitStep
  <2>2. ScopeOf(c) \in Scopes
        BY <1>2, ScopesKnown DEF Commits, CatalogInv
  <2>3. \A scope \in Scopes : records[scope].base # NoBase => records'[scope] = records[scope]
        BY <2>1, <2>2 DEF CatalogInv, CatalogTypeOK
  <2>4. CallEndsRightly(c)
        BY <2>1, <2>2 DEF CallEndsRightly, CatalogInv, CatalogTypeOK
  <2>5. \A d \in Calls : CallEndsRightly(d)
        BY <2>1, <2>4, OthersGoOn DEF CallEndsRightly
  <2> QED BY <2>3, <2>5
<1>3. ASSUME NEW c \in Calls, NEW k, calls' = [calls EXCEPT ![c] = k], records' = records,
             Ends(c) /\ records[ScopeOf(c)].base # NoBase /\ records[ScopeOf(c)].ask = calls[c].ask
               => AnsweredFrom(c, records[ScopeOf(c)]),
             reply'.outcome # "ok"
      PROVE  /\ \A scope \in Scopes : records[scope].base # NoBase => records'[scope] = records[scope]
             /\ \A d \in Calls : CallEndsRightly(d)
      BY <1>3, OthersGoOn DEF CallEndsRightly
<1>4. ASSUME NEW c \in Calls, NEW key, NEW ask, Asks(c, key, ask)
      PROVE  /\ \A scope \in Scopes : records[scope].base # NoBase => records'[scope] = records[scope]
             /\ \A d \in Calls : CallEndsRightly(d)
  <2>1. calls[c].step = "done" /\ records' = records /\ reply' = NoReply
        BY <1>4 DEF Asks
  <2>2. PICK k : calls' = [calls EXCEPT ![c] = k]
        BY <1>4 DEF Asks
  <2> QED BY <1>3, <2>1, <2>2 DEF Ends, NoReply, None
<1>5. ASSUME NEW c \in Calls, Begins(c)
      PROVE  /\ \A scope \in Scopes : records[scope].base # NoBase => records'[scope] = records[scope]
             /\ \A d \in Calls : CallEndsRightly(d)
  <2>1. records' = records
        BY <1>5 DEF Begins
  <2>2. CASE records[ScopeOf(c)].base = NoBase
    <3>1. \E step : Proceed(c, step)
          BY <1>5, <2>2 DEF Begins
    <3>2. PICK step : Proceed(c, step)
          BY <3>1
    <3>3. PICK k : k = [calls[c] EXCEPT !.step = step]
          OBVIOUS
    <3>4. calls' = [calls EXCEPT ![c] = k] /\ reply'.outcome # "ok"
          BY <3>2, <3>3 DEF Proceed, NoReply, None
    <3> QED BY <1>3, <2>1, <2>2, <3>4
  <2>3. CASE records[ScopeOf(c)].base # NoBase
    <3> DEFINE record == records[ScopeOf(c)]
    <3>1. PICK outcome \in {"reused", "replayed", "missing"} : \E b :
             /\ Answer(c, outcome, b)
             /\ record.ask = calls[c].ask =>
                  \/ outcome = "replayed" /\ b = record.base
                  \/ outcome = "missing" /\ ~Live(record.base)
          BY <1>5, <2>3 DEF Begins
    <3>2. /\ calls' = [calls EXCEPT ![c] = CallOver] /\ reply'.outcome # "ok"
          /\ record.ask = calls[c].ask => AnsweredFrom(c, record)
          BY <3>1 DEF Answer, AnsweredFrom
    <3> HIDE DEF record
    <3> QED BY <1>3, <2>1, <3>2 DEF record
  <2> QED BY <2>2, <2>3
<1>6. ASSUME NEW c \in Calls, \/ SelectsModels(c) \/ Founds(c) \/ LocksRow(c)
                              \/ WritesName(c) \/ Crashes(c)
      PROVE  /\ \A scope \in Scopes : records[scope].base # NoBase => records'[scope] = records[scope]
             /\ \A d \in Calls : CallEndsRightly(d)
  <2>1. records' = records /\ Working(c) /\ records[ScopeOf(c)].base = NoBase
        BY <1>6 DEF SelectsModels, Founds, LocksRow, WritesName, Crashes, Working,
                    CatalogInv, KeysAreLocked
  <2>2. (\E k : calls' = [calls EXCEPT ![c] = k]) /\ reply'.outcome # "ok"
    <3>1. ASSUME SelectsModels(c)
          PROVE  (\E k : calls' = [calls EXCEPT ![c] = k]) /\ reply'.outcome # "ok"
      <4>1. \/ Answer(c, "unavailable", NoBase)
            \/ /\ \E m : calls' = [calls EXCEPT ![c].step = "found", ![c].models = m]
               /\ reply' = NoReply
            BY <3>1 DEF SelectsModels
      <4>2. ASSUME NEW m, calls' = [calls EXCEPT ![c].step = "found", ![c].models = m]
            PROVE  \E k : calls' = [calls EXCEPT ![c] = k]
            BY <4>2
      <4> QED BY <4>1, <4>2 DEF Answer, NoReply, None
    <3>2. ASSUME \/ Founds(c) \/ LocksRow(c) \/ WritesName(c) \/ Crashes(c)
          PROVE  (\E k : calls' = [calls EXCEPT ![c] = k]) /\ reply'.outcome # "ok"
      <4>1. \/ \E outcome \in {"mismatch", "conflict", "missing", "error", "lost"} :
                 Answer(c, outcome, NoBase)
            \/ \E step : Proceed(c, step)
            BY <3>2 DEF Founds, LocksRow, WritesName, Crashes
      <4> QED BY <4>1 DEF Answer, Proceed, NoReply, None
    <3> QED BY <1>6, <3>1, <3>2
  <2> QED BY <1>3, <2>1, <2>2
<1> QED BY <1>1, <1>2, <1>4, <1>5, <1>6 DEF CatalogNext, Takes

(* A request with a key is carried out once, however often and however     *)
(* concurrently it is sent and wherever it crashes, and a base keeps the   *)
(* models it was founded with.                                             *)
THEOREM KeysAreAnsweredOnce == CatalogSpec => KeysMakeOneBase
<1>1. CatalogInv /\ [CatalogNext]_catalogVars =>
        [/\ \A scope \in Scopes : records[scope].base # NoBase => records'[scope] = records[scope]
         /\ \A c \in Calls : Ends(c) =>
              LET record == records[ScopeOf(c)]
              IN  /\ record.base # NoBase /\ record.ask = calls[c].ask => AnsweredFrom(c, record)
                  /\ reply'.outcome = "ok" =>
                       /\ records'[ScopeOf(c)] = [ask |-> calls[c].ask, base |-> reply'.base]
                       /\ calls[c].ask.op = "create" => UsesItsModels(c)]_catalogVars
      BY KeysStep, Zenon DEF CallEndsRightly
<1> QED BY <1>1, CatalogInvariant, PTL DEF CatalogSpec, KeysMakeOneBase
-----------------------------------------------------------------------------
(* Listings.                                                               *)

Places  == [value : Nat, id : Nat]
Cursors == [value : Nat, id : Nat, none : BOOLEAN]

(* Rows, cursor and what the reader has seen keep to their types.          *)
ListTypeOK ==
  /\ entries \in [Ids -> [state : {"new", "listed", "gone"}, value : Nat]]
  /\ walk \in [after : Cursors, seen : Seq(Places), steady : SUBSET Ids,
               over : BOOLEAN, events : Nat]

IsSeen(i) == \E n \in DOMAIN walk.seen : walk.seen[n].id = i
CursorPlace      == [value |-> walk.after.value, id |-> walk.after.id]

(* What the reader has seen is in order and ends with its cursor.          *)
SeenInOrder ==
  \A m, n \in DOMAIN walk.seen : m < n => Precedes(walk.seen[m], walk.seen[n])
CursorIsLast ==
  ~walk.over => \A n \in DOMAIN walk.seen :
    /\ ~walk.after.none
    /\ walk.seen[n] = CursorPlace \/ Precedes(walk.seen[n], CursorPlace)

(* A row that stays as it was is behind the cursor or has been seen.       *)
SteadyAreSeen ==
  /\ walk.steady \subseteq Listed
  /\ \A i \in walk.steady :
       (walk.over \/ ~Follows(Position(i), walk.after)) => IsSeen(i)

ListInv == ListTypeOK /\ SeenInOrder /\ CursorIsLast /\ SteadyAreSeen

(* The order of a listing is a strict order of the places.                 *)
LEMMA PrecedesIsStrict ==
  /\ \A p \in Places : ~Precedes(p, p)
  /\ \A p, q, r \in Places : Precedes(p, q) /\ Precedes(q, r) => Precedes(p, r)
  BY DEF Precedes, Places

(* A place has its row's id.                                               *)
LEMMA PositionType ==
  ASSUME ListTypeOK, NEW i \in Ids
  PROVE  Position(i) \in Places /\ Position(i).id = i /\ Position(i).value = entries[i].value
  <1>1. entries[i].value \in Nat /\ i \in Nat
    BY ListingConstants DEF ListTypeOK
  <1> QED BY <1>1 DEF Position, Places

(* Different rows of a page, and on the last page there is every row       *)
(* behind the cursor.                                                      *)
LEMMA LastPageHasAll ==
  ASSUME ListTypeOK, NEW c,
         NEW page \in [1 .. Cardinality(Behind(c)) -> Behind(c)], InOrder(page)
  PROVE  \A i \in Behind(c) : \E n \in DOMAIN page : page[n] = i
  <1> DEFINE B == Behind(c)
  <1> DEFINE N == 1 .. Cardinality(B)
  <1>1. B \subseteq Ids
    BY DEF Behind, Listed
  <1>2. IsFiniteSet(B)
    BY <1>1, FS_Subset, ListingConstants
  <1>3. Cardinality(B) \in Nat
    BY <1>2, FS_CardinalityType
  <1>4. Cardinality(N) = Cardinality(B)
    BY <1>3, FS_Interval
  <1>5. \A m, n \in N : m < n => page[m] # page[n]
    <2> TAKE m, n \in N
    <2> HAVE m < n
    <2>1. Precedes(Position(page[m]), Position(page[n]))
      BY DEF InOrder
    <2>2. page[m] \in Ids
      BY <1>1
    <2> QED BY <2>1, <2>2, PositionType, PrecedesIsStrict
  <1>6. \A m, n \in N : page[m] = page[n] => m = n
    BY <1>5, <1>3
  <1>7. page \in Injection(N, B)
    BY <1>6 DEF Injection, IsInjective
  <1>8. page \in Surjection(N, B)
    BY <1>2, <1>4, <1>7, FS_Injection
  <1> QED BY <1>8 DEF Surjection

(* Before the first page everything listed is ahead.                       *)
LEMMA ListInitInv == ListInit => ListInv
  <1> SUFFICES ASSUME ListInit PROVE ListInv
    OBVIOUS
  <1>1. Listed \subseteq Ids
    BY DEF Listed
  <1>2. walk.seen = <<>> /\ ~walk.over /\ walk.after.none /\ walk.steady = Listed
    BY DEF ListInit, NewWalk, AtStart
  <1>3. ListTypeOK
    <2>1. entries \in [Ids -> [state : {"new", "listed", "gone"}, value : Nat]]
      BY ListingConstants DEF ListInit
    <2>2. <<>> \in Seq(Places)
      OBVIOUS
    <2> QED BY <1>1, <2>1, <2>2 DEF ListTypeOK, ListInit, NewWalk, AtStart, Cursors
  <1> QED BY <1>2, <1>3 DEF ListInv, SeenInOrder, CursorIsLast, SteadyAreSeen, Follows

(* Reading a page keeps the invariant.                                     *)
LEMMA ReadPageInv == ListInv /\ ReadPage => ListInv'
  <1> SUFFICES ASSUME ListInv, ReadPage PROVE ListInv'
    OBVIOUS
  <1> DEFINE c == walk.after
             B == Behind(c)
             more == HasMore(c)
             size == IF more THEN Limit ELSE Cardinality(B)
  <1>1. PICK page \in [1 .. size -> B] :
          /\ PageBehind(page, c)
          /\ walk' = [walk EXCEPT !.seen  = @ \o [n \in 1 .. size |-> Position(page[n])],
                                  !.after = IF more THEN CursorOf(page) ELSE @,
                                  !.over  = ~more]
    BY Zenon DEF ReadPage
  <1>2. ~walk.over /\ entries' = entries /\ listing' = listing
    BY DEF ReadPage
  <1>3. B \subseteq Ids /\ IsFiniteSet(B) /\ Cardinality(B) \in Nat
    <2>1. B \subseteq Ids
      BY DEF Behind, Listed
    <2> QED BY <2>1, FS_Subset, FS_CardinalityType, ListingConstants
  <1>4. size \in Nat /\ (more => size \in Nat \ {0})
    BY <1>3, ListingConstants
  <1> DEFINE here == [n \in 1 .. size |-> Position(page[n])]
  <1>5. \A n \in 1 .. size : page[n] \in B /\ page[n] \in Ids /\ here[n] = Position(page[n])
                             /\ here[n] \in Places /\ here[n].id = page[n]
    BY <1>1, <1>3, PositionType DEF ListInv
  <1>6. here \in Seq(Places) /\ Len(here) = size /\ DOMAIN here = 1 .. size
    <2>1. here \in [1 .. size -> Places]
      BY <1>5
    <2> HIDE DEF here, size
    <2> QED BY <1>4, <2>1
  <1>7. walk.seen \in Seq(Places) /\ walk.after \in Cursors /\ CursorPlace \in Places
        /\ walk.steady \subseteq Ids
    BY DEF ListInv, ListTypeOK, CursorPlace, Places, Cursors
  <1>8. more => /\ CursorOf(page) = [value |-> here[size].value, id |-> here[size].id, none |-> FALSE]
                /\ CursorOf(page) \in Cursors
    <2> SUFFICES ASSUME more PROVE
                /\ CursorOf(page) = [value |-> here[size].value, id |-> here[size].id, none |-> FALSE]
                /\ CursorOf(page) \in Cursors
      OBVIOUS
    <2>1. Len(page) = size
      BY <1>1, <1>4
    <2>2. here[size] = Position(page[size]) /\ here[size] \in Places
      BY <1>4, <1>5
    <2> QED BY <2>1, <2>2 DEF CursorOf, Cursors, Places
  <1>9. walk'.seen = walk.seen \o here /\ walk'.over = ~more /\ walk'.steady = walk.steady
        /\ walk'.after = (IF more THEN CursorOf(page) ELSE c) /\ walk'.events = walk.events
    BY <1>1 DEF ListInv, ListTypeOK
  <1>10. ListTypeOK'
    <2>1. walk'.seen \in Seq(Places)
      <3> HIDE DEF here
      <3> QED BY <1>6, <1>7, <1>9
    <2>2. walk'.after \in Cursors
      BY <1>7, <1>8, <1>9
    <2>3. walk'.over \in BOOLEAN
      BY <1>9 DEF HasMore
    <2>4. walk' = [after |-> walk'.after, seen |-> walk'.seen, steady |-> walk'.steady,
                   over |-> walk'.over, events |-> walk'.events]
      BY <1>1 DEF ListInv, ListTypeOK
    <2>5. walk'.steady \in SUBSET Ids /\ walk'.events \in Nat
      BY <1>9 DEF ListInv, ListTypeOK
    <2> QED BY <1>2, <2>1, <2>2, <2>3, <2>4, <2>5 DEF ListInv, ListTypeOK
  <1> DEFINE k == Len(walk.seen)
  <1>11. k \in Nat /\ DOMAIN walk.seen = 1 .. k /\ DOMAIN walk'.seen = 1 .. (k + size)
    BY <1>4, <1>6, <1>7, <1>9
  <1>12. \A n \in 1 .. k : walk'.seen[n] = walk.seen[n] /\ walk.seen[n] \in Places
    BY <1>4, <1>6, <1>7, <1>9
  <1>13. \A n \in 1 .. size : walk'.seen[k + n] = here[n]
    BY <1>4, <1>6, <1>7, <1>9
  <1>14. \A n \in 1 .. (k + size) : n \in 1 .. k \/ (n - k \in 1 .. size /\ n = k + (n - k))
    BY <1>4, <1>11
  (* What was seen before comes before what this page has.                 *)
  <1>15. \A m \in 1 .. k, n \in 1 .. size : Precedes(walk.seen[m], here[n])
    <2> TAKE m \in 1 .. k, n \in 1 .. size
    <2>1. ~c.none /\ (walk.seen[m] = CursorPlace \/ Precedes(walk.seen[m], CursorPlace))
      BY <1>2, <1>11 DEF ListInv, CursorIsLast
    <2>2. Precedes(CursorPlace, here[n])
      <3>1. Follows(Position(page[n]), c)
        BY <1>5 DEF Behind
      <3> QED BY <1>5, <2>1, <3>1 DEF Follows, CursorPlace
    <2> QED BY <1>5, <1>7, <1>12, <2>1, <2>2, PrecedesIsStrict
  <1>16. \A m, n \in 1 .. size : m < n => Precedes(here[m], here[n])
    BY <1>1, <1>5 DEF PageBehind, InOrder
  <1>17. \A p, q : Precedes(p, q)' <=> Precedes(p, q)
    BY <1>2 DEF Precedes
  <1> HIDE DEF here, size, more, k
  <1>18. SeenInOrder'
    <2> SUFFICES ASSUME NEW m \in 1 .. (k + size), NEW n \in 1 .. (k + size), m < n
                 PROVE  Precedes(walk'.seen[m], walk'.seen[n])
      BY <1>11, <1>17 DEF SeenInOrder, Precedes
    <2>1. CASE n \in 1 .. k
      <3>1. m \in 1 .. k
        BY <1>11, <2>1
      <3> QED BY <1>11, <1>12, <2>1, <3>1 DEF ListInv, SeenInOrder
    <2>2. CASE m \in 1 .. k /\ n \notin 1 .. k
      BY <1>12, <1>13, <1>14, <1>15, <2>2
    <2>3. CASE m \notin 1 .. k /\ n \notin 1 .. k
      <3>1. m - k \in 1 .. size /\ n - k \in 1 .. size /\ m - k < n - k
        BY <1>4, <1>11, <1>14, <2>3
      <3>2. walk'.seen[m] = here[m - k] /\ walk'.seen[n] = here[n - k]
        BY <1>13, <1>14, <2>3
      <3> QED BY <1>16, <3>1, <3>2
    <2>4. CASE m \notin 1 .. k /\ n \in 1 .. k
      BY <1>11, <2>4
    <2> QED BY <2>1, <2>2, <2>3, <2>4
  <1>19. CursorIsLast'
    <2> SUFFICES ASSUME more, NEW n \in 1 .. (k + size)
                 PROVE  /\ ~walk'.after.none
                        /\ walk'.seen[n] = CursorPlace' \/ Precedes(walk'.seen[n], CursorPlace')
      BY <1>9, <1>11, <1>17 DEF CursorIsLast, Precedes
    <2>1. size \in 1 .. size /\ here[size] \in Places
      BY <1>4, <1>5
    <2>2. walk'.after = [value |-> here[size].value, id |-> here[size].id, none |-> FALSE]
      BY <1>8, <1>9
    <2>3. CursorPlace' = here[size]
      BY <2>1, <2>2 DEF CursorPlace, Places
    <2>4. CASE n \in 1 .. k
      BY <1>12, <1>15, <2>1, <2>2, <2>3, <2>4
    <2>5. CASE n \notin 1 .. k
      <3>1. n - k \in 1 .. size /\ walk'.seen[n] = here[n - k]
        BY <1>13, <1>14, <2>5
      <3>2. n - k = size \/ n - k < size
        BY <1>4, <3>1
      <3> QED BY <1>16, <2>1, <2>2, <2>3, <3>1, <3>2
    <2> QED BY <2>4, <2>5
  <1>20. \A i \in Ids : Position(i)' = Position(i)
    BY <1>2 DEF Position
  <1>21. \A i : IsSeen(i) => IsSeen(i)'
    BY <1>4, <1>11, <1>12 DEF IsSeen
  <1>22. \A n \in 1 .. size : IsSeen(page[n])'
    <2> TAKE n \in 1 .. size
    <2>1. k + n \in 1 .. (k + size)
      BY <1>4, <1>11
    <2>2. walk'.seen[k + n].id = page[n]
      BY <1>5, <1>13
    <2> QED BY <1>11, <2>1, <2>2 DEF IsSeen
  <1>23. SteadyAreSeen'
    <2>1. Listed' = Listed
      BY <1>2 DEF Listed
    <2>2. walk'.steady \subseteq Listed'
      BY <1>9, <2>1 DEF ListInv, SteadyAreSeen
    <2> SUFFICES ASSUME NEW i \in walk.steady, ~IsSeen(i)',
                        (walk.over \/ ~Follows(Position(i), walk.after))'
                 PROVE  FALSE
      BY <1>9, <2>2 DEF SteadyAreSeen
    <2>3. i \in Ids /\ i \in Listed
      BY <1>7 DEF ListInv, SteadyAreSeen
    <2>4. i \in B
      <3>1. ~IsSeen(i)
        BY <1>21
      <3>2. Follows(Position(i), c)
        BY <3>1 DEF ListInv, SteadyAreSeen
      <3> QED BY <2>3, <3>2 DEF Behind
    <2>5. \A n \in 1 .. size : page[n] # i
      BY <1>22
    <2>6. more
      <3> SUFFICES ASSUME ~more PROVE FALSE
        OBVIOUS
      <3>1. size = Cardinality(B)
        BY DEF size
      <3>2. page \in [1 .. Cardinality(Behind(c)) -> Behind(c)] /\ InOrder(page)
        BY <1>1, <3>1 DEF PageBehind
      <3>3. \E n \in DOMAIN page : page[n] = i
        BY <2>4, <3>2, LastPageHasAll DEF ListInv
      <3> QED BY <2>5, <3>1, <3>2, <3>3
    <2>7. size \in 1 .. size
      BY <1>4, <2>6
    <2>8. Precedes(here[size], Position(i))
      BY <1>1, <1>5, <2>4, <2>5, <2>7 DEF PageBehind
    <2>9. walk'.after = [value |-> here[size].value, id |-> here[size].id, none |-> FALSE]
      BY <1>8, <1>9, <2>6
    <2>10. here[size] \in Places
      BY <1>5, <2>7
    <2>11. [value |-> walk'.after.value, id |-> walk'.after.id] = here[size]
      BY <2>9, <2>10 DEF Places
    <2>12. ~walk'.over
      BY <1>9, <2>6
    <2>13. Position(i)' = Position(i)
      BY <1>20, <2>3
    <2> QED BY <1>17, <2>8, <2>9, <2>11, <2>12, <2>13 DEF Follows, Precedes
  <1> QED BY <1>10, <1>18, <1>19, <1>23 DEF ListInv

(* Whatever happens to rows that are no longer steady, the reader does not *)
(* notice.                                                                 *)
LEMMA SteadyRowsStay ==
  ASSUME ListInv, NEW S, Disturb(S), listing' = listing,
         entries' \in [Ids -> [state : {"new", "listed", "gone"}, value : Nat]],
         \A j \in walk.steady \ S : entries'[j] = entries[j]
  PROVE  ListInv'
  <1>1. /\ walk'.steady = walk.steady \ S /\ walk'.seen = walk.seen
        /\ walk'.after = walk.after /\ walk'.over = walk.over
        /\ walk' \in [after : Cursors, seen : Seq(Places), steady : SUBSET Ids,
                      over : BOOLEAN, events : Nat]
    <2>1. walk \in [after : Cursors, seen : Seq(Places), steady : SUBSET Ids,
                   over : BOOLEAN, events : Nat]
      BY DEF ListInv, ListTypeOK
    <2>2. walk' = [walk EXCEPT !.steady = walk.steady \ S, !.events = walk.events + 1]
      BY DEF Disturb
    <2>3. walk.steady \ S \in SUBSET Ids /\ walk.events + 1 \in Nat
      BY <2>1
    <2> QED BY <2>1, <2>2, <2>3
  <1>2. ListTypeOK'
    BY <1>1 DEF ListTypeOK
  <1>3. SeenInOrder' /\ CursorIsLast'
    BY <1>1 DEF ListInv, SeenInOrder, CursorIsLast, Precedes, CursorPlace
  <1>4. SteadyAreSeen'
    <2>1. walk'.steady \subseteq Listed'
      BY <1>1 DEF ListInv, SteadyAreSeen, Listed
    <2>2. ASSUME NEW i \in walk'.steady, (walk.over \/ ~Follows(Position(i), walk.after))'
          PROVE  IsSeen(i)'
      <3>1. i \in walk.steady /\ entries'[i] = entries[i]
        BY <1>1
      <3>2. Follows(Position(i), walk.after)' <=> Follows(Position(i), walk.after)
        BY <1>1, <3>1 DEF Follows, Precedes, Position
      <3>3. IsSeen(i)
        BY <1>1, <2>2, <3>1, <3>2 DEF ListInv, SteadyAreSeen
      <3> QED BY <1>1, <3>3 DEF IsSeen
    <2> QED BY <2>1, <2>2 DEF SteadyAreSeen
  <1> QED BY <1>2, <1>3, <1>4 DEF ListInv

(* What others do to the rows keeps the invariant.                         *)
LEMMA RowsChangeInv ==
  ASSUME ListInv, NEW i \in Ids, Appears(i) \/ Changes(i)
  PROVE  ListInv'
  <1>1. CASE Appears(i)
    <2>1. FreeValues(i) \subseteq Nat
      BY ListingConstants DEF FreeValues
    <2>2. PICK v \in Nat : entries' = [entries EXCEPT ![i] = [state |-> "listed", value |-> v]]
      BY <1>1, <2>1 DEF Appears
    <2>3. i \notin walk.steady
      BY <1>1 DEF Appears, ListInv, SteadyAreSeen, Listed
    <2>4. entries' \in [Ids -> [state : {"new", "listed", "gone"}, value : Nat]]
      BY <2>2 DEF ListInv, ListTypeOK
    <2>5. \A j \in walk.steady \ {} : entries'[j] = entries[j]
      BY <2>2, <2>3 DEF ListInv, ListTypeOK
    <2> QED BY <1>1, <2>4, <2>5, SteadyRowsStay DEF Appears, Event
  <1>2. CASE Changes(i)
    <2>1. MayBecome(entries[i].value) \subseteq Nat
      BY ListingConstants DEF MayBecome
    <2>2. PICK v \in Nat : entries' = [entries EXCEPT ![i].value = v]
      BY <1>2, <2>1 DEF Changes
    <2>3. entries' \in [Ids -> [state : {"new", "listed", "gone"}, value : Nat]]
      BY <2>2 DEF ListInv, ListTypeOK
    <2>4. \A j \in walk.steady \ {i} : entries'[j] = entries[j]
      BY <2>2 DEF ListInv, ListTypeOK
    <2> QED BY <1>2, <2>3, <2>4, SteadyRowsStay DEF Changes, Event
  <1> QED BY <1>1, <1>2

(* Rows that leave were steady no longer than they were listed.            *)
LEMMA LeavesInv ==
  ASSUME ListInv, NEW S \in SUBSET Ids, Leaves(S)
  PROVE  ListInv'
  <1>1. entries' = [i \in Ids |-> IF i \in S THEN [entries[i] EXCEPT !.state = "gone"]
                                 ELSE entries[i]]
    BY DEF Leaves
  <1>2. entries' \in [Ids -> [state : {"new", "listed", "gone"}, value : Nat]]
    BY <1>1 DEF ListInv, ListTypeOK
  <1>3. \A j \in walk.steady \ S : entries'[j] = entries[j]
    BY <1>1 DEF ListInv, ListTypeOK
  <1> QED BY <1>2, <1>3, SteadyRowsStay DEF Leaves, Event

(* The inductive invariant of a reader of a listing: what it has seen is   *)
(* in order and ends at its cursor, and what stays as it was is seen or    *)
(* still ahead (the keyset cursors of the repositories).                   *)
THEOREM ListingInvariant == ListSpec => []ListInv
  <1>1. ListInv /\ [ListNext]_listVars => ListInv'
    <2> SUFFICES ASSUME ListInv, [ListNext]_listVars PROVE ListInv'
      OBVIOUS
    <2>1. CASE ReadPage
      BY <2>1, ReadPageInv
    <2>2. CASE \E i \in Ids : Appears(i) \/ Changes(i)
      BY <2>2, RowsChangeInv
    <2>3. CASE \E S \in SUBSET Ids : Leaves(S)
      BY <2>3, LeavesInv
    <2>4. CASE UNCHANGED listVars
      BY <2>4 DEF listVars, ListInv, ListTypeOK, SeenInOrder, CursorIsLast, SteadyAreSeen,
                  CursorPlace, IsSeen, Listed, Follows, Precedes, Position
    <2> QED BY <2>1, <2>2, <2>3, <2>4 DEF ListNext
  <1> QED BY <1>1, ListInitInv, PTL DEF ListSpec

(* A reader of any listing, in either direction and with any page limit,   *)
(* sees every row that stays as it was, in order and once, whatever        *)
(* appears, leaves or changes between its pages.                           *)
THEOREM ListingsFaithful == ListSpec => []ListingsAreFaithful
  <1>1. ListInv => ListingsAreFaithful
    <2> SUFFICES ASSUME ListInv PROVE ListingsAreFaithful
      OBVIOUS
    <2>1. walk.over => \A i \in walk.steady : \E n \in DOMAIN walk.seen : walk.seen[n].id = i
      BY DEF ListInv, SteadyAreSeen, IsSeen
    <2>2. ASSUME NEW m \in DOMAIN walk.seen, NEW n \in DOMAIN walk.seen, m < n
          PROVE  /\ Precedes(walk.seen[m], walk.seen[n])
                 /\ walk.seen[m].id = walk.seen[n].id => walk.seen[m].value # walk.seen[n].value
      <3>1. walk.seen[m] \in Places /\ walk.seen[n] \in Places
        BY DEF ListInv, ListTypeOK
      <3>2. Precedes(walk.seen[m], walk.seen[n])
        BY <2>2 DEF ListInv, SeenInOrder
      <3> QED BY <3>1, <3>2 DEF Precedes, Places
    <2> QED BY <2>1, <2>2 DEF ListingsAreFaithful
  <1> QED BY <1>1, ListingInvariant, PTL
=============================================================================
