---------------------------- MODULE ChatRunsProofs ----------------------------
(***************************************************************************)
(* Proofs about ChatRuns, for every number of runs, sessions, workers and  *)
(* attempts, and about ChatAdmission and the ModelSettings beneath it: a   *)
(* key that was answered for survives its janitor, and the questions of    *)
(* one key or of one session are admitted one at a time, however often     *)
(* they are sent.                                                          *)
(***************************************************************************)
EXTENDS ChatRuns, ChatAdmission, TLAPS

-----------------------------------------------------------------------------
(* The columns of the rows, and the executor's state, apart: no action     *)
(* disturbs the types of both in an interesting way.                       *)

RowsOK ==
  /\ status    \in [Runs -> Statuses]
  /\ attempt   \in [Runs -> 0 .. MaxAttempts]
  /\ heartbeat \in [Runs -> {"none", "fresh", "stale"}]
  /\ due       \in [Runs -> {"now", "later"}]
  /\ ledger    \in [Runs -> [Attempts -> Outcomes]]
  /\ assistant \in [Runs -> Messages]

LaneOK == lane \in [Workers -> Lease]

AskedOK == asked \in [Sessions -> SUBSET Runs]

(* The type invariant is that of the rows, of the executors and of the sessions. *)
LEMMA TypeParts == ChatTypeOK <=> RowsOK /\ LaneOK /\ AskedOK
  BY DEF ChatTypeOK, RowsOK, LaneOK, AskedOK

(* Messages made by Blank are messages.                                    *)
LEMMA BlankType ==
  \A s \in {"absent", "generating", "completed", "failed"} : Blank(s) \in Messages
  BY ChatConstants DEF Blank, Messages

(* The executor moves of the lane.                                         *)
LEMMA MoveType ==
  ASSUME LaneOK, NEW w \in Workers, NEW step \in Steps,
         NEW error \in {"none"} \cup Errors, Move(w, step, error)
  PROVE  LaneOK'
  BY DEF LaneOK, Move, Lease

(* An executor that returns to consume_lane is idle.                       *)
LEMMA ReturnType ==
  ASSUME LaneOK, NEW w \in Workers, Return(w)
  PROVE  LaneOK'
<1>1. Idle \in Lease
      BY ChatConstants DEF Idle, Lease, Steps
<1> QED
    BY <1>1 DEF LaneOK, Return

(* An executor that goes on or raises stays well typed.                    *)
LEMMA GoToOrRaiseType ==
  ASSUME LaneOK, NEW w \in Workers,
         \/ \E step \in Steps : GoTo(w, step)
         \/ \E error \in Errors : Raise(w, error)
  PROVE  LaneOK'
  BY MoveType DEF GoTo, Raise, Steps, Errors

-----------------------------------------------------------------------------
(* The rows.                                                               *)

(* Recording an outcome (_merge_timing) keeps the ledger's type.           *)
LEMMA RecordType ==
  ASSUME ledger \in [Runs -> [Attempts -> Outcomes]], NEW r \in Runs, NEW a,
         NEW outcome \in Outcomes, Record(r, a, outcome)
  PROVE  ledger' \in [Runs -> [Attempts -> Outcomes]]
<1>1. [ledger[r] EXCEPT ![a] = outcome] \in [Attempts -> Outcomes]
      OBVIOUS
<1>2. ledger' = [ledger EXCEPT ![r] = [ledger[r] EXCEPT ![a] = outcome]]
      BY DEF Record
<1> QED
    BY <1>1, <1>2

(* complete_owned_run keeps the types of the rows.                         *)
LEMMA CompleteRows ==
  ASSUME RowsOK, LaneOK, NEW w \in Workers, CompleteOwnedRun(w)
  PROVE  RowsOK'
<1> DEFINE r == lane[w].run  a == lane[w].attempt
<1>1. r \in Runs /\ a \in 0 .. MaxAttempts
      BY DEF CompleteOwnedRun, MayComplete, OwnsRunningLease, LaneOK, Lease
<1>2. assistant' \in [Runs -> Messages]
      <2>1. PICK c \in {0, a} : assistant' = [assistant EXCEPT ![r] =
                      [status |-> "completed", answer |-> a, cites |-> c]]
            BY DEF CompleteOwnedRun
      <2>2. [status |-> "completed", answer |-> a, cites |-> c] \in Messages
            BY <1>1, ChatConstants DEF Messages
      <2> QED BY <1>1, <2>1, <2>2 DEF RowsOK
<1>3. ledger' \in [Runs -> [Attempts -> Outcomes]]
      <2>1. "completed" \in Outcomes /\ Record(r, a, "completed")
            BY DEF CompleteOwnedRun, Outcomes
      <2> QED BY <1>1, <2>1, RecordType DEF RowsOK
<1> QED
    BY <1>1, <1>2, <1>3 DEF CompleteOwnedRun, RowsOK, Statuses, Outcomes

(* The two outcomes of an attempt that did not complete.                   *)
LEMMA AfterTypes ==
  \A o \in {"requeued", "failed"} : /\ o \in Outcomes
                                    /\ StatusAfter(o) \in Statuses
                                    /\ DueAfter(o) \in {"now", "later"}
                                    /\ SettledMessage(o) \in Messages
  BY BlankType DEF Outcomes, StatusAfter, DueAfter, SettledMessage, Statuses

(* settle_owned_failure keeps the types of the rows.                       *)
LEMMA SettleRows ==
  ASSUME RowsOK, LaneOK, NEW w \in Workers, SettleOwnedFailure(w)
  PROVE  RowsOK'
<1> DEFINE r == lane[w].run  a == lane[w].attempt
           o == IF Requeues(lane[w].error, a) THEN "requeued" ELSE "failed"
<1>1. r \in Runs /\ a \in 0 .. MaxAttempts /\ o \in {"requeued", "failed"}
      BY DEF SettleOwnedFailure, OwnsRunningLease, LaneOK, Lease
<1>2. /\ Record(r, a, o)
      /\ assistant' = [assistant EXCEPT ![r] = SettledMessage(o)]
      /\ status'    = [status EXCEPT ![r] = StatusAfter(o)]
      /\ heartbeat' = [heartbeat EXCEPT ![r] = "none"]
      /\ due'       = [due EXCEPT ![r] = DueAfter(o)]
      /\ UNCHANGED attempt
      BY DEF SettleOwnedFailure
<1> HIDE DEF o, r, a
<1>3. ledger' \in [Runs -> [Attempts -> Outcomes]]
      BY <1>1, <1>2, AfterTypes, RecordType DEF RowsOK
<1> QED
    BY <1>1, <1>2, <1>3, AfterTypes DEF RowsOK

(* reconcile_stale_runs keeps the types of the rows.                       *)
LEMMA ReconcileRows ==
  ASSUME RowsOK, NEW S \in SUBSET Runs, ReconcileStaleRuns(S)
  PROVE  RowsOK'
<1> DEFINE o(r) == IF attempt[r] < MaxAttempts THEN "requeued" ELSE "failed"
<1>1. \A r \in Runs : /\ o(r) \in {"requeued", "failed"}
                      /\ SettledMessage(o(r)) \in Messages
      BY AfterTypes
<1>2. assistant' \in [Runs -> Messages]
      BY <1>1, ChatConstants DEF ReconcileStaleRuns, RowsOK, Messages
<1>3. ledger' \in [Runs -> [Attempts -> Outcomes]]
      BY DEF ReconcileStaleRuns, RowsOK, Outcomes
<1>4. status' \in [Runs -> Statuses] /\ due' \in [Runs -> {"now", "later"}]
      BY <1>1, AfterTypes DEF ReconcileStaleRuns, RowsOK
<1> QED
    BY <1>2, <1>3, <1>4 DEF ReconcileStaleRuns, RowsOK

-----------------------------------------------------------------------------
(* Type correctness, action by action.                                     *)

(* The empty tables are well typed.                                        *)
LEMMA TypeInit == ChatInit => ChatTypeOK
<1> SUFFICES ASSUME ChatInit PROVE ChatTypeOK
    OBVIOUS
<1>1. RowsOK
      <2>1. Blank("absent") \in Messages
            BY BlankType
      <2> QED BY <2>1, ChatConstants DEF ChatInit, RowsOK, Statuses, Outcomes
<1>2. LaneOK /\ AskedOK
      BY ChatConstants DEF ChatInit, LaneOK, AskedOK, Lease, Idle, Steps
<1> QED
    BY <1>1, <1>2, TypeParts

(* Every step keeps the types.                                             *)
LEMMA TypeStep == ChatTypeOK /\ [ChatNext]_vars => ChatTypeOK'
<1> SUFFICES ASSUME RowsOK, LaneOK, AskedOK, [ChatNext]_vars
             PROVE  RowsOK' /\ LaneOK' /\ AskedOK'
    BY TypeParts DEF ChatTypeOK, RowsOK, LaneOK, AskedOK
<1> DEFINE Goal == RowsOK' /\ LaneOK' /\ AskedOK'
<1>1. ASSUME NEW r \in Runs, NEW s \in Sessions, CreateRun(r, s) PROVE Goal
      <2>1. RowsOK'
            BY <1>1, BlankType DEF CreateRun, RowsOK, Statuses
      <2> QED BY <1>1, <2>1 DEF CreateRun, LaneOK, AskedOK
<1>2. ASSUME NEW w \in Workers, NEW r \in Runs, ClaimRun(w, r) PROVE Goal
      <2>1. attempt[r] + 1 \in 0 .. MaxAttempts
            BY <1>2, ChatConstants DEF ClaimRun, Claimable, RowsOK
      <2>2. RowsOK'
            BY <1>2, <2>1 DEF ClaimRun, NextAttempt, RowsOK, Statuses
      <2>3. LaneOK'
            BY <1>2, <2>1 DEF ClaimRun, NextAttempt, LaneOK, Lease, Steps
      <2> QED BY <1>2, <2>2, <2>3 DEF ClaimRun, AskedOK
<1>3. ASSUME NEW w \in Workers, LoadExecutionContext(w) \/ Generate(w) PROVE Goal
      <2>1. LaneOK'
            BY <1>3, GoToOrRaiseType DEF LoadExecutionContext, Generate, Steps, Errors
      <2> QED BY <1>3, <2>1 DEF LoadExecutionContext, Generate, rowVars, RowsOK, AskedOK
<1>4. ASSUME NEW w \in Workers, PersistResult(w) PROVE Goal
      <2>1. LaneOK'
            BY <1>4, GoToOrRaiseType, ReturnType DEF PersistResult, Errors
      <2>2. RowsOK'
            BY <1>4, CompleteRows DEF PersistResult, rowVars, RowsOK
      <2> QED BY <1>4, <2>1, <2>2 DEF PersistResult, AskedOK
<1>5. ASSUME NEW w \in Workers, Settle(w) PROVE Goal
      <2>1. LaneOK'
            BY <1>5, ReturnType DEF Settle, LaneOK
      <2>2. RowsOK'
            BY <1>5, SettleRows DEF Settle, rowVars, RowsOK
      <2> QED BY <1>5, <2>1, <2>2 DEF Settle, AskedOK
<1>6. ASSUME NEW w \in Workers, HeartbeatRun(w) PROVE Goal
      <2>1. LaneOK'
            BY <1>6, ReturnType DEF HeartbeatRun, LaneOK
      <2>2. RowsOK'
            BY <1>6 DEF HeartbeatRun, RowsOK
      <2> QED BY <1>6, <2>1, <2>2 DEF HeartbeatRun, AskedOK
<1>7. ASSUME NEW w \in Workers, Stop(w) \/ Crash(w) PROVE Goal
      <2>1. LaneOK'
            BY <1>7, GoToOrRaiseType, ReturnType DEF Stop, Crash, Errors
      <2> QED BY <1>7, <2>1 DEF Stop, Crash, rowVars, RowsOK, AskedOK
<1>8. ASSUME NEW r \in Runs, HeartbeatAges(r) \/ BackoffElapses(r) PROVE Goal
      BY <1>8 DEF HeartbeatAges, BackoffElapses, RowsOK, LaneOK, AskedOK
<1>9. ASSUME NEW S \in SUBSET Runs, ReconcileStaleRuns(S) PROVE Goal
      BY <1>9, ReconcileRows DEF ReconcileStaleRuns, LaneOK, AskedOK
<1>10. CASE UNCHANGED vars
      BY <1>10 DEF vars, rowVars, RowsOK, LaneOK, AskedOK
<1> QED
    BY <1>1, <1>2, <1>3, <1>4, <1>5, <1>6, <1>7, <1>8, <1>9, <1>10 DEF ChatNext, Work

(* Every reachable state has rows and leases of the declared types.        *)
THEOREM ChatTypeCorrect == ChatSafety => []ChatTypeOK
  BY TypeInit, TypeStep, PTL DEF ChatSafety

-----------------------------------------------------------------------------
(* The inductive invariant.  RowInv(r) speaks of the columns of one row    *)
(* only, so a step has to be examined for the rows it writes.              *)

RowInv(r) ==
  /\ LET m == assistant[r] IN
     /\ status[r] = "completed" => /\ m.status = "completed"
                                   /\ m.answer = attempt[r]
                                   /\ m.cites \in {0, attempt[r]}
     /\ status[r] = "failed" => m = Blank("failed")
     /\ Nonterminal(r)       => m = Blank("generating")
     /\ status[r] = "absent" => m = Blank("absent")
  /\ \A a \in Attempts :
     /\ a < attempt[r] => ledger[r][a] = "requeued"
     /\ a > attempt[r] => ledger[r][a] = "none"
     /\ a = attempt[r] => /\ status[r] = "running" => ledger[r][a] = "none"
                          /\ status[r] = "queued"  => ledger[r][a] = "requeued"
                          /\ Terminal(r)           => ledger[r][a] = status[r]
  /\ status[r] = "queued" => attempt[r] < MaxAttempts
  /\ (status[r] = "running") <=> (heartbeat[r] # "none")
  /\ status[r] = "absent" => attempt[r] = 0
  /\ status[r] \in {"running", "completed", "failed"} => attempt[r] \in Attempts

(* Only rows that exist belong to a session.                               *)
AskedExist == \A s \in Sessions : \A r \in asked[s] : status[r] # "absent"

ChatInv == /\ ChatTypeOK
           /\ \A r \in Runs : RowInv(r)
           /\ AskedExist
           /\ OneOpenTurnPerSession
           /\ LeasesAreUnique

(* The invariant of the rows is one invariant per run.                     *)
LEMMA RowInvParts ==
  ASSUME \A r \in Runs : RowInv(r)
  PROVE  AnswerIsAtomic /\ AttemptLedger /\ NeverStranded
<1>1. AnswerIsAtomic
      BY DEF RowInv, AnswerIsAtomic
<1>2. AttemptLedger
      BY DEF RowInv, AttemptLedger
<1>3. NeverStranded
      BY DEF RowInv, NeverStranded
<1> QED
    BY <1>1, <1>2, <1>3

(* A row nobody writes keeps its invariant.                                *)
SameRow(r) == /\ status'[r] = status[r]
              /\ attempt'[r] = attempt[r]
              /\ heartbeat'[r] = heartbeat[r]
              /\ ledger'[r] = ledger[r]
              /\ assistant'[r] = assistant[r]

(* A row none of whose columns changes keeps its invariant.                *)
LEMMA SameRowInv ==
  ASSUME NEW r \in Runs, RowInv(r), SameRow(r)
  PROVE  RowInv(r)'
  BY DEF RowInv, SameRow, Nonterminal, Terminal, Blank

(* A row becomes queued: it has all attempts before it.                    *)
LEMMA CreateRowInv ==
  ASSUME ChatTypeOK, NEW r \in Runs, NEW s \in Sessions, CreateRun(r, s), RowInv(r)
  PROVE  RowInv(r)'
  BY ChatConstants
  DEF CreateRun, RowInv, ChatTypeOK, Nonterminal, Terminal, Attempts

(* A claim opens the ledger slot after the last requeued one.              *)
LEMMA ClaimRowInv ==
  ASSUME ChatTypeOK, NEW r \in Runs, NEW w \in Workers, ClaimRun(w, r), RowInv(r)
  PROVE  RowInv(r)'
<1>1. /\ status[r] = "queued" /\ attempt[r] \in 0 .. MaxAttempts
      /\ attempt[r] < MaxAttempts
      BY DEF ClaimRun, Claimable, ChatTypeOK
<1>2. /\ status'[r] = "running" /\ heartbeat'[r] = "fresh"
      /\ attempt'[r] = attempt[r] + 1
      /\ ledger'[r] = ledger[r] /\ assistant'[r] = assistant[r]
      BY DEF ClaimRun, NextAttempt, ChatTypeOK
<1>3. attempt[r] + 1 \in Attempts
      BY <1>1, ChatConstants DEF Attempts
<1>4. \A a \in Attempts : /\ a < attempt[r] + 1 => ledger[r][a] = "requeued"
                          /\ a >= attempt[r] + 1 => ledger[r][a] = "none"
      BY <1>1, ChatConstants DEF RowInv, Attempts
<1> QED
    BY <1>1, <1>2, <1>3, <1>4, ChatConstants
    DEF RowInv, Nonterminal, Terminal, Attempts

(* The owner completes: text and citations carry the row's own attempt.    *)
LEMMA CompleteRowInv ==
  ASSUME ChatTypeOK, NEW w \in Workers, CompleteOwnedRun(w),
         NEW r \in Runs, r = lane[w].run, RowInv(r)
  PROVE  RowInv(r)'
<1>1. /\ status[r] = "running" /\ attempt[r] = lane[w].attempt
      /\ attempt[r] \in Attempts
      BY DEF CompleteOwnedRun, MayComplete, OwnsRunningLease, RowInv
<1>2. /\ status'[r] = "completed" /\ heartbeat'[r] = "none"
      /\ attempt' = attempt
      BY DEF CompleteOwnedRun, ChatTypeOK
<1>3. PICK c \in {0, attempt[r]} : assistant'[r] =
         [status |-> "completed", answer |-> attempt[r], cites |-> c]
      BY <1>1 DEF CompleteOwnedRun, ChatTypeOK
<1>4. \A a \in Attempts : ledger'[r][a] =
         IF a = attempt[r] THEN "completed" ELSE ledger[r][a]
      <2>1. ledger' = [ledger EXCEPT ![r] = [ledger[r] EXCEPT ![attempt[r]] = "completed"]]
            BY <1>1 DEF CompleteOwnedRun, Record
      <2>2. ledger[r] \in [Attempts -> Outcomes]
            BY DEF ChatTypeOK
      <2> QED BY <2>1, <2>2 DEF ChatTypeOK
<1> QED
    BY <1>1, <1>2, <1>3, <1>4 DEF RowInv, Nonterminal, Terminal, Attempts

(* A failed attempt, settled by its owner or by the reconciler, closes its *)
(* slot and leaves an empty message without citations.                     *)
LEMMA FailedRowInv ==
  ASSUME ChatTypeOK, NEW r \in Runs, RowInv(r), NEW o \in {"requeued", "failed"},
         status[r] = "running",
         o = "requeued" => attempt[r] < MaxAttempts,
         status'[r] = StatusAfter(o), heartbeat'[r] = "none",
         attempt' = attempt,
         ledger'[r] = [ledger[r] EXCEPT ![attempt[r]] = o],
         assistant'[r] = SettledMessage(o)
  PROVE  RowInv(r)'
<1>1. attempt[r] \in Attempts
      BY DEF RowInv
<1>2. \A a \in Attempts : ledger'[r][a] = IF a = attempt[r] THEN o ELSE ledger[r][a]
      <2>1. ledger[r] \in [Attempts -> Outcomes]
            BY DEF ChatTypeOK
      <2> QED BY <2>1
<1>3. CASE o = "requeued"
      <2>1. status'[r] = "queued" /\ assistant'[r] = Blank("generating")
            BY <1>3 DEF StatusAfter, SettledMessage
      <2> QED BY <1>1, <1>2, <1>3, <2>1
              DEF RowInv, Nonterminal, Terminal, Attempts, Blank
<1>4. CASE o = "failed"
      <2>1. status'[r] = "failed" /\ assistant'[r] = Blank("failed")
            BY <1>4 DEF StatusAfter, SettledMessage
      <2> QED BY <1>1, <1>2, <1>4, <2>1
              DEF RowInv, Nonterminal, Terminal, Attempts, Blank
<1> QED
    BY <1>3, <1>4

(* settle_owned_failure keeps the invariant of the row it settles.         *)
LEMMA SettleRowInv ==
  ASSUME ChatTypeOK, NEW w \in Workers, SettleOwnedFailure(w),
         NEW r \in Runs, r = lane[w].run, RowInv(r)
  PROVE  RowInv(r)'
<1> DEFINE o == IF Requeues(lane[w].error, lane[w].attempt) THEN "requeued" ELSE "failed"
<1>1. /\ status[r] = "running" /\ attempt[r] = lane[w].attempt
      /\ attempt' = attempt /\ o \in {"requeued", "failed"}
      BY DEF SettleOwnedFailure, OwnsRunningLease
<1>2. o = "requeued" => attempt[r] < MaxAttempts
      BY <1>1 DEF Requeues
<1>3. ledger' = [ledger EXCEPT ![r] = [ledger[r] EXCEPT ![attempt[r]] = o]]
      BY <1>1 DEF SettleOwnedFailure, Record
<1>4. /\ status'[r] = StatusAfter(o) /\ heartbeat'[r] = "none"
      /\ assistant'[r] = SettledMessage(o)
      BY DEF SettleOwnedFailure, ChatTypeOK
<1>5. ledger'[r] = [ledger[r] EXCEPT ![attempt[r]] = o]
      BY <1>3 DEF ChatTypeOK
<1> HIDE DEF o
<1> QED
    BY <1>1, <1>2, <1>4, <1>5, FailedRowInv

(* reconcile_stale_runs keeps the invariant of every row of its batch.     *)
LEMMA ReconcileRowInv ==
  ASSUME ChatTypeOK, NEW S \in SUBSET Runs, ReconcileStaleRuns(S),
         NEW r \in Runs, RowInv(r)
  PROVE  RowInv(r)'
<1> DEFINE o == IF attempt[r] < MaxAttempts THEN "requeued" ELSE "failed"
<1>1. CASE r \notin S
      BY <1>1, SameRowInv DEF ReconcileStaleRuns, SameRow
<1>2. CASE r \in S
      <2>1. /\ status[r] = "running" /\ attempt' = attempt
            /\ assistant[r] = Blank("generating")
            BY <1>2 DEF ReconcileStaleRuns, Stale, RowInv, Nonterminal
      <2>2. /\ status'[r] = StatusAfter(o) /\ heartbeat'[r] = "none"
            /\ ledger'[r] = [ledger[r] EXCEPT ![attempt[r]] = o]
            BY <1>2 DEF ReconcileStaleRuns
      <2>3. assistant'[r] = [status |-> SettledMessage(o).status,
                             answer |-> 0, cites |-> 0]
            BY <1>2, <2>1 DEF ReconcileStaleRuns, Blank
      <2>4. assistant'[r] = SettledMessage(o)
            BY <2>3 DEF SettledMessage, Blank
      <2> QED BY <2>1, <2>2, <2>4, FailedRowInv
<1> QED
    BY <1>1, <1>2

-----------------------------------------------------------------------------
(* Every step keeps the invariant of every row.                            *)
LEMMA RowStep ==
  ASSUME ChatTypeOK, \A r \in Runs : RowInv(r), [ChatNext]_vars, NEW q \in Runs
  PROVE  RowInv(q)'
<1>1. ASSUME NEW r \in Runs, NEW s \in Sessions, CreateRun(r, s) PROVE RowInv(q)'
      <2>1. CASE q = r
            BY <1>1, <2>1, CreateRowInv
      <2>2. CASE q # r
            BY <1>1, <2>2, SameRowInv DEF CreateRun, SameRow, ChatTypeOK
      <2> QED BY <2>1, <2>2
<1>2. ASSUME NEW w \in Workers, NEW r \in Runs, ClaimRun(w, r) PROVE RowInv(q)'
      <2>1. CASE q = r
            BY <1>2, <2>1, ClaimRowInv
      <2>2. CASE q # r
            BY <1>2, <2>2, SameRowInv DEF ClaimRun, SameRow, ChatTypeOK
      <2> QED BY <2>1, <2>2
<1>3. CASE UNCHANGED rowVars
      BY <1>3, SameRowInv DEF rowVars, SameRow
<1>4. ASSUME NEW w \in Workers, CompleteOwnedRun(w) PROVE RowInv(q)'
      <2>1. CASE q = lane[w].run
            BY <1>4, <2>1, CompleteRowInv
      <2>2. CASE q # lane[w].run
            <3>1. SameRow(q)
                  BY <1>4, <2>2 DEF CompleteOwnedRun, Record, SameRow, ChatTypeOK
            <3> QED BY <3>1, SameRowInv
      <2> QED BY <2>1, <2>2
<1>5. ASSUME NEW w \in Workers, SettleOwnedFailure(w) PROVE RowInv(q)'
      <2>1. CASE q = lane[w].run
            BY <1>5, <2>1, SettleRowInv
      <2>2. CASE q # lane[w].run
            <3>1. SameRow(q)
                  BY <1>5, <2>2 DEF SettleOwnedFailure, Record, SameRow, ChatTypeOK
            <3> QED BY <3>1, SameRowInv
      <2> QED BY <2>1, <2>2
<1>6. ASSUME NEW w \in Workers, HeartbeatRun(w) PROVE RowInv(q)'
      <2>1. CASE OwnsRunningLease(w) /\ q = lane[w].run
            BY <1>6, <2>1 DEF HeartbeatRun, OwnsRunningLease, RowInv, ChatTypeOK,
                              Nonterminal, Terminal, Blank
      <2>2. CASE ~(OwnsRunningLease(w) /\ q = lane[w].run)
            <3>1. SameRow(q)
                  BY <1>6, <2>2 DEF HeartbeatRun, SameRow, ChatTypeOK
            <3> QED BY <3>1, SameRowInv
      <2> QED BY <2>1, <2>2
<1>7. ASSUME NEW r \in Runs, HeartbeatAges(r) PROVE RowInv(q)'
      <2>1. CASE q = r
            BY <1>7, <2>1 DEF HeartbeatAges, RowInv, ChatTypeOK,
                              Nonterminal, Terminal, Blank
      <2>2. CASE q # r
            BY <1>7, <2>2, SameRowInv DEF HeartbeatAges, SameRow, ChatTypeOK
      <2> QED BY <2>1, <2>2
<1>8. ASSUME NEW r \in Runs, BackoffElapses(r) PROVE RowInv(q)'
      BY <1>8, SameRowInv DEF BackoffElapses, SameRow
<1>9. ASSUME NEW S \in SUBSET Runs, ReconcileStaleRuns(S) PROVE RowInv(q)'
      BY <1>9, ReconcileRowInv
<1>10. ASSUME NEW w \in Workers, Work(w) \/ Stop(w) \/ Crash(w) PROVE RowInv(q)'
      <2>1. \/ UNCHANGED rowVars
            \/ CompleteOwnedRun(w)
            \/ SettleOwnedFailure(w)
            BY <1>10 DEF Work, LoadExecutionContext, Generate, PersistResult, Settle,
                         Stop, Crash
      <2> QED BY <2>1, <1>3, <1>4, <1>5
<1>11. CASE UNCHANGED vars
      BY <1>11, <1>3 DEF vars
<1> QED
    BY <1>1, <1>2, <1>6, <1>7, <1>8, <1>9, <1>10, <1>11 DEF ChatNext

(* Only create_run opens a turn or adds one to a session.                  *)
LEMMA NothingReopens ==
  ASSUME ChatTypeOK, [ChatNext]_vars,
         ~ \E r \in Runs, s \in Sessions : CreateRun(r, s)
  PROVE  /\ asked' = asked
         /\ \A r \in Runs : /\ Nonterminal(r)' => Nonterminal(r)
                            /\ status[r] # "absent" => status'[r] # "absent"
<1>1. ASSUME NEW w \in Workers, NEW r \in Runs, ClaimRun(w, r)
      PROVE  /\ asked' = asked
             /\ \A q \in Runs : /\ status'[q] \in {"queued", "running"} => Nonterminal(q)
                                /\ status[q] # "absent" => status'[q] # "absent"
      BY <1>1 DEF ClaimRun, Claimable, Nonterminal, ChatTypeOK
<1>2. ASSUME NEW w \in Workers, CompleteOwnedRun(w) \/ SettleOwnedFailure(w), asked' = asked
      PROVE  /\ asked' = asked
             /\ \A q \in Runs : /\ status'[q] \in {"queued", "running"} => Nonterminal(q)
                                /\ status[q] # "absent" => status'[q] # "absent"
      BY <1>2 DEF CompleteOwnedRun, SettleOwnedFailure, MayComplete, OwnsRunningLease,
                  Nonterminal, ChatTypeOK, StatusAfter
<1>3. ASSUME NEW S \in SUBSET Runs, ReconcileStaleRuns(S)
      PROVE  /\ asked' = asked
             /\ \A q \in Runs : /\ status'[q] \in {"queued", "running"} => Nonterminal(q)
                                /\ status[q] # "absent" => status'[q] # "absent"
      BY <1>3 DEF ReconcileStaleRuns, Stale, Nonterminal, StatusAfter
<1>4. CASE status' = status /\ asked' = asked
      BY <1>4 DEF Nonterminal
<1>5. ASSUME NEW w \in Workers, Work(w)
      PROVE  /\ asked' = asked
             /\ \/ status' = status
                \/ CompleteOwnedRun(w) \/ SettleOwnedFailure(w)
      BY <1>5 DEF Work, LoadExecutionContext, Generate, PersistResult, Settle, rowVars
<1>6. ASSUME NEW w \in Workers, HeartbeatRun(w) \/ Stop(w) \/ Crash(w)
      PROVE  status' = status /\ asked' = asked
      BY <1>6 DEF HeartbeatRun, Stop, Crash, rowVars
<1>7. ASSUME NEW r \in Runs, HeartbeatAges(r) \/ BackoffElapses(r)
      PROVE  status' = status /\ asked' = asked
      BY <1>7 DEF HeartbeatAges, BackoffElapses
<1>8. CASE UNCHANGED vars
      BY <1>8, <1>4 DEF vars, rowVars
<1>9. CASE ChatNext
      BY <1>1, <1>2, <1>3, <1>4, <1>5, <1>6, <1>7, <1>9 DEF ChatNext, Nonterminal
<1> QED
    BY <1>8, <1>9

(* A session never has two open turns, and only rows that exist.           *)
LEMMA SessionStep ==
  ASSUME ChatTypeOK, AskedExist, OneOpenTurnPerSession, [ChatNext]_vars
  PROVE  AskedExist' /\ OneOpenTurnPerSession'
<1>1. ASSUME NEW r \in Runs, NEW s \in Sessions, CreateRun(r, s)
      PROVE  AskedExist' /\ OneOpenTurnPerSession'
      <2>1. /\ status[r] = "absent"
            /\ \A q \in asked[s] : status[q] \notin {"queued", "running"}
            /\ status' = [status EXCEPT ![r] = "queued"]
            /\ asked' = [asked EXCEPT ![s] = @ \cup {r}]
            BY <1>1 DEF CreateRun, HasNonterminalRun, Nonterminal
      <2>2. \A t \in Sessions : /\ asked[t] \subseteq Runs /\ r \notin asked[t]
                                /\ \A q \in asked[t] : status'[q] = status[q]
            BY <2>1 DEF AskedExist, ChatTypeOK
      <2>3. \A t \in Sessions : asked'[t] = IF t = s THEN asked[t] \cup {r} ELSE asked[t]
            BY <2>1 DEF ChatTypeOK
      <2>4. status'[r] = "queued"
            BY <2>1 DEF ChatTypeOK
      <2>5. AskedExist'
            BY <2>2, <2>3, <2>4 DEF AskedExist
      <2>6. OneOpenTurnPerSession'
            BY <2>1, <2>2, <2>3, <2>4 DEF OneOpenTurnPerSession, Nonterminal
      <2> QED BY <2>5, <2>6
<1>2. CASE ~ \E r \in Runs, s \in Sessions : CreateRun(r, s)
      BY <1>2, NothingReopens DEF AskedExist, OneOpenTurnPerSession, ChatTypeOK
<1> QED
    BY <1>1, <1>2

-----------------------------------------------------------------------------
(* The attempt number is a fencing token.                                  *)

(* Lanes that only change step, or become idle, hold no new lease.         *)
LEMMA KeptLeases ==
  ASSUME ChatTypeOK, LeasesAreUnique,
         \A r \in Runs : attempt'[r] = attempt[r],
         \A v \in Workers : \/ lane'[v].run = NoRun
                            \/ /\ lane'[v].run = lane[v].run
                               /\ lane'[v].attempt = lane[v].attempt
  PROVE  LeasesAreUnique'
  BY DEF LeasesAreUnique, ChatTypeOK, Lease

(* No step hands a lease out twice: claim_run takes an attempt nobody holds. *)
LEMMA LeaseStep ==
  ASSUME ChatTypeOK, LeasesAreUnique, [ChatNext]_vars
  PROVE  LeasesAreUnique'
<1>1. ASSUME NEW w \in Workers, NEW r \in Runs, ClaimRun(w, r)
      PROVE  LeasesAreUnique'
      <2>1. /\ attempt' = [attempt EXCEPT ![r] = attempt[r] + 1]
            /\ lane' = [lane EXCEPT ![w] = [step |-> "load", run |-> r,
                              attempt |-> attempt[r] + 1, error |-> "none"]]
            BY <1>1 DEF ClaimRun, NextAttempt
      <2>2. \A q \in Runs : attempt'[q] = IF q = r THEN attempt[r] + 1 ELSE attempt[q]
            BY <2>1 DEF ChatTypeOK
      <2>3. \A v \in Workers :
               /\ v = w => lane'[v].run = r /\ lane'[v].attempt = attempt[r] + 1
               /\ v # w => lane'[v] = lane[v]
            BY <2>1 DEF ChatTypeOK
      <2>4. \A v \in Workers : lane[v].run = r => lane[v].attempt < attempt[r] + 1
            BY ChatConstants DEF LeasesAreUnique, ChatTypeOK
      <2>5. \A v \in Workers : lane[v].run \in Runs \cup {NoRun}
            BY DEF ChatTypeOK, Lease
      <2>6. \A u, v \in Workers : /\ lane'[u].run # NoRun
                                  /\ lane'[u].run = lane'[v].run
                                  /\ lane'[u].attempt = lane'[v].attempt
                                  => u = v
            BY <2>3, <2>4 DEF LeasesAreUnique
      <2>7. \A v \in Workers : lane'[v].run # NoRun =>
                                 lane'[v].attempt \in 1 .. attempt'[lane'[v].run]
            <3> SUFFICES ASSUME NEW v \in Workers, lane'[v].run # NoRun
                         PROVE  lane'[v].attempt \in 1 .. attempt'[lane'[v].run]
                OBVIOUS
            <3>1. attempt[r] \in Nat
                  BY DEF ChatTypeOK
            <3>2. CASE v = w
                  BY <2>2, <2>3, <3>1, <3>2
            <3>3. CASE v # w
                  <4>1. /\ lane'[v] = lane[v] /\ lane[v].run \in Runs
                        /\ lane[v].attempt \in 1 .. attempt[lane[v].run]
                        BY <2>3, <2>5, <3>3 DEF LeasesAreUnique
                  <4> QED BY <2>2, <3>1, <4>1
            <3> QED BY <3>2, <3>3
      <2> QED BY <2>6, <2>7 DEF LeasesAreUnique
<1>2. ASSUME NEW w \in Workers, Work(w) \/ HeartbeatRun(w) \/ Stop(w) \/ Crash(w)
      PROVE  LeasesAreUnique'
      <2>1. attempt' = attempt
            BY <1>2 DEF Work, LoadExecutionContext, Generate, PersistResult, Settle, HeartbeatRun,
                        Stop, Crash, rowVars, CompleteOwnedRun, SettleOwnedFailure
      <2>2. \/ lane' = lane
            \/ Return(w)
            \/ \E step, error : Move(w, step, error)
            BY <1>2 DEF Work, LoadExecutionContext, Generate, PersistResult, Settle, HeartbeatRun,
                        Stop, Crash, GoTo, Raise
      <2>3. \A v \in Workers : \/ lane'[v].run = NoRun
                               \/ /\ lane'[v].run = lane[v].run
                                  /\ lane'[v].attempt = lane[v].attempt
            BY <2>2 DEF Return, Move, Idle, ChatTypeOK
      <2> QED BY <2>1, <2>3, KeptLeases
<1>3. ASSUME attempt' = attempt, lane' = lane PROVE LeasesAreUnique'
      BY <1>3, KeptLeases
<1>4. ASSUME NEW r \in Runs, NEW s \in Sessions, CreateRun(r, s) PROVE LeasesAreUnique'
      BY <1>3, <1>4 DEF CreateRun
<1>5. ASSUME NEW r \in Runs, HeartbeatAges(r) \/ BackoffElapses(r) PROVE LeasesAreUnique'
      BY <1>3, <1>5 DEF HeartbeatAges, BackoffElapses
<1>6. ASSUME NEW S \in SUBSET Runs, ReconcileStaleRuns(S) PROVE LeasesAreUnique'
      BY <1>3, <1>6 DEF ReconcileStaleRuns
<1>7. CASE UNCHANGED vars
      BY <1>3, <1>7 DEF vars, rowVars
<1> QED
    BY <1>1, <1>2, <1>4, <1>5, <1>6, <1>7 DEF ChatNext

-----------------------------------------------------------------------------
(* The inductive invariant holds of the empty tables.                      *)
LEMMA InvInit == ChatInit => ChatInv
<1> SUFFICES ASSUME ChatInit PROVE ChatInv
    OBVIOUS
<1>1. \A r \in Runs : RowInv(r)
      BY ChatConstants DEF ChatInit, RowInv, Nonterminal, Terminal, Blank, Attempts
<1>2. AskedExist /\ OneOpenTurnPerSession
      BY DEF ChatInit, AskedExist, OneOpenTurnPerSession
<1>3. LeasesAreUnique
      BY DEF ChatInit, LeasesAreUnique, Idle
<1> QED
    BY <1>1, <1>2, <1>3, TypeInit DEF ChatInv

(* Every step keeps the inductive invariant.                               *)
LEMMA InvStep == ChatInv /\ [ChatNext]_vars => ChatInv'
  BY TypeStep, RowStep, SessionStep, LeaseStep DEF ChatInv

(* The inductive invariant holds in every reachable state.                 *)
THEOREM ChatInvariant == ChatSafety => []ChatInv
  BY InvInit, InvStep, PTL DEF ChatSafety

(* Text and citations appear together, exactly when the run completes, and *)
(* come from the attempt that owns it.                                     *)
THEOREM AnswersAreAtomic == ChatSafety => []AnswerIsAtomic
<1>1. ChatInv => AnswerIsAtomic
      BY RowInvParts DEF ChatInv
<1> QED
    BY <1>1, ChatInvariant, PTL

(* At most one open turn per session.                                      *)
THEOREM OneOpenTurn == ChatSafety => []OneOpenTurnPerSession
<1>1. ChatInv => OneOpenTurnPerSession
      BY DEF ChatInv
<1> QED
    BY <1>1, ChatInvariant, PTL

(* The ledger accounts for every attempt.                                  *)
THEOREM LedgerIsComplete == ChatSafety => []AttemptLedger
<1>1. ChatInv => AttemptLedger
      BY RowInvParts DEF ChatInv
<1> QED
    BY <1>1, ChatInvariant, PTL

(* No open run is out of everybody's reach.                                *)
THEOREM NobodyIsStranded == ChatSafety => []NeverStranded
<1>1. ChatInv => NeverStranded
      BY RowInvParts DEF ChatInv
<1> QED
    BY <1>1, ChatInvariant, PTL

(* The attempt number fences executors off from one another.               *)
THEOREM LeasesFence == ChatSafety => []LeasesAreUnique
<1>1. ChatInv => LeasesAreUnique
      BY DEF ChatInv
<1> QED
    BY <1>1, ChatInvariant, PTL

-----------------------------------------------------------------------------
(* Action properties.                                                      *)

(* An executor that lost its lease changes no column of any run.           *)
THEOREM StaleExecutorsAreFenced == ChatSafety => StaleExecutorWritesNothing
<1> DEFINE Fenced == \A w \in Workers :
              /\ ~At(w, "idle")
              /\ Work(w) \/ HeartbeatRun(w) \/ Stop(w) \/ Crash(w)
              /\ ~ /\ status[lane[w].run] = "running"
                   /\ attempt[lane[w].run] = lane[w].attempt
              => UNCHANGED rowVars
<1>1. Fenced
      <2> SUFFICES ASSUME NEW w \in Workers, ~OwnsRunningLease(w),
                          Work(w) \/ HeartbeatRun(w) \/ Stop(w) \/ Crash(w)
                   PROVE  UNCHANGED rowVars
          BY DEF OwnsRunningLease
      <2>1. ~CompleteOwnedRun(w) /\ ~SettleOwnedFailure(w)
            BY DEF CompleteOwnedRun, MayComplete, SettleOwnedFailure
      <2> QED BY <2>1 DEF Work, LoadExecutionContext, Generate, PersistResult,
                          Settle, HeartbeatRun, Stop, Crash, rowVars
<1> QED
    BY <1>1, PTL DEF StaleExecutorWritesNothing

(* No step rewrites what an attempt recorded.                              *)
LEMMA LedgerStep ==
  ASSUME ChatTypeOK, [ChatNext]_vars, NEW r \in Runs, NEW a \in Attempts,
         ledger[r][a] # "none"
  PROVE  ledger'[r][a] = ledger[r][a]
<1>1. ASSUME NEW q, NEW b, NEW o, Record(q, b, o) PROVE ledger'[r][a] = ledger[r][a]
      <2>1. ledger[r] \in [Attempts -> Outcomes]
            BY DEF ChatTypeOK
      <2>2. CASE q = r /\ b = a
            BY <1>1, <2>2 DEF Record
      <2>3. CASE q # r \/ b # a
            BY <1>1, <2>1, <2>3 DEF Record, ChatTypeOK
      <2> QED BY <2>2, <2>3
<1>2. ASSUME NEW S \in SUBSET Runs, ReconcileStaleRuns(S)
      PROVE  ledger'[r][a] = ledger[r][a]
      <2>1. ledger[r] \in [Attempts -> Outcomes]
            BY DEF ChatTypeOK
      <2> QED BY <1>2, <2>1 DEF ReconcileStaleRuns, ChatTypeOK
<1>3. CASE UNCHANGED ledger
      BY <1>3
<1>4. ASSUME NEW w \in Workers, Work(w)
      PROVE  UNCHANGED ledger \/ \E q, b, o : Record(q, b, o)
      BY <1>4 DEF Work, LoadExecutionContext, Generate, PersistResult, Settle,
                  rowVars, CompleteOwnedRun, SettleOwnedFailure
<1>5. \/ UNCHANGED ledger
      \/ \E S \in SUBSET Runs : ReconcileStaleRuns(S)
      \/ \E w \in Workers : Work(w)
      BY DEF ChatNext, vars, rowVars, CreateRun, ClaimRun, HeartbeatRun, Stop, Crash,
             HeartbeatAges, BackoffElapses
<1> QED
    BY <1>1, <1>2, <1>3, <1>4, <1>5

(* The timing ledger is append-only.                                       *)
THEOREM LedgerOnlyGrows == ChatSafety => LedgerIsAppendOnly
<1>1. ChatTypeOK /\ [ChatNext]_vars =>
        \A r \in Runs : \A a \in Attempts :
           ledger[r][a] # "none" => ledger'[r][a] = ledger[r][a]
      BY LedgerStep
<1> QED
    BY <1>1, ChatTypeCorrect, PTL DEF ChatSafety, LedgerIsAppendOnly

-----------------------------------------------------------------------------
(* Refinement: the chat lane implements ChatTurns.                         *)

(* What a reader sees of a row that satisfies RowInv.                      *)
ShownByStatus ==
  \A r \in Runs :
     /\ status[r] = "absent" => Shown(r) = Turns!Unasked
     /\ status[r] \in {"queued", "running"} => Shown(r) = Turns!Pending
     /\ status[r] = "failed" => Shown(r) = Turns!Failed
     /\ status[r] = "completed" => \E c \in {"none", "some"} : Shown(r) = Turns!Answered(c)

(* What a reader is shown of a run is determined by its status.            *)
LEMMA ShownValue == ChatInv => ShownByStatus
<1> SUFFICES ASSUME ChatInv, NEW r \in Runs
             PROVE  /\ status[r] = "absent" => Shown(r) = Turns!Unasked
                    /\ Nonterminal(r)       => Shown(r) = Turns!Pending
                    /\ status[r] = "failed" => Shown(r) = Turns!Failed
                    /\ status[r] = "completed" =>
                          \E c \in {"none", "some"} : Shown(r) = Turns!Answered(c)
    BY DEF ShownByStatus, Nonterminal
<1> USE DEF ChatInv
<1>1. CASE status[r] = "absent"
      BY <1>1 DEF RowInv, Shown, Blank, Nonterminal, Turns!Unasked
<1>2. CASE Nonterminal(r)
      BY <1>2 DEF RowInv, Shown, Blank, Nonterminal, Turns!Pending
<1>3. CASE status[r] = "failed"
      BY <1>3 DEF RowInv, Shown, Blank, Nonterminal, Turns!Failed
<1>4. CASE status[r] = "completed"
      <2>1. assistant[r].status = "completed" /\ assistant[r].answer # 0
            BY <1>4, ChatConstants DEF RowInv, Attempts
      <2> QED BY <1>4, <2>1 DEF Shown, Nonterminal, Turns!Answered
<1> QED
    BY <1>1, <1>2, <1>3, <1>4 DEF Nonterminal

(* The four things a step can do to the statuses of the runs.              *)
LEMMA StatusStep ==
  ASSUME ChatTypeOK, [ChatNext]_vars
  PROVE  \/ \E r \in Runs, s \in Sessions : CreateRun(r, s)
         \/ /\ asked' = asked
            /\ \/ \A q \in Runs : \/ status'[q] = status[q]
                                  \/ {status[q], status'[q]} \subseteq {"queued", "running"}
               \/ \E r \in Runs : /\ status[r] = "running"
                                  /\ status'[r] \in {"completed", "failed"}
                                  /\ \A q \in Runs : q # r => status'[q] = status[q]
               \/ \E S \in SUBSET Runs : \A q \in Runs :
                     IF q \in S THEN status[q] = "running" /\ status'[q] \in {"queued", "failed"}
                                ELSE status'[q] = status[q]
<1> DEFINE Quiet == /\ asked' = asked
                    /\ \A q \in Runs : \/ status'[q] = status[q]
                                       \/ {status[q], status'[q]} \subseteq {"queued", "running"}
           Decided == /\ asked' = asked
                      /\ \E r \in Runs : /\ status[r] = "running"
                                         /\ status'[r] \in {"completed", "failed"}
                                         /\ \A q \in Runs : q # r => status'[q] = status[q]
<1>1. ASSUME NEW w \in Workers, NEW r \in Runs, ClaimRun(w, r) PROVE Quiet
      BY <1>1 DEF ClaimRun, Claimable, ChatTypeOK
<1>2. ASSUME NEW w \in Workers, CompleteOwnedRun(w), asked' = asked PROVE Decided
      BY <1>2 DEF CompleteOwnedRun, MayComplete, OwnsRunningLease, ChatTypeOK
<1>3. ASSUME NEW w \in Workers, SettleOwnedFailure(w), asked' = asked
      PROVE  Quiet \/ Decided
      BY <1>3 DEF SettleOwnedFailure, OwnsRunningLease, StatusAfter, ChatTypeOK
<1>4. ASSUME NEW S \in SUBSET Runs, ReconcileStaleRuns(S)
      PROVE  /\ asked' = asked
             /\ \A q \in Runs :
                  IF q \in S THEN status[q] = "running" /\ status'[q] \in {"queued", "failed"}
                             ELSE status'[q] = status[q]
      BY <1>4 DEF ReconcileStaleRuns, Stale, StatusAfter
<1>5. ASSUME status' = status, asked' = asked PROVE Quiet
      BY <1>5
<1>6. ASSUME NEW w \in Workers, Work(w)
      PROVE  /\ asked' = asked
             /\ status' = status \/ CompleteOwnedRun(w) \/ SettleOwnedFailure(w)
      BY <1>6 DEF Work, LoadExecutionContext, Generate, PersistResult, Settle, rowVars
<1>7. ASSUME NEW w \in Workers, HeartbeatRun(w) \/ Stop(w) \/ Crash(w)
      PROVE  status' = status /\ asked' = asked
      BY <1>7 DEF HeartbeatRun, Stop, Crash, rowVars
<1>8. ASSUME NEW r \in Runs, HeartbeatAges(r) \/ BackoffElapses(r)
      PROVE  status' = status /\ asked' = asked
      BY <1>8 DEF HeartbeatAges, BackoffElapses
<1>9. ASSUME UNCHANGED vars PROVE Quiet
      BY <1>9, <1>5 DEF vars, rowVars
<1> HIDE DEF Quiet, Decided
<1>10. \/ \E r \in Runs, s \in Sessions : CreateRun(r, s)
       \/ Quiet \/ Decided
       \/ \E S \in SUBSET Runs : ReconcileStaleRuns(S)
      BY <1>1, <1>2, <1>3, <1>5, <1>6, <1>7, <1>8, <1>9 DEF ChatNext
<1> QED
    BY <1>4, <1>10 DEF Quiet, Decided

(* Every step is a step of ChatTurns, or changes nothing a reader sees.    *)
LEMMA TurnStep ==
  ASSUME ChatTypeOK, ShownByStatus, ShownByStatus', [ChatNext]_vars,
         \A q \in Runs : status'[q] = status[q] /\ status[q] = "completed"
                            => Shown(q)' = Shown(q)
  PROVE  [Turns!TurnNext]_(Turns!turnVars)
<1> DEFINE turn == [r \in Runs |-> Shown(r)]
<1>1. ASSUME NEW r \in Runs, NEW s \in Sessions, CreateRun(r, s)
      PROVE  Turns!Ask(r, s)
      <2>1. /\ status[r] = "absent"
            /\ \A q \in asked[s] : status[q] \notin {"queued", "running"}
            /\ status' = [status EXCEPT ![r] = "queued"]
            /\ assistant' = [assistant EXCEPT ![r] = Blank("generating")]
            /\ asked' = [asked EXCEPT ![s] = @ \cup {r}]
            BY <1>1 DEF CreateRun, HasNonterminalRun, Nonterminal
      <2>2. \A q \in asked[s] : q \in Runs /\ Shown(q) # Turns!Pending
            BY <2>1 DEF ShownByStatus, ChatTypeOK, Statuses, Turns!Unasked,
                        Turns!Pending, Turns!Failed, Turns!Answered
      <2>3. \A q \in Runs : q # r => Shown(q)' = Shown(q)
            BY <2>1 DEF Shown, Nonterminal, ChatTypeOK
      <2>4. Shown(r) = Turns!Unasked /\ Shown(r)' = Turns!Pending
            BY <2>1 DEF ShownByStatus, ChatTypeOK
      <2>5. turn' = [turn EXCEPT ![r] = Turns!Pending]
            BY <2>3, <2>4
      <2> QED BY <2>1, <2>2, <2>4, <2>5 DEF Turns!Ask, ChatTypeOK
<1>2. \A q \in Runs : /\ status[q] \in {"absent", "queued", "running", "failed", "completed"}
                      /\ status'[q] = status[q] => Shown(q)' = Shown(q)
      BY DEF ShownByStatus, ChatTypeOK, Statuses, Turns!Unasked, Turns!Pending, Turns!Failed
<1>3. ASSUME asked' = asked,
             \A q \in Runs : \/ status'[q] = status[q]
                             \/ {status[q], status'[q]} \subseteq {"queued", "running"}
      PROVE  UNCHANGED Turns!turnVars
      <2>1. \A q \in Runs : Shown(q)' = Shown(q)
            BY <1>2, <1>3 DEF ShownByStatus, Turns!Pending
      <2> QED BY <1>3, <2>1 DEF Turns!turnVars
<1>4. ASSUME asked' = asked, NEW r \in Runs, status[r] = "running",
             status'[r] \in {"completed", "failed"},
             \A q \in Runs : q # r => status'[q] = status[q]
      PROVE  Turns!Decide(r)
      <2>1. Shown(r) = Turns!Pending
            BY <1>4 DEF ShownByStatus
      <2>2. \E v \in {Turns!Answered("none"), Turns!Answered("some"), Turns!Failed} :
               Shown(r)' = v
            BY <1>4 DEF ShownByStatus, Turns!Failed, Turns!Answered
      <2>3. \A q \in Runs : q # r => Shown(q)' = Shown(q)
            BY <1>2, <1>4
      <2>4. \E v \in {Turns!Answered("none"), Turns!Answered("some"), Turns!Failed} :
               turn' = [turn EXCEPT ![r] = v]
            BY <2>2, <2>3
      <2> QED BY <1>4, <2>1, <2>4 DEF Turns!Decide
<1>5. ASSUME asked' = asked, NEW S \in SUBSET Runs,
             \A q \in Runs :
                IF q \in S THEN status[q] = "running" /\ status'[q] \in {"queued", "failed"}
                           ELSE status'[q] = status[q]
      PROVE  \E F \in SUBSET Runs : Turns!GiveUp(F)
      <2> DEFINE F == {q \in S : status'[q] = "failed"}
      <2>1. \A q \in F : Shown(q) = Turns!Pending
            BY <1>5 DEF ShownByStatus
      <2>2. \A q \in Runs : Shown(q)' = IF q \in F THEN Turns!Failed ELSE Shown(q)
            BY <1>2, <1>5 DEF ShownByStatus, Turns!Pending, Turns!Failed
      <2>3. F \in SUBSET Runs
            OBVIOUS
      <2> HIDE DEF F
      <2>4. turn' = [q \in Runs |-> IF q \in F THEN Turns!Failed ELSE turn[q]]
            BY <2>2
      <2>5. \A q \in F : turn[q] = Turns!Pending
            BY <2>1, <2>3
      <2>6. Turns!GiveUp(F)
            BY <1>5, <2>4, <2>5 DEF Turns!GiveUp
      <2> QED BY <2>3, <2>6
<1> QED
    BY <1>1, <1>3, <1>4, <1>5, StatusStep DEF Turns!TurnNext

(* A completed row is not written again.                                   *)
LEMMA CompletedShown ==
  ASSUME ChatTypeOK, [ChatNext]_vars, NEW q \in Runs,
         status'[q] = status[q], status[q] = "completed"
  PROVE  Shown(q)' = Shown(q)
<1>1. assistant'[q] = assistant[q]
      <2>1. ASSUME NEW w \in Workers, Work(w) PROVE assistant'[q] = assistant[q]
            BY <2>1 DEF Work, LoadExecutionContext, Generate, PersistResult, Settle,
                 rowVars, CompleteOwnedRun, SettleOwnedFailure, MayComplete,
                 OwnsRunningLease, ChatTypeOK
      <2>2. ASSUME NEW r \in Runs, NEW s \in Sessions, CreateRun(r, s)
            PROVE  assistant'[q] = assistant[q]
            BY <2>2 DEF CreateRun, ChatTypeOK
      <2>3. ASSUME NEW S \in SUBSET Runs, ReconcileStaleRuns(S)
            PROVE  assistant'[q] = assistant[q]
            BY <2>3 DEF ReconcileStaleRuns, Stale
      <2> QED BY <2>1, <2>2, <2>3 DEF ChatNext, vars, rowVars, ClaimRun, HeartbeatRun,
                 Stop, Crash, HeartbeatAges, BackoffElapses
<1> QED
    BY <1>1 DEF Shown, Nonterminal

(* The chat lane implements the abstract chat.                             *)
THEOREM ChatRunsImplementChatTurns == ChatSafety => ImplementsChatTurns
<1>1. ChatInit => Turns!TurnInit
      <2> SUFFICES ASSUME ChatInit PROVE Turns!TurnInit
          OBVIOUS
      <2>1. ShownByStatus
            BY InvInit, ShownValue
      <2>2. \A r \in Runs : Shown(r) = Turns!Unasked
            BY <2>1 DEF ShownByStatus, ChatInit
      <2> QED BY <2>2 DEF ChatInit, Turns!TurnInit
<1>2. ChatInv /\ [ChatNext]_vars => [Turns!TurnNext]_(Turns!turnVars)
      <2> SUFFICES ASSUME ChatInv, [ChatNext]_vars
                   PROVE  [Turns!TurnNext]_(Turns!turnVars)
          OBVIOUS
      <2>1. ShownByStatus
            BY ShownValue
      <2>2. ShownByStatus'
            BY InvStep, ShownValue, PTL
      <2>3. ChatTypeOK
            BY DEF ChatInv
      <2> QED BY <2>1, <2>2, <2>3, CompletedShown, TurnStep
<1> QED
    BY <1>1, <1>2, ChatInvariant, PTL DEF ChatSafety, ImplementsChatTurns, Turns!TurnSafety

-----------------------------------------------------------------------------
(* The inductive invariant of the key files.                               *)

Holds(a) == admin[a].pc \in {"save", "saved"}

AdminTypeOK ==
  /\ admin = [a \in Admins |-> admin[a]]
  /\ \A a \in Admins : Holds(a) => admin[a] \in
       [pc : {"save", "saved"}, provider : Providers, key : Secrets, new : BOOLEAN]

JanitorTypeOK ==
  janitor \in [pc : {"idle", "list", "delete"}, referenced : SUBSET Secrets,
               aged : SUBSET Secrets, entries : SUBSET Secrets]

KeysTypeOK ==
  /\ providers \in [Providers -> [enabled : BOOLEAN, keys : Seq(Secrets)]]
  /\ secrets \in [Secrets -> {"absent", "fresh", "old", "removed"}]
  /\ selection \in [{"chat", "text_embedding"} -> References \cup {None}]
  /\ kept \subseteq Secrets
  /\ AdminTypeOK
  /\ JanitorTypeOK

(* A request writes a file under a name of its own, which is fresh for as  *)
(* long as the request lasts, was never answered for, and is referred to   *)
(* once the row is committed.                                              *)
HeldKeysAreFresh ==
  \A a \in Admins : Holds(a) =>
    /\ secrets[admin[a].key] = "fresh" /\ admin[a].key \notin kept
    /\ admin[a].pc = "saved" => admin[a].key \in Referenced

HoldersDiffer ==
  \A a, b \in Admins : (a # b /\ Holds(a) /\ Holds(b)) => admin[a].key # admin[b].key

KeptKeysAreReferenced == kept \subseteq Referenced

(* What the janitor has doomed is past its grace, and no key that was      *)
(* answered for is, or ever comes to be, among it.                         *)
DoomedKeysAreAged ==
  \A s \in janitor.aged \cup janitor.entries : secrets[s] \in {"old", "removed"}

DoomedKeysAreOrphans ==
  /\ kept \cap (janitor.aged \ janitor.referenced) = {}
  /\ kept \cap janitor.entries = {}

KeysInv ==
  /\ KeysTypeOK
  /\ HeldKeysAreFresh
  /\ HoldersDiffer
  /\ KeptKeysAreReferenced
  /\ DoomedKeysAreAged
  /\ DoomedKeysAreOrphans
  /\ AnsweredKeysSurvive

-----------------------------------------------------------------------------
(* The inductive invariant of the questions.                               *)

HoldsKey(c)  == conn[c].pc \in {"session", "scope", "model", "context", "insert"}
HoldsTurn(c) == conn[c].pc \in {"scope", "model", "context", "insert"}

(* What is frozen as context is left to ContextsAreCurrent.                *)
Row(contexts) ==
  [intent : Intents, session : SessionIds, born : Nat,
   status : {"queued", "running", "completed", "failed"},
   model : References \cup {None}, context : contexts]
RunsTypeOK == runs \in Seq(Row({runs[r].context : r \in DOMAIN runs}))

Served(contexts) ==
  [pc : {"idle", "key", "session", "scope", "model", "context", "insert"},
   intent : Intents \cup {None}, born : Nat,
   model : References \cup {None}, context : contexts]
ConnTypeOK ==
  conn \in [Connections -> Served({conn[c].context : c \in Connections})]

QuestionsTypeOK ==
  /\ RunsTypeOK
  /\ ConnTypeOK
  /\ \A c \in Connections : conn[c].pc # "idle" => conn[c].intent \in Intents
  /\ scope \in [SessionIds -> SUBSET Bases]
  /\ replies \in [Intents -> SUBSET Nat]
  /\ sent \in Nat

RunsAreOfTheirSession ==
  \A r \in DOMAIN runs : runs[r].session = Session[runs[r].intent]

(* The advisory lock of a key, and what was read under it.                 *)
KeysAreExclusive ==
  \A c, d \in Connections : (c # d /\ HoldsKey(c) /\ HoldsKey(d))
    => Key[conn[c].intent] # Key[conn[d].intent]
HoldersAreFirst ==
  \A c \in Connections : HoldsKey(c) => Prior(Key[conn[c].intent]) = {}

(* The row lock of a session, and what was read under it.                  *)
TurnsAreExclusive ==
  \A c, d \in Connections : (c # d /\ HoldsTurn(c) /\ HoldsTurn(d))
    => Session[conn[c].intent] # Session[conn[d].intent]
HoldersAreAlone ==
  \A c \in Connections : HoldsTurn(c) => ~HasOpenRun(Session[conn[c].intent])

OneRunPerKey ==
  \A r, q \in DOMAIN runs : Key[runs[r].intent] = Key[runs[q].intent] => r = q

AnswersAreRuns ==
  \A i \in Intents : \A x \in replies[i] : x \in DOMAIN runs /\ runs[x].intent = i

ContextsAreCurrent ==
  \A c \in Connections : conn[c].pc = "insert" =>
    conn[c].context = SelectContext(Completed(Session[conn[c].intent]))

QuestionsInv ==
  /\ QuestionsTypeOK
  /\ RunsAreOfTheirSession
  /\ KeysAreExclusive
  /\ HoldersAreFirst
  /\ TurnsAreExclusive
  /\ HoldersAreAlone
  /\ OneRunPerKey
  /\ AnswersAreRuns
  /\ ContextsAreCurrent

AdmissionInv == KeysInv /\ QuestionsInv

-----------------------------------------------------------------------------
(* The key files.                                                          *)

(* What is referred to: the keys of the provider revisions.                *)
LEMMA ReferencedKeys ==
  \A s : s \in Referenced <=>
    \E p \in Providers : \E i \in 1 .. Len(providers[p].keys) : s = providers[p].keys[i]
BY DEF Referenced

(* A revision that is added to a provider refers to its key and takes no   *)
(* other reference away.                                                   *)
LEMMA RevisionsAreAdded ==
  ASSUME KeysTypeOK, NEW p \in Providers, NEW b \in BOOLEAN, NEW s \in Secrets,
         providers' = [providers EXCEPT ![p] =
                         [enabled |-> b, keys |-> Append(providers[p].keys, s)]]
  PROVE  /\ providers' \in [Providers -> [enabled : BOOLEAN, keys : Seq(Secrets)]]
         /\ Referenced \subseteq Referenced'
         /\ s \in Referenced'
<1> DEFINE K == providers[p].keys
<1>1. K \in Seq(Secrets) /\ Append(K, s) \in Seq(Secrets) /\ Len(K) \in Nat
  BY DEF KeysTypeOK
<1>2. /\ Len(Append(K, s)) = Len(K) + 1
      /\ \A i \in 1 .. Len(K) : Append(K, s)[i] = K[i]
      /\ Append(K, s)[Len(K) + 1] = s
  BY <1>1
<1>3. providers' \in [Providers -> [enabled : BOOLEAN, keys : Seq(Secrets)]]
  BY <1>1 DEF KeysTypeOK
<1>4. providers'[p].keys = Append(K, s)
  BY DEF KeysTypeOK
<1>5. \A q \in Providers \ {p} : providers'[q] = providers[q]
  BY DEF KeysTypeOK
<1>6. s \in Referenced'
  <2>1. Len(K) + 1 \in 1 .. Len(providers'[p].keys)
    BY <1>1, <1>2, <1>4
  <2> QED BY <2>1, <1>2, <1>4 DEF Referenced
<1>7. ASSUME NEW t \in Referenced PROVE t \in Referenced'
  <2>1. PICK q \in Providers : \E i \in 1 .. Len(providers[q].keys) : t = providers[q].keys[i]
    BY <1>7, ReferencedKeys
  <2>2. CASE q = p
    <3>1. PICK i \in 1 .. Len(K) : t = K[i]
      BY <2>1, <2>2
    <3>2. i \in 1 .. Len(providers'[p].keys) /\ t = providers'[p].keys[i]
      BY <3>1, <1>1, <1>2, <1>4
    <3> QED BY <3>2 DEF Referenced
  <2>3. CASE q # p
    BY <2>1, <2>3, <1>5 DEF Referenced
  <2> QED BY <2>2, <2>3
<1> QED BY <1>3, <1>6, <1>7

(* Requests that touch neither the providers nor the files.                *)
LEMMA OtherRequests ==
  ASSUME KeysInv, UNCHANGED <<providers, secrets, janitor, kept>>,
         selection' \in [{"chat", "text_embedding"} -> References \cup {None}],
         admin' = [a \in Admins |-> admin'[a]],
         \A a \in Admins : admin'[a] = admin[a] \/ ~Holds(a)'
  PROVE  KeysInv'
<1>1. Referenced' = Referenced
  BY DEF Referenced
<1>2. \A a \in Admins : Holds(a)' => admin'[a] = admin[a] /\ Holds(a)
  BY DEF Holds
<1>3. KeysTypeOK'
  BY <1>2 DEF KeysInv, KeysTypeOK, AdminTypeOK, JanitorTypeOK
<1>4. HeldKeysAreFresh' /\ HoldersDiffer'
  BY <1>1, <1>2 DEF KeysInv, HeldKeysAreFresh, HoldersDiffer
<1>5. KeptKeysAreReferenced' /\ DoomedKeysAreAged' /\ DoomedKeysAreOrphans'
      /\ AnsweredKeysSurvive'
  BY <1>1 DEF KeysInv, KeptKeysAreReferenced, DoomedKeysAreAged, DoomedKeysAreOrphans,
     AnsweredKeysSurvive, Present
<1> QED BY <1>3, <1>4, <1>5 DEF KeysInv

(* Providers.                                                              *)
LEMMA WriteKeyKeeps ==
  ASSUME KeysInv, NEW a \in Admins, NEW p \in Providers, NEW s \in Secrets, WriteKey(a, p, s)
  PROVE  KeysInv'
<1> USE DEF KeysInv, KeysTypeOK, AdminTypeOK, JanitorTypeOK, Holds
<1>1. PICK n \in BOOLEAN : admin' = [admin EXCEPT ![a] =
        [pc |-> "save", provider |-> p, key |-> s, new |-> n]]
  BY DEF WriteKey
<1>2. /\ secrets[s] = "absent" /\ secrets' = [secrets EXCEPT ![s] = "fresh"]
      /\ UNCHANGED <<providers, profiles, selection, janitor, kept>>
      /\ admin[a].pc = "idle"
  BY DEF WriteKey, Request
<1>3. Referenced' = Referenced
  BY <1>2 DEF Referenced
<1>4. s \notin kept
  BY <1>2 DEF AnsweredKeysSurvive, Present
<1>5. \A b \in Admins \ {a} : admin'[b] = admin[b]
  BY <1>1
<1>6. admin'[a] = [pc |-> "save", provider |-> p, key |-> s, new |-> n]
  BY <1>1
<1>7. KeysTypeOK'
  BY <1>1, <1>2, <1>5, <1>6
<1>8. \A b \in Admins \ {a} : Holds(b) => admin[b].key # s
  BY <1>2 DEF HeldKeysAreFresh
<1>9. HeldKeysAreFresh' /\ HoldersDiffer'
  <2>1. HoldersDiffer'
    BY <1>5, <1>6, <1>8 DEF HoldersDiffer
  <2>2. ASSUME NEW b \in Admins, Holds(b)'
        PROVE  /\ secrets'[admin'[b].key] = "fresh" /\ admin'[b].key \notin kept'
               /\ admin'[b].pc = "saved" => admin'[b].key \in Referenced'
    <3>1. CASE b = a
      BY <1>2, <1>4, <1>6, <3>1
    <3>2. CASE b # a
      BY <1>2, <1>3, <1>5, <1>8, <2>2, <3>2 DEF HeldKeysAreFresh
    <3> QED BY <3>1, <3>2
  <2> QED BY <2>1, <2>2 DEF HeldKeysAreFresh
<1>10. KeptKeysAreReferenced' /\ DoomedKeysAreOrphans' /\ AnsweredKeysSurvive'
  BY <1>2, <1>3, <1>4 DEF KeptKeysAreReferenced, DoomedKeysAreOrphans, AnsweredKeysSurvive, Present
<1>11. DoomedKeysAreAged'
  BY <1>2 DEF DoomedKeysAreAged
<1> QED BY <1>7, <1>9, <1>10, <1>11

(* A revision of a provider that names the key it had.                     *)
LEMMA EditProviderKeeps ==
  ASSUME KeysInv, NEW a \in Admins, NEW p \in Providers, NEW b, NEW r \in BOOLEAN,
         b \in BOOLEAN, EditProvider(a, p, b, r)
  PROVE  KeysInv'
<1> USE DEF KeysInv, KeysTypeOK, AdminTypeOK, JanitorTypeOK
<1> DEFINE K == providers[p].keys
<1>1. K \in Seq(Secrets) /\ K # <<>> /\ UNCHANGED <<selection, secrets, admin, janitor, kept>>
  BY DEF EditProvider, ProviderExists
<1>2. /\ providers' \in [Providers -> [enabled : BOOLEAN, keys : Seq(Secrets)]]
      /\ Referenced \subseteq Referenced'
  <2>1. CASE r
    <3>1. PICK s : s = K[Len(K)]
      OBVIOUS
    <3>2. s \in Secrets
      BY <1>1, <3>1
    <3>3. providers' = [providers EXCEPT ![p] = [enabled |-> b, keys |-> Append(K, s)]]
      BY <2>1, <3>1 DEF EditProvider
    <3> QED BY <3>2, <3>3, RevisionsAreAdded
  <2>2. CASE ~r
    <3>1. providers' = [providers EXCEPT ![p] = [enabled |-> b, keys |-> K]]
      BY <2>2 DEF EditProvider
    <3>2. \A q \in Providers : providers'[q].keys = providers[q].keys
      BY <3>1
    <3>3. Referenced' = Referenced
      BY <3>2 DEF Referenced
    <3> QED BY <3>1, <3>3, <1>1
  <2> QED BY <2>1, <2>2
<1>3. KeysTypeOK'
  BY <1>1, <1>2 DEF Holds
<1>4. HeldKeysAreFresh' /\ HoldersDiffer' /\ KeptKeysAreReferenced'
  BY <1>1, <1>2 DEF HeldKeysAreFresh, HoldersDiffer, KeptKeysAreReferenced, Holds
<1>5. DoomedKeysAreAged' /\ DoomedKeysAreOrphans' /\ AnsweredKeysSurvive'
  BY <1>1 DEF DoomedKeysAreAged, DoomedKeysAreOrphans, AnsweredKeysSurvive, Present
<1> QED BY <1>3, <1>4, <1>5

(* The row that refers to the key is committed.                            *)
LEMMA SaveProviderKeeps ==
  ASSUME KeysInv, NEW a \in Admins, NEW b \in BOOLEAN, SaveProvider(a, b)
  PROVE  KeysInv'
<1> USE DEF KeysInv, KeysTypeOK, AdminTypeOK, JanitorTypeOK, Holds
<1>1. PICK p, s : p = admin[a].provider /\ s = admin[a].key
  OBVIOUS
<1>2. /\ p \in Providers /\ s \in Secrets
      /\ admin[a].pc = "save" /\ admin' = [admin EXCEPT ![a].pc = "saved"]
      /\ UNCHANGED <<selection, secrets, janitor, kept>>
  BY <1>1 DEF SaveProvider
<1>3. providers' = [providers EXCEPT ![p] = [enabled |-> b, keys |-> Append(providers[p].keys, s)]]
  BY <1>1 DEF SaveProvider
<1>4. /\ providers' \in [Providers -> [enabled : BOOLEAN, keys : Seq(Secrets)]]
      /\ Referenced \subseteq Referenced' /\ s \in Referenced'
  BY <1>2, <1>3, RevisionsAreAdded
<1>5. /\ \A c \in Admins \ {a} : admin'[c] = admin[c]
      /\ admin'[a] = [admin[a] EXCEPT !.pc = "saved"]
  BY <1>2
<1>6. admin'[a].key = s /\ admin'[a].pc = "saved"
      /\ admin'[a] \in [pc : {"save", "saved"}, provider : Providers, key : Secrets, new : BOOLEAN]
  BY <1>1, <1>2, <1>5
<1>7. KeysTypeOK'
  BY <1>2, <1>4, <1>5, <1>6
<1>8. HeldKeysAreFresh' /\ HoldersDiffer'
  BY <1>1, <1>2, <1>4, <1>5, <1>6 DEF HeldKeysAreFresh, HoldersDiffer
<1>9. KeptKeysAreReferenced' /\ DoomedKeysAreAged' /\ DoomedKeysAreOrphans'
      /\ AnsweredKeysSurvive'
  BY <1>2, <1>4 DEF KeptKeysAreReferenced, DoomedKeysAreAged, DoomedKeysAreOrphans,
     AnsweredKeysSurvive, Present
<1> QED BY <1>7, <1>8, <1>9

(* The request is answered: its key is kept from now on.                   *)
LEMMA AnswerSavedKeeps ==
  ASSUME KeysInv, NEW a \in Admins, AnswerSaved(a)
  PROVE  KeysInv'
<1> USE DEF KeysInv, KeysTypeOK, AdminTypeOK, JanitorTypeOK, Holds
<1>1. PICK s : s = admin[a].key
  OBVIOUS
<1>2. /\ s \in Secrets /\ kept' = kept \cup {s}
      /\ secrets[s] = "fresh" /\ s \in Referenced
      /\ UNCHANGED <<providers, selection, secrets, janitor>>
  BY <1>1 DEF AnswerSaved, HeldKeysAreFresh
<1>3. /\ \A c \in Admins \ {a} : admin'[c] = admin[c]
      /\ admin'[a].pc = "idle" /\ admin' = [c \in Admins |-> admin'[c]]
  BY DEF AnswerSaved, Free
<1>4. Referenced' = Referenced
  BY <1>2 DEF Referenced
<1>5. KeysTypeOK'
  BY <1>2, <1>3
<1>6. \A c \in Admins \ {a} : Holds(c) => admin[c].key # s
  BY <1>1 DEF HoldersDiffer, AnswerSaved
<1>7. HeldKeysAreFresh' /\ HoldersDiffer'
  <2>1. \A c \in Admins : Holds(c)' =>
          Holds(c) /\ admin'[c] = admin[c] /\ admin[c].key # s /\ admin[c].key \in Secrets
    BY <1>3, <1>6
  <2>2. HoldersDiffer'
    BY <2>1 DEF HoldersDiffer
  <2>3. HeldKeysAreFresh'
    BY <1>2, <1>4, <2>1 DEF HeldKeysAreFresh
  <2> QED BY <2>2, <2>3
<1>8. s \notin janitor.aged \cup janitor.entries
  BY <1>2 DEF DoomedKeysAreAged
<1>9. KeptKeysAreReferenced' /\ DoomedKeysAreAged' /\ DoomedKeysAreOrphans'
      /\ AnsweredKeysSurvive'
  BY <1>2, <1>4, <1>8 DEF KeptKeysAreReferenced, DoomedKeysAreAged, DoomedKeysAreOrphans,
     AnsweredKeysSurvive, Present
<1> QED BY <1>5, <1>7, <1>9

(* The request raises and takes its key with it: nobody else names it.     *)
LEMMA SaveRaisesKeeps ==
  ASSUME KeysInv, NEW a \in Admins, SaveRaises(a)
  PROVE  KeysInv'
<1> USE DEF KeysInv, KeysTypeOK, AdminTypeOK, JanitorTypeOK, Holds
<1>1. PICK s : s = admin[a].key
  OBVIOUS
<1>2. /\ s \in Secrets /\ s \notin kept /\ secrets' = [secrets EXCEPT ![s] = "removed"]
      /\ UNCHANGED <<providers, selection, kept, janitor>>
  BY <1>1 DEF SaveRaises, HeldKeysAreFresh
<1>3. /\ \A c \in Admins \ {a} : admin'[c] = admin[c]
      /\ admin'[a].pc = "idle" /\ admin' = [c \in Admins |-> admin'[c]]
  BY DEF SaveRaises, Free
<1>4. Referenced' = Referenced
  BY <1>2 DEF Referenced
<1>5. KeysTypeOK'
  BY <1>2, <1>3
<1>6. \A c \in Admins \ {a} : Holds(c) => admin[c].key # s
  BY <1>1 DEF HoldersDiffer, SaveRaises
<1>7. HeldKeysAreFresh' /\ HoldersDiffer'
  <2>1. \A c \in Admins : Holds(c)' =>
          Holds(c) /\ admin'[c] = admin[c] /\ admin[c].key # s /\ admin[c].key \in Secrets
    BY <1>3, <1>6
  <2>2. HoldersDiffer'
    BY <2>1 DEF HoldersDiffer
  <2>3. HeldKeysAreFresh'
    BY <1>2, <1>4, <2>1 DEF HeldKeysAreFresh
  <2> QED BY <2>2, <2>3
<1>8. KeptKeysAreReferenced' /\ DoomedKeysAreAged' /\ DoomedKeysAreOrphans'
      /\ AnsweredKeysSurvive'
  BY <1>2, <1>4 DEF KeptKeysAreReferenced, DoomedKeysAreAged, DoomedKeysAreOrphans,
     AnsweredKeysSurvive, Present
<1> QED BY <1>5, <1>7, <1>8

(* A file grows old only when no request holds it.                         *)
LEMMA AgeKeyKeeps ==
  ASSUME KeysInv, NEW s \in Secrets, AgeKey(s)
  PROVE  KeysInv'
<1> USE DEF KeysInv, KeysTypeOK, AdminTypeOK, JanitorTypeOK, Holds
<1>1. /\ secrets[s] = "fresh" /\ secrets' = [secrets EXCEPT ![s] = "old"]
      /\ UNCHANGED <<providers, selection, admin, janitor, kept>>
      /\ \A a \in Admins : Holds(a) => admin[a].key # s
  BY DEF AgeKey
<1>2. Referenced' = Referenced
  BY <1>1 DEF Referenced
<1>3. KeysTypeOK'
  BY <1>1
<1>4. HeldKeysAreFresh' /\ HoldersDiffer'
  BY <1>1, <1>2 DEF HeldKeysAreFresh, HoldersDiffer
<1>5. KeptKeysAreReferenced' /\ DoomedKeysAreAged' /\ DoomedKeysAreOrphans'
      /\ AnsweredKeysSurvive'
  BY <1>1, <1>2 DEF KeptKeysAreReferenced, DoomedKeysAreAged, DoomedKeysAreOrphans,
     AnsweredKeysSurvive, Present
<1> QED BY <1>3, <1>4, <1>5

(* The janitor reads the references: the keys that were answered for are   *)
(* among them.                                                             *)
LEMMA SweepReferencesKeeps ==
  ASSUME KeysInv, SweepReferences
  PROVE  KeysInv'
<1> USE DEF KeysInv, KeysTypeOK, AdminTypeOK, JanitorTypeOK, Holds
<1>1. PICK R : R = Referenced
  OBVIOUS
<1>2. R \subseteq Secrets
  <2>1. ASSUME NEW s \in R PROVE s \in Secrets
    <3>1. PICK p \in Providers : \E i \in 1 .. Len(providers[p].keys) : s = providers[p].keys[i]
      BY <1>1, <2>1, ReferencedKeys
    <3>2. providers[p].keys \in Seq(Secrets)
      OBVIOUS
    <3> QED BY <3>1, <3>2
  <2> QED BY <2>1
<1>3. /\ janitor' = [pc |-> "list", referenced |-> R,
                     aged |-> {s \in Secrets : secrets[s] = "old"}, entries |-> {}]
      /\ UNCHANGED <<providers, selection, secrets, admin, kept>>
  BY <1>1 DEF SweepReferences
<1>4. Referenced' = Referenced
  BY <1>3 DEF Referenced
<1>5. KeysTypeOK'
  BY <1>2, <1>3
<1>6. HeldKeysAreFresh' /\ HoldersDiffer' /\ KeptKeysAreReferenced'
  BY <1>3, <1>4 DEF HeldKeysAreFresh, HoldersDiffer, KeptKeysAreReferenced
<1>7. DoomedKeysAreAged' /\ DoomedKeysAreOrphans' /\ AnsweredKeysSurvive'
  BY <1>1, <1>3 DEF DoomedKeysAreAged, DoomedKeysAreOrphans, AnsweredKeysSurvive, Present,
     KeptKeysAreReferenced
<1> QED BY <1>5, <1>6, <1>7

(* A batch of the files: what is doomed was old and not referred to.       *)
LEMMA SweepListKeeps ==
  ASSUME KeysInv, SweepList
  PROVE  KeysInv'
<1> USE DEF KeysInv, KeysTypeOK, AdminTypeOK, JanitorTypeOK, Holds
<1>1. PICK D \in SUBSET Secrets :
        /\ D \subseteq janitor.aged \ janitor.referenced
        /\ janitor' = IF D = {} THEN Resting ELSE [Resting EXCEPT !.pc = "delete", !.entries = D]
  <2>1. PICK B \in SUBSET {s \in Secrets : Present(s)} :
          janitor' = IF {s \in B : AgedAtStart(s)} \ janitor.referenced = {} THEN Resting
                     ELSE [Resting EXCEPT !.pc = "delete",
                             !.entries = {s \in B : AgedAtStart(s)} \ janitor.referenced]
    BY Zenon DEF SweepList
  <2>2. PICK D : D = {s \in B : AgedAtStart(s)} \ janitor.referenced
    OBVIOUS
  <2>3. D \subseteq janitor.aged \ janitor.referenced /\ D \in SUBSET Secrets
    BY <2>2 DEF AgedAtStart
  <2>4. janitor' = IF D = {} THEN Resting ELSE [Resting EXCEPT !.pc = "delete", !.entries = D]
    BY <2>1, <2>2
  <2> QED BY <2>3, <2>4
<1>2. /\ janitor'.aged = {} /\ janitor'.entries \subseteq D
      /\ janitor' \in [pc : {"idle", "list", "delete"}, referenced : SUBSET Secrets,
                       aged : SUBSET Secrets, entries : SUBSET Secrets]
  BY <1>1 DEF Resting
<1>3. UNCHANGED <<providers, selection, secrets, admin, kept>>
  BY DEF SweepList
<1>4. Referenced' = Referenced
  BY <1>3 DEF Referenced
<1>5. KeysTypeOK'
  BY <1>2, <1>3
<1>6. HeldKeysAreFresh' /\ HoldersDiffer' /\ KeptKeysAreReferenced'
  BY <1>3, <1>4 DEF HeldKeysAreFresh, HoldersDiffer, KeptKeysAreReferenced
<1>7. DoomedKeysAreAged' /\ DoomedKeysAreOrphans' /\ AnsweredKeysSurvive'
  BY <1>1, <1>2, <1>3 DEF DoomedKeysAreAged, DoomedKeysAreOrphans, AnsweredKeysSurvive, Present
<1> QED BY <1>5, <1>6, <1>7

(* A doomed file goes.                                                     *)
LEMMA SweepDeleteKeeps ==
  ASSUME KeysInv, NEW s \in Secrets, SweepDelete(s)
  PROVE  KeysInv'
<1> USE DEF KeysInv, KeysTypeOK, AdminTypeOK, JanitorTypeOK, Holds
<1>1. /\ s \in janitor.entries
      /\ secrets' = secrets \/ secrets' = [secrets EXCEPT ![s] = "removed"]
      /\ UNCHANGED <<providers, selection, admin, kept>>
  BY DEF SweepDelete
<1>2. /\ janitor' \in [pc : {"idle", "list", "delete"}, referenced : SUBSET Secrets,
                       aged : SUBSET Secrets, entries : SUBSET Secrets]
      /\ janitor'.entries \subseteq janitor.entries
      /\ \/ janitor'.aged = {}
         \/ janitor'.aged = janitor.aged /\ janitor'.referenced = janitor.referenced
  <2>1. CASE janitor' = Resting
    <3> HIDE DEF KeysInv, KeysTypeOK, AdminTypeOK, JanitorTypeOK, Holds
    <3>1. janitor' = [pc |-> "idle", referenced |-> {}, aged |-> {}, entries |-> {}]
      BY <2>1 DEF Resting
    <3> QED BY <3>1
  <2>2. CASE janitor' = [janitor EXCEPT !.entries = @ \ {s}]
    BY <2>2
  <2> QED BY <2>1, <2>2 DEF SweepDelete
<1>3. secrets[s] \in {"old", "removed"} /\ s \notin kept
  BY <1>1 DEF DoomedKeysAreAged, DoomedKeysAreOrphans
<1>4. Referenced' = Referenced
  BY <1>1 DEF Referenced
<1>5. KeysTypeOK'
  BY <1>1, <1>2
<1>6. \A t \in Secrets : t # s => secrets'[t] = secrets[t]
  BY <1>1
<1>7. \A a \in Admins : Holds(a) => admin[a].key # s /\ admin[a].key \in Secrets
  BY <1>3 DEF HeldKeysAreFresh
<1>8. HeldKeysAreFresh' /\ HoldersDiffer'
  BY <1>1, <1>4, <1>6, <1>7 DEF HeldKeysAreFresh, HoldersDiffer
<1>9. KeptKeysAreReferenced' /\ DoomedKeysAreOrphans' /\ AnsweredKeysSurvive'
  BY <1>1, <1>2, <1>3, <1>4, <1>6 DEF KeptKeysAreReferenced, DoomedKeysAreOrphans,
     AnsweredKeysSurvive, Present
<1>10. DoomedKeysAreAged'
  BY <1>1, <1>2, <1>3, <1>6 DEF DoomedKeysAreAged
<1> QED BY <1>5, <1>8, <1>9, <1>10

(* The settings keep the invariant of the keys.                            *)
LEMMA SettingsKeepKeys == KeysInv /\ SettingsNext => KeysInv'
<1> SUFFICES ASSUME KeysInv, SettingsNext PROVE KeysInv'
  OBVIOUS
<1> DEFINE Others == /\ UNCHANGED <<providers, secrets, janitor, kept>>
                     /\ selection' \in [{"chat", "text_embedding"} -> References \cup {None}]
                     /\ admin' = [a \in Admins |-> admin'[a]]
                     /\ \A a \in Admins : admin'[a] = admin[a] \/ ~Holds(a)'
<1>0. Others => KeysInv'
  BY OtherRequests
<1>a. admin = [b \in Admins |-> admin[b]]
      /\ selection \in [{"chat", "text_embedding"} -> References \cup {None}]
  BY DEF KeysInv, KeysTypeOK, AdminTypeOK
<1>1. ASSUME NEW a \in Admins, AskProvider(a) PROVE KeysInv'
  <2>1. PICK f : admin' = [admin EXCEPT ![a] =
            IF admin[a].frozen.status = "valid"
               /\ (f.status = "invalid" \/ f.facts # admin[a].frozen.facts)
            THEN Free
            ELSE [pc |-> "record", ref |-> admin[a].ref, found |-> f]]
    BY <1>1, Zenon DEF AskProvider
  <2>2. PICK x : admin' = [admin EXCEPT ![a] = x] /\ x.pc \in {"idle", "record"}
    <3>1. PICK x : /\ admin' = [admin EXCEPT ![a] = x]
                   /\ \/ x = Free
                      \/ x = [pc |-> "record", ref |-> admin[a].ref, found |-> f]
      BY <2>1, Zenon
    <3>2. x.pc \in {"idle", "record"}
      BY <3>1 DEF Free
    <3> QED BY <3>1, <3>2
  <2>3. Others
    BY <1>1, <1>a, <2>2 DEF AskProvider, Holds
  <2> QED BY <2>3, <1>0
<1>2. ASSUME NEW a \in Admins, RecordValidation(a) PROVE KeysInv'
  <2>1. Others
    BY <1>2, <1>a DEF RecordValidation, Free, Holds
  <2> QED BY <2>1, <1>0
<1>3. ASSUME NEW a \in Admins, NEW q \in Profiles, LoadForValidation(a, q) PROVE KeysInv'
  <2>1. PICK r, z : admin' = [admin EXCEPT ![a] = [pc |-> "ask", ref |-> r, frozen |-> z]]
    BY <1>3, Zenon DEF LoadForValidation
  <2>2. Others
    BY <1>3, <1>a, <2>1 DEF LoadForValidation, Holds
  <2> QED BY <2>2, <1>0
<1>4. ASSUME NEW a \in Admins, NEW k \in {"chat", "text_embedding"},
             NEW ref \in References \cup {None}, Select(a, k, ref)
      PROVE  KeysInv'
  <2>1. Others
    BY <1>4, <1>a DEF Select
  <2> QED BY <2>1, <1>0
<1>5. ASSUME UNCHANGED <<providers, selection, secrets, admin, janitor, kept>>
      PROVE  KeysInv'
  <2>1. Others
    BY <1>5, <1>a
  <2> QED BY <2>1, <1>0
<1>6. ASSUME StopAdmins PROVE KeysInv'
  <2>1. Others
    BY <1>6, <1>a DEF StopAdmins, Free, Holds
  <2> QED BY <2>1, <1>0
<1>7. ASSUME NEW a \in Admins, NEW q \in Profiles, NEW p \in Providers, CreateProfile(a, q, p)
      PROVE  KeysInv'
  BY <1>5, <1>7, Zenon DEF CreateProfile
<1>8. ASSUME NEW a \in Admins, NEW q \in Profiles, NEW p \in Providers \cup {None},
             NEW b \in BOOLEAN, UpdateProfile(a, q, p, b)
      PROVE  KeysInv'
  BY <1>5, <1>8, Zenon DEF UpdateProfile
<1>9. ASSUME NEW a \in Admins, NEW q \in Profiles, NEW b \in BOOLEAN, ToggleProfile(a, q, b)
      PROVE  KeysInv'
  BY <1>5, <1>9, Zenon DEF ToggleProfile
<1> QED
  BY <1>1, <1>2, <1>3, <1>4, <1>6, <1>7, <1>8, <1>9, WriteKeyKeeps, EditProviderKeeps,
     SaveProviderKeeps, AnswerSavedKeeps, SaveRaisesKeeps, AgeKeyKeeps,
     SweepReferencesKeeps, SweepListKeeps, SweepDeleteKeeps, Zenon DEF SettingsNext

-----------------------------------------------------------------------------
(* The rows of the questions.                                              *)

(* A connection goes on with what it has frozen.                           *)
LEMMA ConnectionChanged ==
  ASSUME ConnTypeOK, NEW c \in Connections, NEW row, row \in Served({row.context}),
         conn' = [conn EXCEPT ![c] = row]
  PROVE  /\ ConnTypeOK'
         /\ conn'[c] = row
         /\ \A d \in Connections \ {c} : conn'[d] = conn[d]
<1> DEFINE C == {conn'[d].context : d \in Connections}
<1>1. /\ conn'[c] = row
      /\ \A d \in Connections \ {c} : conn'[d] = conn[d]
      /\ conn' = [d \in Connections |-> conn'[d]]
  BY DEF ConnTypeOK
<1>2. \A d \in Connections : conn'[d].context \in C
  OBVIOUS
<1>3. ASSUME NEW d \in Connections PROVE conn'[d] \in Served(C)
  <2>1. CASE d = c
    BY <1>1, <1>2, <2>1 DEF Served
  <2>2. CASE d # c
    <3>1. conn[d] \in Served({conn[e].context : e \in Connections}) /\ conn'[d] = conn[d]
      BY <1>1, <2>2 DEF ConnTypeOK
    <3> QED BY <3>1, <1>2 DEF Served
  <2> QED BY <2>1, <2>2
<1>4. ConnTypeOK'
  BY <1>1, <1>3 DEF ConnTypeOK
<1> QED BY <1>1, <1>4

(* What the rows are, without their contexts.                              *)
LEMMA RunsAre ==
  ASSUME RunsTypeOK
  PROVE  /\ Len(runs) \in Nat /\ DOMAIN runs = 1 .. Len(runs)
         /\ \A r \in DOMAIN runs : runs[r] \in Row({runs[r].context})
<1>1. PICK C : C = {runs[r].context : r \in DOMAIN runs}
  OBVIOUS
<1>2. runs \in Seq(Row(C))
  BY <1>1 DEF RunsTypeOK
<1>3. /\ Len(runs) \in Nat /\ DOMAIN runs = 1 .. Len(runs)
      /\ \A r \in DOMAIN runs : runs[r] \in Row(C)
  BY <1>2
<1> QED BY <1>3 DEF Row

(* A sequence with one more element.                                       *)
LEMMA Appended ==
  ASSUME NEW S, NEW s \in Seq(S), NEW e \in S
  PROVE  /\ Len(s) \in Nat /\ DOMAIN s = 1 .. Len(s)
         /\ Len(Append(s, e)) = Len(s) + 1
         /\ DOMAIN Append(s, e) = 1 .. Len(s) + 1
         /\ \A r \in 1 .. Len(s) : Append(s, e)[r] = s[r]
         /\ Append(s, e)[Len(s) + 1] = e
OBVIOUS

(* A sequence is of any set that its elements are in.                      *)
LEMMA SequenceOf ==
  ASSUME NEW S, NEW s \in Seq(S), NEW T, \A r \in 1 .. Len(s) : s[r] \in T
  PROVE  s \in Seq(T)
OBVIOUS

(* A row is added behind the others.                                       *)
LEMMA RunAppended ==
  ASSUME RunsTypeOK, NEW row, row \in Row({row.context}), runs' = Append(runs, row)
  PROVE  /\ RunsTypeOK'
         /\ DOMAIN runs' = DOMAIN runs \cup {Len(runs) + 1} /\ Len(runs) + 1 \notin DOMAIN runs
         /\ \A r \in DOMAIN runs : runs'[r] = runs[r]
         /\ runs'[Len(runs) + 1] = row
         /\ Len(runs') = Len(runs) + 1
<1>1. PICK C : C = {runs[r].context : r \in DOMAIN runs}
  OBVIOUS
<1>2. PICK D : D = {runs'[r].context : r \in DOMAIN runs'}
  OBVIOUS
<1>3. runs \in Seq(Row(C))
  BY <1>1 DEF RunsTypeOK
<1>4. PICK R : R = Row(C \cup {row.context})
  OBVIOUS
<1>5. row \in R /\ runs \in Seq(R)
  <2>1. row \in R /\ Row(C) \subseteq R
    BY <1>4 DEF Row
  <2> QED BY <2>1, <1>3
<1>6. /\ Len(runs) \in Nat /\ DOMAIN runs = 1 .. Len(runs)
      /\ DOMAIN runs' = 1 .. Len(runs) + 1 /\ Len(runs') = Len(runs) + 1
      /\ \A r \in DOMAIN runs : runs'[r] = runs[r]
      /\ runs'[Len(runs) + 1] = row
      /\ runs' \in Seq(R)
  BY <1>5, Appended
<1>7. \A r \in 1 .. Len(runs') : runs'[r] \in Row(D)
  <2>1. \A r \in 1 .. Len(runs') : runs'[r] \in R /\ runs'[r].context \in D
    BY <1>2, <1>6
  <2> QED BY <1>4, <2>1 DEF Row
<1>8. runs' \in Seq(Row(D))
  BY <1>6, <1>7, SequenceOf
<1>9. RunsTypeOK'
  BY <1>2, <1>8 DEF RunsTypeOK
<1>10. DOMAIN runs' = DOMAIN runs \cup {Len(runs) + 1} /\ Len(runs) + 1 \notin DOMAIN runs
  BY <1>6
<1> QED BY <1>6, <1>9, <1>10

(* The lane gives a run another status.                                    *)
LEMMA RunChanged ==
  ASSUME RunsTypeOK, NEW r \in DOMAIN runs,
         NEW to \in {"queued", "running", "completed", "failed"},
         runs' = [runs EXCEPT ![r].status = to]
  PROVE  /\ RunsTypeOK'
         /\ DOMAIN runs' = DOMAIN runs /\ Len(runs') = Len(runs)
         /\ \A q \in DOMAIN runs \ {r} : runs'[q] = runs[q]
         /\ runs'[r] = [runs[r] EXCEPT !.status = to]
<1>1. PICK C : C = {runs[q].context : q \in DOMAIN runs}
  OBVIOUS
<1>2. PICK D : D = {runs'[q].context : q \in DOMAIN runs'}
  OBVIOUS
<1>3. /\ runs \in Seq(Row(C)) /\ Len(runs) \in Nat /\ DOMAIN runs = 1 .. Len(runs)
      /\ \A q \in DOMAIN runs : runs[q] \in Row(C)
  BY <1>1 DEF RunsTypeOK
<1>4. /\ DOMAIN runs' = DOMAIN runs
      /\ \A q \in DOMAIN runs \ {r} : runs'[q] = runs[q]
      /\ runs'[r] = [runs[r] EXCEPT !.status = to]
      /\ runs' = [q \in 1 .. Len(runs) |-> runs'[q]]
  BY <1>3
<1>5. \A q \in DOMAIN runs : runs'[q].context = runs[q].context
  BY <1>3, <1>4 DEF Row
<1>6. D = C
  BY <1>1, <1>2, <1>4, <1>5
<1>7. \A q \in 1 .. Len(runs) : runs'[q] \in Row(C)
  BY <1>3, <1>4, ZenonT(40) DEF Row
<1>8. runs' \in Seq(Row(C)) /\ Len(runs') = Len(runs)
  BY <1>3, <1>4, <1>7
<1>9. RunsTypeOK'
  BY <1>2, <1>6, <1>8 DEF RunsTypeOK
<1> QED BY <1>4, <1>8, <1>9

-----------------------------------------------------------------------------
(* Steps that write no row: the connection holds what it held, or what the *)
(* step has just found free.                                               *)
LEMMA ConnectionMoves ==
  ASSUME QuestionsInv, NEW c \in Connections, NEW row, row \in Served({row.context}),
         conn' = [conn EXCEPT ![c] = row], UNCHANGED <<runs, scope>>,
         sent' \in Nat, replies' \in [Intents -> SUBSET Nat], AnswersAreRuns',
         row.pc # "idle" => row.intent \in Intents,
         row.pc \in {"session", "scope", "model", "context", "insert"} =>
           /\ Prior(Key[row.intent]) = {}
           /\ \A d \in Connections \ {c} : HoldsKey(d) => Key[conn[d].intent] # Key[row.intent],
         row.pc \in {"scope", "model", "context", "insert"} =>
           /\ ~HasOpenRun(Session[row.intent])
           /\ \A d \in Connections \ {c} :
                HoldsTurn(d) => Session[conn[d].intent] # Session[row.intent],
         row.pc = "insert" => row.context = SelectContext(Completed(Session[row.intent]))
  PROVE  QuestionsInv'
<1>1. /\ ConnTypeOK' /\ conn'[c] = row
      /\ \A d \in Connections \ {c} : conn'[d] = conn[d]
  BY ConnectionChanged DEF QuestionsInv, QuestionsTypeOK
<1>2. /\ \A k : Prior(k)' = Prior(k)
      /\ \A t : HasOpenRun(t)' = HasOpenRun(t)
      /\ \A t : Completed(t)' = Completed(t)
  BY DEF Prior, HasOpenRun, Open, Completed
<1>3. QuestionsTypeOK'
  BY <1>1 DEF QuestionsInv, QuestionsTypeOK, RunsTypeOK
<1>4. RunsAreOfTheirSession' /\ OneRunPerKey'
  BY DEF QuestionsInv, RunsAreOfTheirSession, OneRunPerKey
<1>5. KeysAreExclusive' /\ TurnsAreExclusive'
  BY <1>1 DEF QuestionsInv, KeysAreExclusive, TurnsAreExclusive, HoldsKey, HoldsTurn
<1>6. HoldersAreFirst'
  <2>1. ASSUME NEW d \in Connections, HoldsKey(d)' PROVE Prior(Key[conn'[d].intent]) = {}
    BY <1>1, <2>1 DEF QuestionsInv, HoldersAreFirst, HoldsKey
  <2> QED BY <2>1, <1>2 DEF HoldersAreFirst, Prior
<1>7. HoldersAreAlone'
  <2>1. ASSUME NEW d \in Connections, HoldsTurn(d)' PROVE ~HasOpenRun(Session[conn'[d].intent])
    BY <1>1, <2>1 DEF QuestionsInv, HoldersAreAlone, HoldsTurn
  <2> QED BY <2>1, <1>2 DEF HoldersAreAlone, HasOpenRun, Open
<1>8. ContextsAreCurrent'
  <2>1. ASSUME NEW d \in Connections, conn'[d].pc = "insert"
        PROVE  conn'[d].context = SelectContext(Completed(Session[conn'[d].intent]))
    BY <1>1, <2>1 DEF QuestionsInv, ContextsAreCurrent
  <2> QED BY <2>1, <1>2 DEF ContextsAreCurrent, Completed
<1> QED BY <1>3, <1>4, <1>5, <1>6, <1>7, <1>8 DEF QuestionsInv

(* A connection is what it was, at another step.                           *)
LEMMA Stepped ==
  ASSUME ConnTypeOK, NEW c \in Connections,
         NEW pc \in {"idle", "key", "session", "scope", "model", "context", "insert"},
         Step(c, pc)
  PROVE  \E row : /\ row \in Served({row.context})
                  /\ conn' = [conn EXCEPT ![c] = row]
                  /\ row.pc = pc /\ row.intent = conn[c].intent
                  /\ row.context = conn[c].context
<1>1. PICK C : C = {conn[d].context : d \in Connections}
  OBVIOUS
<1>2. conn[c] \in Served(C)
  BY <1>1 DEF ConnTypeOK
<1>3. PICK row : row = [conn[c] EXCEPT !.pc = pc]
  OBVIOUS
<1>4. row \in Served({row.context}) /\ row.pc = pc /\ row.intent = conn[c].intent
      /\ row.context = conn[c].context
  BY <1>2, <1>3 DEF Served
<1>5. conn' = [conn EXCEPT ![c] = row]
  BY <1>3 DEF Step
<1> QED BY <1>4, <1>5

(* An idle connection.                                                     *)
LEMMA ClosedIsServed == Closed \in Served({Closed.context}) /\ Closed.pc = "idle"
BY DEF Closed, Served

(* A request that ends, with whatever runs its intent was answered with.   *)
LEMMA RefuseKeeps ==
  ASSUME QuestionsInv, NEW c \in Connections, Refuse(c), UNCHANGED <<runs, scope, sent>>
  PROVE  QuestionsInv'
<1>1. conn' = [conn EXCEPT ![c] = Closed] /\ replies' = replies
  BY DEF Refuse
<1>2. sent' \in Nat /\ replies' \in [Intents -> SUBSET Nat] /\ AnswersAreRuns'
  BY <1>1 DEF QuestionsInv, QuestionsTypeOK, AnswersAreRuns
<1> QED BY <1>1, <1>2, ClosedIsServed, ConnectionMoves

(* An intent is sent.                                                      *)
LEMMA SendKeeps ==
  ASSUME QuestionsInv, NEW c \in Connections, NEW i \in Intents, Send(c, i)
  PROVE  QuestionsInv'
<1>1. PICK row : row = [Closed EXCEPT !.pc = "key", !.intent = i, !.born = sent + 1]
  OBVIOUS
<1>2. sent \in Nat /\ replies \in [Intents -> SUBSET Nat]
  BY DEF QuestionsInv, QuestionsTypeOK
<1>3. row \in Served({row.context}) /\ row.pc = "key" /\ row.intent = i
  <2>1. row = [pc |-> "key", intent |-> i, born |-> sent + 1, model |-> None, context |-> <<>>]
    BY <1>1 DEF Closed
  <2>2. sent + 1 \in Nat
    BY <1>2
  <2> QED BY <2>1, <2>2 DEF Served
<1>4. /\ conn' = [conn EXCEPT ![c] = row] /\ sent' = sent + 1
      /\ UNCHANGED <<runs, scope, replies>>
  BY <1>1 DEF Send
<1>5. sent' \in Nat /\ AnswersAreRuns' /\ replies' \in [Intents -> SUBSET Nat]
  BY <1>2, <1>4 DEF QuestionsInv, AnswersAreRuns
<1> QED BY <1>3, <1>4, <1>5, ConnectionMoves

(* The lock of the key is taken, and the run of the key answered if there  *)
(* is one.                                                                 *)
LEMMA LockKeyKeeps ==
  ASSUME QuestionsInv, NEW c \in Connections, LockKey(c)
  PROVE  QuestionsInv'
<1>1. PICK i \in Intents : i = conn[c].intent
  BY DEF LockKey, QuestionsInv, QuestionsTypeOK
<1>2. /\ KeyFree(Key[i]) /\ UNCHANGED <<runs, scope, sent>>
      /\ \/ Prior(Key[i]) = {} /\ Step(c, "session") /\ UNCHANGED replies
         \/ \E r \in Prior(Key[i]) : (runs[r].intent = i /\ Reply(c, r)) \/ Refuse(c)
  BY <1>1, Zenon DEF LockKey
<1>3. sent' \in Nat /\ replies \in [Intents -> SUBSET Nat]
  BY <1>2 DEF QuestionsInv, QuestionsTypeOK
<1>4. ASSUME Prior(Key[i]) = {}, Step(c, "session"), UNCHANGED replies PROVE QuestionsInv'
  <2>1. PICK row : /\ row \in Served({row.context})
                   /\ conn' = [conn EXCEPT ![c] = row]
                   /\ row.pc = "session" /\ row.intent = i
    <3>1. ConnTypeOK
      BY DEF QuestionsInv, QuestionsTypeOK
    <3>2. "session" \in {"idle", "key", "session", "scope", "model", "context", "insert"}
      OBVIOUS
    <3>3. \E row : /\ row \in Served({row.context})
                   /\ conn' = [conn EXCEPT ![c] = row]
                   /\ row.pc = "session" /\ row.intent = conn[c].intent
      BY <1>4, <3>1, <3>2, Stepped
    <3> QED BY <1>1, <3>3
  <2>2. \A d \in Connections \ {c} : HoldsKey(d) => Key[conn[d].intent] # Key[i]
    BY <1>2 DEF KeyFree, HoldsKey
  <2>3. AnswersAreRuns' /\ replies' \in [Intents -> SUBSET Nat]
    BY <1>2, <1>3, <1>4 DEF QuestionsInv, AnswersAreRuns
  <2> QED BY <1>2, <1>3, <1>4, <2>1, <2>2, <2>3, ConnectionMoves
<1>5. ASSUME NEW r \in Prior(Key[i]), runs[r].intent = i, Reply(c, r) PROVE QuestionsInv'
  <2>1. conn' = [conn EXCEPT ![c] = Closed] /\ replies' = [replies EXCEPT ![i] = @ \cup {r}]
    BY <1>1, <1>5 DEF Reply
  <2>2. r \in DOMAIN runs /\ r \in Nat
    BY <1>5, RunsAre DEF Prior, QuestionsInv, QuestionsTypeOK
  <2>3. replies' \in [Intents -> SUBSET Nat]
    BY <1>3, <2>1, <2>2
  <2>4. AnswersAreRuns'
    BY <1>2, <1>3, <1>5, <2>1, <2>2 DEF QuestionsInv, AnswersAreRuns
  <2> QED BY <1>2, <1>3, <2>1, <2>3, <2>4, ClosedIsServed, ConnectionMoves
<1>6. ASSUME Refuse(c) PROVE QuestionsInv'
  BY <1>2, <1>6, RefuseKeeps
<1> QED BY <1>2, <1>4, <1>5, <1>6

(* The session is locked and has no open run.                              *)
LEMMA LockSessionKeeps ==
  ASSUME QuestionsInv, NEW c \in Connections, LockSession(c)
  PROVE  QuestionsInv'
<1>1. PICK i \in Intents : i = conn[c].intent
  BY DEF LockSession, QuestionsInv, QuestionsTypeOK
<1>2. /\ conn[c].pc = "session" /\ SessionFree(Session[i]) /\ UNCHANGED <<runs, scope, sent>>
      /\ \/ Refuse(c)
         \/ ~HasOpenRun(Session[i]) /\ Step(c, "scope") /\ UNCHANGED replies
  BY <1>1, Zenon DEF LockSession
<1>3. CASE Refuse(c)
  BY <1>2, <1>3, RefuseKeeps
<1>4. ASSUME ~HasOpenRun(Session[i]), Step(c, "scope"), UNCHANGED replies PROVE QuestionsInv'
  <2>1. PICK row : /\ row \in Served({row.context})
                   /\ conn' = [conn EXCEPT ![c] = row]
                   /\ row.pc = "scope" /\ row.intent = i
    <3>1. ConnTypeOK
      BY DEF QuestionsInv, QuestionsTypeOK
    <3>2. PICK C : conn[c] \in Served(C)
      BY <3>1 DEF ConnTypeOK
    <3>3. PICK row : row = [conn[c] EXCEPT !.pc = "scope"]
      OBVIOUS
    <3>4. row \in Served({row.context}) /\ row.pc = "scope" /\ row.intent = i
      BY <1>1, <3>2, <3>3 DEF Served
    <3>5. conn' = [conn EXCEPT ![c] = row]
      BY <1>4, <3>3 DEF Step
    <3> QED BY <3>4, <3>5
  <2>2. \A d \in Connections \ {c} : HoldsTurn(d) => Session[conn[d].intent] # Session[i]
    BY <1>2 DEF SessionFree, HoldsSession, HoldsTurn
  <2>3. /\ Prior(Key[i]) = {}
        /\ \A d \in Connections \ {c} : HoldsKey(d) => Key[conn[d].intent] # Key[i]
    BY <1>1, <1>2 DEF QuestionsInv, KeysAreExclusive, HoldersAreFirst, HoldsKey
  <2>4. sent' \in Nat /\ AnswersAreRuns' /\ replies' \in [Intents -> SUBSET Nat]
    BY <1>2, <1>4 DEF QuestionsInv, QuestionsTypeOK, AnswersAreRuns
  <2> QED BY <1>2, <1>4, <2>1, <2>2, <2>3, <2>4, ConnectionMoves
<1> QED BY <1>2, <1>3, <1>4

(* A request that holds its turn goes on with it.                          *)
LEMMA TurnGoesOn ==
  ASSUME QuestionsInv, NEW c \in Connections, NEW row, row \in Served({row.context}),
         HoldsTurn(c), conn' = [conn EXCEPT ![c] = row], UNCHANGED <<runs, scope, sent, replies>>,
         row.pc \in {"model", "context", "insert"}, row.intent = conn[c].intent,
         row.pc = "insert" => row.context = SelectContext(Completed(Session[row.intent]))
  PROVE  QuestionsInv'
<1>1. row.intent \in Intents /\ HoldsKey(c)
  BY DEF QuestionsInv, QuestionsTypeOK, HoldsTurn, HoldsKey
<1>2. /\ Prior(Key[row.intent]) = {}
      /\ \A d \in Connections \ {c} : HoldsKey(d) => Key[conn[d].intent] # Key[row.intent]
  BY <1>1 DEF QuestionsInv, KeysAreExclusive, HoldersAreFirst
<1>3. /\ ~HasOpenRun(Session[row.intent])
      /\ \A d \in Connections \ {c} : HoldsTurn(d) => Session[conn[d].intent] # Session[row.intent]
  BY DEF QuestionsInv, TurnsAreExclusive, HoldersAreAlone
<1>4. sent' \in Nat /\ AnswersAreRuns' /\ replies' \in [Intents -> SUBSET Nat]
  BY DEF QuestionsInv, QuestionsTypeOK, AnswersAreRuns
<1> QED BY <1>1, <1>2, <1>3, <1>4, ConnectionMoves

(* The scope, the model and the history are frozen.                        *)
LEMMA FreezeKeeps ==
  ASSUME QuestionsInv, selection \in [{"chat", "text_embedding"} -> References \cup {None}],
         NEW c \in Connections, FreezeScope(c) \/ FreezeModel(c) \/ FreezeContext(c)
  PROVE  QuestionsInv'
<1>1. PICK C : C = {conn[d].context : d \in Connections}
  OBVIOUS
<1>2. conn[c] \in Served(C)
  BY <1>1 DEF QuestionsInv, QuestionsTypeOK, ConnTypeOK
<1>3. UNCHANGED <<runs, scope, sent>> /\ HoldsTurn(c)
  BY DEF FreezeScope, FreezeModel, FreezeContext, HoldsTurn
<1>4. CASE Refuse(c)
  BY <1>3, <1>4, RefuseKeeps
<1>5. ASSUME Step(c, "model"), UNCHANGED replies PROVE QuestionsInv'
  <2>1. PICK row : /\ row \in Served({row.context})
                   /\ conn' = [conn EXCEPT ![c] = row]
                   /\ row.pc = "model" /\ row.intent = conn[c].intent
    <3>1. ConnTypeOK
      BY DEF QuestionsInv, QuestionsTypeOK
    <3>2. "model" \in {"idle", "key", "session", "scope", "model", "context", "insert"}
      OBVIOUS
    <3>3. \E row : /\ row \in Served({row.context})
                   /\ conn' = [conn EXCEPT ![c] = row]
                   /\ row.pc = "model" /\ row.intent = conn[c].intent
      BY <1>5, <3>1, <3>2, Stepped
    <3> QED BY <3>3
  <2> QED BY <1>3, <1>5, <2>1, TurnGoesOn
<1>6. ASSUME NEW m \in References \cup {None}, UNCHANGED replies,
             conn' = [conn EXCEPT ![c].pc = "context", ![c].model = m]
      PROVE  QuestionsInv'
  <2>2. PICK row : row = [conn[c] EXCEPT !.pc = "context", !.model = m]
    OBVIOUS
  <2>3. row \in Served({row.context}) /\ row.pc = "context" /\ row.intent = conn[c].intent
    BY <1>2, <2>2 DEF Served
  <2>4. conn' = [conn EXCEPT ![c] = row]
    BY <1>2, <1>6, <2>2 DEF QuestionsInv, QuestionsTypeOK, ConnTypeOK
  <2> QED BY <1>3, <1>6, <2>3, <2>4, TurnGoesOn
<1>7. ASSUME FreezeContext(c) PROVE QuestionsInv'
  <2>1. PICK h : h = SelectContext(Completed(Session[conn[c].intent]))
    OBVIOUS
  <2>2. PICK row : row = [conn[c] EXCEPT !.pc = "insert", !.context = h]
    OBVIOUS
  <2>3. /\ row \in Served({row.context}) /\ row.pc = "insert"
        /\ row.intent = conn[c].intent /\ row.context = h
    BY <1>2, <2>2 DEF Served
  <2>4. conn' = [conn EXCEPT ![c].pc = "insert", ![c].context = h] /\ UNCHANGED replies
    BY <1>7, <2>1 DEF FreezeContext
  <2>5. conn' = [conn EXCEPT ![c] = row]
    BY <2>2, <2>4
  <2> QED BY <1>3, <2>1, <2>3, <2>4, <2>5, TurnGoesOn
<1>8. CASE FreezeScope(c)
  BY <1>4, <1>5, <1>8, Zenon DEF FreezeScope
<1>9. CASE FreezeModel(c)
  <2>1. conn[c].intent \in Intents
    BY <1>3 DEF QuestionsInv, QuestionsTypeOK, HoldsTurn
  <2>2. ChosenModel(conn[c].intent) \in References \cup {None}
    BY <2>1, AdmissionConstants DEF ChosenModel
  <2> QED BY <1>4, <1>6, <1>9, <2>2, Zenon DEF FreezeModel
<1> QED BY <1>7, <1>8, <1>9

(* The run is committed: it is the only one of its key and the only open   *)
(* one of its session, and no history of a session comes to have it.       *)
LEMMA CommitKeeps ==
  ASSUME QuestionsInv, NEW c \in Connections, conn[c].pc = "insert",
         runs' = Append(runs, NewRun(c)),
         scope' = [scope EXCEPT ![Session[conn[c].intent]] = Scope[conn[c].intent]],
         conn' = [conn EXCEPT ![c] = Closed], sent' = sent,
         \/ replies' = replies
         \/ replies' = [replies EXCEPT ![conn[c].intent] = @ \cup {Len(runs) + 1}]
  PROVE  QuestionsInv'
<1>1. PICK i \in Intents : i = conn[c].intent
  BY DEF QuestionsInv, QuestionsTypeOK
<1>2. PICK row : row = NewRun(c)
  OBVIOUS
<1>3. PICK n : n = Len(runs) + 1
  OBVIOUS
<1>4. /\ row \in Row({row.context}) /\ row.intent = i /\ row.session = Session[i]
      /\ row.status = "queued"
  <2>1. Session[i] \in SessionIds
    BY AdmissionConstants
  <2>2. PICK C : conn[c] \in Served(C)
    BY DEF QuestionsInv, QuestionsTypeOK, ConnTypeOK
  <2>3. row = [intent |-> i, session |-> Session[i], status |-> "queued",
               born |-> conn[c].born, model |-> conn[c].model, context |-> conn[c].context]
    BY <1>1, <1>2 DEF NewRun
  <2>4. conn[c].born \in Nat /\ conn[c].model \in References \cup {None}
    BY <2>2 DEF Served
  <2> QED BY <2>1, <2>3, <2>4 DEF Row
<1>5. RunsTypeOK /\ ConnTypeOK
  BY DEF QuestionsInv, QuestionsTypeOK
<1>6. /\ RunsTypeOK'
      /\ DOMAIN runs' = DOMAIN runs \cup {n} /\ n \notin DOMAIN runs
      /\ \A r \in DOMAIN runs : runs'[r] = runs[r]
      /\ runs'[n] = row
  BY <1>2, <1>3, <1>4, <1>5, RunAppended
<1>7. n \in Nat
  BY <1>3, <1>5, RunsAre
<1>8. /\ ConnTypeOK' /\ conn'[c].pc = "idle"
      /\ \A d \in Connections \ {c} : conn'[d] = conn[d]
  BY <1>5, ClosedIsServed, ConnectionChanged
<1>9. HoldsKey(c) /\ HoldsTurn(c)
  BY DEF HoldsKey, HoldsTurn
<1>10. /\ \A k : k # Key[i] => Prior(k)' = Prior(k)
       /\ Prior(Key[i]) = {}
  <2>1. Prior(Key[i]) = {}
    BY <1>1, <1>9 DEF QuestionsInv, HoldersAreFirst
  <2>2. ASSUME NEW k, k # Key[i] PROVE {r \in DOMAIN runs' : Key[runs'[r].intent] = k} = Prior(k)
    BY <1>4, <1>6, <2>2 DEF Prior
  <2> QED BY <2>1, <2>2 DEF Prior
<1>11. \A t : t # Session[i] => (~HasOpenRun(t) => ~HasOpenRun(t)')
  <2>1. ASSUME NEW t, t # Session[i], NEW r \in DOMAIN runs', runs'[r].session = t,
               runs'[r].status \in {"queued", "running"}
        PROVE  HasOpenRun(t)
    BY <1>4, <1>6, <2>1 DEF HasOpenRun, Open
  <2> QED BY <2>1 DEF HasOpenRun, Open
<1>12. \A t : Completed(t)' = Completed(t)
  <2>1. ASSUME NEW t
        PROVE  {r \in DOMAIN runs' : runs'[r].session = t /\ runs'[r].status = "completed"}
                 = {r \in DOMAIN runs : runs[r].session = t /\ runs[r].status = "completed"}
    BY <1>4, <1>6
  <2>2. ASSUME NEW t PROVE Completed(t)' = Completed(t)
    BY <1>6, <2>1 DEF Completed
  <2> QED BY <2>2
<1>13. QuestionsTypeOK'
  <2>1. scope' \in [SessionIds -> SUBSET Bases]
    <3>1. Scope[i] \in SUBSET Bases /\ scope \in [SessionIds -> SUBSET Bases]
      BY AdmissionConstants DEF QuestionsInv, QuestionsTypeOK
    <3> QED BY <1>1, <3>1
  <2>2. replies' \in [Intents -> SUBSET Nat]
    BY <1>1, <1>3, <1>7 DEF QuestionsInv, QuestionsTypeOK
  <2>3. \A d \in Connections : conn'[d].pc # "idle" => conn'[d].intent \in Intents
    BY <1>8 DEF QuestionsInv, QuestionsTypeOK
  <2> QED BY <1>6, <1>8, <2>1, <2>2, <2>3 DEF QuestionsInv, QuestionsTypeOK
<1>14. RunsAreOfTheirSession'
  BY <1>4, <1>6 DEF QuestionsInv, RunsAreOfTheirSession
<1>15. OneRunPerKey'
  BY <1>4, <1>6, <1>10 DEF QuestionsInv, OneRunPerKey, Prior
<1>16. KeysAreExclusive' /\ TurnsAreExclusive'
  BY <1>8 DEF QuestionsInv, KeysAreExclusive, TurnsAreExclusive, HoldsKey, HoldsTurn
<1>17. HoldersAreFirst'
  <2>1. ASSUME NEW d \in Connections, HoldsKey(d)'
        PROVE  {r \in DOMAIN runs' : Key[runs'[r].intent] = Key[conn'[d].intent]} = {}
    <3>1. d # c /\ HoldsKey(d) /\ conn'[d] = conn[d]
      BY <1>8, <2>1 DEF HoldsKey
    <3>2. Key[conn[d].intent] # Key[i] /\ Prior(Key[conn[d].intent]) = {}
      BY <1>1, <1>9, <3>1 DEF QuestionsInv, KeysAreExclusive, HoldersAreFirst
    <3>3. PICK k : k = Key[conn[d].intent]
      OBVIOUS
    <3>4. Prior(k)' = {}
      BY <1>10, <3>2, <3>3
    <3> QED BY <3>1, <3>3, <3>4 DEF Prior
  <2> QED BY <2>1 DEF HoldersAreFirst, Prior
<1>18. HoldersAreAlone'
  <2>1. ASSUME NEW d \in Connections, HoldsTurn(d)'
        PROVE  ~\E r \in DOMAIN runs' : /\ runs'[r].session = Session[conn'[d].intent]
                                       /\ runs'[r].status \in {"queued", "running"}
    <3>1. d # c /\ HoldsTurn(d) /\ conn'[d] = conn[d]
      BY <1>8, <2>1 DEF HoldsTurn
    <3>2. Session[conn[d].intent] # Session[i] /\ ~HasOpenRun(Session[conn[d].intent])
      BY <1>1, <1>9, <3>1 DEF QuestionsInv, TurnsAreExclusive, HoldersAreAlone
    <3>3. PICK t : t = Session[conn[d].intent]
      OBVIOUS
    <3>4. ~HasOpenRun(t)'
      BY <1>11, <3>2, <3>3
    <3> QED BY <3>1, <3>3, <3>4 DEF HasOpenRun, Open
  <2> QED BY <2>1 DEF HoldersAreAlone, HasOpenRun, Open
<1>19. AnswersAreRuns'
  BY <1>1, <1>3, <1>4, <1>6 DEF QuestionsInv, QuestionsTypeOK, AnswersAreRuns
<1>20. ContextsAreCurrent'
  <2>1. ASSUME NEW d \in Connections, conn'[d].pc = "insert"
        PROVE  (conn[d].context = SelectContext(Completed(Session[conn[d].intent])))'
    <3>1. PICK t : t = Session[conn'[d].intent]
      OBVIOUS
    <3>2. conn'[d].context = SelectContext(Completed(t))
      BY <1>8, <2>1, <3>1 DEF QuestionsInv, ContextsAreCurrent
    <3>3. Completed(t)' = Completed(t)
      BY <1>12
    <3>4. SelectContext(Completed(t))' = SelectContext(Completed(t))
      BY <3>3
    <3> QED BY <3>1, <3>2, <3>4
  <2> QED BY <2>1 DEF ContextsAreCurrent
<1> QED
  BY <1>13, <1>14, <1>15, <1>16, <1>17, <1>18, <1>19, <1>20 DEF QuestionsInv

(* The insert: the constraints are never violated.                         *)
LEMMA InsertKeeps ==
  ASSUME QuestionsInv, NEW c \in Connections, InsertRun(c) \/ LoseRequest(c)
  PROVE  QuestionsInv'
<1>1. CASE InsertRun(c)
  <2>1. conn[c].pc = "insert" /\ HoldsKey(c) /\ HoldsTurn(c) /\ sent' = sent
    BY <1>1 DEF InsertRun, HoldsKey, HoldsTurn
  <2>2. Prior(Key[conn[c].intent]) = {} /\ ~HasOpenRun(Session[conn[c].intent])
    BY <2>1 DEF QuestionsInv, HoldersAreFirst, HoldersAreAlone
  <2>3. /\ runs' = Append(runs, NewRun(c))
        /\ scope' = [scope EXCEPT ![Session[conn[c].intent]] = Scope[conn[c].intent]]
        /\ Reply(c, Len(runs) + 1)
    BY <1>1, <2>2 DEF InsertRun
  <2>4. /\ conn' = [conn EXCEPT ![c] = Closed]
        /\ replies' = [replies EXCEPT ![conn[c].intent] = @ \cup {Len(runs) + 1}]
    BY <2>3 DEF Reply
  <2> QED BY <2>1, <2>3, <2>4, CommitKeeps
<1>2. CASE LoseRequest(c)
  <2>1. Refuse(c) /\ sent' = sent
    BY <1>2 DEF LoseRequest
  <2>2. CASE UNCHANGED <<runs, scope>>
    BY <2>1, <2>2, RefuseKeeps
  <2>3. CASE ~UNCHANGED <<runs, scope>>
    <3>1. /\ conn[c].pc = "insert" /\ runs' = Append(runs, NewRun(c))
          /\ scope' = [scope EXCEPT ![Session[conn[c].intent]] = Scope[conn[c].intent]]
      BY <1>2, <2>3, Zenon DEF LoseRequest
    <3>2. conn' = [conn EXCEPT ![c] = Closed] /\ replies' = replies
      BY <2>1 DEF Refuse
    <3> QED BY <2>1, <3>1, <3>2, CommitKeeps
  <2> QED BY <2>2, <2>3
<1> QED BY <1>1, <1>2

(* The lane moves runs of sessions in which no turn is held.               *)
LEMMA LaneKeeps ==
  ASSUME QuestionsInv, NEW r \in DOMAIN runs, NEW from \in {"queued", "running"},
         NEW to \in {"queued", "running", "completed", "failed"}, Lane(r, from, to)
  PROVE  QuestionsInv'
<1>1. /\ runs' = [runs EXCEPT ![r].status = to] /\ runs[r].status = from
      /\ UNCHANGED <<scope, conn, replies, sent>>
  BY DEF Lane
<1>2. RunsTypeOK
  BY DEF QuestionsInv, QuestionsTypeOK
<1>3. /\ RunsTypeOK' /\ DOMAIN runs' = DOMAIN runs
      /\ \A q \in DOMAIN runs \ {r} : runs'[q] = runs[q]
      /\ runs'[r] = [runs[r] EXCEPT !.status = to]
  BY <1>1, <1>2, RunChanged
<1>4. runs[r] \in Row({runs[r].context})
  BY <1>2, RunsAre
<1>5. \A q \in DOMAIN runs : runs'[q].intent = runs[q].intent
                            /\ runs'[q].session = runs[q].session
  BY <1>3, <1>4 DEF Row
<1>6. \A k : Prior(k)' = Prior(k)
  BY <1>3, <1>5 DEF Prior
<1>7. HasOpenRun(runs[r].session)
  BY <1>1 DEF HasOpenRun, Open
<1>8. \A d \in Connections : HoldsTurn(d) => Session[conn[d].intent] # runs[r].session
  BY <1>7 DEF QuestionsInv, HoldersAreAlone
<1>9. QuestionsTypeOK'
  BY <1>1, <1>3 DEF QuestionsInv, QuestionsTypeOK, ConnTypeOK
<1>10. RunsAreOfTheirSession' /\ OneRunPerKey' /\ AnswersAreRuns'
  BY <1>1, <1>3, <1>5 DEF QuestionsInv, RunsAreOfTheirSession, OneRunPerKey, AnswersAreRuns
<1>11. KeysAreExclusive' /\ TurnsAreExclusive'
  BY <1>1 DEF QuestionsInv, KeysAreExclusive, TurnsAreExclusive, HoldsKey, HoldsTurn
<1>12. HoldersAreFirst'
  <2>1. ASSUME NEW d \in Connections, HoldsKey(d)
        PROVE  {q \in DOMAIN runs' : Key[runs'[q].intent] = Key[conn[d].intent]} = {}
    BY <1>3, <1>5, <2>1 DEF QuestionsInv, HoldersAreFirst, Prior
  <2> QED BY <1>1, <2>1 DEF HoldersAreFirst, HoldsKey, Prior
<1>13. HoldersAreAlone'
  <2>1. ASSUME NEW d \in Connections, HoldsTurn(d), NEW q \in DOMAIN runs',
               runs'[q].session = Session[conn[d].intent],
               runs'[q].status \in {"queued", "running"}
        PROVE  FALSE
    <3>1. q # r
      BY <1>5, <1>8, <2>1
    <3>2. runs'[q] = runs[q] /\ q \in DOMAIN runs
      BY <1>3, <2>1, <3>1
    <3> QED BY <2>1, <3>2 DEF QuestionsInv, HoldersAreAlone, HasOpenRun, Open
  <2> QED BY <1>1, <2>1 DEF HoldersAreAlone, HoldsTurn, HasOpenRun, Open
<1>14. ContextsAreCurrent'
  <2>1. ASSUME NEW t, t # runs[r].session PROVE Completed(t)' = Completed(t)
    <3>1. {q \in DOMAIN runs' : runs'[q].session = t /\ runs'[q].status = "completed"}
            = {q \in DOMAIN runs : runs[q].session = t /\ runs[q].status = "completed"}
      BY <1>3, <1>5, <2>1
    <3>2. \A q \in DOMAIN runs : runs[q].session = t => runs'[q] = runs[q]
      BY <1>3, <2>1
    <3> QED BY <3>1, <3>2 DEF Completed
  <2>2. ASSUME NEW d \in Connections, conn[d].pc = "insert"
        PROVE  conn[d].context = SelectContext(Completed(Session[conn[d].intent]))
               /\ Session[conn[d].intent] # runs[r].session
    BY <1>8, <2>2 DEF QuestionsInv, ContextsAreCurrent, HoldsTurn
  <2>3. ASSUME NEW d \in Connections, conn'[d].pc = "insert"
        PROVE  (conn[d].context = SelectContext(Completed(Session[conn[d].intent])))'
    <3>1. PICK t : t = Session[conn[d].intent]
      OBVIOUS
    <3>2. conn[d].context = SelectContext(Completed(t)) /\ t # runs[r].session
      BY <1>1, <2>2, <2>3, <3>1
    <3>3. SelectContext(Completed(t))' = SelectContext(Completed(t))
      BY <2>1, <3>2
    <3> QED BY <1>1, <3>1, <3>2, <3>3
  <2> QED BY <2>3 DEF ContextsAreCurrent
<1> QED
  BY <1>9, <1>10, <1>11, <1>12, <1>13, <1>14 DEF QuestionsInv

(* Steps beside the questions.                                             *)
LEMMA OthersKeep ==
  ASSUME QuestionsInv, UNCHANGED <<runs, conn, replies, sent>>,
         scope' \in [SessionIds -> SUBSET Bases]
  PROVE  QuestionsInv'
BY DEF QuestionsInv, QuestionsTypeOK, RunsTypeOK, ConnTypeOK, RunsAreOfTheirSession,
   KeysAreExclusive, HoldersAreFirst, TurnsAreExclusive, HoldersAreAlone, OneRunPerKey,
   AnswersAreRuns, ContextsAreCurrent, HoldsKey, HoldsTurn, Prior, HasOpenRun, Open, Completed

-----------------------------------------------------------------------------
(* The theorems.                                                           *)

(* Nothing is asked and nothing configured to begin with.                  *)
LEMMA InitialAdmission == SettingsInit /\ AdmissionInit(MaxRequests) => AdmissionInv
<1> SUFFICES ASSUME SettingsInit, AdmissionInit(MaxRequests) PROVE AdmissionInv
  OBVIOUS
<1>1. KeysTypeOK
  <2>1. providers \in [Providers -> [enabled : BOOLEAN, keys : Seq(Secrets)]]
    BY DEF SettingsInit, NoProvider
  <2>2. /\ secrets \in [Secrets -> {"absent", "fresh", "old", "removed"}]
        /\ selection \in [{"chat", "text_embedding"} -> References \cup {None}]
        /\ kept = {} /\ admin = [a \in Admins |-> Free]
    BY DEF SettingsInit
  <2>3. JanitorTypeOK
    BY DEF SettingsInit, JanitorTypeOK, Resting
  <2>4. AdminTypeOK
    BY <2>2 DEF AdminTypeOK, Holds, Free
  <2> QED BY <2>1, <2>2, <2>3, <2>4 DEF KeysTypeOK
<1>2. KeysInv
  <2>1. kept = {} /\ janitor.aged = {} /\ janitor.entries = {} /\ admin = [a \in Admins |-> Free]
    BY DEF SettingsInit, Resting
  <2>2. HeldKeysAreFresh /\ HoldersDiffer
    BY <2>1 DEF HeldKeysAreFresh, HoldersDiffer, Holds, Free
  <2> QED
    BY <1>1, <2>1, <2>2 DEF KeysInv, KeptKeysAreReferenced, DoomedKeysAreAged,
       DoomedKeysAreOrphans, AnsweredKeysSurvive
<1>3. /\ runs = <<>> /\ conn = [c \in Connections |-> Closed] /\ sent = 0
      /\ replies = [i \in Intents |-> {}] /\ scope = [t \in SessionIds |-> {}]
  BY AdmissionConstants DEF AdmissionInit
<1>4. QuestionsTypeOK
  <2>1. RunsTypeOK
    BY <1>3 DEF RunsTypeOK
  <2>2. ConnTypeOK
    <3>1. \A c \in Connections : conn[c] = Closed
      BY <1>3
    <3>2. \A c \in Connections : conn[c] \in Served({conn[d].context : d \in Connections})
      BY <3>1, ClosedIsServed DEF Served
    <3> QED BY <1>3, <3>2 DEF ConnTypeOK
  <2> QED BY <1>3, <2>1, <2>2, ClosedIsServed DEF QuestionsTypeOK
<1>5. \A c \in Connections : conn[c].pc = "idle"
  BY <1>3, ClosedIsServed
<1>6. QuestionsInv
  BY <1>3, <1>4, <1>5 DEF QuestionsInv, RunsAreOfTheirSession, KeysAreExclusive,
     HoldersAreFirst, TurnsAreExclusive, HoldersAreAlone, OneRunPerKey, AnswersAreRuns,
     ContextsAreCurrent, HoldsKey, HoldsTurn
<1> QED BY <1>2, <1>6 DEF AdmissionInv

(* Every step keeps the invariant.                                         *)
LEMMA AdmissionStep ==
  AdmissionInv /\ [AdmissionNext]_<<settingsVars, admissionVars>> => AdmissionInv'
<1> SUFFICES ASSUME AdmissionInv, [AdmissionNext]_<<settingsVars, admissionVars>>
             PROVE  AdmissionInv'
  OBVIOUS
<1>1. KeysInv /\ QuestionsInv
  BY DEF AdmissionInv
<1>2. scope \in [SessionIds -> SUBSET Bases]
      /\ selection \in [{"chat", "text_embedding"} -> References \cup {None}]
  BY <1>1 DEF QuestionsInv, QuestionsTypeOK, KeysInv, KeysTypeOK
<1>3. ASSUME UNCHANGED settingsVars PROVE KeysInv'
  <2>1. UNCHANGED <<providers, secrets, janitor, kept, selection, admin>>
    BY <1>3 DEF settingsVars
  <2>2. admin' = [a \in Admins |-> admin'[a]]
    BY <1>1, <2>1 DEF KeysInv, KeysTypeOK, AdminTypeOK
  <2> QED BY <1>1, <1>2, <2>1, <2>2, OtherRequests
<1>4. ASSUME UNCHANGED admissionVars PROVE QuestionsInv'
  <2>1. UNCHANGED <<runs, conn, replies, sent, scope>>
    BY <1>4 DEF admissionVars
  <2> QED BY <1>1, <1>2, <2>1, OthersKeep
<1>5. ASSUME NEW t \in SessionIds, NEW S \in (SUBSET Bases) \ {{}},
             CreateSession(t, S) \/ EditScope(t, S)
      PROVE  AdmissionInv'
  <2>1. UNCHANGED settingsVars /\ UNCHANGED <<runs, conn, replies, sent>>
        /\ scope' = [scope EXCEPT ![t] = S]
    BY <1>5 DEF CreateSession, EditScope, SettingsStay
  <2>2. scope' \in [SessionIds -> SUBSET Bases]
    BY <1>2, <2>1
  <2> QED BY <1>1, <1>3, <2>1, <2>2, OthersKeep DEF AdmissionInv
<1>6. ASSUME NEW b \in Bases, DeleteBase(b) PROVE AdmissionInv'
  <2>1. UNCHANGED settingsVars /\ UNCHANGED <<runs, conn, replies, sent, scope>>
    BY <1>6 DEF DeleteBase, SettingsStay
  <2> QED BY <1>1, <1>2, <1>3, <2>1, OthersKeep DEF AdmissionInv
<1>7. ASSUME NEW c \in Connections, NEW i \in Intents, Send(c, i) PROVE AdmissionInv'
  <2>1. UNCHANGED settingsVars
    BY <1>7 DEF Send, SettingsStay
  <2> QED BY <1>1, <1>3, <1>7, <2>1, SendKeeps DEF AdmissionInv
<1>8. ASSUME NEW c \in Connections,
             \/ LockKey(c) \/ LockSession(c) \/ FreezeScope(c) \/ FreezeModel(c)
             \/ FreezeContext(c) \/ InsertRun(c) \/ LoseRequest(c)
      PROVE  AdmissionInv'
  <2>1. UNCHANGED settingsVars
    BY <1>8, Zenon DEF LockKey, LockSession, FreezeScope, FreezeModel, FreezeContext, InsertRun,
       LoseRequest, SettingsStay
  <2>2. QuestionsInv'
    BY <1>1, <1>2, <1>8, LockKeyKeeps, LockSessionKeeps, FreezeKeeps, InsertKeeps
  <2> QED BY <1>3, <2>1, <2>2 DEF AdmissionInv
<1>9. ASSUME NEW r \in DOMAIN runs,
             ClaimAsked(r) \/ RequeueAsked(r) \/ AnswerAsked(r) \/ FailAsked(r)
      PROVE  AdmissionInv'
  <2>1. PICK from \in {"queued", "running"}, to \in {"queued", "running", "completed", "failed"} :
          Lane(r, from, to)
    BY <1>9 DEF ClaimAsked, RequeueAsked, AnswerAsked, FailAsked
  <2>2. UNCHANGED settingsVars
    BY <2>1 DEF Lane, SettingsStay
  <2> QED BY <1>1, <1>3, <2>1, <2>2, LaneKeeps DEF AdmissionInv
<1>10. ASSUME SettingsNext, UNCHANGED admissionVars PROVE AdmissionInv'
  BY <1>1, <1>4, <1>10, SettingsKeepKeys DEF AdmissionInv
<1>11. ASSUME UNCHANGED <<settingsVars, admissionVars>> PROVE AdmissionInv'
  <2>1. UNCHANGED settingsVars /\ UNCHANGED admissionVars
    BY <1>11
  <2> QED BY <1>3, <1>4, <2>1 DEF AdmissionInv
<1> QED
  BY <1>5, <1>6, <1>7, <1>8, <1>9, <1>10, <1>11, Zenon DEF AdmissionNext

(* The invariant that the theorems below follow from: who holds the lock   *)
(* of a key or of a session found it free, and stays alone; who holds a    *)
(* key file has it to itself.                                              *)
THEOREM AdmissionInvariant == AdmissionSpec => []AdmissionInv
BY InitialAdmission, AdmissionStep, PTL DEF AdmissionSpec

(* ModelSecretReconciliationService never removes the file of a key whose  *)
(* save was answered with success, for any number of concurrent requests   *)
(* and any interleaving of its passes with them.                           *)
THEOREM KeysSurvive == AdmissionSpec => []AnsweredKeysSurvive
<1>1. AdmissionInv => AnsweredKeysSurvive
  BY DEF AdmissionInv, KeysInv
<1> QED BY <1>1, AdmissionInvariant, PTL

(* ChatService.create_run: an intent that is sent any number of times, by  *)
(* any number of connections, beside any others, is one run.               *)
THEOREM IntentsAreOneTurn == AdmissionSpec => []RetriesAreOneTurn
<1>1. AdmissionInv => RetriesAreOneTurn
  BY DEF AdmissionInv, QuestionsInv, AnswersAreRuns, OneRunPerKey, RetriesAreOneTurn
<1> QED BY <1>1, AdmissionInvariant, PTL

(* A step that commits a run commits it with the history of that moment.   *)
LEMMA CommitsTheHistory ==
  ASSUME AdmissionInv, [AdmissionNext]_<<settingsVars, admissionVars>>,
         Len(runs') > Len(runs)
  PROVE  runs'[Len(runs')].context = SelectContext(Completed(runs'[Len(runs')].session))
<1>1. QuestionsInv /\ RunsTypeOK /\ Len(runs) \in Nat
  BY RunsAre DEF AdmissionInv, QuestionsInv, QuestionsTypeOK
<1>2. PICK c \in Connections : conn[c].pc = "insert" /\ runs' = Append(runs, NewRun(c))
  <2>1. runs' # runs
    BY <1>1
  <2>2. ASSUME NEW r \in DOMAIN runs, NEW from \in {"queued", "running"},
               NEW to \in {"queued", "running", "completed", "failed"}, Lane(r, from, to)
        PROVE  FALSE
    <3>1. Len(runs') = Len(runs)
      BY <1>1, <2>2, RunChanged DEF Lane
    <3> QED BY <1>1, <3>1
  <2>3. ~\E r \in DOMAIN runs : ClaimAsked(r) \/ RequeueAsked(r) \/ AnswerAsked(r) \/ FailAsked(r)
    BY <2>2 DEF ClaimAsked, RequeueAsked, AnswerAsked, FailAsked
  <2>4. ~UNCHANGED <<settingsVars, admissionVars>> /\ ~UNCHANGED admissionVars
    BY <2>1 DEF admissionVars
  <2>5. \A t \in SessionIds, S \in (SUBSET Bases) \ {{}} : ~CreateSession(t, S) /\ ~EditScope(t, S)
    BY <2>1 DEF CreateSession, EditScope
  <2>6. \A b \in Bases : ~DeleteBase(b)
    BY <2>1 DEF DeleteBase
  <2>7. \A d \in Connections : ~(\E i \in Intents : Send(d, i)) /\ ~LockKey(d) /\ ~LockSession(d)
    BY <2>1, Zenon DEF Send, LockKey, LockSession
  <2>8. \A d \in Connections : ~FreezeScope(d) /\ ~FreezeModel(d) /\ ~FreezeContext(d)
    BY <2>1, Zenon DEF FreezeScope, FreezeModel, FreezeContext
  <2>9. PICK d \in Connections : InsertRun(d) \/ LoseRequest(d)
    BY <2>3, <2>4, <2>5, <2>6, <2>7, <2>8, Zenon DEF AdmissionNext
  <2> QED BY <2>1, <2>9, Zenon DEF InsertRun, LoseRequest
<1>3. PICK C : conn[c] \in Served(C)
  BY <1>1 DEF QuestionsInv, QuestionsTypeOK, ConnTypeOK
<1>4. conn[c].intent \in Intents /\ Session[conn[c].intent] \in SessionIds
  BY <1>1, <1>2, AdmissionConstants DEF QuestionsInv, QuestionsTypeOK
<1>5. PICK row : row = NewRun(c)
  OBVIOUS
<1>6. /\ row \in Row({row.context}) /\ row.context = conn[c].context
      /\ row.session = Session[conn[c].intent]
  BY <1>3, <1>4, <1>5 DEF NewRun, Row, Served
<1>7. runs'[Len(runs')] = row
  BY <1>1, <1>2, <1>5, <1>6, RunAppended
<1>8. conn[c].context = SelectContext(Completed(Session[conn[c].intent]))
  BY <1>1, <1>2 DEF QuestionsInv, ContextsAreCurrent
<1> QED BY <1>6, <1>7, <1>8

(* The context of a question is what the session's history was when its    *)
(* run was committed, although it was read two statements earlier: the     *)
(* lock of the session keeps its turns from being decided or added.        *)
THEOREM ContextsAreWhole == AdmissionSpec => ContextIsWhole
<1>1. AdmissionInv /\ [AdmissionNext]_<<settingsVars, admissionVars>>
        => [Len(runs') > Len(runs) =>
              LET new == runs'[Len(runs')]
              IN  new.context = SelectContext(Completed(new.session))]_admissionVars
  BY CommitsTheHistory
<1> QED BY <1>1, AdmissionInvariant, PTL DEF AdmissionSpec, ContextIsWhole
=============================================================================
