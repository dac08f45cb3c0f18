------------------------------- MODULE ChatRuns -------------------------------
(***************************************************************************)
(* The chat lane: ChatRun rows in PostgreSQL, the consumers that claim and *)
(* execute them, the heartbeat, and the reconciler that recovers runs      *)
(* whose worker went away.                                                 *)
(*                                                                         *)
(* Every database action below is one transaction of the code.  Wall-clock *)
(* time is abstracted to the two comparisons the code makes with it:       *)
(* heartbeat[r] tells whether heartbeat_at is older than the stale limit,  *)
(* and due[r] whether next_attempt_at lies in the future ("later").          *)
(***************************************************************************)
EXTENDS Naturals, FiniteSets

CONSTANTS Runs,         \* chat_run rows that may be created
          Sessions,     \* chat_session rows
          Workers,      \* consumers of the chat lane; more than one stands
                        \* for a worker that outlives its replacement
          MaxAttempts,  \* RetryPolicy.max_attempts
          BatchSize,    \* rows one reconciliation transaction may recover
          NoRun         \* "no lease held"

ASSUME ChatConstants == /\ MaxAttempts \in Nat \ {0}
                        /\ BatchSize \in Nat \ {0}
                        /\ NoRun \notin Runs

Statuses == {"absent", "queued", "running", "completed", "failed"}
Attempts == 1 .. MaxAttempts

(* The executor's place in NativeAgentRunner.execute and, after it, in     *)
(* ChatRunScheduler.execute ("settle").                                    *)
Errors == {"retryable", "final"}
Steps == {"idle", "load", "generate", "persist", "settle"}

VARIABLES
  status,     \* ChatRun.status ("absent": the row does not exist)
  attempt,    \* ChatRun.attempt, the ownership token
  heartbeat,  \* "none" (null), "fresh" or "stale"
  due,        \* "later" while next_attempt_at is in the future
  ledger,     \* ChatRun.timing["attempts"]: the outcome of each attempt
  assistant,  \* the assistant ChatMessage: its status, the attempt that
              \* wrote its content (0: empty), the attempt that wrote its
              \* Citation rows (0: none)
  asked,      \* asked[s]: the runs created in session s
  lane        \* per worker: step, lease (run, attempt), and whether the
              \* error about to be settled is retryable or final

rowVars == <<status, attempt, heartbeat, due, ledger, assistant>>
vars    == <<rowVars, asked, lane>>

Idle == [step |-> "idle", run |-> NoRun, attempt |-> 0, error |-> "none"]

Blank(s) == [status |-> s, answer |-> 0, cites |-> 0]

ChatInit ==
  /\ status    = [r \in Runs |-> "absent"]
  /\ attempt   = [r \in Runs |-> 0]
  /\ heartbeat = [r \in Runs |-> "none"]
  /\ due       = [r \in Runs |-> "now"]
  /\ ledger    = [r \in Runs |-> [a \in Attempts |-> "none"]]
  /\ assistant = [r \in Runs |-> Blank("absent")]
  /\ asked     = [s \in Sessions |-> {}]
  /\ lane      = [w \in Workers |-> Idle]

Nonterminal(r) == status[r] \in {"queued", "running"}
Terminal(r)    == status[r] \in {"completed", "failed"}

-----------------------------------------------------------------------------
(* The API: ChatService.create_run.                                        *)

HasRunningRun(s) == \E r \in asked[s] : status[r] = "running"   \* mutant
HasNonterminalRun(s) == \E r \in asked[s] : Nonterminal(r)

(* One transaction writes the user message, the queued run and an empty    *)
(* generating assistant message.                                           *)
CreateRun(r, s) ==
  /\ status[r] = "absent"
  /\ ~HasNonterminalRun(s)
  /\ status'    = [status EXCEPT ![r] = "queued"]
  /\ assistant' = [assistant EXCEPT ![r] = Blank("generating")]
  /\ asked'     = [asked EXCEPT ![s] = @ \cup {r}]
  /\ UNCHANGED <<attempt, heartbeat, due, ledger, lane>>

-----------------------------------------------------------------------------
(* The consumer: consume_lane, ChatRunScheduler and NativeAgentRunner.     *)

ClaimableWhileOpen(r) == Nonterminal(r) /\ due[r] = "now"             \* mutant
Claimable(r) == status[r] = "queued" /\ attempt[r] < MaxAttempts /\ due[r] = "now"

NextAttemptKept(r) == IF attempt[r] = 0 THEN 1 ELSE attempt[r]     \* mutant
NextAttempt(r) == attempt[r] + 1

(* FOR UPDATE SKIP LOCKED lets another worker's pick hide the first row of *)
(* the order, so any claimable row may be the one claimed.                 *)
ClaimRun(w, r) ==
  /\ lane[w].step = "idle"
  /\ Claimable(r)
  /\ status'    = [status EXCEPT ![r] = "running"]
  /\ attempt'   = [attempt EXCEPT ![r] = NextAttempt(r)]
  /\ heartbeat' = [heartbeat EXCEPT ![r] = "fresh"]
  /\ lane'      = [lane EXCEPT ![w] = [step |-> "load", run |-> r,
                               attempt |-> NextAttempt(r), error |-> "none"]]
  /\ UNCHANGED <<due, ledger, assistant, asked>>

OwnsRunningLeaseOfAnyAttempt(w) == /\ lane[w].run \in Runs          \* mutant
                                   /\ status[lane[w].run] = "running"
OwnsRunningLease(w) == LET r == lane[w].run IN
  /\ r \in Runs
  /\ status[r] = "running"
  /\ attempt[r] = lane[w].attempt

At(w, step) == lane[w].step = step

Move(w, step, error) ==
  lane' = [lane EXCEPT ![w] = [step |-> step, run |-> lane[w].run,
                               attempt |-> lane[w].attempt, error |-> error]]

GoTo(w, step) == Move(w, step, "none")

Raise(w, error) == Move(w, "settle", error)

Return(w) == lane' = [lane EXCEPT ![w] = Idle]

(* A lease that is no longer active raises CHAT_CONTEXT_INVALID, which is  *)
(* not retryable; a failing read or the deadline may also raise.           *)
LoadExecutionContext(w) ==
  /\ At(w, "load")
  /\ \/ OwnsRunningLease(w) /\ GoTo(w, "generate")
     \/ ~OwnsRunningLease(w) /\ Raise(w, "final")
     \/ \E error \in Errors : Raise(w, error)
  /\ UNCHANGED <<rowVars, asked>>

(* The agent answers, or fails with a retryable error (provider, deadline) *)
(* or one that is not (protocol, budget, step contract).                   *)
Generate(w) ==
  /\ At(w, "generate")
  /\ \/ GoTo(w, "persist")
     \/ \E error \in Errors : Raise(w, error)
  /\ UNCHANGED <<rowVars, asked>>

(* An answer may be written only by the attempt that owns the run, into a  *)
(* message that is still being generated and has no citations.             *)
MayComplete(w) == /\ OwnsRunningLease(w)
                  /\ assistant[lane[w].run].status = "generating"
                  /\ assistant[lane[w].run].cites = 0

RecordAlone(r, a, outcome) ==                                      \* mutant
  ledger' = [ledger EXCEPT ![r] =
               [b \in Attempts |-> IF b = a THEN outcome ELSE "none"]]
Record(r, a, outcome) == /\ ledger[r][a] = "none"     \* else a ledger conflict
                         /\ ledger' = [ledger EXCEPT ![r][a] = outcome]

CompleteOwnedRun(w) == LET r == lane[w].run   a == lane[w].attempt IN
  /\ MayComplete(w)
  /\ Record(r, a, "completed")
  /\ \E cites \in {0, a} :
       assistant' = [assistant EXCEPT ![r] =
                       [status |-> "completed", answer |-> a, cites |-> cites]]
  /\ status'    = [status EXCEPT ![r] = "completed"]
  /\ heartbeat' = [heartbeat EXCEPT ![r] = "none"]
  /\ due'       = [due EXCEPT ![r] = "now"]
  /\ UNCHANGED attempt

(* ChatResultPersistenceStep.  After the commit the acknowledgement can be *)
(* lost, the deadline can pass or the worker can be told to stop, so that  *)
(* the executor settles a failure for a run it has just completed.         *)
PersistResult(w) ==
  /\ At(w, "persist")
  /\ \/ CompleteOwnedRun(w) /\ Return(w)
     \/ CompleteOwnedRun(w) /\ \E error \in Errors : Raise(w, error)
     \/ ~MayComplete(w) /\ Raise(w, "final") /\ UNCHANGED rowVars
     \/ Raise(w, "retryable") /\ UNCHANGED rowVars     \* rolled back
  /\ UNCHANGED asked

RequeuesWhileRetryable(error, a) == error = "retryable"             \* mutant
Requeues(error, a) == error = "retryable" /\ a < MaxAttempts

(* A failed attempt is requeued or fails the run; the columns follow.      *)
StatusAfter(outcome) == IF outcome = "requeued" THEN "queued" ELSE "failed"
DueAfter(outcome)    == IF outcome = "requeued" THEN "later" ELSE "now"

SettledMessageGenerating(outcome) == Blank("generating")            \* mutant
SettledMessage(outcome) ==
  Blank(IF outcome = "requeued" THEN "generating" ELSE "failed")

SettleOwnedFailure(w) ==
  LET r == lane[w].run   a == lane[w].attempt
      outcome == IF Requeues(lane[w].error, a) THEN "requeued" ELSE "failed"
  IN /\ OwnsRunningLease(w)
     /\ Record(r, a, outcome)
     /\ assistant' = [assistant EXCEPT ![r] = SettledMessage(outcome)]
     /\ status'    = [status EXCEPT ![r] = StatusAfter(outcome)]
     /\ heartbeat' = [heartbeat EXCEPT ![r] = "none"]
     /\ due'       = [due EXCEPT ![r] = DueAfter(outcome)]
     /\ UNCHANGED attempt

(* A settlement that raises is only logged by consume_lane.  One cancelled *)
(* after its commit is repeated by the CancelledError handler.             *)
Settle(w) ==
  /\ At(w, "settle")
  /\ \/ SettleOwnedFailure(w) /\ Return(w)
     \/ SettleOwnedFailure(w) /\ UNCHANGED lane
     \/ Return(w) /\ UNCHANGED rowVars          \* stale, or the write raised
  /\ UNCHANGED asked

(* The compare-and-set of the heartbeat task.  Losing it cancels the       *)
(* pipeline and abandons the run without settling it.                      *)
HeartbeatRun(w) ==
  /\ ~At(w, "idle")
  /\ \/ /\ OwnsRunningLease(w)
        /\ heartbeat' = [heartbeat EXCEPT ![lane[w].run] = "fresh"]
        /\ UNCHANGED lane
     \/ /\ ~OwnsRunningLease(w) /\ ~At(w, "settle")
        /\ Return(w)
        /\ UNCHANGED heartbeat
  /\ UNCHANGED <<status, attempt, due, ledger, assistant, asked>>

(* A stop signal cancels the pipeline; the attempt is settled as           *)
(* CHAT_WORKER_STOPPED, which is retryable.                                *)
Stop(w) == /\ lane[w].step \in {"load", "generate", "persist"}
           /\ Raise(w, "retryable")
           /\ UNCHANGED <<rowVars, asked>>

(* The process dies; a new one starts with nothing but the database.       *)
Crash(w) == /\ ~At(w, "idle")
            /\ Return(w)
            /\ UNCHANGED <<rowVars, asked>>

-----------------------------------------------------------------------------
(* Time, and the reconciler: ChatRunScheduler.reconcile_once.              *)

HeartbeatAges(r) == /\ heartbeat[r] = "fresh"
                    /\ heartbeat' = [heartbeat EXCEPT ![r] = "stale"]
                    /\ UNCHANGED <<status, attempt, due, ledger,
                                   assistant, asked, lane>>

BackoffElapses(r) == /\ due[r] = "later"
                     /\ due' = [due EXCEPT ![r] = "now"]
                     /\ UNCHANGED <<status, attempt, heartbeat, ledger,
                                    assistant, asked, lane>>

Stale(r) == status[r] = "running" /\ heartbeat[r] = "stale"

(* One transaction over at most BatchSize stale rows.  It does not touch   *)
(* Citation rows, and a ledger conflict on one row rolls all of them back. *)
ReconcileStaleRuns(S) ==
  LET outcome(r) == IF attempt[r] < MaxAttempts THEN "requeued" ELSE "failed" IN
  /\ S # {} /\ Cardinality(S) <= BatchSize
  /\ \A r \in S : Stale(r) /\ ledger[r][attempt[r]] = "none"
  /\ status'    = [r \in Runs |-> IF r \in S THEN StatusAfter(outcome(r)) ELSE status[r]]
  /\ heartbeat' = [r \in Runs |-> IF r \in S THEN "none" ELSE heartbeat[r]]
  /\ due'       = [r \in Runs |-> IF r \in S THEN DueAfter(outcome(r)) ELSE due[r]]
  /\ ledger'    = [r \in Runs |-> IF r \notin S THEN ledger[r]
                                  ELSE [ledger[r] EXCEPT ![attempt[r]] = outcome(r)]]
  /\ assistant' = [r \in Runs |-> IF r \notin S THEN assistant[r] ELSE
                     [status |-> SettledMessage(outcome(r)).status,
                      answer |-> 0, cites |-> assistant[r].cites]]
  /\ UNCHANGED <<attempt, asked, lane>>

-----------------------------------------------------------------------------
Work(w) == LoadExecutionContext(w) \/ Generate(w) \/ PersistResult(w) \/ Settle(w)

ChatNext ==
  \/ \E r \in Runs, s \in Sessions : CreateRun(r, s)
  \/ \E w \in Workers, r \in Runs : ClaimRun(w, r)
  \/ \E w \in Workers : Work(w) \/ HeartbeatRun(w) \/ Stop(w) \/ Crash(w)
  \/ \E r \in Runs : HeartbeatAges(r) \/ BackoffElapses(r)
  \/ \E S \in SUBSET Runs : ReconcileStaleRuns(S)

ChatSafety == ChatInit /\ [][ChatNext]_vars

(* Nobody heartbeats for r: its heartbeat_at can only grow older.          *)
Orphaned(r) == \A w \in Workers : ~(lane[w].run = r /\ OwnsRunningLease(w))

(* Consumers poll, the pipeline has a hard deadline, time passes and the   *)
(* reconciler loops.  Stops and crashes are possible at any time, and      *)
(* nothing says that a heartbeat or a settlement ever gets through.        *)
ChatFairness ==
  /\ \A w \in Workers : /\ WF_vars(\E r \in Runs : ClaimRun(w, r))
                        /\ WF_vars(Work(w))
  /\ \A r \in Runs : /\ WF_vars(Orphaned(r) /\ HeartbeatAges(r))
                     /\ WF_vars(BackoffElapses(r))
  /\ WF_vars(\E S \in SUBSET Runs : ReconcileStaleRuns(S))

ChatSpec == ChatSafety /\ ChatFairness

(***************************************************************************)
(* Properties                                                              *)
(***************************************************************************)

Lease == [step : Steps, run : Runs \cup {NoRun}, attempt : 0 .. MaxAttempts,
          error : {"none"} \cup Errors]

Outcomes == {"none", "requeued", "failed", "completed"}

Messages == [status : {"absent", "generating", "completed", "failed"},
             answer : 0 .. MaxAttempts, cites : 0 .. MaxAttempts]

(* The types of the columns and of the executor's local state.             *)
ChatTypeOK ==
  /\ status    \in [Runs -> Statuses]
  /\ attempt   \in [Runs -> 0 .. MaxAttempts]
  /\ heartbeat \in [Runs -> {"none", "fresh", "stale"}]
  /\ due       \in [Runs -> {"now", "later"}]
  /\ ledger    \in [Runs -> [Attempts -> Outcomes]]
  /\ assistant \in [Runs -> Messages]
  /\ asked     \in [Sessions -> SUBSET Runs]
  /\ lane      \in [Workers -> Lease]

(* Run, assistant message and citations are written in one transaction by  *)
(* the attempt that owns the run: text and citations are there exactly     *)
(* when the run is completed, and both come from its last attempt, however *)
(* many attempts raced, crashed or were reconciled before.                 *)
AnswerIsAtomic == \A r \in Runs :
  LET m == assistant[r] IN
  /\ status[r] = "completed" => /\ m.status = "completed"
                                /\ m.answer = attempt[r]
                                /\ m.cites \in {0, attempt[r]}
  /\ status[r] = "failed" => m = Blank("failed")
  /\ Nonterminal(r)       => m = Blank("generating")
  /\ status[r] = "absent" => m = Blank("absent")

(* A session never has two open turns (uq_chat_run_session_nonterminal),   *)
(* although requeues keep a turn open across attempts.                     *)
OneOpenTurnPerSession == \A s \in Sessions : \A q, r \in asked[s] :
  Nonterminal(q) /\ Nonterminal(r) => q = r

(* The timing ledger has one outcome for every finished attempt: all but   *)
(* the last requeued the run, and the last one explains its status.  The   *)
(* owner's slot is free, so no settlement and no reconciliation batch can  *)
(* be rolled back by a ledger conflict.                                    *)
AttemptLedger == \A r \in Runs : \A a \in Attempts :
  /\ a < attempt[r] => ledger[r][a] = "requeued"
  /\ a > attempt[r] => ledger[r][a] = "none"
  /\ a = attempt[r] => /\ status[r] = "running" => ledger[r][a] = "none"
                       /\ status[r] = "queued"  => ledger[r][a] = "requeued"
                       /\ Terminal(r)           => ledger[r][a] = status[r]

(* Every open run is within reach of somebody: a queued one still has an   *)
(* attempt to be claimed with, a running one has a heartbeat that can go   *)
(* stale, and only those have one.                                         *)
NeverStranded == \A r \in Runs :
  /\ status[r] = "queued" => attempt[r] < MaxAttempts
  /\ (status[r] = "running") <=> (heartbeat[r] # "none")

(* The attempt number is a fencing token: no two executors, dead or alive, *)
(* hold the same one for the same run, and none is ahead of the row.       *)
LeasesAreUnique ==
  /\ \A v, w \in Workers : /\ lane[v].run # NoRun
                           /\ lane[v].run = lane[w].run
                           /\ lane[v].attempt = lane[w].attempt
                           => v = w
  /\ \A w \in Workers : lane[w].run # NoRun =>
        lane[w].attempt \in 1 .. attempt[lane[w].run]

(* An executor whose lease was taken over (reconciled, requeued, claimed   *)
(* again) changes nothing of the run it still believes to be its own.      *)
StaleExecutorWritesNothing ==
  [][\A w \in Workers :
       /\ ~At(w, "idle")
       /\ Work(w) \/ HeartbeatRun(w) \/ Stop(w) \/ Crash(w)
       /\ ~ /\ status[lane[w].run] = "running"
            /\ attempt[lane[w].run] = lane[w].attempt
       => UNCHANGED rowVars]_vars

(* What an attempt recorded is never rewritten by a later attempt, by the  *)
(* reconciler or by a repeated settlement.                                 *)
LedgerIsAppendOnly ==
  [][\A r \in Runs : \A a \in Attempts :
       ledger[r][a] # "none" => ledger'[r][a] = ledger[r][a]]_vars

-----------------------------------------------------------------------------
(* The chat lane implements ChatTurns: a reader never sees a torn turn.    *)

Shown(r) ==
  [state |-> CASE status[r] = "absent" -> "unasked"
               [] Nonterminal(r) /\ assistant[r].status = "generating" -> "pending"
               [] status[r] = "completed" /\ assistant[r].status = "completed" -> "answered"
               [] status[r] = "failed" /\ assistant[r].status = "failed" -> "failed"
               [] OTHER -> "torn",
   text      |-> IF assistant[r].answer = 0 THEN "empty" ELSE "full",
   citations |-> IF assistant[r].cites = 0 THEN "none" ELSE "some"]

Turns == INSTANCE ChatTurns WITH turn <- [r \in Runs |-> Shown(r)], home <- asked

(* Every step of workers, reconciler and API is a step of ChatTurns or is  *)
(* invisible to the reader.                                                *)
ImplementsChatTurns == Turns!TurnSafety

(* Every question asked is decided, although workers may crash or be       *)
(* stopped in any attempt and settlements and heartbeats may all be lost.  *)
EveryTurnIsDecided == \A r \in Runs : Nonterminal(r) ~> Terminal(r)
=============================================================================
