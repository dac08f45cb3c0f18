---------------------------- MODULE ChatAdmission ----------------------------
(***************************************************************************)
(* How a question becomes a ChatRun: ChatService.create_run, statement by  *)
(* statement, with several requests of one session or of one idempotency   *)
(* key in flight, beside edits of the session's scope, of the knowledge    *)
(* bases and of the model settings.  The executor (module ChatRuns) is     *)
(* reduced to the statuses it gives a run.                                 *)
(*                                                                         *)
(* A transaction's row and advisory locks are held from the step that      *)
(* takes them to its end, so they are read off the requests' own steps.    *)
(***************************************************************************)
EXTENDS ModelSettings, SequencesExt

CONSTANTS Intents,      \* what a user may ask: one body with one key
          Key,          \* Key[i]: its Idempotency-Key
          Session,      \* Session[i]
          Scope,        \* Scope[i]: the knowledge bases it selects
          Wanted,       \* Wanted[i]: the model revision it asks for, or None
          AllowLegacy,  \* allow_legacy_model_configuration
          Weight,       \* Weight[i]: tokens of its turn, once completed
          SessionIds, Bases,
          Connections,  \* requests the API serves at a time
          HistoryLimit, \* context_max_turns
          TokenBudget,  \* context_max_tokens
          MaxRequests   \* bound: requests sent

ASSUME AdmissionConstants ==
  /\ Session \in [Intents -> SessionIds]
  /\ Scope \in [Intents -> (SUBSET Bases) \ {{}}]
  /\ Wanted \in [Intents -> References \cup {None}] /\ AllowLegacy \in BOOLEAN
  /\ Weight \in [Intents -> Nat]
  /\ HistoryLimit \in Nat \ {0} /\ TokenBudget \in Nat /\ MaxRequests \in Nat

VARIABLES
  runs,     \* ChatRun rows, in the order they were committed
  scope,    \* per session the selected knowledge bases; {}: no such session
  deleted,  \* knowledge bases that were deleted
  conn,     \* per connection: step, intent, when its transaction began, and
            \* what it has frozen so far
  replies,  \* per intent: the runs (or errors) its requests were answered with
  sent      \* requests sent; also the clock that created_at is taken from

admissionVars == <<runs, scope, deleted, conn, replies, sent>>

Closed == [pc |-> "idle", intent |-> None, born |-> 0, model |-> None,
           context |-> <<>>]

AdmissionInit(requests) ==
  /\ runs    = <<>>
  /\ scope   = [s \in SessionIds |-> {}]
  /\ deleted = {}
  /\ conn    = [c \in Connections |-> Closed]
  /\ replies = [i \in Intents |-> {}]
  /\ sent    = MaxRequests - requests

SettingsStay == UNCHANGED settingsVars

Live(S) == S \cap deleted = {}

-----------------------------------------------------------------------------
(* Sessions and their scope.                                               *)

CreateSession(s, S) ==
  /\ scope[s] = {}
  /\ Live(S)
  /\ scope' = [scope EXCEPT ![s] = S]
  /\ SettingsStay /\ UNCHANGED <<runs, deleted, conn, replies, sent>>

HoldsSession(c, s) == /\ conn[c].pc \in {"scope", "model", "context", "insert"}
                      /\ Session[conn[c].intent] = s
SessionFreeAlways(s) == TRUE                                          \* mutant
SessionFree(s) == \A c \in Connections : ~HoldsSession(c, s)

(* update_session_scope: one short transaction under the session's lock.   *)
EditScope(s, S) ==
  /\ scope[s] # {} /\ S # scope[s]
  /\ SessionFree(s)
  /\ Live(S)
  /\ scope' = [scope EXCEPT ![s] = S]
  /\ SettingsStay /\ UNCHANGED <<runs, deleted, conn, replies, sent>>

DeleteBase(b) ==
  /\ b \notin deleted
  /\ deleted' = deleted \cup {b}
  /\ SettingsStay /\ UNCHANGED <<runs, scope, conn, replies, sent>>

-----------------------------------------------------------------------------
(* The history a question is asked with.                                   *)

(* list_completed_turns: the decided turns of a session, and these newest  *)
(* first by created_at, one over the limit.                                *)
Completed(s) ==
  [r \in {x \in DOMAIN runs : runs[x].session = s /\ runs[x].status = "completed"}
     |-> [born |-> runs[r].born, intent |-> runs[r].intent]]

NewestFirst(turns) ==
  LET ordered == SetToSortSeq(DOMAIN turns, LAMBDA a, b : turns[a].born > turns[b].born)
  IN  SubSeq(ordered, 1, IF Len(ordered) <= HistoryLimit THEN Len(ordered)
                         ELSE HistoryLimit + 1)

Tokens(turns, taken) == FoldLeft(LAMBDA n, r : n + Weight[turns[r].intent], 0, taken)

(* _select_with_encoding: newest first, until one does not fit; the rest   *)
(* in chronological order.                                                 *)
SelectContext(turns) ==
  LET newest == NewestFirst(turns)
      limit  == IF Len(newest) < HistoryLimit THEN Len(newest) ELSE HistoryLimit
      fits   == {n \in 0 .. limit : \A m \in 0 .. n :
                   Tokens(turns, SubSeq(newest, 1, m)) <= TokenBudget}
      taken  == CHOOSE n \in fits : \A m \in fits : m <= n
  IN  Reverse(SubSeq(newest, 1, taken))

-----------------------------------------------------------------------------
(* create_run, one action per statement that other transactions may come   *)
(* before.  The client may send an intent again at any time (a retry, a    *)
(* lost reply); BEGIN fixes created_at.                                    *)

Send(c, i) ==
  /\ conn[c].pc = "idle"
  /\ sent < MaxRequests
  /\ scope[Session[i]] # {}
  /\ sent' = sent + 1
  /\ conn' = [conn EXCEPT ![c] = [Closed EXCEPT !.pc = "key", !.intent = i,
                                                !.born = sent + 1]]
  /\ SettingsStay /\ UNCHANGED <<runs, scope, deleted, replies>>

Step(c, pc) == conn' = [conn EXCEPT ![c].pc = pc]

(* The reply, or an error (not found, busy, key reused, model unusable:     *)
(* told apart only when a property asks).                                   *)
Reply(c, run) ==
  /\ conn'    = [conn EXCEPT ![c] = Closed]
  /\ replies' = [replies EXCEPT ![conn[c].intent] = @ \cup {run}]

IntegrityError == 0           \* answered in place of a run

Refuse(c) == conn' = [conn EXCEPT ![c] = Closed] /\ UNCHANGED replies

KeyFreeAlways(k) == TRUE                                              \* mutant
KeyFree(k) ==
  ~\E d \in Connections : /\ conn[d].pc \in {"session", "scope", "model", "context", "insert"}
                          /\ Key[conn[d].intent] = k

Prior(k) == {r \in DOMAIN runs : Key[runs[r].intent] = k}

(* pg_advisory_xact_lock, then the run stored under the key.  Another body *)
(* under the same key is refused.                                          *)
LockKey(c) ==
  LET i == conn[c].intent IN
  /\ conn[c].pc = "key"
  /\ KeyFree(Key[i])
  /\ \/ /\ Prior(Key[i]) = {}
        /\ Step(c, "session")
        /\ UNCHANGED replies
     \/ \E r \in Prior(Key[i]) :
          IF runs[r].intent = i THEN Reply(c, r) ELSE Refuse(c)
  /\ SettingsStay /\ UNCHANGED <<runs, scope, deleted, sent>>

Open(r) == runs[r].status \in {"queued", "running"}
HasQueuedRun(s) == \E r \in DOMAIN runs : runs[r].session = s /\ runs[r].status = "queued" \* mutant
HasOpenRun(s) == \E r \in DOMAIN runs : runs[r].session = s /\ Open(r)

LockSession(c) ==
  LET s == Session[conn[c].intent] IN
  /\ conn[c].pc = "session"
  /\ SessionFree(s)
  /\ IF HasOpenRun(s) THEN Refuse(c) ELSE Step(c, "scope") /\ UNCHANGED replies
  /\ SettingsStay /\ UNCHANGED <<runs, scope, deleted, sent>>

FreezeScope(c) ==
  /\ conn[c].pc = "scope"
  /\ IF Live(Scope[conn[c].intent]) THEN Step(c, "model") /\ UNCHANGED replies
     ELSE Refuse(c)
  /\ SettingsStay /\ UNCHANGED <<runs, scope, deleted, sent>>

(* The revision that was asked for, else the selected one, else none: then *)
(* the configuration of the process, where it is allowed.                  *)
ChosenModel(i) == IF Wanted[i] # None THEN Wanted[i] ELSE selection["chat"]

(* _resolve_model_configuration.                                           *)
FreezeModel(c) == LET m == ChosenModel(conn[c].intent) IN
  /\ conn[c].pc = "model"
  /\ IF (m = None /\ AllowLegacy) \/ Usable(m, "chat")
     THEN /\ conn' = [conn EXCEPT ![c].pc = "context", ![c].model = m]
          /\ UNCHANGED replies
     ELSE Refuse(c)
  /\ SettingsStay /\ UNCHANGED <<runs, scope, deleted, sent>>

FreezeContext(c) ==
  /\ conn[c].pc = "context"
  /\ conn' = [conn EXCEPT ![c].pc = "insert",
                ![c].context = SelectContext(Completed(Session[conn[c].intent]))]
  /\ SettingsStay /\ UNCHANGED <<runs, scope, deleted, replies, sent>>

NewRun(c) == LET i == conn[c].intent IN
  [intent |-> i, session |-> Session[i], status |-> "queued", born |-> conn[c].born,
   model |-> conn[c].model, context |-> conn[c].context]

(* The inserts meet uq_chat_run_idempotency_scope and                      *)
(* uq_chat_run_session_nonterminal; a violation is a server error.         *)
InsertRun(c) ==
  LET i == conn[c].intent IN
  /\ conn[c].pc = "insert"
  /\ IF Prior(Key[i]) # {} \/ HasOpenRun(Session[i])
     THEN Reply(c, IntegrityError) /\ UNCHANGED <<runs, scope>>
     ELSE /\ runs'  = Append(runs, NewRun(c))
          /\ scope' = [scope EXCEPT ![Session[i]] = Scope[i]]
          /\ Reply(c, Len(runs) + 1)
  /\ SettingsStay /\ UNCHANGED <<deleted, sent>>

(* The transaction is rolled back, or the commit's reply never arrives.    *)
LoseRequest(c) ==
  /\ conn[c].pc # "idle"
  /\ \/ UNCHANGED <<runs, scope>>
     \/ /\ conn[c].pc = "insert"
        /\ Prior(Key[conn[c].intent]) = {} /\ ~HasOpenRun(Session[conn[c].intent])
        /\ runs'  = Append(runs, NewRun(c))
        /\ scope' = [scope EXCEPT ![Session[conn[c].intent]] = Scope[conn[c].intent]]
  /\ Refuse(c)
  /\ SettingsStay /\ UNCHANGED <<deleted, sent>>

-----------------------------------------------------------------------------
(* The chat lane, reduced: claim, requeue and decide.                      *)
Lane(r, from, to) ==
  /\ r \in DOMAIN runs
  /\ runs[r].status = from
  /\ runs' = [runs EXCEPT ![r].status = to]
  /\ SettingsStay /\ UNCHANGED <<scope, deleted, conn, replies, sent>>

ClaimAsked(r)  == Lane(r, "queued", "running")
RequeueAsked(r) == Lane(r, "running", "queued")
AnswerAsked(r) == Lane(r, "running", "completed")
FailAsked(r)   == Lane(r, "running", "failed")

AdmissionNext ==
  \/ \E s \in SessionIds, S \in (SUBSET Bases) \ {{}} : CreateSession(s, S) \/ EditScope(s, S)
  \/ \E b \in Bases : DeleteBase(b)
  \/ \E c \in Connections, i \in Intents : Send(c, i)
  \/ \E c \in Connections : \/ LockKey(c)
                            \/ LockSession(c)
                            \/ FreezeScope(c)
                            \/ FreezeModel(c)
                            \/ FreezeContext(c)
                            \/ InsertRun(c)
                            \/ LoseRequest(c)
  \/ \E r \in DOMAIN runs : \/ ClaimAsked(r)
                            \/ RequeueAsked(r)
                            \/ AnswerAsked(r)
                            \/ FailAsked(r)
  \/ SettingsNext /\ UNCHANGED admissionVars

AdmissionSpec ==
  SettingsInit /\ AdmissionInit(MaxRequests)
    /\ [][AdmissionNext]_<<settingsVars, admissionVars>>

-----------------------------------------------------------------------------
(* However often an intent is sent, and whatever else is sent meanwhile:   *)
(* all answers under one key name one run, made of that body, and no race  *)
(* ends in a constraint violation instead of an answer.                    *)
RetriesAreOneTurn ==
  \A i, j \in Intents : \A x \in replies[i], y \in replies[j] :
    /\ x \in DOMAIN runs
    /\ runs[x].intent = i
    /\ Key[i] = Key[j] => x = y

(* The history frozen with a question is the session's at the moment the   *)
(* run comes to be: no turn is decided, added or withdrawn between the     *)
(* read and the commit.                                                    *)
ContextIsWhole ==
  [][Len(runs') > Len(runs) =>
       LET new == runs'[Len(runs')]
       IN  new.context = SelectContext(Completed(new.session))]_admissionVars
=============================================================================
