----------------------------- MODULE ChatClient -----------------------------
(***************************************************************************)
(* The chat page of the web client (App.tsx): a tab whose user chooses     *)
(* knowledge bases, sessions and scopes, asks questions and pages through  *)
(* the history, while every request it sent may be answered late, fail, or *)
(* be answered for a view the user has left.  The server keeps sessions    *)
(* and their turns (module ChatAdmission has how a turn comes to be).      *)
(*                                                                         *)
(* A response, the renderings it causes and the effects these run are one  *)
(* step, written as functions of the tab.  A request is two: the server    *)
(* handles it, and later its answer arrives.  Instead of a generation      *)
(* number a request carries whether the generation it was sent in still    *)
(* lasts.                                                                  *)
(***************************************************************************)
EXTENDS Naturals, Sequences, FiniteSets

CONSTANTS Bases, Sessions,
          PageSize,     \* turns of one page of messages
          Reconnects,   \* event-stream reconnections per run and status
          MaxQuestions, \* bound: questions sent
          MaxClicks,    \* bound: other things the user does
          MaxFailures,  \* bound: requests that fail
          MaxCalls,     \* bound: requests in flight
          None

ASSUME ClientConstants ==
  /\ PageSize \in Nat \ {0} /\ Reconnects \in Nat
  /\ MaxQuestions \in Nat /\ MaxClicks \in Nat /\ MaxFailures \in Nat
  /\ None \notin Bases \cup Sessions

VARIABLES
  turns,   \* per session its turns: scope, key of the request, done
  scopes,  \* per session the scope stored with it; {}: no such session
  tab,     \* what the page shows and waits for
  budget   \* questions, clicks and failures left (bound)

clientVars == <<turns, scopes, tab, budget>>

Call(kind) == [kind |-> kind, fresh |-> TRUE, base |-> None, session |-> None,
               scope |-> {}, before |-> {}, page |-> 0, turn |-> 0, key |-> 0,
               ends |-> FALSE, served |-> FALSE, ok |-> TRUE, items |-> {}]

NewTab == [base |-> None, session |-> None, scope |-> {}, known |-> {},
           shown |-> {}, more |-> 0, loading |-> FALSE, error |-> FALSE,
           current |-> None, pending |-> None, submitting |-> FALSE,
           failed |-> FALSE, saving |-> FALSE, stream |-> "off", tries |-> 0,
           calls |-> {}]

Turn(c) == turns[c.session][c.turn]
Stored(s) == {[session |-> s, turn |-> n, done |-> turns[s][n].done] : n \in DOMAIN turns[s]}

-----------------------------------------------------------------------------
(* The page, as functions of the tab.                                      *)

With(t, c) == [t EXCEPT !.calls = @ \cup {c}]

Outdate(t, kinds) ==
  [t EXCEPT !.calls = {IF c.kind \in kinds THEN [c EXCEPT !.fresh = FALSE] ELSE c : c \in @}]

(* ++chatGeneration outdates what was asked for the view that is left.     *)
NewGeneration(t) == Outdate(t, {"sessions", "messages", "restore", "all"})

(* loadMessages: its own sequence outdates the loads before it.            *)
SequencesIgnored(t) == t                                              \* mutant
NextMessageSequence(t) == Outdate(t, {"messages"})

Loading(t, c) ==
  With([NextMessageSequence(t) EXCEPT !.loading = TRUE, !.error = FALSE], c)

LoadMessages(t, s, page) ==
  Loading(t, [Call("messages") EXCEPT !.session = s, !.page = page])

(* performRun waits for its load before the submission is over.            *)
LoadSubmitted(t, c) ==
  Loading(t, [Call("messages") EXCEPT !.session = c.session, !.page = 1,
                !.scope = c.scope, !.base = c.base, !.ends = TRUE])

LoadSessions(t) ==
  With(Outdate(t, {"sessions"}), [Call("sessions") EXCEPT !.base = t.base])

(* The effect on the selected session.                                     *)
ShowSession(t, s) ==
  LET cleared == [NewGeneration(t) EXCEPT !.session = s, !.shown = {}, !.more = 0,
                                          !.current = None, !.stream = "off"]
  IN  IF s = t.session THEN t
      ELSE IF s = None THEN cleared
      ELSE LoadMessages(cleared, s, 1)

(* The effect on the selected knowledge base.                              *)
ShowBase(t, b) ==
  LoadSessions([NewGeneration(t) EXCEPT
    !.base = b, !.scope = {b}, !.session = None, !.known = {}, !.shown = {},
    !.loading = FALSE, !.error = FALSE, !.current = None, !.pending = None,
    !.submitting = FALSE, !.failed = FALSE, !.stream = "off"])

(* The effect on the current run: follow it, or fetch its answer.          *)
FollowRun(t, run) ==
  LET followed == [t EXCEPT !.current = run]
  IN  IF t.current = run THEN t
      ELSE IF run.done
           THEN LoadMessages([followed EXCEPT !.stream = "off"], run.session, 1)
           ELSE [followed EXCEPT !.stream = "events", !.tries = 0]

(* The effect that takes up a run which the messages show as generating.   *)
Restore(t) ==
  LET open == {m.turn : m \in {x \in t.shown : ~x.done}}
  IN  IF t.session = None \/ t.current # None \/ t.loading \/ open = {} THEN t
      ELSE With(t, [Call("restore") EXCEPT !.session = t.session,
                      !.turn = CHOOSE n \in open : \A m \in open : m <= n])

(* Sessions there may be, with a turn another tab has asked.  The page     *)
(* opens with the base it was left with.                                   *)
ClientInit ==
  /\ scopes \in [Sessions -> {{}} \cup {{b} : b \in Bases}]
  /\ turns  \in [Sessions -> {<<>>} \cup {<<[scope |-> {b}, key |-> 0, done |-> FALSE]>> :
                                       b \in Bases}]
  /\ \A s \in Sessions : turns[s] # <<>> => scopes[s] = turns[s][1].scope
  /\ tab    \in {ShowBase(NewTab, b) : b \in Bases}
  /\ budget \in [questions : {MaxQuestions}, clicks : 0 .. MaxClicks, failures : 0 .. MaxFailures]

SessionBusy == \/ tab.current # None /\ ~tab.current.done
               \/ \E m \in tab.shown : ~m.done

(* isChatViewScopeCurrent with the sequence; answers that fail it are      *)
(* dropped.                                                                *)
IsCurrent(c) == c.fresh /\ (c.session = tab.session \/ c.kind = "sessions")

-----------------------------------------------------------------------------
(* The user.                                                               *)

Click == /\ budget.clicks > 0
         /\ budget' = [budget EXCEPT !.clicks = @ - 1]
         /\ UNCHANGED <<turns, scopes>>

Composing == ~tab.submitting /\ tab.pending = None

ChooseKnowledgeBase(b) == Click /\ Composing /\ b # tab.base /\ tab' = ShowBase(tab, b)

(* The management page creates or deletes a base: the selection moves.     *)
MoveKnowledgeBase(b) == Click /\ ~Composing /\ b # tab.base /\ tab' = ShowBase(tab, b)

ChooseSession(k) ==
  /\ Click /\ Composing
  /\ k \in tab.known
  /\ tab' = ShowSession([tab EXCEPT !.scope = k.scope], k.session)

BeginNewConversation ==
  /\ Click /\ Composing
  /\ tab.session # None
  /\ tab' = ShowSession([tab EXCEPT !.failed = FALSE], None)

(* changeScope: shown at once, stored when there is a session.             *)
ChangeScope(S) ==
  /\ Click /\ Composing /\ ~tab.saving
  /\ tab.base # None /\ S # tab.scope
  /\ LET edited == [tab EXCEPT !.scope = S, !.failed = FALSE]
     IN  tab' = IF tab.session = None \/ S = {} THEN edited
                ELSE With([edited EXCEPT !.saving = TRUE],
                          [Call("scope") EXCEPT !.session = tab.session, !.scope = S,
                                                !.before = tab.scope])

SelectAllScopes ==
  /\ Click /\ Composing /\ ~tab.saving
  /\ tab.base # None
  /\ tab' = With([tab EXCEPT !.saving = TRUE],
                 [Call("all") EXCEPT !.session = tab.session, !.scope = Bases])

LoadEarlier ==
  /\ Click
  /\ tab.more # 0 /\ tab.session # None
  /\ tab' = LoadMessages(tab, tab.session, tab.more)

RetryMessages ==
  /\ Click
  /\ tab.error /\ tab.shown # {}
  /\ tab' = LoadMessages(tab, tab.session, 1)

RetrySessions == Click /\ Composing /\ tab.base # None /\ tab' = LoadSessions(tab)

(* performRun: the request that Retry sends again is the same.             *)
CreateRun(t, p, outer) ==
  With([t EXCEPT !.submitting = TRUE, !.failed = FALSE, !.pending = p],
       [Call("create") EXCEPT !.session = p.session, !.scope = p.scope,
                              !.key = p.key, !.base = outer])

Submit ==
  /\ budget.questions > 0
  /\ budget' = [budget EXCEPT !.questions = @ - 1]
  /\ tab.base # None /\ tab.scope # {}
  /\ ~tab.saving /\ ~tab.submitting /\ ~SessionBusy
  /\ LET key == budget.questions
     IN  tab' = IF tab.session = None
                THEN With([tab EXCEPT !.submitting = TRUE, !.failed = FALSE],
                          [Call("open") EXCEPT !.base = tab.base, !.scope = tab.scope,
                                               !.key = key])
                ELSE CreateRun(tab, [session |-> tab.session, scope |-> tab.scope,
                                     key |-> key], tab.base)
  /\ UNCHANGED <<turns, scopes>>

RetryRun ==
  /\ Click
  /\ tab.pending # None /\ tab.failed
  /\ tab' = CreateRun(tab, tab.pending, None)

(* Another mode, strategy, reranker or model gives a failed request up.    *)
ChangeOptions ==
  /\ Click
  /\ tab.pending # None /\ ~tab.submitting /\ ~SessionBusy
  /\ tab' = [tab EXCEPT !.pending = None, !.failed = FALSE]

-----------------------------------------------------------------------------
(* The server.  Sessions of a base are those whose scope has it.           *)

Answer(c, d) == tab' = [tab EXCEPT !.calls = (@ \ {c}) \cup {d}]
Done(c) == [c EXCEPT !.served = TRUE]

(* A page of list_messages: the oldest turns first.                        *)
MessagePage(c) == {m \in Stored(c.session) :
                     m.turn > (c.page - 1) * PageSize /\ m.turn <= c.page * PageSize}

Read(c) ==
  /\ c.kind \in {"sessions", "messages", "restore"}
  /\ Answer(c, [Done(c) EXCEPT !.items =
       CASE c.kind = "sessions" -> {[session |-> s, scope |-> scopes[s]] :
                                      s \in {x \in Sessions : c.base \in scopes[x]}}
         [] c.kind = "messages" -> MessagePage(c)
         [] c.kind = "restore"  -> {m \in Stored(c.session) : m.turn = c.turn},
       !.ok = c.kind = "messages" => Len(turns[c.session]) > c.page * PageSize])
  /\ UNCHANGED <<turns, scopes>>

Store(c) ==
  /\ c.kind \in {"scope", "all"}
  /\ Answer(c, Done(c))
  /\ scopes' = IF c.session = None THEN scopes ELSE [scopes EXCEPT ![c.session] = c.scope]
  /\ UNCHANGED turns

OpenSession(c) ==
  /\ c.kind = "open"
  /\ \E s \in Sessions :
       /\ scopes[s] = {}
       /\ scopes' = [scopes EXCEPT ![s] = c.scope]
       /\ Answer(c, [Done(c) EXCEPT !.session = s])
  /\ UNCHANGED turns

(* create_run: the turn of the key, a refusal, or a new turn.              *)
Ask(c) ==
  /\ c.kind = "create"
  /\ LET s     == c.session
         prior == {n \in DOMAIN turns[s] : turns[s][n].key = c.key}
         busy  == \E n \in DOMAIN turns[s] : ~turns[s][n].done
     IN  IF prior # {}
         THEN /\ Answer(c, [Done(c) EXCEPT !.items = {m \in Stored(s) : m.turn \in prior}])
              /\ UNCHANGED <<turns, scopes>>
         ELSE IF busy
         THEN Answer(c, [Done(c) EXCEPT !.ok = FALSE]) /\ UNCHANGED <<turns, scopes>>
         ELSE /\ turns'  = [turns EXCEPT ![s] = Append(@, [scope |-> c.scope, key |-> c.key,
                                                          done |-> FALSE])]
              /\ scopes' = [scopes EXCEPT ![s] = c.scope]
              /\ Answer(c, [Done(c) EXCEPT !.items =
                   {[session |-> s, turn |-> Len(turns[s]) + 1, done |-> FALSE]}])

Serve(c) == /\ ~c.served
            /\ Read(c) \/ Store(c) \/ OpenSession(c) \/ Ask(c)
            /\ UNCHANGED budget

(* The chat lane decides a turn: answered or failed.                       *)
Decide(s) ==
  /\ \E n \in DOMAIN turns[s] :
       /\ ~turns[s][n].done
       /\ turns' = [turns EXCEPT ![s][n].done = TRUE]
  /\ UNCHANGED <<scopes, tab, budget>>

-----------------------------------------------------------------------------
(* Answers.  Each takes its call off and says what becomes of the tab.     *)

Without(c) == [tab EXCEPT !.calls = @ \ {c}]

(* The session of the tab's storage, when the page has it, or the first:   *)
(* one of them.                                                            *)
SessionsArrive(c) ==
  IF ~IsCurrent(c) THEN tab' = Without(c)
  ELSE IF c.items = {} THEN tab' = ShowSession([Without(c) EXCEPT !.known = {}], None)
  ELSE \E k \in c.items :
         tab' = ShowSession([Without(c) EXCEPT !.known = c.items, !.scope = k.scope],
                            k.session)

(* performRun's isCurrent, when the answer is there.                       *)
StillAsked(c) == tab.scope = c.scope /\ tab.session = c.session

(* The end of a submission, seen by performRun or by submit around it.     *)
Submitted(t, c) ==
  IF StillAsked(c) \/ (c.base # None /\ t.base = c.base)
  THEN [t EXCEPT !.submitting = FALSE] ELSE t

Release(t, c) == IF c.ends THEN Submitted(t, c) ELSE t

MergeMessages(old, new) == {m \in old : \A n \in new : n.turn # m.turn} \cup new

MessagesArrive(c) ==
  tab' = IF ~IsCurrent(c) THEN Release(Without(c), c)
         ELSE Restore(Release([Without(c) EXCEPT
                !.shown = IF c.page = 1 THEN c.items ELSE MergeMessages(@, c.items),
                !.more  = IF c.ok THEN c.page + 1 ELSE 0,
                !.loading = FALSE], c))

SameScope(c) == Turn(c).scope = tab.scope

RestoreArrives(c) ==
  \E m \in c.items :
    tab' = IF IsCurrent(c) /\ SameScope(c)
           THEN FollowRun(Without(c), m) ELSE Without(c)

ScopeArrives(c) ==
  tab' = IF tab.session = c.session /\ c.session # None
         THEN [Without(c) EXCEPT !.saving = FALSE,
                 !.known = {k \in @ : k.session # c.session} \cup
                           {[session |-> c.session, scope |-> c.scope]}]
         ELSE [Without(c) EXCEPT !.saving = FALSE]

AllArrives(c) ==
  tab' = IF IsCurrent(c)
         THEN [Without(c) EXCEPT !.saving = FALSE, !.scope = c.scope,
                 !.known = IF c.session = None THEN @
                           ELSE {k \in @ : k.session # c.session} \cup
                                {[session |-> c.session, scope |-> c.scope]}]
         ELSE [Without(c) EXCEPT !.saving = FALSE]

OpenArrives(c) ==
  tab' = IF tab.base # c.base THEN Without(c)
         ELSE CreateRun(ShowSession([Without(c) EXCEPT !.known = @ \cup
                          {[session |-> c.session, scope |-> c.scope]}], c.session),
                        [session |-> c.session, scope |-> c.scope, key |-> c.key], c.base)

CreateArrives(c) ==
  tab' = IF ~StillAsked(c) THEN Submitted(Without(c), c)
         ELSE IF c.ok
         THEN FollowRun(LoadSubmitted([Without(c) EXCEPT !.pending = None], c),
                        CHOOSE m \in c.items : TRUE)
         ELSE Submitted([Without(c) EXCEPT !.failed = TRUE], c)

Arrive(c) ==
  /\ c.served
  /\ \/ c.kind = "sessions" /\ SessionsArrive(c)
     \/ c.kind = "messages" /\ MessagesArrive(c)
     \/ c.kind = "restore"  /\ RestoreArrives(c)
     \/ c.kind = "scope"    /\ ScopeArrives(c)
     \/ c.kind = "all"      /\ AllArrives(c)
     \/ c.kind = "open"     /\ OpenArrives(c)
     \/ c.kind = "create"   /\ CreateArrives(c)
  /\ UNCHANGED <<turns, scopes, budget>>

(* No answer: before the server saw the request, or after it handled it.   *)
CallFails(c) ==
  /\ budget.failures > 0
  /\ budget' = [budget EXCEPT !.failures = @ - 1]
  /\ LET here == Without(c) IN
     tab' = CASE c.kind = "sessions" -> here
              [] c.kind = "messages" -> IF IsCurrent(c)
                   THEN Restore(Release([here EXCEPT !.error = TRUE, !.loading = FALSE], c))
                   ELSE Release(here, c)
              [] c.kind = "restore" -> IF IsCurrent(c) THEN [here EXCEPT !.error = TRUE]
                                       ELSE here
              [] c.kind = "scope" -> IF tab.session = c.session
                   THEN [here EXCEPT !.saving = FALSE, !.scope = c.before, !.failed = TRUE]
                   ELSE [here EXCEPT !.saving = FALSE]
              [] c.kind = "all" -> [here EXCEPT !.saving = FALSE, !.failed = @ \/ c.fresh]
              [] c.kind = "open" -> IF tab.base = c.base
                   THEN [here EXCEPT !.submitting = FALSE, !.failed = TRUE] ELSE here
              [] c.kind = "create" -> Submitted([here EXCEPT !.failed =
                   @ \/ StillAsked(c) \/ (c.base # None /\ tab.base = c.base)], c)
  /\ UNCHANGED <<turns, scopes>>

-----------------------------------------------------------------------------
(* Following the current run: the event stream, and polling once it has    *)
(* failed, beside the stream it reopens a few times.                       *)

Watched == [session |-> tab.current.session, turn |-> tab.current.turn, done |-> TRUE]

TerminalKnown == /\ tab.current # None
                 /\ turns[tab.current.session][tab.current.turn].done

StreamSettles ==
  /\ tab.stream \in {"events", "both"}
  /\ TerminalKnown
  /\ tab' = FollowRun(tab, Watched)
  /\ UNCHANGED <<turns, scopes, budget>>

(* An error, the end of the stream, or a settlement that could not be read. *)
StreamBreaks ==
  /\ tab.stream \in {"events", "both"}
  /\ tab' = [tab EXCEPT !.stream = "polling"]
  /\ UNCHANGED <<turns, scopes, budget>>

Reconnect ==
  /\ tab.stream = "polling"
  /\ tab.tries < Reconnects
  /\ tab' = [tab EXCEPT !.stream = "both", !.tries = @ + 1]
  /\ UNCHANGED <<turns, scopes, budget>>

PollsForever == FALSE                                                 \* mutant
PollSeesTheEnd == TerminalKnown
Poll ==
  /\ tab.stream \in {"polling", "both"}
  /\ PollSeesTheEnd
  /\ tab' = FollowRun(tab, Watched)
  /\ UNCHANGED <<turns, scopes, budget>>

-----------------------------------------------------------------------------
ClientNext ==
  \/ /\ Cardinality(tab.calls) < MaxCalls
     /\ \/ \E b \in Bases : ChooseKnowledgeBase(b) \/ MoveKnowledgeBase(b)
        \/ \E k \in tab.known : ChooseSession(k)
        \/ BeginNewConversation
        \/ \E S \in SUBSET Bases : ChangeScope(S)
        \/ SelectAllScopes
        \/ LoadEarlier
        \/ RetryMessages
        \/ RetrySessions
        \/ Submit
        \/ RetryRun
        \/ ChangeOptions
  \/ \E c \in tab.calls : Serve(c) \/ Arrive(c) \/ CallFails(c)
  \/ \E s \in Sessions : Decide(s)
  \/ StreamSettles
  \/ StreamBreaks
  \/ Reconnect
  \/ Poll

(* The server handles what reaches it, the network answers unless it       *)
(* fails, the lane decides every turn (module ChatRuns), and the browser's *)
(* timers and event stream go on.                                          *)
ClientFairness ==
  /\ WF_clientVars(\E c \in tab.calls : Serve(c) \/ Arrive(c))
  /\ \A s \in Sessions : WF_clientVars(Decide(s))
  /\ WF_clientVars(StreamSettles)
  /\ WF_clientVars(Poll)

ClientSpec == ClientInit /\ [][ClientNext]_clientVars /\ ClientFairness

-----------------------------------------------------------------------------
(* The page shows turns of the session it names and of no other, and what  *)
(* it has shown as decided it does not show as generating again, whichever *)
(* of several loads is answered last.                                      *)
ViewFollowsTheSession ==
  [][/\ \A m \in tab'.shown : m.session = tab'.session
     /\ tab'.current # None => tab'.current.session = tab'.session
     /\ tab'.session = tab.session =>
          \A m \in tab.shown : m.done =>
            ~\E n \in tab'.shown : n.turn = m.turn /\ ~n.done]_clientVars

AnswerShown(s, n) ==
  \/ [session |-> s, turn |-> n, done |-> TRUE] \in tab.shown
  \/ tab.session # s
  \/ tab.error
  \/ tab.more # 0

(* A run the page follows is shown with its answer once it is decided,     *)
(* whatever becomes of the event stream: or the user has left, the page    *)
(* names an error, or there are further pages to load.                     *)
AnswersAreShown ==
  \A s \in Sessions, n \in 1 .. MaxQuestions :
    (tab.current # None /\ tab.current.session = s /\ tab.current.turn = n)
      ~> AnswerShown(s, n)
=============================================================================
