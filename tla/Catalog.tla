------------------------------ MODULE Catalog ------------------------------
(***************************************************************************)
(* Creating, renaming and deleting knowledge bases: transactions under     *)
(* READ COMMITTED that take an advisory lock per idempotency key, answer a *)
(* repeated request from its record, select the models of a new base, and  *)
(* meet at the foundation lock, the row locks and the unique live name.    *)
(*                                                                         *)
(* A call is one request.  It may be repeated with its key at any time, as *)
(* after a lost reply; a crash rolls its transaction back.                 *)
(***************************************************************************)
EXTENDS FiniteSets, Naturals

CONSTANTS Calls,      \* concurrent requests
          Tickets,    \* idempotency keys
          Bases,      \* knowledge bases that can come to exist (a bound)
          Names,      \* their names
          TextModels, \* profile revisions of kind text_embedding
          DualModels, \* profile revisions of kind multimodal_embedding
          PrintOf,    \* the compatibility fingerprint of a profile revision
          Fragile,    \* the revisions that can become unusable (a bound)
          Wanted,     \* the keys and requests that are sent (a bound)
          NoBase

ASSUME CatalogConstants ==
  /\ NoBase \notin Bases /\ TextModels \cap DualModels = {}
  /\ DOMAIN PrintOf = TextModels \cup DualModels

VARIABLES
  bases,    \* per base its state, name and spaces (fingerprints) per role
  records,  \* per operation and key the recorded request and base
  spaces,   \* per fingerprint the profile revision it was created for
  settings, \* the selected revision per kind, and the unusable revisions
  calls,    \* per call its step, key, request and selected models
  reply     \* what the last step answered, to which call

catalogVars == <<bases, records, spaces, settings, calls, reply>>

None   == "none"
Models == TextModels \cup DualModels
Prints == {PrintOf[m] : m \in Models}
Roles  == {"text_retrieval", "cross_modal_retrieval"}
Kinds  == {"text", "multimodal"}
OfKind(kind) == CASE kind = "text" -> TextModels
                  [] kind = "multimodal" -> DualModels
                  [] OTHER -> {}

Strategies == {"text_only", "dual_space", "unified_multimodal"}
(* The kind of model a strategy needs for a role.                          *)
KindOf(strategy, role) ==
  CASE strategy = "text_only"  -> IF role = "text_retrieval" THEN "text" ELSE None
    [] strategy = "dual_space" -> IF role = "text_retrieval" THEN "text" ELSE "multimodal"
    [] OTHER -> "multimodal"

(* A request; a create names the revision to use or leaves the selected.   *)
Request(op, base, name, strategy, model) ==
  [op |-> op, base |-> base, name |-> name, strategy |-> strategy, model |-> model]
Needs(strategy, m) == m = None \/ \E r \in Roles : m \in OfKind(KindOf(strategy, r))
CreateRequests == {Request("create", NoBase, n, s, m) :
                     n \in Names, s \in Strategies, m \in Models \cup {None}}
RenameRequests == {Request("update", b, n, None, None) : b \in Bases, n \in Names}
DeleteRequests == {Request("delete", b, None, None, None) : b \in Bases}
NoRequest == Request(None, NoBase, None, None, None)
Requests == {q \in CreateRequests : Needs(q.strategy, q.model)}
            \cup RenameRequests \cup DeleteRequests

ASSUME CatalogBounds ==
  /\ Wanted \subseteq Tickets \X Requests /\ Fragile \subseteq Models
  /\ None \notin Models

Scopes  == {"create", "update", "delete"} \X Tickets
ScopeOf(c) == <<calls[c].ask.op, calls[c].key>>
NoModels   == [r \in Roles |-> None]

Working(c) == calls[c].step \notin {"asked", "done"}

-----------------------------------------------------------------------------
(* The answer of a call; its transaction, and with it its locks, is over.  *)
CallOver == [step |-> "done", key |-> None, ask |-> NoRequest, models |-> NoModels]
NoReply == [outcome |-> None, base |-> NoBase]
Answer(c, outcome, b) ==
  /\ calls' = [calls EXCEPT ![c] = CallOver]
  /\ reply' = [outcome |-> outcome, base |-> b]
Proceed(c, step) == calls' = [calls EXCEPT ![c].step = step] /\ reply' = NoReply

Live(b) == bases[b].state = "live"
NameTaken(n, but) == \E b \in Bases \ {but} : Live(b) /\ bases[b].name = n

Asks(c, key, ask) ==
  /\ calls[c].step = "done"
  /\ ask.base # NoBase => bases[ask.base].state # "unborn"
  /\ calls' = [calls EXCEPT ![c] =
       [step |-> "asked", key |-> key, ask |-> ask, models |-> NoModels]]
  /\ reply' = NoReply
  /\ UNCHANGED <<bases, records, spaces, settings>>

NoScopeIsFree(c) == TRUE                                              \* mutant
(* lock: an advisory lock on the scope until the transaction ends.         *)
ScopeIsFree(c) == \A d \in Calls \ {c} : Working(d) => ScopeOf(d) # ScopeOf(c)

(* lock, get: a recorded request is answered with its base, which a create *)
(* or an update must still find and a delete finds deleted.                *)
Begins(c) ==
  /\ calls[c].step = "asked" /\ ScopeIsFree(c)
  /\ LET record == records[ScopeOf(c)] IN
     IF record.base = NoBase
     THEN Proceed(c, IF calls[c].ask.op = "create" THEN "select" ELSE "row")
     ELSE IF record.ask # calls[c].ask THEN Answer(c, "reused", NoBase)
     ELSE IF Live(record.base) \/ calls[c].ask.op = "delete"
     THEN Answer(c, "replayed", record.base)
     ELSE Answer(c, "missing", NoBase)
  /\ UNCHANGED <<bases, records, spaces, settings>>

(* _selected_embedding_space: the revision asked for or selected, of the   *)
(* kind the role needs and usable.                                         *)
ModelFor(ask, role) ==
  LET kind == KindOf(ask.strategy, role)
  IN  CASE kind = None -> None
        [] ask.model \in OfKind(kind) -> ask.model
        [] OTHER -> settings.selected[kind]
Usable(m) == m \in Models /\ m \notin settings.unusable
SelectsModels(c) ==
  /\ calls[c].step = "select"
  /\ LET ask == calls[c].ask
         models == [r \in Roles |-> ModelFor(ask, r)]
     IN  IF \A r \in Roles : KindOf(ask.strategy, r) # None => Usable(models[r])
         THEN /\ calls' = [calls EXCEPT ![c].step = "found", ![c].models = models]
              /\ reply' = NoReply
         ELSE Answer(c, "unavailable", NoBase)
  /\ UNCHANGED <<bases, records, spaces, settings>>

FoundationIsFree(c) ==
  \A d \in Calls \ {c} : ~(calls[d].ask.op = "create" /\ calls[d].step \in {"name", "commit"})

AnyPrintMatches(m) == TRUE                                            \* mutant
(* _find_or_create_embedding, _embedding_matches: an existing space must   *)
(* have been created for this revision.                                    *)
Matches(m) == spaces[PrintOf[m]] \in {None, m}

(* The space of one role may be created by the search for the other.       *)
SpacesFit(models) ==
  \A r, q \in Roles : models[r] # None /\ models[q] # None =>
    /\ Matches(models[r])
    /\ spaces[PrintOf[models[r]]] = None /\ PrintOf[models[r]] = PrintOf[models[q]]
         => models[r] = models[q]

(* create: the foundation lock, the spaces, the check for a live name.     *)
Founds(c) ==
  /\ calls[c].step = "found" /\ FoundationIsFree(c)
  /\ IF ~SpacesFit(calls[c].models) THEN Answer(c, "mismatch", NoBase)
     ELSE IF NameTaken(calls[c].ask.name, NoBase) THEN Answer(c, "conflict", NoBase)
     ELSE Proceed(c, "name")
  /\ UNCHANGED <<bases, records, spaces, settings>>

RowIsFree(c) ==
  \A d \in Calls \ {c} : ~(/\ calls[d].ask.base = calls[c].ask.base
                           /\ calls[d].step \in {"name", "commit"})
(* update, soft_delete: the row lock; an update finds live bases only and  *)
(* checks the new name without the foundation lock.                        *)
LocksRow(c) ==
  /\ calls[c].step = "row" /\ RowIsFree(c)
  /\ LET ask == calls[c].ask IN
     IF ask.op = "delete" THEN Proceed(c, "commit")
     ELSE IF ~Live(ask.base) THEN Answer(c, "missing", NoBase)
     ELSE IF bases[ask.base].name = ask.name THEN Proceed(c, "commit")
     ELSE IF NameTaken(ask.name, ask.base) THEN Answer(c, "conflict", NoBase)
     ELSE Proceed(c, "name")
  /\ UNCHANGED <<bases, records, spaces, settings>>

(* The partial unique index of live names: a write waits for an            *)
(* uncommitted one that takes or gives up the name, then fails if taken.   *)
InDoubt(c, n) ==
  \E d \in Calls \ {c} :
    /\ calls[d].step = "commit"
    /\ \/ calls[d].ask.name = n
       \/ calls[d].ask.op # "create" /\ bases[calls[d].ask.base].name = n
WritesName(c) ==
  LET ask == calls[c].ask IN
  /\ calls[c].step = "name" /\ ~InDoubt(c, ask.name)
  /\ IF NameTaken(ask.name, ask.base) THEN Answer(c, "error", NoBase)
     ELSE Proceed(c, "commit")
  /\ UNCHANGED <<bases, records, spaces, settings>>

(* What the transaction leaves: the base, its spaces, the record.          *)
Made(c) == [state |-> "live", name |-> calls[c].ask.name,
            prints |-> [r \in Roles |-> IF calls[c].models[r] = None THEN None
                                        ELSE PrintOf[calls[c].models[r]]]]
Changed(c) ==
  LET old == bases[calls[c].ask.base]
  IN  IF calls[c].ask.op = "update" THEN [old EXCEPT !.name = calls[c].ask.name]
      ELSE [old EXCEPT !.state = "deleted"]
WithSpaces(c) ==
  [p \in Prints |->
     IF spaces[p] = None /\ \E r \in Roles : calls[c].models[r] # None
                                             /\ PrintOf[calls[c].models[r]] = p
     THEN CHOOSE m \in Models : PrintOf[m] = p /\ \E r \in Roles : calls[c].models[r] = m
     ELSE spaces[p]]

(* The operation and key of a record are unique.                           *)
Commits(c) ==
  /\ calls[c].step = "commit"
  /\ \/ /\ records[ScopeOf(c)].base # NoBase
        /\ Answer(c, "error", NoBase)
        /\ UNCHANGED <<bases, records, spaces>>
     \/ /\ records[ScopeOf(c)].base = NoBase
        /\ \E b \in Bases :
             /\ IF calls[c].ask.op = "create" THEN bases[b].state = "unborn"
                ELSE b = calls[c].ask.base
             /\ bases' = [bases EXCEPT ![b] = IF calls[c].ask.op = "create" THEN Made(c)
                                              ELSE Changed(c)]
             /\ records' = [records EXCEPT ![ScopeOf(c)] = [ask |-> calls[c].ask, base |-> b]]
             /\ Answer(c, "ok", b)
        /\ spaces' = WithSpaces(c)
  /\ UNCHANGED settings

(* The connection or the process is lost: the transaction is rolled back.  *)
Crashes(c) ==
  /\ Working(c) /\ Answer(c, "lost", NoBase)
  /\ UNCHANGED <<bases, records, spaces, settings>>

(* The settings meanwhile: another revision is selected, one is disabled.  *)
SettingsChange ==
  /\ \/ \E kind \in Kinds : \E m \in OfKind(kind) :
          settings' = [settings EXCEPT !.selected[kind] = m]
     \/ \E m \in Fragile : settings' = [settings EXCEPT !.unusable = @ \cup {m}]
  /\ reply' = NoReply
  /\ UNCHANGED <<bases, records, spaces, calls>>

-----------------------------------------------------------------------------
CatalogInit ==
  /\ bases = [b \in Bases |-> [state |-> "unborn", name |-> None, prints |-> NoModels]]
  /\ records = [s \in Scopes |-> [ask |-> NoRequest, base |-> NoBase]]
  /\ spaces = [p \in Prints |-> None]
  /\ settings \in [selected : [Kinds -> Models], unusable : {{}}]
  /\ \A kind \in Kinds : settings.selected[kind] \in OfKind(kind)
  /\ calls = [c \in Calls |-> CallOver]
  /\ reply = NoReply

Takes(c) ==
  \/ \E want \in Wanted : Asks(c, want[1], want[2])
  \/ Begins(c) \/ SelectsModels(c) \/ Founds(c) \/ LocksRow(c) \/ WritesName(c)
  \/ Commits(c) \/ Crashes(c)

CatalogNext == SettingsChange \/ \E c \in Calls : Takes(c)

CatalogSpec == CatalogInit /\ [][CatalogNext]_catalogVars

-----------------------------------------------------------------------------
(* A request is carried out once for its key: its record stands, every     *)
(* later call of the key is answered from it, and none is refused because  *)
(* of what an earlier call of its own key has done (the scope lock of the  *)
(* mutations, the records; services/content.py).                           *)
Ends(c) == calls[c].step # "done" /\ calls'[c].step = "done"
AnsweredFrom(c, record) ==
  \/ reply'.outcome = "replayed" /\ reply'.base = record.base
  \/ reply'.outcome = "missing" /\ ~Live(record.base)
  \/ reply'.outcome = "lost"
UsesItsModels(c) ==
  \A r \in Roles : calls[c].models[r] # None =>
    spaces'[bases'[reply'.base].prints[r]] = calls[c].models[r]

KeysMakeOneBase ==
  [][/\ \A scope \in Scopes : records[scope].base # NoBase => records'[scope] = records[scope]
     /\ \A c \in Calls : Ends(c) =>
          LET record == records[ScopeOf(c)]
          IN  /\ record.base # NoBase /\ record.ask = calls[c].ask => AnsweredFrom(c, record)
              /\ reply'.outcome = "ok" =>
                   /\ records'[ScopeOf(c)] = [ask |-> calls[c].ask, base |-> reply'.base]
                   /\ calls[c].ask.op = "create" => UsesItsModels(c)]_catalogVars
=============================================================================
