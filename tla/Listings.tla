------------------------------ MODULE Listings ------------------------------
(***************************************************************************)
(* The listings of the API: a reader pages through rows in the order of a  *)
(* sort value and an id, each page asking for what follows the last row of *)
(* the page before (limit + 1 rows, a cursor of value and id), while rows  *)
(* appear, disappear and change their sort value.                          *)
(*                                                                         *)
(* A listing is the sorts it offers, whether its rows can vanish together  *)
(* with what holds them, and how its sort values may change.               *)
(***************************************************************************)
EXTENDS FiniteSets, Naturals, Sequences

CONSTANTS Ids,       \* identities: numbers, in the order of the ids
          MaxValue,  \* sort values are 0 .. MaxValue
          Limit,     \* rows of one page
          MaxEvents  \* bound: things that happen to the rows

ASSUME ListingConstants ==
  /\ Ids \subseteq Nat /\ IsFiniteSet(Ids) /\ MaxValue \in Nat /\ MaxEvents \in Nat
  /\ Limit \in Nat \ {0}

VARIABLES
  listing,  \* the listing and the sort that is read
  entries,  \* per id whether it is "new", "listed" or "gone", and its value
  walk      \* the reader: the cursor, what it saw, the steady rows, over

listVars == <<listing, entries, walk>>

Sorts(fields) == {[field |-> f, down |-> d] : f \in fields, d \in BOOLEAN}
Listing(sorts, together) == [sort : sorts, together : {together}]

KnowledgeBaseList == Listing(Sorts({"created_at", "name"}), FALSE)
DocumentList      == Listing(Sorts({"created_at", "display_name"}), TRUE)
JobList           == Listing({[field |-> "created_at", down |-> TRUE]}, TRUE)
SessionList       == Listing(Sorts({"created_at", "updated_at"}), FALSE)
MessageList       == Listing(Sorts({"created_at"}), FALSE)
ChunkList         == Listing({[field |-> "ordinal", down |-> FALSE]}, TRUE)
(* The directory a model reads: the served documents by their id alone.    *)
ServingDocuments  == Listing({[field |-> "id", down |-> FALSE]}, TRUE)

AllListings == UNION {KnowledgeBaseList, DocumentList, JobList, SessionList,
                      MessageList, ChunkList, ServingDocuments}

(* Names are changed; updated_at is the start of the last transaction.     *)
MayBecome(old) ==
  IF listing.sort.field \in {"name", "display_name", "updated_at"}
  THEN (0 .. MaxValue) \ {old} ELSE {}

(* Chunk ordinals differ, ids tell served documents apart.                 *)
FreeValues(i) ==
  CASE listing.sort.field = "ordinal" ->
         (0 .. MaxValue) \ {entries[j].value : j \in {k \in Ids : entries[k].state = "listed"}}
    [] listing.sort.field = "id" -> {0}
    [] OTHER -> 0 .. MaxValue

Listed == {i \in Ids : entries[i].state = "listed"}

-----------------------------------------------------------------------------
Position(i) == [value |-> entries[i].value, id |-> i]
AtStart == [value |-> 0, id |-> 0, none |-> TRUE]

Precedes(p, q) ==
  LET less(a, b) == IF listing.sort.down THEN a > b ELSE a < b
  IN  less(p.value, q.value) \/ (p.value = q.value /\ less(p.id, q.id))

FollowsByValue(p, c) ==                                               \* mutant
  c.none \/ (IF listing.sort.down THEN p.value < c.value ELSE p.value > c.value)
(* _with_after: the rows behind the cursor.                                *)
Follows(p, c) == c.none \/ Precedes([value |-> c.value, id |-> c.id], p)

(* The page behind the cursor: the first rows there, in their order, as    *)
(* many as fit; limit + 1 rows tell whether there are more.                *)
Behind(c)  == {i \in Listed : Follows(Position(i), c)}
HasMore(c) == Cardinality(Behind(c)) > Limit
InOrder(page) ==
  \A m, n \in DOMAIN page : m < n => Precedes(Position(page[m]), Position(page[n]))
PageBehind(page, c) ==
  /\ InOrder(page)
  /\ \A n \in DOMAIN page : \A i \in Behind(c) :
       (\A m \in DOMAIN page : page[m] # i) => Precedes(Position(page[n]), Position(i))

(* The cursor names the last row as it was listed.                         *)
CursorOf(page) ==
  LET last == Position(page[Len(page)])
  IN  [value |-> last.value, id |-> last.id, none |-> FALSE]

ReadPage ==
  /\ ~walk.over
  /\ LET more == HasMore(walk.after)
         size == IF more THEN Limit ELSE Cardinality(Behind(walk.after))
     IN  \E page \in [1 .. size -> Behind(walk.after)] :
           /\ PageBehind(page, walk.after)
           /\ walk' = [walk EXCEPT !.seen  = @ \o [n \in 1 .. size |-> Position(page[n])],
                                   !.after = IF more THEN CursorOf(page) ELSE @,
                                   !.over  = ~more]
  /\ UNCHANGED <<listing, entries>>

-----------------------------------------------------------------------------
(* What others do meanwhile.  A row that began before another may appear   *)
(* after it with an earlier created_at.                                    *)

Disturb(S) == walk' = [walk EXCEPT !.steady = @ \ S, !.events = @ + 1]
Event == walk.events < MaxEvents /\ ~walk.over /\ UNCHANGED listing

Appears(i) ==
  /\ Event /\ entries[i].state = "new"
  /\ \E v \in FreeValues(i) : entries' = [entries EXCEPT ![i] = [state |-> "listed", value |-> v]]
  /\ Disturb({})

Leaves(S) ==
  /\ Event /\ S # {} /\ S \subseteq Listed
  /\ Cardinality(S) = 1 \/ (listing.together /\ S = Listed)
  /\ entries' = [i \in Ids |-> IF i \in S THEN [entries[i] EXCEPT !.state = "gone"] ELSE entries[i]]
  /\ Disturb(S)

Changes(i) ==
  /\ Event /\ i \in Listed
  /\ \E v \in MayBecome(entries[i].value) : entries' = [entries EXCEPT ![i].value = v]
  /\ Disturb({i})

NewWalk == [after |-> AtStart, seen |-> <<>>, steady |-> Listed,
            over |-> FALSE, events |-> 0]

ListInit ==
  /\ listing \in AllListings
  /\ entries \in [Ids -> [state : {"new", "listed"}, value : 0 .. MaxValue]]
  /\ \A i \in Ids :
       /\ entries[i].state = "new" => entries[i].value = 0
       /\ listing.sort.field = "id" => entries[i].value = 0
       /\ listing.sort.field = "ordinal" =>
            \A j \in Listed \ {i} : i \in Listed => entries[i].value # entries[j].value
  /\ walk = NewWalk

ListNext == ReadPage \/ (\E i \in Ids : Appears(i) \/ Changes(i))
            \/ \E S \in SUBSET Ids : Leaves(S)

ListSpec == ListInit /\ [][ListNext]_listVars

-----------------------------------------------------------------------------
(* A reader that reaches the last page has seen every row that stayed as   *)
(* it was, in the listing's order; no row twice unless it was changed      *)
(* (the keyset cursors of the repositories and routers).                   *)
ListingsAreFaithful ==
  /\ walk.over => \A i \in walk.steady : \E n \in DOMAIN walk.seen : walk.seen[n].id = i
  /\ \A m, n \in DOMAIN walk.seen : m < n =>
       /\ Precedes(walk.seen[m], walk.seen[n])
       /\ walk.seen[m].id = walk.seen[n].id => walk.seen[m].value # walk.seen[n].value
=============================================================================
