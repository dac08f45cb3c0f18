------------------------------ MODULE Searches ------------------------------
(***************************************************************************)
(* Retrieval over an index that changes meanwhile.  A search is a sequence *)
(* of statements, each of which sees the committed rows of its own moment: *)
(* dense, lexical and cross-modal lanes that run side by side, the wider   *)
(* read and the neighbours of table context, hydration of relations and of *)
(* graph paths, and the neighbours of chunks that an earlier search found. *)
(*                                                                         *)
(* SearchIndex is the environment for one document whose versions replace  *)
(* each other; the chunks at Fixed belong to documents that do not change. *)
(* The active revision of a knowledge base is set once, when it is made.   *)
(* Scores are orders here: module Ranking has the algorithms.              *)
(***************************************************************************)
EXTENDS SearchIndex, Integers, FiniteSets

CONSTANTS Rows,
          Home,        \* the version that a chunk belongs to, or Fixed
          Fixed,
          Ordinal,     \* the place of a chunk in its version
          KindOf,    \* "text", "table" or "image"
          Place,       \* per pool: the place of a chunk in the order of
                       \* the pool, 0 for one it never returns
          Near,        \* chunks that pass the cosine gate of their space
          Linked,   \* strong relations <<chunk, visual unit>>
          Manifested,  \* versions whose lexical manifest is whole
          Paths,       \* paths of the external graph: hops, each the set of
                       \* chunks whose episodes support it
          Mapped,      \* chunks that the served build has mapped
          Excludable,  \* chunks that a user may exclude
          LaneLimit,  \* candidates of a lane
          AskedLimit, \* auto_qa_candidate_count
          AnchorLimit, \* SOURCE_CONTEXT_ANCHOR_LIMIT
          PackLimit

(* The lanes of a search; the dense one also returns chunks one of whose   *)
(* generated questions is near.                                            *)
Lanes == {"dense", "lexical", "cross"}
Pools == Lanes \cup {"asked"}

ASSUME SearchConstants ==
  /\ Fixed \notin Versions /\ Home \in [Rows -> Versions \cup {Fixed}]
  /\ Ordinal \in [Rows -> Nat]
  /\ KindOf \in [Rows -> {"text", "table", "image"}]
  /\ Place \in [Pools -> [Rows -> Nat]]
  /\ Near \subseteq Rows /\ Linked \subseteq Rows \X Rows
  /\ \A r \in Linked : Home[r[1]] = Home[r[2]]
  /\ Manifested \subseteq Versions \cup {Fixed}
  /\ Mapped \subseteq Rows /\ Excludable \subseteq Rows
  /\ LaneLimit \in Nat \ {0} /\ PackLimit \in Nat \ {0}
  /\ AnchorLimit \in Nat /\ AnchorLimit >= LaneLimit
  /\ AskedLimit \in Nat

VARIABLES
  present,   \* the knowledge base is not deleted
  excluded,  \* chunks with excluded_at
  cross,     \* frozen: the active revision binds a cross-modal space
  mode,      \* a strategy, "relations", "context" or "none"
  pc,        \* where it stands
  todo,      \* lanes that have not answered
  found,     \* per pool: its hits
  anchors,   \* structural anchors of the wider read, or of read_chunk_context
  context,   \* table context
  related,   \* hydrated relations
  pack,      \* the evidence of the last search that succeeded
  moments    \* history variable: what was eligible while the search ran

searchVars == <<mode, pc, todo, found, anchors, context, related, pack>>
vars == <<published, newest, shown, withdrawn, present, excluded, cross,
          mode, pc, todo, found, anchors, context, related, pack, moments>>

Strategies == {"vector", "reranked", "hybrid", "keyword", "graph"}

-----------------------------------------------------------------------------
(* What a statement sees: served, not excluded, of a live knowledge base.  *)

Serving  == (IF present THEN shown \cup {Fixed} ELSE {})
Eligible == {c \in Rows \ excluded : Home[c] \in Serving}

(* ORDER BY ... LIMIT n over the eligible rows of a lane.                  *)
Listed(l) == {c \in Eligible : Place[l][c] > 0}
Top(l, n) == {c \in Listed(l) :
                Cardinality({d \in Listed(l) : Place[l][d] < Place[l][c]}) < n}

NoHits == [l \in Pools |-> {}]
Hits   == UNION {found[l] : l \in Pools}

SearchInit ==
  /\ IndexInit
  /\ present = TRUE /\ excluded = {} /\ cross \in BOOLEAN
  /\ mode = "none" /\ pc = "idle" /\ todo = {} /\ found = NoHits
  /\ anchors = {} /\ context = {} /\ related = {} /\ pack = {} /\ moments = {}

Running == pc \notin {"idle", "done"}

(* The committed changes of other transactions.                            *)
Watched == moments' = IF Running THEN moments \cup {Eligible'} ELSE moments

Replace == /\ IndexNext
           /\ UNCHANGED <<searchVars, present, excluded, cross>>
           /\ Watched

ExcludeChunk(c) == /\ excluded' = excluded \cup {c}
                   /\ UNCHANGED <<indexVars, searchVars, present, cross>>
                   /\ Watched

DeleteKnowledgeBase == /\ present' = FALSE
                       /\ UNCHANGED <<indexVars, searchVars, excluded, cross>>
                       /\ Watched

Elsewhere == \/ Replace
             \/ \E c \in Excludable : ExcludeChunk(c)
             \/ DeleteKnowledgeBase

-----------------------------------------------------------------------------
(* Control of a search.                                                    *)

Still == UNCHANGED <<indexVars, present, excluded, cross>>

(* The vector lanes whose role has a space; resolving them is a statement  *)
(* of its own.                                                             *)
Spaces == {"dense"} \cup (IF cross THEN {"cross"} ELSE {})

LanesOf(m) ==
  CASE m \in {"hybrid", "graph"}    -> Spaces \cup {"lexical"}
    [] m \in {"vector", "reranked"} -> Spaces
    [] m = "keyword"                -> {"lexical"}
    [] OTHER                        -> {}

Started(m, step) ==
  /\ pc \in {"idle", "done"} /\ present
  /\ mode' = m /\ todo' = LanesOf(m) /\ pc' = step
  /\ found' = NoHits /\ anchors' = {} /\ context' = {} /\ related' = {}
  /\ pack' = {}
  /\ moments' = {Eligible}
  /\ Still

Begin(m) == Started(m, "lanes")

(* A search of the graph alone reads the configuration and the build.      *)
BeginRelations == Started("relations", "paths")

(* An error, a deadline: nothing is answered.                              *)
Failed ==
  /\ mode' = "none" /\ pc' = "idle" /\ todo' = {} /\ found' = NoHits
  /\ anchors' = {} /\ context' = {} /\ related' = {} /\ pack' = {}
  /\ moments' = {}
  /\ Still

Fail == Running /\ Failed

Reach(step) == /\ pc' = step
              /\ UNCHANGED <<mode, todo, found, anchors, context, related, pack,
                             moments>>
              /\ Still

Answer(evidence) ==
  /\ pack' = evidence /\ pc' = "done" /\ found' = NoHits
  /\ context' = {} /\ related' = {}
  /\ UNCHANGED <<mode, todo, anchors, moments>> /\ Still

(* The ranked list, cut to top_k.                                          *)
Ranked(S) ==
  {T \in SUBSET S : Cardinality(T) = IF Cardinality(S) < PackLimit
                                     THEN Cardinality(S) ELSE PackLimit}

-----------------------------------------------------------------------------
(* The lanes: one statement each, in any order.                            *)

(* _validate_manifests: every served version has a whole manifest.         *)
Whole == Serving \subseteq Manifested

(* The chunks of the nearest generated questions, of the same statement.   *)
Hints == Top("asked", AskedLimit)
Results(l) == [found EXCEPT ![l] = Top(l, LaneLimit),
                            !["asked"] = IF l = "dense" THEN Hints ELSE @]

Collect(l) ==
  /\ found' = Results(l)
  /\ todo' = todo \ {l}
  /\ UNCHANGED <<mode, pc, anchors, context, related, pack, moments>>
  /\ Still

VectorLane(l) ==
  /\ pc = "lanes" /\ l \in todo
  /\ IF present THEN Collect(l) ELSE Failed

LexicalLane ==
  /\ pc = "lanes" /\ "lexical" \in todo
  /\ IF present /\ Whole THEN Collect("lexical") ELSE Failed

(* A question is a hint: only the model that scores the text itself takes  *)
(* a chunk for it.                                                         *)
Admitted == ((found["dense"] \cup found["cross"]) \cap Near)
              \cup found["lexical"]
              \cup (IF mode = "reranked" THEN found["asked"] ELSE {})

Gathered == /\ pc = "lanes" /\ todo = {}
            /\ CASE mode = "vector" /\ ~cross -> Reach("wider")
                 [] mode = "keyword" \/ (mode = "reranked" /\ ~cross) ->
                      \E T \in Ranked(Admitted) : Answer(T)
                 [] OTHER -> Reach("hydrate")

-----------------------------------------------------------------------------
(* Table context of an exact search in the text space.                     *)

(* A second read must find the same core before what it adds is used.      *)
AnyCore  == TRUE                                                \* mutant
SameCore == Top("dense", Cardinality(found["dense"])) = found["dense"]

WiderRead ==
  /\ pc = "wider"
  /\ LET structural == {c \in Top("dense", AnchorLimit) \cap Near :
                           KindOf[c] # "image"}
     IN  CASE found["dense"] = {} \/ found["asked"] # {} -> Reach("rank")
           [] found["dense"] # {} /\ found["asked"] = {}
                /\ (~present \/ ~SameCore) -> Failed
           [] OTHER -> /\ anchors' = structural
                       /\ pc' = IF structural = {} THEN "rank" ELSE "beside"
                       /\ UNCHANGED <<mode, todo, found, context, related, pack,
                                      moments>>
                       /\ Still

Beside(a, c) ==
  /\ Home[a] = Home[c] /\ KindOf[c] # "image"
  /\ Ordinal[a] \in {Ordinal[c] + 1, Ordinal[c] - 1}

(* The rows of the adjacency statement; it validates every anchor.         *)
LiveAnchors == anchors \cap Eligible
Neighbours  == {c \in Eligible : \E a \in LiveAnchors : Beside(a, c)}
Validated   == LiveAnchors = anchors

SourceNeighbours ==
  /\ pc = "beside"
  /\ IF ~present \/ ~Validated THEN Failed
     ELSE /\ context' = {c \in Neighbours \ found["dense"] :
                           KindOf[c] = "table"}
          /\ pc' = "rank"
          /\ UNCHANGED <<mode, todo, found, anchors, related, pack, moments>>
          /\ Still

(* rank_with_source_context, or the plain order.                           *)
Rank == /\ pc = "rank"
        /\ \E T \in Ranked(Admitted \cup context) : Answer(T)

-----------------------------------------------------------------------------
(* Composite evidence: a hit on a visual unit stands for its chunk.        *)

Related ==
  {r \in Linked : /\ {r[1], r[2]} \subseteq Eligible
                     /\ {r[1], r[2]} \cap Hits # {}}

Hydrate ==
  /\ pc = "hydrate"
  /\ related' = Related
  /\ pc' = "fuse"
  /\ UNCHANGED <<mode, todo, found, anchors, context, pack, moments>> /\ Still

(* The parent of a hit in its evidence group, and the visuals around it.   *)
Bases(h) == LET parents == {r[1] : r \in {s \in related : s[2] = h}}
            IN  IF parents = {} THEN {h} ELSE parents
Visuals(S) == {r[2] : r \in {s \in related : s[1] \in S}}

Composite(S) == S \cup Visuals(S)

Fuse ==
  /\ pc = "fuse" /\ mode # "graph"
  /\ \E T \in Ranked(UNION {Bases(h) : h \in Admitted}) : Answer(Composite(T))

(* The hybrid evidence of a graph search is kept to fill up the paths.     *)
FuseSeeds ==
  /\ pc = "fuse" /\ mode = "graph"
  /\ \E T \in Ranked(UNION {Bases(h) : h \in Admitted}) :
       pack' = Composite(T)
  /\ pc' = "paths" /\ found' = NoHits /\ related' = {}
  /\ UNCHANGED <<mode, todo, anchors, context, moments>> /\ Still

-----------------------------------------------------------------------------
(* Graph paths: the external graph names episodes, the database says which *)
(* of their chunks are mapped and served; a path is kept whole or dropped. *)

Live == Mapped \cap Eligible

Sources(p) ==
  {{f[h] : h \in p} : f \in {g \in [p -> Live] : \A h \in p : g[h] \in h}}

(* The evidence of whole paths, within top_k.                              *)
PathPacks ==
  {UNION {pick[p] : p \in Paths} : pick \in
     {g \in [Paths -> {{}} \cup UNION {Sources(p) : p \in Paths}] :
        /\ \A p \in Paths : g[p] \in {{}} \cup Sources(p)
        /\ Cardinality(UNION {g[p] : p \in Paths}) <= PackLimit}}

(* _pack_graph_evidence: paths first, hybrid evidence fills up.            *)
ReadPaths ==
  /\ pc = "paths"
  /\ IF ~present THEN Failed
     ELSE \E S \in PathPacks : \E T \in SUBSET (pack \ S) :
            /\ mode = "relations" => T = {}
            /\ Answer(S \cup T)

-----------------------------------------------------------------------------
(* read_chunk_context: the neighbours of one or two chunks found before,   *)
(* whatever has changed since.                                             *)
ReadContext(asked) ==
  /\ pc = "done" /\ mode # "context"
  /\ asked # {} /\ Cardinality(asked) <= 2
  /\ \A c \in asked : KindOf[c] # "image"
  /\ mode' = "context" /\ anchors' = asked /\ pack' = {} /\ pc' = "context"
  /\ moments' = {Eligible}
  /\ UNCHANGED <<todo, found, context, related>> /\ Still

AdjacentChunks ==
  /\ pc = "context"
  /\ IF ~present \/ ~Validated THEN Failed ELSE Answer(Neighbours)

Search == \/ \E m \in Strategies : Begin(m)
          \/ BeginRelations
          \/ \E l \in {"dense", "cross"} : VectorLane(l)
          \/ LexicalLane
          \/ Gathered \/ WiderRead \/ SourceNeighbours \/ Rank
          \/ Hydrate \/ Fuse \/ FuseSeeds \/ ReadPaths
          \/ \E asked \in SUBSET pack : ReadContext(asked)
          \/ AdjacentChunks \/ Fail

SearchNext == Search \/ Elsewhere
SearchSpec == SearchInit /\ [][SearchNext]_vars

-----------------------------------------------------------------------------
(* Properties.                                                             *)

(* The state of a search and of the index around it has its types.         *)
SearchTypeOK ==
  /\ present \in BOOLEAN /\ excluded \subseteq Rows /\ cross \in BOOLEAN
  /\ mode \in Strategies \cup {"none", "relations", "context"}
  /\ pc \in {"idle", "lanes", "wider", "beside", "rank", "hydrate", "fuse",
             "paths", "context", "done"}
  /\ todo \subseteq Lanes /\ found \in [Pools -> SUBSET Rows]
  /\ anchors \subseteq Rows /\ context \subseteq Rows
  /\ related \subseteq Linked /\ pack \subseteq Rows

(* Whatever was replaced, excluded or deleted between the statements of a  *)
(* search, every chunk of its answer, whether hit, parent, visual, table   *)
(* context or path source, was served at some moment of that search.  An   *)
(* exact search in the text space with its three reads, a keyword search,  *)
(* a search of the graph alone and a read of chunk context answer as of    *)
(* one moment: the answer, with the chunks it was read around, was served  *)
(* at once, so that it never holds two versions of a document.             *)
EvidenceWasServed ==
  pc = "done" =>
    /\ pack \subseteq UNION moments
    /\ \/ mode = "vector" /\ ~cross
       \/ mode \in {"keyword", "relations", "context"}
       => \E M \in moments : anchors \cup pack \subseteq M

(* The architecture document says of hybrid retrieval that inconsistent    *)
(* results are not passed off as a success.                                *)
NoMixedVersions ==
  pc = "done" /\ mode = "hybrid" => \A c, d \in pack :
    Home[c] = Home[d] \/ Fixed \in {Home[c], Home[d]}
=============================================================================
