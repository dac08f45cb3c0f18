----------------------------- MODULE GraphPaths -----------------------------
(***************************************************************************)
(* From the ranked edges of the external graph to evidence: simple paths   *)
(* from the entities that the query names, a selection that keeps every    *)
(* seed, the chunk that supports each hop, the model's order, the          *)
(* validator of the retrieval service, and the two ways of packing.        *)
(*                                                                         *)
(* Entities, edges and chunks are numbers: an edge is its uuid, a path is  *)
(* its entry and its hops, which also give its path_id its place.          *)
(***************************************************************************)
EXTENDS Integers, Sequences, FiniteSets, SequencesExt, FiniteSetsExt

CONSTANTS Edges,        \* edges of the graph
          Ends,         \* their source and target entity
          Support,      \* per edge: the chunks of its episodes, the one that
                        \* supports its fact best first
          MaxSeeds,     \* 8: seeds whose paths are enumerated
          WalkBudget,   \* max(16 * limit, 64): paths of one seed
          MaxPaths,     \* GRAPH_MAX_PATHS
          MaxDocuments, \* LOCAL_RERANKER_MAX_DOCUMENTS
          EntryOf       \* the endpoint that an edge is entered by when the
                        \* query names no entity

MaxHops == 3            \* GRAPH_MAX_HOPS

ASSUME GraphConstants ==
  /\ Edges \subseteq Nat /\ Ends \in [Edges -> Nat \X Nat]
  /\ \A e \in Edges : EntryOf[e] \in {Ends[e][1], Ends[e][2]}
  /\ {MaxSeeds, WalkBudget, MaxPaths, MaxDocuments} \subseteq Nat \ {0}

Least(a, b) == IF a <= b THEN a ELSE b
First(s, n) == SubSeq(s, 1, Least(n, Len(s)))
KeyLess(s, t) ==
  \E i \in DOMAIN s : s[i] < t[i] /\ \A j \in 1 .. i - 1 : s[j] = t[j]
OrderBy(S, key(_)) ==
  SortSeq(FoldSet(LAMBDA x, list : Append(list, x), <<>>, S),
          LAMBDA a, b : KeyLess(key(a), key(b)))
Without(s, S) == SelectSeq(s, LAMBDA x : x \notin S)

Nodes(e)      == {Ends[e][1], Ends[e][2]}
Other(e, n)   == IF n = Ends[e][1] THEN Ends[e][2] ELSE Ends[e][1]
Backwards(e, n) == IF n = Ends[e][1] THEN 0 ELSE 1

-----------------------------------------------------------------------------
(* _rank_graphiti_paths: enumeration.                                      *)

(* Edges are listed best first; a self-loop is no use.                     *)
Usable(ranked) == SelectSeq(ranked, LAMBDA e : Ends[e][1] # Ends[e][2])
RankIn(ranked, e) == CHOOSE i \in DOMAIN ranked : ranked[i] = e

AnyNode(n, visited) == TRUE                                     \* mutant
Unvisited(n, visited) == n \notin visited

(* The paths that go on from a node, in the order of the walk.             *)
RECURSIVE WalkOn(_, _, _, _)
WalkOn(ranked, node, hops, visited) ==
  LET next == SelectSeq(ranked, LAMBDA e :
                /\ node \in Nodes(e) /\ e \notin ToSet(hops)
                /\ Unvisited(Other(e, node), visited))
      step(e) == <<Append(hops, e)>> \o
                   WalkOn(ranked, Other(e, node), Append(hops, e),
                          visited \cup {Other(e, node)})
  IN  IF Len(hops) = MaxHops THEN <<>>
      ELSE FlattenSeq([i \in DOMAIN next |-> step(next[i])])

(* A dense seed spends its own budget, not that of the seeds after it.     *)
PathsFrom(ranked, seed) ==
  LET hops == First(WalkOn(ranked, seed, <<>>, {seed}), WalkBudget)
  IN  {[entry |-> seed, hops |-> hops[i], seed |-> TRUE] : i \in DOMAIN hops}

(* Without a named entity every ranked edge is a path of its own.          *)
Candidates(ranked, seeds) ==
  IF seeds = <<>>
  THEN {[entry |-> EntryOf[e], hops |-> <<e>>, seed |-> FALSE] :
          e \in ToSet(Usable(ranked))}
  ELSE UNION {PathsFrom(Usable(ranked), s) : s \in ToSet(First(seeds, MaxSeeds))}

Ranks(ranked, p)  == [i \in DOMAIN p.hops |-> RankIn(ranked, p.hops[i])]
WorstRank(ranked, p) == Max(ToSet(Ranks(ranked, p)))
RankSum(ranked, p)   == FoldLeft(LAMBDA a, b : a + b, 0, Ranks(ranked, p))
Reversed(p) ==
  LET from == FoldLeft(LAMBDA w, e : [at |-> Other(e, w.at),
                                      back |-> w.back + Backwards(e, w.at)],
                       [at |-> p.entry, back |-> 0], p.hops)
  IN  IF p.seed THEN from.back ELSE 0

PathId(p) == <<p.entry>> \o p.hops \o [i \in 1 .. MaxHops - Len(p.hops) |-> 0]

(* A question about a chain of relations prefers long paths.               *)
CandidateKey(ranked, chain, p) ==
  <<IF p.seed THEN 0 ELSE 1, IF chain # "direct" THEN -Len(p.hops)
                                                 ELSE Len(p.hops),
    WorstRank(ranked, p), RankSum(ranked, p), Reversed(p)>> \o PathId(p)
DirectKey(ranked, p) ==
  <<Len(p.hops), WorstRank(ranked, p), RankSum(ranked, p)>> \o PathId(p)

-----------------------------------------------------------------------------
(* _rank_graphiti_paths: selection.                                        *)

NoReservation(entries) == <<>>                                  \* mutant
Reservation(entries) == entries

(* One path for every seed, the cheapest one unless the query asks for a   *)
(* chain.                                                                  *)
Reserved(ranked, chain, ordered, entries, limit) ==
  LET of(n) == {p \in ToSet(ordered) : p.entry = n}
      best(n) == IF chain = "explicit"
                 THEN SelectSeq(ordered, LAMBDA p : p.entry = n)[1]
                 ELSE OrderBy(of(n), LAMBDA p : DirectKey(ranked, p))[1]
      served  == SelectSeq(Reservation(entries), LAMBDA n : of(n) # {})
  IN  First([i \in DOMAIN served |-> best(served[i])], limit)

(* Then one path for every other first hop.                                *)
OtherFirstHops(ordered, taken) ==
  FoldLeft(LAMBDA list, p :
             IF p \in taken \cup ToSet(list)
                \/ \E q \in ToSet(list) : q.hops[1] = p.hops[1]
             THEN list ELSE Append(list, p),
           <<>>, ordered)

EntriesOf(ordered) ==
  FoldLeft(LAMBDA list, p : IF p.entry \in ToSet(list) THEN list
                            ELSE Append(list, p.entry), <<>>, ordered)

RankPaths(ranked, seeds, chain, limit) ==
  LET ordered  == OrderBy(Candidates(ranked, seeds),
                          LAMBDA p : CandidateKey(ranked, chain, p))
      entries  == IF seeds # <<>> THEN First(seeds, MaxSeeds)
                                  ELSE EntriesOf(ordered)
      reserved == Reserved(ranked, chain, ordered, entries, limit)
      others   == OtherFirstHops(ordered, ToSet(reserved))
      rest     == Without(ordered, ToSet(reserved \o others))
  IN  First(reserved \o others \o rest, limit)

-----------------------------------------------------------------------------
(* _bounded_graphiti_paths: every hop needs a chunk that is still served,  *)
(* or the whole path is rejected.                                          *)

Supported(e, served) == SelectSeq(Support[e], LAMBDA c : c \in served)
Hydratable(p, served) ==
  \A i \in DOMAIN p.hops : Supported(p.hops[i], served) # <<>>

Distinct(s) ==
  FoldLeft(LAMBDA list, x : IF x \in ToSet(list) THEN list ELSE Append(list, x),
           <<>>, s)

(* source_chunk_ids of a path, in the order of its hops.                   *)
SourcesOf(p, served) ==
  Distinct([i \in DOMAIN p.hops |-> Supported(p.hops[i], served)[1]])

Hydrated(paths, served) ==
  LET whole == First(SelectSeq([i \in DOMAIN paths |->
                                  [path |-> paths[i], rank |-> i, edgeRank |-> i]],
                               LAMBDA h : Hydratable(h.path, served)), MaxPaths)
  IN  [i \in DOMAIN whole |->
         whole[i] @@ [sources |-> SourcesOf(whole[i].path, served)]]

ChunksOf(hydrated) ==
  Distinct(FlattenSeq([i \in DOMAIN hydrated |-> hydrated[i].sources]))

-----------------------------------------------------------------------------
(* _rerank_graphiti_candidates_with_scores: the first MaxDocuments chunks  *)
(* are scored, and paths are sorted by their weakest source.  The key of a *)
(* path with an unscored source raises.                                    *)

AllScored(hydrated) == Len(ChunksOf(hydrated)) <= MaxDocuments

Rescored(hydrated, score) ==
  LET paths  == OrderBy(ToSet(hydrated), LAMBDA h :
                  <<-Min({score[c] : c \in ToSet(h.sources)}), h.rank>>)
  IN  [i \in DOMAIN paths |-> [paths[i] EXCEPT !.rank = i]]

-----------------------------------------------------------------------------
(* _validate_graph_traversal, as the service writes it down again.         *)

Ladder(hops) ==
  \A i \in 2 .. Len(hops) :
    /\ Cardinality(Nodes(hops[i - 1]) \cap Nodes(hops[i])) = 1
    /\ Cardinality(Nodes(hops[i])
                     \ UNION {Nodes(hops[j]) : j \in 1 .. i - 1}) = 1

ValidPath(h, chunks) ==
  /\ Len(h.path.hops) \in 1 .. MaxHops /\ h.rank <= MaxPaths
  /\ ToSet(h.sources) \subseteq chunks
  /\ IsInjective(h.path.hops)
  /\ \A i \in DOMAIN h.path.hops : Cardinality(Nodes(h.path.hops[i])) = 2
  /\ h.path.entry \in Nodes(h.path.hops[1])
  /\ Ladder(h.path.hops)

ValidTraversal(hydrated, served) ==
  /\ ToSet(ChunksOf(hydrated)) \subseteq served
  /\ \A h \in ToSet(hydrated) : ValidPath(h, ToSet(ChunksOf(hydrated)))

-----------------------------------------------------------------------------
(* Packing: a path is taken whole or not at all.                           *)

Fresh(h, chosen) == Without(h.sources, ToSet(chosen))

(* _pack_graph_search_evidence.  Once the target is reached the first path *)
(* that does not fit ends the packing.                                     *)
SearchKey(h) ==
  <<IF h.path.seed THEN 0 ELSE 1, h.rank, h.edgeRank, Len(h.sources),
    Len(h.path.hops)>> \o PathId(h.path)

FitsAlone(h, chosen, limit) == Len(chosen) <= limit             \* mutant
Fits(h, chosen, limit) == Len(chosen) + Len(Fresh(h, chosen)) <= limit

AddPath(pack, h, target, limit) ==
  IF pack.full \/ ~h.path.seed THEN pack
  ELSE IF Fits(h, pack.chosen, limit)
       THEN [pack EXCEPT !.chosen = @ \o Fresh(h, pack.chosen),
                         !.taken = @ \cup {h}]
       ELSE [pack EXCEPT !.full = Len(pack.chosen) >= target]

Nothing == [chosen |-> <<>>, taken |-> {}, full |-> FALSE]

PackSearch(hydrated, target, limit) ==
  FoldLeft(LAMBDA pack, h : AddPath(pack, h, target, limit), Nothing,
           OrderBy(ToSet(hydrated), SearchKey))

(* _pack_graph_evidence: a path that does not fit is passed over, and the  *)
(* evidence of the hybrid search fills up.                                 *)
AddBundle(pack, h, k) ==
  LET chosen == pack.chosen \o Fresh(h, pack.chosen)
  IN  IF pack.full \/ ~h.path.seed \/ ~Fits(h, pack.chosen, k) THEN pack
      ELSE [chosen |-> chosen, taken |-> pack.taken \cup {h},
            full |-> Len(chosen) >= k]

PackGraph(hydrated, seedEvidence, k) ==
  LET packed == FoldLeft(LAMBDA pack, h : AddBundle(pack, h, k), Nothing,
                         hydrated)
  IN  [packed EXCEPT
         !.chosen = First(@ \o Without(seedEvidence, ToSet(@)), k)]
=============================================================================
