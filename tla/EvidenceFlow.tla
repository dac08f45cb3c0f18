---------------------------- MODULE EvidenceFlow ----------------------------
(***************************************************************************)
(* The steps between the rows that a search has read and the evidence it   *)
(* answers with, for every input of the bounds: fusion, merge and model    *)
(* order; table context; graph paths from their search to a pack.          *)
(*                                                                         *)
(* task is the input of one search, out what its last step returned.       *)
(***************************************************************************)
EXTENDS Ranking, GraphPaths

CONSTANTS Tasks,        \* inputs: hybrid, multimodal, context and paths
          Limit,        \* _candidate_evidence_limit
          BatchSize,    \* max_documents of the reranker
          WindowLimit,  \* LOCAL_RERANKER_MAX_WINDOWS
          Target        \* source_chunk_target

VARIABLES task, stage, out

flowVars == <<task, stage, out>>

FlowInit == task \in Tasks /\ stage = "start" /\ out = <<>>

Goto(step, result) == stage' = step /\ out' = result /\ UNCHANGED task

ChunkList(list) == [i \in DOMAIN list |-> list[i].chunk]

FuseHybrid ==
  /\ stage = "start" /\ task.kind = "hybrid"
  /\ Goto("merged", HybridEvidence(task.hits, Limit))

(* The text lane of a multimodal search is made diverse before the fusion. *)
FuseMultimodal ==
  /\ stage = "start" /\ task.kind = "multimodal"
  /\ LET text == TextOrder(task.hits["dense_text"], task.score, Limit, task.model)
     IN  Goto("merged",
              HybridEvidence([task.hits EXCEPT !["dense_text"] = text], Limit))

FinishModel ==
  /\ stage = "merged" /\ task.model
  /\ LET ranked == FinishReranking(ChunkList(out), task.score, BatchSize,
                                   task.windows, WindowLimit, Limit)
     IN  Goto(IF ranked = Failure THEN "failed" ELSE "ranked", ranked)

FinishClassic ==
  /\ stage = "merged" /\ ~task.model
  /\ Goto("ranked", ChunkList(out))

Cut == /\ stage = "ranked"
       /\ Goto("done", Take(out, TopK))

RankContext ==
  /\ stage = "start" /\ task.kind = "context"
  /\ Goto("done", RankWithContext(task.core, task.beside, TopK))

SearchPaths ==
  /\ stage = "start" /\ task.kind = "paths"
  /\ Goto("paths", RankPaths(task.ranked, task.seeds, task.chain, MaxPaths))

HydratePaths ==
  /\ stage = "paths"
  /\ Goto("hydrated", Hydrated(out, task.served))

(* The reranker may be missing, fail, or answer for other documents.       *)
RescorePaths ==
  /\ stage = "hydrated" /\ task.model
  /\ \/ Goto("unavailable", <<>>)
     \/ IF AllScored(out) THEN Goto("ordered", Rescored(out, task.score))
        ELSE Goto("raised", <<>>)

KeepOrder == stage = "hydrated" /\ ~task.model /\ Goto("ordered", out)

Validate ==
  /\ stage = "ordered"
  /\ Goto(IF ValidTraversal(out, task.served) THEN "valid" ELSE "refused", out)

PackPaths ==
  /\ stage = "valid"
  /\ \/ Goto("searched", PackSearch(out, Target, TopK))
     \/ Goto("packed", PackGraph(out, task.evidence, TopK))

FlowNext == \/ FuseHybrid \/ FuseMultimodal \/ FinishModel \/ FinishClassic \/ Cut
            \/ RankContext \/ SearchPaths \/ HydratePaths \/ RescorePaths
            \/ KeepOrder \/ Validate \/ PackPaths

FlowSpec == FlowInit /\ [][FlowNext]_flowVars

-----------------------------------------------------------------------------
(* Properties.                                                             *)

(* What the lanes of a search contribute, stated without the loop.         *)
Named(lane, g) == {r \in DOMAIN task.hits[lane] :
                     g \in GroupsOf(task.hits[lane][r])}
AllGroups == UNION {GroupsOf(c) :
                c \in UNION {ToSet(task.hits[l]) : l \in ToSet(LaneOrder)}}
FairScore(g) ==
  FoldLeft(LAMBDA sum, l : IF Named(l, g) = {} THEN sum
                           ELSE sum + Contribution(l, Min(Named(l, g))),
           0, LaneOrder)

(* Fusion lists an evidence group once, and a group counts once per lane,  *)
(* at its best rank, however many of its members the lanes name and in     *)
(* whatever order: no chunk gains by having more visual units.  What the   *)
(* cut leaves out scores no better than what it keeps.                     *)
FusionCountsOnce ==
  stage = "merged" /\ task.kind = "hybrid" =>
    LET fused == Fused(task.hits)
        kept  == {e.group : e \in ToSet(fused)}
    IN  /\ kept \subseteq AllGroups /\ Cardinality(kept) = Len(fused)
        /\ Len(fused) = Lowest(Cardinality(AllGroups), FusionCut(task.hits))
        /\ \A i \in DOMAIN fused : fused[i].score = FairScore(fused[i].group)
        /\ \A i, j \in DOMAIN fused : i < j => fused[i].score >= fused[j].score
        /\ \A g \in AllGroups \ kept : FairScore(g) <= Last(fused).score

(* No evidence is listed twice; the model's order moves text and tables    *)
(* among their own places, leaves images where fusion put them and loses   *)
(* nothing, and it fails only for a document that is alone too long.       *)
RerankingKeepsPlaces ==
  /\ stage \in {"ranked", "done"} => IsInjective(out)
  /\ stage = "merged" /\ task.model =>
       LET list   == ChunkList(out)
           ranked == FinishReranking(list, task.score, BatchSize, task.windows,
                                     WindowLimit, Limit)
       IN  IF ranked = Failure
           THEN \E c \in ToSet(list) : task.windows[c] > WindowLimit
           ELSE /\ ToSet(ranked) = ToSet(list) /\ Len(ranked) = Len(list)
                /\ \A i \in DOMAIN list :
                     Modality[list[i]] = "image" => ranked[i] = list[i]

(* The leading half of the core stays in front and in its order, and the   *)
(* rest of the core is not reordered either by the context that is added.  *)
ContextKeepsCore ==
  stage = "done" /\ task.kind = "context" =>
    LET baseline == ContextOrder(task.core, task.core)
        half     == (TopK + 1) \div 2
    IN  /\ Take(out, Lowest(half, Len(baseline))) = Take(baseline, half)
        /\ IsPrefix(SelectSeq(out, LAMBDA c : c \in task.core), baseline)

(* What the search of the external graph and the hydration produce always  *)
(* passes the validator that the retrieval service runs on it: simple      *)
(* paths of one to three hops from an entity of their first hop, every hop *)
(* with a served chunk.  No search is refused for its own paths.           *)
SearchedPathsAreValid == stage # "refused"

(* Every entity that the query names and that has a path is heard, as far  *)
(* as the limit goes, however dense the graph is around the others.        *)
EverySeedIsHeard ==
  stage = "paths" =>
    LET seeds == First(task.seeds, MaxSeeds)
        heard == {p.entry : p \in ToSet(out)}
        usable == ToSet(Usable(task.ranked))
        alive == SelectSeq(seeds, LAMBDA n : \E e \in usable : n \in Nodes(e))
    IN  ToSet(First(alive, MaxPaths)) \subseteq heard

(* A pack holds all the chunks of the paths it takes and, but for the      *)
(* hybrid evidence that fills it up, no others, within its limit: evidence *)
(* never shows a relation without the chunks of all its hops.              *)
PacksAreWhole ==
  stage \in {"searched", "packed"} =>
    LET whole == UNION {ToSet(h.sources) : h \in out.taken}
    IN  /\ whole \subseteq ToSet(out.chosen)
        /\ stage = "searched" => ToSet(out.chosen) = whole
        /\ Len(out.chosen) <= TopK /\ IsInjective(out.chosen)

(* The architecture document says that chunks of low score and chunks that *)
(* were not scored are not dropped for that.                               *)
UnscoredPathsAreKept == stage # "raised"
=============================================================================
