------------------------------ MODULE Ranking ------------------------------
(***************************************************************************)
(* How a search orders and merges its hits: reciprocal rank fusion of the  *)
(* lanes, the merge of evidence groups into chunks, greedy diversity, the  *)
(* model's reranking in place, and table context beside the core.          *)
(*                                                                         *)
(* Chunks are numbered by index_chunk_id.int, the last tie-breaker of      *)
(* every order.  Scores are integers: weights and 1 / (k + rank) are       *)
(* brought to one denominator, BM25 to the rarity of one query term.       *)
(***************************************************************************)
EXTENDS Integers, Sequences, FiniteSets, SequencesExt, FiniteSetsExt

CONSTANTS Chunks,
          VersionOf,   \* the version that a chunk belongs to
          Modality,    \* "text", "table" or "image"
          Distance,    \* cosine distance of a hit
          Similarity,  \* token overlap of two chunks, in percent
          WithTerm,    \* chunks that contain the query's term
          Relations,   \* strong relations, by _relation_priority:
                       \* records of chunk, visual and group; groups
                       \* are numbers that no chunk has
          Weight,      \* per lane: its weight
          RrfK,        \* rrf_k
          TopK,        \* top_k of the plan
          MaxRank      \* bound: hits of a lane

LaneOrder == <<"dense_text", "lexical", "cross_modal">>

ASSUME RankingConstants ==
  /\ Chunks \subseteq Nat \ {0} /\ IsFiniteSet(Chunks)
  /\ Modality \in [Chunks -> {"text", "table", "image"}]
  /\ Distance \in [Chunks -> Nat] /\ WithTerm \subseteq Chunks
  /\ Similarity \in [Chunks -> [Chunks -> 0 .. 100]]
  /\ \A c, d \in Chunks : Similarity[c][d] = Similarity[d][c]
  /\ \A i \in DOMAIN Relations :
       VersionOf[Relations[i].chunk] = VersionOf[Relations[i].visual]
  /\ Weight \in [ToSet(LaneOrder) -> Nat \ {0}]
  /\ {RrfK, TopK} \subseteq Nat \ {0} /\ MaxRank \in Nat

(* Python's order of tuples.                                               *)
TupleLess(s, t) ==
  \E i \in DOMAIN s : s[i] < t[i] /\ \A j \in 1 .. i - 1 : s[j] = t[j]

(* sorted(S, key = ...): keys of different elements differ.                *)
SortBy(S, key(_)) ==
  SortSeq(FoldSet(LAMBDA x, list : Append(list, x), <<>>, S),
          LAMBDA a, b : TupleLess(key(a), key(b)))

Lowest(a, b) == IF a <= b THEN a ELSE b
Take(s, n)   == SubSeq(s, 1, Lowest(n, Len(s)))

ModalityPriority(c) == CASE Modality[c] = "text"  -> 0
                         [] Modality[c] = "table" -> 1
                         [] OTHER -> 2

-----------------------------------------------------------------------------
(* reciprocal_rank_fusion_lanes.                                           *)

(* The groups of a chunk: those of its relations, or itself alone.  Keys   *)
(* of new groups are listed in their order.                                *)
RelationsOf(c) ==
  SelectSeq(Relations, LAMBDA r : c \in {r.chunk, r.visual})
GroupsOf(c) ==
  LET keys == {r.group : r \in ToSet(RelationsOf(c))}
  IN  {<<VersionOf[c], k>> : k \in IF keys = {} THEN {c} ELSE keys}

(* weight / (rrf_k + rank), over a common denominator.                     *)
Denominator == FoldFunction(LAMBDA a, b : a * b, 1,
                            [r \in 1 .. MaxRank |-> RrfK + r])
Contribution(lane, rank) == Weight[lane] * (Denominator \div (RrfK + rank))

(* A text, of a better modality, nearer, with a lower identity.            *)
PreferenceKey(c) == <<IF Modality[c] = "image" THEN 1 ELSE 0,
                      ModalityPriority(c), Distance[c], c>>
Preferred(c, d)  == TupleLess(PreferenceKey(c), PreferenceKey(d))

NoRank  == 1000                     \* in the place of 2**31: no rank so high
NoRanks == [l \in ToSet(LaneOrder) |-> NoRank]
NewEntry(c, place) ==
  [hit |-> c, score |-> 0, ranks |-> NoRanks, place |-> place]

CountedAgain(seen, group) == FALSE                              \* mutant
Seen(seen, group) == group \in seen

Credit(entry, lane, rank, c) ==
  [entry EXCEPT !.hit = IF Preferred(c, @) THEN c ELSE @,
                !.score = @ + Contribution(lane, rank),
                !.ranks = [@ EXCEPT ![lane] = rank]]

(* One hit of a lane: it counts for each of its groups that this lane has  *)
(* not named before.                                                       *)
AddHit(acc, lane, rank, c) ==
  LET fresh == {g \in GroupsOf(c) : ~Seen(acc.seen, g)}
      old   == DOMAIN acc.entries
      place(g) == Cardinality(old)
                    + Cardinality({h \in fresh \ old : h[2] < g[2]})
      entry(g) == IF g \in old THEN acc.entries[g] ELSE NewEntry(c, place(g))
  IN  [seen    |-> acc.seen \cup fresh,
       entries |-> [g \in DOMAIN acc.entries \cup fresh |->
                      IF g \in fresh THEN Credit(entry(g), lane, rank, c)
                                     ELSE acc.entries[g]]]

AddLane(hits, entries, lane) ==
  FoldLeftDomain(LAMBDA acc, rank : AddHit(acc, lane, rank, hits[lane][rank]),
                 [seen |-> {}, entries |-> entries], hits[lane]).entries

Entries(hits) ==
  FoldLeft(LAMBDA entries, lane : AddLane(hits, entries, lane), <<>>, LaneOrder)

FusionKey(e) == <<-e.score, Min({e.ranks[l] : l \in ToSet(LaneOrder)}),
                  ModalityPriority(e.hit), e.hit, e.place>>

(* The fused list: group and entry, best first, no more than there were    *)
(* hits or than the search returns.                                        *)
FusionCut(hits) ==
  LET total == FoldFunction(LAMBDA list, n : n + Len(list), 0, hits)
  IN  IF total > TopK THEN total ELSE TopK

Fused(hits) ==
  LET entries == Entries(hits)
      groups  == Take(SortBy(DOMAIN entries, LAMBDA g : FusionKey(entries[g])),
                      FusionCut(hits))
  IN  [i \in DOMAIN groups |-> [group |-> groups[i]] @@ entries[groups[i]]]

-----------------------------------------------------------------------------
(* _hybrid_evidence, _multimodal_evidence: one evidence per chunk.         *)

(* The parent of a hit on a visual unit, in the group that was fused.      *)
BaseChunk(e) ==
  LET parents == SelectSeq(Relations, LAMBDA r :
                   /\ r.visual = e.hit
                   /\ <<VersionOf[r.chunk], r.group>> = e.group)
  IN  IF parents = <<>> THEN e.hit ELSE Head(parents).chunk

VisualsOf(base, group) ==
  {r.visual : r \in {s \in ToSet(Relations) :
     s.chunk = base /\ <<VersionOf[s.chunk], s.group>> = group}}

BestRanks(r, s) == [l \in DOMAIN r |-> Lowest(r[l], s[l])]

(* A later group of the same chunk adds to the evidence; the loop ends     *)
(* when there is enough.                                                   *)
AddEvidence(list, e, limit) ==
  LET base == BaseChunk(e)
      at   == {i \in DOMAIN list : list[i].chunk = base}
      new  == [chunk |-> base, score |-> e.score, ranks |-> e.ranks,
               visuals |-> VisualsOf(base, e.group)]
  IN  IF Len(list) >= limit THEN list
      ELSE IF at = {} THEN Append(list, new)
      ELSE LET i == CHOOSE i \in at : TRUE
           IN  [list EXCEPT ![i].ranks = BestRanks(@, e.ranks),
                            ![i].visuals = @ \cup new.visuals]

HybridEvidence(hits, limit) ==
  FoldLeft(LAMBDA list, e : AddEvidence(list, e, limit), <<>>, Fused(hits))

-----------------------------------------------------------------------------
(* Diversity.                                                              *)

NearDuplicate == 45                          \* 0.45 in rerank_hits
MmrParts      == 3                           \* mmr_lambda = 3 / 4

Redundancy(c, selected) == Max({Similarity[c][d] : d \in selected})
MmrValue(c, score, selected) ==
  IF selected = {} THEN score[c]
  ELSE MmrParts * score[c] - Redundancy(c, selected)

(* Greedy: the best of what remains, by value, score and then order.       *)
BestOf(remaining, score, selected, place) ==
  CHOOSE c \in remaining : \A d \in remaining \ {c} :
    TupleLess(<<-MmrValue(c, score, selected), -score[c], place[c]>>,
              <<-MmrValue(d, score, selected), -score[d], place[d]>>)

Redundant(c, selected) ==
  selected # {} /\ Redundancy(c, selected) >= NearDuplicate

(* rerank_hits: near duplicates of what was selected are left out.         *)
RECURSIVE SelectDiverse(_, _, _, _)
SelectDiverse(remaining, selected, score, k) ==
  IF remaining = {} \/ Len(selected) >= k THEN selected
  ELSE LET best == BestOf(remaining, score, ToSet(selected),
                          [c \in remaining |-> c])
       IN  SelectDiverse(remaining \ {best},
                         IF Redundant(best, ToSet(selected)) THEN selected
                         ELSE Append(selected, best), score, k)

RerankHits(S, score, k) == SelectDiverse(S, <<>>, score, k)

(* Before a model the scored text keeps the order it was found in.         *)
TextOrder(list, score, limit, model) ==
  IF model THEN list
  ELSE RerankHits(ToSet(list), score, IF list = <<>> THEN 1
                                      ELSE Lowest(Len(list), limit))

(* order_model_scored_evidence: everything, in the order of its value.     *)
RECURSIVE OrderByModel(_, _, _, _)
OrderByModel(remaining, selected, score, place) ==
  IF remaining = {} THEN selected
  ELSE LET best == BestOf(remaining, score, ToSet(selected), place)
       IN  OrderByModel(remaining \ {best}, Append(selected, best), score, place)

-----------------------------------------------------------------------------
(* _finish_reranking with the local model.                                 *)

(* _score_model_batch: a batch with too many windows is halved; a single   *)
(* document with too many fails the search.  The result is the documents   *)
(* that were scored, in order, or Failure.                                 *)
Failure == <<0>>                 \* a list that no chunks make

RECURSIVE ScoreBatch(_, _, _)
ScoreBatch(documents, windows, limit) ==
  LET needed == FoldLeft(LAMBDA n, c : n + windows[c], 0, documents)
      half   == Len(documents) \div 2
      left   == ScoreBatch(SubSeq(documents, 1, half), windows, limit)
      right  == ScoreBatch(SubSeq(documents, half + 1, Len(documents)),
                           windows, limit)
  IN  IF needed <= limit THEN documents
      ELSE IF Len(documents) < 2 THEN Failure
      ELSE IF Failure \in {left, right} THEN Failure ELSE left \o right

RECURSIVE ScoreAll(_, _, _, _)
ScoreAll(documents, size, windows, limit) ==
  IF documents = <<>> THEN <<>>
  ELSE LET first == ScoreBatch(Take(documents, size), windows, limit)
           rest  == ScoreAll(SubSeq(documents, size + 1, Len(documents)), size,
                             windows, limit)
       IN  IF Failure \in {first, rest} THEN Failure ELSE first \o rest

ModelPositions(list) == {i \in DOMAIN list : Modality[list[i]] # "image"}

(* The scored chunks change places among themselves; all others keep       *)
(* theirs, and the list is cut afterwards.                                 *)
FillFront(list, places, ranked) ==                              \* mutant
  ranked \o SelectSeq(list, LAMBDA c : Modality[c] = "image")
FillPlaces(list, places, ranked) ==
  [i \in DOMAIN list |->
     IF i \in places THEN ranked[Cardinality({j \in places : j <= i})]
                     ELSE list[i]]

FinishReranking(list, score, size, windows, limit, k) ==
  LET places    == ModelPositions(list)
      documents == SelectSeq(list, LAMBDA c : Modality[c] # "image")
      scored    == ScoreAll(documents, size, windows, limit)
      place     == [c \in ToSet(list) |-> CHOOSE i \in DOMAIN list : list[i] = c]
  IN  IF places = {} THEN Take(list, k)
      ELSE IF scored = Failure THEN Failure
      ELSE Take(FillPlaces(list, places,
                           OrderByModel(ToSet(scored), <<>>, score, place)),
                k)

-----------------------------------------------------------------------------
(* rank_with_source_context.                                               *)

(* score_hits: a term counts the more, the fewer chunks of the pool of     *)
(* statistics have it.                                                     *)
Rarity(pool) == Cardinality(pool) - Cardinality(pool \cap WithTerm)
ContextScore(c, pool) ==
  (IF c \in WithTerm THEN 2 * Rarity(pool) ELSE 0) - Distance[c]

ContextOrder(S, pool) ==
  SortBy(S, LAMBDA c : <<-ContextScore(c, pool), Distance[c], c>>)

(* The statistics stay those of the core when supplements are scored.      *)
WholePool(core, supplements) == core \cup supplements           \* mutant
StatisticsPool(core, supplements) == core

RankWithContext(core, supplements, k) ==
  LET baseline  == ContextOrder(core, core)
      protected == Take(baseline, (k + 1) \div 2)
      all       == ContextOrder(core \cup supplements,
                                StatisticsPool(core, supplements))
  IN  IF supplements = {} THEN Take(baseline, k)
      ELSE Take(protected \o SelectSeq(all, LAMBDA c : c \notin ToSet(protected)),
                k)
=============================================================================
