--------------------------- MODULE SemanticChunks ---------------------------
(***************************************************************************)
(* Semantic chunks: the items of a document become analysis units, a plan  *)
(* chooses the cuts between units, and the chunks are what the cuts leave. *)
(* Cuts before a unit with a hard boundary are given; inside an oversized  *)
(* region a dynamic program weighs the distance between neighbours against *)
(* the size of the chunks; small spans then join across section cuts.      *)
(***************************************************************************)
EXTENDS ChunkText

CONSTANTS UnitTarget,     \* analysis_unit_target_tokens
          UnitMax,        \* analysis_unit_max_tokens
          UnitSlack,      \* what a window of an oversized piece leaves free
          MinChunk,       \* min_chunk_tokens
          TargetChunk,    \* target_chunk_tokens
          PenaltyWeight,  \* size_penalty_weight
          MaxUnits,       \* max_analysis_units
          MaxUnitTokens   \* max_analysis_tokens

NoBoundary == "none"

(* Units: text, size in tokens, refs, before (the hard boundary in front   *)
(* of it, or none), kind, and joined, whether a separator stands in front. *)
Separator(u) == IF u.joined THEN Gap ELSE 0

(* The tokens of the units first to last as one text.                      *)
RECURSIVE JoinedSize(_, _, _)
JoinedSize(units, first, last) ==
  IF first > last THEN 0
  ELSE units[last].size + (IF first < last THEN Separator(units[last]) ELSE 0)
       + JoinedSize(units, first, last - 1)

-----------------------------------------------------------------------------
(* Units.                                                                  *)

(* An item may start a record: "projection" when a heading was folded into *)
(* it, "headlike" when it reads like a heading; records are the parts that *)
(* start a record inside of it, lone the part (or 0) that follows a first  *)
(* block which is only a heading.                                          *)
Record(item) == item.shape \in {"projection", "headlike"}

HardBoundary(st, item) ==
  LET turned == st.page # 0 /\ item.page # 0 /\ item.page # st.page
      kinds  == {item.kind, st.kind}
  IN  CASE turned -> "page"
        [] ~turned /\ "table" \in kinds -> "table"
        [] ~turned /\ "table" \notin kinds /\ "block" \in kinds -> "block"
        [] OTHER -> IF \/ st.titles # <<>>
                       \/ st.units # <<>> /\ item.container # st.container
                    THEN "section" ELSE NoBoundary

Recorded(st, item) ==
  HardBoundary(st, item) = NoBoundary /\ Record(item) /\ st.recordHasBody

(* A unit joins the one before it when both are of one kind, no boundary   *)
(* is between them and the text stays within the target.                   *)
AppendUnit(units, u) ==
  LET prior == Last(units)
      both  == prior.size + Separator(u) + u.size
  IN  IF /\ units # <<>> /\ u.before = NoBoundary /\ u.kind # "table"
         /\ prior.kind = u.kind /\ both <= UnitTarget
      THEN [units EXCEPT ![Len(units)].text = @ \o u.text,
                         ![Len(units)].size = both,
                         ![Len(units)].refs = @ \cup u.refs]
      ELSE Append(units, u)

AppendAll(units, list) == FoldLeft(AppendUnit, units, list)

(* Pieces of a text: its sentences or lines, windows of a longer one.      *)
Pieces(s) == IF SliceSize(s) <= UnitMax THEN <<s>>
             ELSE SplitByTokens(s, UnitMax - UnitSlack, 0)

NewUnit(text, refs, before, kind, joined) ==
  [text |-> text, size |-> Tokens(text), refs |-> refs, before |-> before, kind |-> kind,
   joined |-> joined]

(* The boundary in front of part k of a text: a record's heading starts    *)
(* one, unless only a heading stands before it.                            *)
PartBoundary(item, k, titled) ==
  IF k \in item.records /\ ~(k = item.lone /\ ~titled)
  THEN "record" ELSE NoBoundary

TextUnits(items, i, prefix, refs, boundary) ==
  LET item  == items[i]
      parts == prefix \o PartsOf(items, i)
      kind  == IF item.kind = "block" THEN "block" ELSE "text"
      at(k) == k - Len(prefix)
      hard(k) == IF k = 1 THEN boundary
                 ELSE IF at(k) >= 1 /\ item.kind # "block"
                      THEN PartBoundary(item, at(k), prefix # <<>>)
                      ELSE NoBoundary
      unitsOf(k) == [j \in DOMAIN Pieces(parts[k]) |->
                       NewUnit(<<Pieces(parts[k])[j]>>, refs,
                               IF j = 1 THEN hard(k) ELSE NoBoundary, kind,
                               k = 1 /\ j = 1)]
  IN  FlattenSeq([k \in DOMAIN parts |-> unitsOf(k)])

TableUnitsOf(chunks, refs, boundary) ==
  [k \in DOMAIN chunks |->
     NewUnit(chunks[k], refs, IF k = 1 THEN boundary ELSE "table", "table", TRUE)]
TableUnits(items, i, prefix, refs, boundary) ==
  TableUnitsOf(TableChunks(PartsOf(items, i), prefix, items[i].header), refs, boundary)

NoUnits == [units |-> <<>>, titles |-> <<>>, context |-> {}, page |-> 0,
          container |-> 0, kind |-> "none", recordHasBody |-> FALSE,
          failed |-> FALSE]

TitleText(items, titles) ==
  FlattenSeq([k \in DOMAIN titles |-> PartsOf(items, titles[k])])

ReadItem(st, items, i) ==
  LET item   == items[i]
      prefix == TitleText(items, st.titles)
      refs   == st.context \cup ToSet(st.titles) \cup {i}
      starts == Recorded(st, item)
      boundary == IF starts THEN "record" ELSE HardBoundary(st, item)
      new    == IF item.kind = "table" THEN TableUnits(items, i, prefix, refs, boundary)
                ELSE TextUnits(items, i, prefix, refs, boundary)
  IN  [st EXCEPT
        !.units = AppendAll(@, new), !.titles = <<>>, !.context = {},
        !.page = IF item.page = 0 THEN @ ELSE item.page,
        !.container = item.container, !.kind = item.kind,
        !.recordHasBody = \/ ~Record(item) \/ item.shape = "projection"
                          \/ @ /\ ~starts,
        !.failed = item.kind = "table"
                   /\ TableFails(PartsOf(items, i), prefix, item.header)]

UnitStep(st, items, i) ==
  LET item == items[i]
  IN  IF st.failed THEN st
      ELSE IF WithoutText(item) THEN [st EXCEPT !.context = @ \cup {i}]
      ELSE IF item.parts = <<>> THEN st
      ELSE IF Heading(item) THEN [st EXCEPT !.titles = Append(@, i)]
      ELSE ReadItem(st, items, i)

(* Titles that introduce nothing are units of their own; references that   *)
(* are left stay with the last unit.                                       *)
LastTitles(st, items) ==
  LET text   == TitleText(items, st.titles)
      pieces == FlattenSeq([k \in DOMAIN text |-> Pieces(text[k])])
      refs   == st.context \cup ToSet(st.titles)
      new    == [k \in DOMAIN pieces |->
                   NewUnit(<<pieces[k]>>, refs,
                           IF k = 1 THEN "section" ELSE NoBoundary, "text", k = 1)]
  IN  IF st.titles = <<>> THEN st
      ELSE [st EXCEPT !.units = AppendAll(@, new), !.context = {}]

RestForgotten(read) == read.units                                    \* mutant
WithRest(read) ==
  IF read.units = <<>> THEN <<>>
  ELSE [read.units EXCEPT ![Len(read.units)].refs = @ \cup read.context]

(* _require_limits                                                         *)
TooMuch(units) ==
  \/ Len(units) > MaxUnits
  \/ FoldLeft(LAMBDA n, u : n + u.size, 0, units) > MaxUnitTokens
  \/ \E u \in ToSet(units) : u.size > IF u.kind = "table" THEN MaxTokens ELSE UnitMax

ReadAll(read) ==
  [failed |-> read.failed \/ read.units = <<>> \/ TooMuch(read.units),
   units  |-> WithRest(read)]
SourceUnits(items) ==
  ReadAll(LastTitles(FoldLeftDomain(LAMBDA st, i : UnitStep(st, items, i),
                                    NoUnits, items), items))
-----------------------------------------------------------------------------
(* The plan.  Cut k is between the units k and k + 1; a boundary is a cut  *)
(* with its reason.                                                        *)

RoundRatio(n, d) == (n + d \div 2) \div d

Ascending(list) == SortSeq(list, LAMBDA a, b : a < b)
IntegerMedian(list) ==
  LET s == Ascending(list)
      m == Len(s) \div 2
  IN  IF Len(s) % 2 = 1 THEN s[m + 1] ELSE RoundRatio(s[m] + s[m + 1], 2)

(* Distances of neighbours, none across a hard boundary, each weighed      *)
(* twice against those beside it.                                          *)
NoScore == -1
Smoothed(units, raw) ==
  LET near(k) == {j \in {k - 1, k + 1} \cap DOMAIN raw : raw[j] # NoScore}
  IN  [k \in DOMAIN raw |->
         IF raw[k] = NoScore THEN NoScore
         ELSE RoundRatio(2 * raw[k] + MapThenSumSet(LAMBDA j : raw[j], near(k)),
                         2 + Cardinality(near(k)))]
SemanticThreshold(values) ==
  LET middle == IntegerMedian(values)
      away(k) == IF values[k] < middle THEN middle - values[k] ELSE values[k] - middle
  IN  CASE values = <<>> -> 0
        [] Len(values) \in 1 .. 2 -> middle
        [] OTHER -> middle + IntegerMedian([k \in DOMAIN values |-> away(k)])

OffTarget(n) == IF n < TargetChunk THEN TargetChunk - n ELSE n - TargetChunk
SizePenalty(n) == RoundRatio(OffTarget(n) * PenaltyWeight, TargetChunk)

(* The regions between hard boundaries, as <<first, last>> unit.           *)
RegionStarts(units) == {k \in DOMAIN units : k = 1 \/ units[k].before # NoBoundary}
RegionEnd(units, first) ==
  Min({Len(units)} \cup {k - 1 : k \in {j \in RegionStarts(units) : j > first}})
Oversized(units, first) == JoinedSize(units, first, RegionEnd(units, first)) > MaxTokens

(* The units whose vectors the plan needs.                                 *)
AnalysisUnits(units) ==
  UNION {first .. RegionEnd(units, first) :
           first \in {f \in RegionStarts(units) : Oversized(units, f)}}

RawDistances(units, distance) ==
  [k \in 1 .. (Len(units) - 1) |->
     IF units[k + 1].before = NoBoundary /\ {k, k + 1} \subseteq AnalysisUnits(units)
     THEN distance[k] ELSE NoScore]

RegionGain(scores, first, last) ==
  LET known == SelectSeq(SubSeq(scores, first, last - 1), LAMBDA s : s # NoScore)
      threshold == SemanticThreshold(known)
  IN  [k \in first .. (last - 1) |->
         IF scores[k] = NoScore THEN 0 ELSE Larger(0, scores[k] - threshold)]

(* A candidate: reward, closeness of its last chunk, a count of chunks     *)
(* whose sign turns with every step, and its cuts.                         *)
SmallerCuts(a, b) ==
  \/ IsStrictPrefix(a, b)
  \/ \E k \in DOMAIN a \cap DOMAIN b :
       a[k] < b[k] /\ \A j \in 1 .. (k - 1) : a[j] = b[j]
Better(c, e) ==
  \/ c.reward > e.reward
  \/ c.reward = e.reward /\ c.close > e.close
  \/ c.reward = e.reward /\ c.close = e.close /\ c.count > e.count
  \/ /\ c.reward = e.reward /\ c.close = e.close /\ c.count = e.count
     /\ SmallerCuts(c.cuts, e.cuts)

NoCandidate == [reward |-> 0, close |-> 0, count |-> 0, cuts |-> <<0>>]

(* A chunk of the units prior + 1 to position may be chosen.               *)
LegalByUnits(units, first, last, prior, position) ==                 \* mutant
  JoinedSize(units, prior + 1, position) <= MaxTokens
LegalChunk(units, first, last, prior, position) ==
  LET size == JoinedSize(units, prior + 1, position)
  IN  /\ size <= MaxTokens
      /\ size >= MinChunk \/ JoinedSize(units, first, last) < MinChunk

Extended(units, gain, last, state, prior, position) ==
  LET size == JoinedSize(units, prior + 1, position)
  IN  [reward |-> state.reward - SizePenalty(size)
                  + IF position < last THEN gain[position] ELSE 0,
       close  |-> -OffTarget(size),
       count  |-> -(state.count + 1),
       cuts   |-> IF position < last THEN Append(state.cuts, position)
                  ELSE state.cuts]

(* The best candidate for each position of a region, from the first on.    *)
BestCuts(units, gain, first, last) ==
  LET offers(best, position) ==
        {Extended(units, gain, last, best[p - first + 2], p, position) :
           p \in {q \in (first - 1) .. (position - 1) :
                   /\ best[q - first + 2] # NoCandidate
                   /\ LegalChunk(units, first, last, q, position)}}
      pick(found) == IF found = {} THEN NoCandidate
                     ELSE CHOOSE c \in found : \A e \in found \ {c} : Better(c, e)
  IN  Last(FoldLeft(LAMBDA best, position :
                      Append(best, pick(offers(best, position))),
                    << [reward |-> 0, close |-> 0, count |-> 0, cuts |-> <<>>] >>,
                    [k \in 1 .. (last - first + 1) |-> first + k - 1]))

(* Without a legal choice: chunks as long as they may be.                  *)
RECURSIVE FallbackCuts(_, _, _)
FallbackCuts(units, first, last) ==
  LET fits == {k \in first .. last : JoinedSize(units, first, k) <= MaxTokens}
  IN  IF fits = {} \/ Max(fits) = last THEN <<>>
      ELSE <<Max(fits)>> \o FallbackCuts(units, Max(fits) + 1, last)

Boundary(cut, reason) == [cut |-> cut, reason |-> reason]

SelectRegion(units, scores, first, last) ==
  LET gain == RegionGain(scores, first, last)
      best == BestCuts(units, gain, first, last)
      cuts == IF best = NoCandidate THEN FallbackCuts(units, first, last)
              ELSE best.cuts
  IN  IF JoinedSize(units, first, last) <= MaxTokens THEN <<>>
      ELSE [k \in DOMAIN cuts |->
              Boundary(cuts[k], IF best # NoCandidate /\ gain[cuts[k]] > 0
                                THEN "semantic" ELSE "max_tokens")]

SelectAllRegions(units, scores) ==
  FoldLeft(LAMBDA chosen, first :
             chosen \o (IF first = 1 THEN <<>>
                        ELSE <<Boundary(first - 1, units[first].before)>>)
                    \o SelectRegion(units, scores, first, RegionEnd(units, first)),
           <<>>, Ascending(SetToSeq(RegionStarts(units))))

(* Small spans join the next span, or else the one before, across section  *)
(* cuts; a joined span is looked at again.                                 *)
SpanStart(cuts, k) == IF k = 1 THEN 1 ELSE cuts[k - 1].cut + 1
SpanEnd(units, cuts, k) == IF k > Len(cuts) THEN Len(units) ELSE cuts[k].cut
SpanSize(units, cuts, j, k) == JoinedSize(units, SpanStart(cuts, j), SpanEnd(units, cuts, k))

Joinable(units, cuts, k) ==
  /\ k \in DOMAIN cuts /\ cuts[k].reason = "section"
  /\ SpanSize(units, cuts, k, k + 1) <= MaxTokens

RECURSIVE JoinFrom(_, _, _)
JoinFrom(units, cuts, k) ==
  IF k > Len(cuts) + 1 THEN cuts
  ELSE IF SpanSize(units, cuts, k, k) >= MinChunk THEN JoinFrom(units, cuts, k + 1)
  ELSE IF Joinable(units, cuts, k) THEN JoinFrom(units, RemoveAt(cuts, k), k)
  ELSE IF Joinable(units, cuts, k - 1)
       THEN JoinFrom(units, RemoveAt(cuts, k - 1), k - 1)
  ELSE JoinFrom(units, cuts, k + 1)

MergeSmallSections(units, cuts) ==
  IF cuts = <<>> THEN cuts ELSE JoinFrom(units, cuts, 1)

BuildPlan(units, distance) ==
  LET hard   == \E k \in 2 .. Len(units) : units[k].before # NoBoundary
      raw    == RawDistances(units, distance)
      scores == IF AnalysisUnits(units) = {}
                THEN [k \in DOMAIN raw |-> IF raw[k] = NoScore THEN NoScore ELSE 0]
                ELSE Smoothed(units, raw)
  IN  IF JoinedSize(units, 1, Len(units)) <= MaxTokens /\ ~hard THEN <<>>
      ELSE MergeSmallSections(units, SelectAllRegions(units, scores))

(* The chunks that a plan leaves of the units; none may be over the limit. *)
AssemblyFails(units, cuts) ==
  \E k \in 1 .. (Len(cuts) + 1) : SpanSize(units, cuts, k, k) > MaxTokens

Assemble(units, cuts) ==
  [k \in 1 .. (Len(cuts) + 1) |->
     LET span == SubSeq(units, SpanStart(cuts, k), SpanEnd(units, cuts, k))
     IN  [text |-> FlattenSeq([j \in DOMAIN span |-> span[j].text]),
          refs |-> UNION {u.refs : u \in ToSet(span)}]]
=============================================================================
