----------------------------- MODULE ChunkFlow -----------------------------
(***************************************************************************)
(* A document becomes chunks, for every document and plan of the bounds.   *)
(* chunkTask is the input: items for the structural or the semantic        *)
(* chunker, or units for the planner alone, and a list of distances of     *)
(* neighbours; chunkOut is what the last step returned.                    *)
(***************************************************************************)
EXTENDS StructuralChunks, SemanticChunks

CONSTANTS ChunkTasks,
          Distances   \* lists of distances between neighbouring units

VARIABLES chunkTask, chunkStep, chunkOut

chunkVars == <<chunkTask, chunkStep, chunkOut>>

NoChunks == [units |-> <<>>, cuts |-> <<>>, drafts |-> <<>>]

ChunkInit ==
  /\ chunkTask \in ChunkTasks
  /\ chunkStep = "start" /\ chunkOut = NoChunks

Proceed(step, result) ==
  /\ chunkStep' = step /\ chunkOut' = result /\ UNCHANGED chunkTask

ProceedWith(made) ==
  Proceed(IF made.failed THEN "failed" ELSE "done", [NoChunks EXCEPT !.drafts = made.drafts])

AssembleStructural ==
  /\ chunkStep = "start" /\ chunkTask.kind = "structural"
  /\ ProceedWith(Structural(chunkTask.items))

UseUnits(read) ==
  IF read.failed THEN Proceed("failed", NoChunks)
  ELSE Proceed("units", [NoChunks EXCEPT !.units = read.units])

ReadUnits ==
  /\ chunkStep = "start" /\ chunkTask.kind = "semantic"
  /\ UseUnits(SourceUnits(chunkTask.items))

TakeUnits ==
  /\ chunkStep = "start" /\ chunkTask.kind = "plan"
  /\ Proceed("units", [NoChunks EXCEPT !.units = chunkTask.units])

PlanChunks ==
  /\ chunkStep = "units"
  /\ Proceed("planned", 
             [chunkOut EXCEPT !.cuts = BuildPlan(chunkOut.units,
                                                 Distances[chunkTask.distances])])

AssembleSemantic ==
  /\ chunkStep = "planned"
  /\ IF AssemblyFails(chunkOut.units, chunkOut.cuts) THEN Proceed("failed", chunkOut)
     ELSE Proceed("done",
                  [chunkOut EXCEPT !.drafts = Assemble(chunkOut.units, chunkOut.cuts)])

ChunkNext == AssembleStructural \/ ReadUnits \/ TakeUnits \/ PlanChunks \/ AssembleSemantic

ChunkSpec == ChunkInit /\ [][ChunkNext]_chunkVars

-----------------------------------------------------------------------------
(* Properties.                                                             *)

Items   == chunkTask.items
Drafts  == chunkOut.drafts
ChunkedItems == chunkStep = "done" /\ chunkTask.kind \in {"structural", "semantic"}

TokensOf(text) == UNION {{<<s[1], n>> : n \in s[2] .. s[3]} : s \in ToSet(text)}
Chunked  == UNION {TokensOf(d.text) : d \in ToSet(Drafts)}
HasText(i) == Items[i].parts # <<>> /\ ~WithoutText(Items[i])
Cited(i) == WithoutText(Items[i])

(* No chunk is over the limit: its text, or its units and separators, so   *)
(* that the assembly refuses no plan.                                      *)
ChunksFit ==
  IF chunkTask.kind = "structural"
  THEN \A d \in ToSet(Drafts) : Tokens(d.text) <= MaxTokens
  ELSE ~AssemblyFails(chunkOut.units, chunkOut.cuts)

(* Text of its page and section follows i.                                 *)
TextFollows(i) ==
  \E j \in DOMAIN Items :
    /\ j > i /\ HasText(j)
    /\ \A k \in i .. j : Items[k].page = Items[i].page
    /\ \A k \in (i + 1) .. j : Items[k].kind \notin {"heading", "table"}

(* Chunks keep the document, by either method: each token of its text is   *)
(* in a chunk, no chunk is over the limit, a chunk cites every item whose  *)
(* text it shows, texts stay in reading order, and a picture or a caption  *)
(* is cited by a chunk when text of its page and section follows it (the   *)
(* semantic chunker cites it in any case).  No plan of units that could be *)
(* read is refused at the end.                                             *)
ChunksKeepTheDocument ==
  /\ chunkStep = "failed" => chunkOut.units = <<>>
  /\ ChunkedItems =>
    /\ \A i \in DOMAIN Items : HasText(i) =>
         \A n \in 1 .. PartEnd(Items[i].parts, Len(Items[i].parts)) : <<i, n>> \in Chunked
    /\ \A d \in ToSet(Drafts) :
         /\ {s[1] : s \in ToSet(d.text)} \subseteq d.refs
    /\ ChunksFit
    /\ \A j, k \in DOMAIN Drafts : j < k =>
         Last(Drafts[j].text)[1] <= Last(Drafts[k].text)[1]
    /\ \A i \in DOMAIN Items :
         Cited(i) /\ (chunkTask.kind = "structural" => TextFollows(i))
         => \E d \in ToSet(Drafts) : i \in d.refs

Units     == chunkOut.units
CutsInside(first, last) ==
  {b.cut : b \in ToSet(chunkOut.cuts)} \cap (first .. (last - 1))

(* What a set of cuts of a region earns, stated without the program.       *)
ChunkEnds(cuts, last)  == cuts \cup {last}
ChunkBegin(cuts, first, end) == Max({first} \cup {c + 1 : c \in {d \in cuts : d < end}})
ChunkSizes(cuts, first, last) ==
  [e \in ChunkEnds(cuts, last) |-> JoinedSize(Units, ChunkBegin(cuts, first, e), e)]
LegalCuts(first, last) ==
  {cuts \in SUBSET (first .. (last - 1)) :
     \A e \in ChunkEnds(cuts, last) :
       ChunkSizes(cuts, first, last)[e] \in MinChunk .. MaxTokens}
Earned(cuts, gain, first, last) ==
  MapThenSumSet(LAMBDA c : gain[c], cuts)
  - MapThenSumSet(LAMBDA e : SizePenalty(ChunkSizes(cuts, first, last)[e]),
                  ChunkEnds(cuts, last))

BestInRegion(first, last) ==
  LET scores == Smoothed(Units, RawDistances(Units, Distances[chunkTask.distances]))
      gain   == RegionGain(scores, first, last)
      chosen == CutsInside(first, last)
      legal  == LegalCuts(first, last)
  IN  legal # {} => /\ chosen \in legal
                    /\ \A cuts \in legal : Earned(cuts, gain, first, last)
                                            <= Earned(chosen, gain, first, last)

(* A plan cuts an oversized region the way that earns most among all legal *)
(* ways and no other region; it keeps every hard boundary but those of     *)
(* sections; and no small span that is left could join a neighbour across  *)
(* a section.                                                              *)
PlansAreBest ==
  chunkStep = "planned" =>
    /\ \A first \in RegionStarts(Units) :
         LET last == RegionEnd(Units, first)
         IN  IF Oversized(Units, first) THEN BestInRegion(first, last)
             ELSE CutsInside(first, last) = {}
    /\ \A k \in 2 .. Len(Units) :
         Units[k].before \notin {NoBoundary, "section"} =>
           Boundary(k - 1, Units[k].before) \in ToSet(chunkOut.cuts)
    /\ \A k \in 1 .. (Len(chunkOut.cuts) + 1) :
         SpanSize(Units, chunkOut.cuts, k, k) < MinChunk /\ chunkOut.cuts # <<>> =>
           ~Joinable(Units, chunkOut.cuts, k) /\ ~Joinable(Units, chunkOut.cuts, k - 1)

(* Headings introduce content, so they wait for it instead of becoming     *)
(* chunks that answer nothing: only the last chunks are headings alone.    *)
HeadingsWait ==
  chunkStep = "done" /\ chunkTask.kind = "structural" =>
    \A k \in DOMAIN Drafts :
      (\A s \in ToSet(Drafts[k].text) : Items[s[1]].kind = "heading") =>
        \A i \in DOMAIN Items : HasText(i) /\ ~Heading(Items[i]) =>
          i < Last(Drafts[k].text)[1]
=============================================================================
