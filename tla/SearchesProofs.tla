--------------------------- MODULE SearchesProofs ---------------------------
(***************************************************************************)
(* Proofs about what a search reads and about the vectors that it compares.*)
(*                                                                         *)
(* Searches: for any chunks, versions, orders of the lanes, relations,     *)
(* paths and limits, and for any changes of the index between the          *)
(* statements of a search.                                                 *)
(*                                                                         *)
(* Representations: for any source of a build and any sizes of batches,    *)
(* whatever batches the providers refuse, answer short or have cut.        *)
(***************************************************************************)
EXTENDS Searches, Representations, SequenceTheorems, FiniteSetTheorems,
        WellFoundedInduction, TLAPS

Served == UNION moments

(* Once a moment is past, the chunks of its versions that are not excluded *)
(* even now were all served in it.                                         *)
MomentsAreWhole ==
  \A M \in moments :
    /\ M \subseteq Rows
    /\ \A a \in M : \A c \in Rows \ excluded : Home[c] = Home[a] => c \in M

(* What is served now belongs to the moments of a search that runs.        *)
NowIsAMoment == Running => Eligible \in moments

(* Everything a search holds was served while it ran.                      *)
HeldWasServed ==
  /\ \A l \in Pools : found[l] \subseteq Served
  /\ context \subseteq Served /\ pack \subseteq Served
  /\ \A r \in related : r[1] \in Served /\ r[2] \in Served

(* The hits of a statement, those of the generated questions included,     *)
(* were served at once.                                                    *)
HitsAreOfOneMoment ==
  Running => /\ \E M \in moments : found["dense"] \cup found["asked"] \subseteq M
             /\ \E M \in moments : found["lexical"] \subseteq M

(* A search with one lane has nothing from the others.                     *)
OtherLanesAreEmpty ==
  /\ mode = "vector" /\ ~cross /\ pc # "idle" =>
     /\ todo \subseteq {"dense"}
     /\ found["cross"] = {} /\ found["lexical"] = {}
  /\ mode = "keyword" /\ pc # "idle" =>
     /\ todo \subseteq {"lexical"}
     /\ found["cross"] = {} /\ found["dense"] = {} /\ found["asked"] = {}

(* Where a mode may stand, and what it does not hold there.                *)
ModesStand ==
  /\ pc \in {"wider", "beside", "rank"} => mode = "vector" /\ ~cross
  /\ pc \in {"hydrate", "fuse"} =>
       mode \in Strategies \ {"keyword"} /\ ~(mode = "vector" /\ ~cross)
  /\ pc = "lanes" => mode \in Strategies
  /\ pc = "paths" => mode \in {"relations", "graph"}
  /\ pc = "context" => mode = "context"
  /\ Running /\ mode # "graph" => pack = {}
  /\ mode = "keyword" \/ mode = "relations" \/ pc \in {"lanes", "wider"} => anchors = {}
  /\ pc \in {"lanes", "wider", "beside"} => context = {}

(* The second read of an exact search saw the hits and the anchors at      *)
(* once, and the neighbours, of the versions of those anchors, belong to   *)
(* the same moment.                                                        *)
ReadsAgree ==
  pc \in {"beside", "rank"} =>
    \E M \in moments : found["dense"] \cup anchors \cup context \subseteq M

(* A search that is over holds nothing but its answer.                     *)
DoneHoldsNothing == pc = "done" => found = NoHits /\ context = {} /\ related = {}

SearchInv == /\ SearchTypeOK /\ MomentsAreWhole /\ NowIsAMoment
             /\ HeldWasServed /\ HitsAreOfOneMoment /\ OtherLanesAreEmpty
             /\ ModesStand /\ ReadsAgree /\ EvidenceWasServed
             /\ DoneHoldsNothing

(* Initially nothing was searched.                                         *)
LEMMA SearchInitially == SearchInit => SearchInv
  BY DEF SearchInit, NoHits, Pools, Lanes, SearchInv, SearchTypeOK, MomentsAreWhole,
         NowIsAMoment, HeldWasServed, HitsAreOfOneMoment, OtherLanesAreEmpty,
         ModesStand, ReadsAgree, EvidenceWasServed, DoneHoldsNothing, Running

-----------------------------------------------------------------------------
(* What is served at once.                                                 *)

(* A version is served with all of its chunks that are not excluded.       *)
LEMMA VersionsAreWhole ==
  /\ Eligible \subseteq Rows
  /\ \A a \in Eligible : \A c \in Rows \ excluded : Home[c] = Home[a] => c \in Eligible
  BY DEF Eligible

(* The best chunks of a lane are served.                                   *)
LEMMA TopIsServed == ASSUME NEW l, NEW n PROVE Top(l, n) \subseteq Eligible
  BY DEF Top, Listed

(* Another transaction adds a moment to a search that runs and disturbs    *)
(* nothing that the search holds.                                          *)
LEMMA ElsewhereStep ==
  ASSUME SearchInv, Elsewhere
  PROVE  SearchInv'
<1> USE DEF SearchInv
<1>1. /\ UNCHANGED searchVars /\ cross' = cross /\ Watched
      /\ excluded \subseteq excluded' /\ excluded' \subseteq Rows
      /\ present' \in BOOLEAN
      BY SearchConstants DEF Elsewhere, Replace, ExcludeChunk, DeleteKnowledgeBase, SearchTypeOK
<1>2. SearchTypeOK'
      BY <1>1 DEF SearchTypeOK, searchVars
<1>3. /\ Eligible' \subseteq Rows
      /\ \A a \in Eligible' : \A c \in Rows \ excluded' : Home[c] = Home[a] => c \in Eligible'
      BY DEF Eligible
<1>4. moments \subseteq moments' /\ moments' \subseteq moments \cup {Eligible'}
      BY <1>1 DEF Watched
<1>5. MomentsAreWhole'
      BY <1>1, <1>3, <1>4 DEF MomentsAreWhole
<1>6. NowIsAMoment'
      BY <1>1 DEF NowIsAMoment, Watched, Running, searchVars
<1>7. Served \subseteq Served'
      BY <1>4 DEF Served
<1>8. HeldWasServed'
      BY <1>1, <1>7 DEF HeldWasServed, searchVars
<1>9. HitsAreOfOneMoment' /\ ReadsAgree'
      BY <1>1, <1>4 DEF HitsAreOfOneMoment, ReadsAgree, Running, searchVars
<1>10. OtherLanesAreEmpty' /\ ModesStand'
      BY <1>1 DEF OtherLanesAreEmpty, ModesStand, Running, searchVars
<1>11. EvidenceWasServed' /\ DoneHoldsNothing'
      BY <1>1, <1>4 DEF EvidenceWasServed, DoneHoldsNothing, searchVars
<1> QED BY <1>2, <1>5, <1>6, <1>8, <1>9, <1>10, <1>11

-----------------------------------------------------------------------------
(* The statements of the search see what is served and change nothing of   *)
(* it.                                                                     *)
LEMMA StillServed ==
  ASSUME Still
  PROVE  Eligible' = Eligible /\ excluded' = excluded /\ cross' = cross
                   /\ present' = present
  BY DEF Still, indexVars, Eligible, Serving

(* A search starts with nothing, in the moment it starts.                  *)
LEMMA StartedStep ==
  ASSUME SearchInv, NEW m \in Strategies \cup {"relations"},
         NEW step \in {"lanes", "paths"}, Started(m, step),
         step = "paths" <=> m = "relations"
  PROVE  SearchInv'
<1>1. /\ mode' = m /\ todo' = LanesOf(m) /\ pc' = step /\ found' = NoHits
      /\ anchors' = {} /\ context' = {} /\ related' = {} /\ pack' = {}
      /\ moments' = {Eligible}
      BY DEF Started
<1>2. Eligible' = Eligible /\ excluded' = excluded /\ cross' = cross /\ present' = present
      BY StillServed DEF Started
<1>3. LanesOf(m) \subseteq Lanes
      BY DEF LanesOf, Spaces, Lanes
<1>4. SearchTypeOK'
      BY <1>1, <1>2, <1>3 DEF SearchInv, SearchTypeOK, NoHits
<1>5. MomentsAreWhole' /\ NowIsAMoment'
      BY <1>1, <1>2, VersionsAreWhole DEF MomentsAreWhole, NowIsAMoment
<1>6. HeldWasServed' /\ HitsAreOfOneMoment' /\ ReadsAgree' /\ EvidenceWasServed'
      BY <1>1 DEF HeldWasServed, HitsAreOfOneMoment, ReadsAgree, EvidenceWasServed,
                  NoHits, Pools, Lanes
<1>7. OtherLanesAreEmpty' /\ ModesStand' /\ DoneHoldsNothing'
      BY <1>1, <1>2 DEF OtherLanesAreEmpty, ModesStand, DoneHoldsNothing, NoHits, Pools, Lanes, LanesOf, Spaces,
                        Strategies, Running
<1> QED BY <1>4, <1>5, <1>6, <1>7 DEF SearchInv

(* A search that fails holds nothing.                                      *)
LEMMA FailedStep ==
  ASSUME SearchInv, Failed
  PROVE  SearchInv'
<1>1. Eligible' = Eligible /\ excluded' = excluded /\ cross' = cross /\ present' = present
      BY StillServed DEF Failed
<1> QED
    BY <1>1 DEF Failed, SearchInv, SearchTypeOK, NoHits, Pools, Lanes, MomentsAreWhole,
         NowIsAMoment, Running, HeldWasServed, HitsAreOfOneMoment, OtherLanesAreEmpty,
         ModesStand, DoneHoldsNothing, ReadsAgree, EvidenceWasServed, Strategies

(* An answer whose evidence was served, and at once where that is promised.*)
LEMMA AnswerStep ==
  ASSUME SearchInv, Running, NEW E, Answer(E), E \subseteq Rows, E \subseteq Served,
         \/ mode = "vector" /\ ~cross
         \/ mode \in {"keyword", "relations", "context"}
         => \E M \in moments : anchors \cup E \subseteq M
  PROVE  SearchInv'
<1>1. /\ pack' = E /\ pc' = "done" /\ found' = NoHits /\ context' = {} /\ related' = {}
      /\ mode' = mode /\ todo' = todo /\ anchors' = anchors /\ moments' = moments
      BY DEF Answer
<1>2. Eligible' = Eligible /\ excluded' = excluded /\ cross' = cross /\ present' = present
      BY StillServed DEF Answer
<1>3. SearchTypeOK'
      BY <1>1, <1>2 DEF SearchInv, SearchTypeOK, NoHits
<1>4. MomentsAreWhole' /\ NowIsAMoment'
      BY <1>1, <1>2 DEF SearchInv, MomentsAreWhole, NowIsAMoment, Running
<1>5. HeldWasServed' /\ HitsAreOfOneMoment' /\ ReadsAgree'
      BY <1>1 DEF HeldWasServed, HitsAreOfOneMoment, ReadsAgree, Running, NoHits, Served,
                  Pools, Lanes
<1>6. OtherLanesAreEmpty' /\ ModesStand' /\ DoneHoldsNothing'
      BY <1>1, <1>2 DEF SearchInv, OtherLanesAreEmpty, ModesStand, DoneHoldsNothing, Running, NoHits, Pools, Lanes
<1>7. EvidenceWasServed'
      BY <1>1, <1>2 DEF EvidenceWasServed, Served
<1> QED BY <1>3, <1>4, <1>5, <1>6, <1>7 DEF SearchInv

(* A search takes a step from one statement to the next without holding    *)
(* anything more.                                                          *)
LEMMA ReachStep ==
  ASSUME SearchInv, NEW step \in {"wider", "rank", "hydrate"}, Reach(step),
         \/ pc = "lanes" /\ step # "rank"
         \/ pc = "wider" /\ step = "rank",
         step = "wider" => mode = "vector" /\ ~cross,
         step = "hydrate" => mode \in Strategies \ {"keyword"} /\ ~(mode = "vector" /\ ~cross)
  PROVE  SearchInv'
<1>1. /\ pc' = step
      /\ UNCHANGED <<mode, todo, found, anchors, context, related, pack, moments>>
      BY DEF Reach
<1>2. Eligible' = Eligible /\ excluded' = excluded /\ cross' = cross /\ present' = present
      BY StillServed DEF Reach
<1> USE DEF SearchInv
<1>3. SearchTypeOK'
      BY <1>1, <1>2 DEF SearchTypeOK
<1>4. MomentsAreWhole' /\ NowIsAMoment'
      BY <1>1, <1>2 DEF MomentsAreWhole, NowIsAMoment, Running
<1>5. HeldWasServed' /\ HitsAreOfOneMoment' /\ EvidenceWasServed'
      BY <1>1 DEF HeldWasServed, HitsAreOfOneMoment, EvidenceWasServed, Running, Served
<1>6. ReadsAgree'
      BY <1>1 DEF ReadsAgree, HitsAreOfOneMoment, ModesStand, Running
<1>7. OtherLanesAreEmpty' /\ ModesStand' /\ DoneHoldsNothing'
      BY <1>1, <1>2 DEF OtherLanesAreEmpty, ModesStand, DoneHoldsNothing, Running, Strategies
<1> QED BY <1>3, <1>4, <1>5, <1>6, <1>7

-----------------------------------------------------------------------------
(* The steps of a search.                                                  *)

(* A lane adds the hits of one statement.                                  *)
LEMMA CollectStep ==
  ASSUME SearchInv, NEW l \in Lanes, pc = "lanes", l \in todo, Collect(l)
  PROVE  SearchInv'
<1>1. /\ found' = Results(l) /\ todo' = todo \ {l}
      /\ UNCHANGED <<mode, pc, anchors, context, related, pack, moments>>
      BY DEF Collect
<1>2. Eligible' = Eligible /\ excluded' = excluded /\ cross' = cross /\ present' = present
      BY StillServed DEF Collect
<1> USE DEF SearchInv
<1>3. Eligible \in moments /\ Eligible \subseteq Rows /\ Running
      BY VersionsAreWhole DEF NowIsAMoment, Running
<1>4. PICK H : H = Top(l, LaneLimit) /\ H \subseteq Eligible
      BY TopIsServed
<1>5. PICK G : G = Hints /\ G \subseteq Eligible
      BY TopIsServed DEF Hints
<1>6. /\ found' \in [Pools -> SUBSET Rows]
      /\ found'[l] = H
      /\ found'["asked"] = IF l = "dense" THEN G ELSE found["asked"]
      /\ \A k \in Lanes \ {l} : found'[k] = found[k]
      BY <1>1, <1>3, <1>4, <1>5 DEF Results, SearchTypeOK, Pools, Lanes
<1>7. SearchTypeOK'
      BY <1>1, <1>2, <1>6 DEF SearchTypeOK
<1>8. MomentsAreWhole' /\ NowIsAMoment'
      BY <1>1, <1>2 DEF MomentsAreWhole, NowIsAMoment, Running
<1>9. HeldWasServed'
      BY <1>1, <1>3, <1>4, <1>5, <1>6 DEF HeldWasServed, Served, Pools
<1>10. HitsAreOfOneMoment'
  <2>1. \E M \in moments' : found'["dense"] \cup found'["asked"] \subseteq M
        BY <1>1, <1>3, <1>4, <1>5, <1>6 DEF HitsAreOfOneMoment, Lanes
  <2>2. \E M \in moments' : found'["lexical"] \subseteq M
        BY <1>1, <1>3, <1>4, <1>6 DEF HitsAreOfOneMoment, Lanes
  <2> QED BY <2>1, <2>2 DEF HitsAreOfOneMoment
<1>11. OtherLanesAreEmpty'
      BY <1>1, <1>2, <1>6 DEF OtherLanesAreEmpty, Lanes
<1>12. ModesStand' /\ DoneHoldsNothing' /\ ReadsAgree' /\ EvidenceWasServed'
      BY <1>1, <1>2 DEF ModesStand, DoneHoldsNothing, ReadsAgree, EvidenceWasServed, Running
<1> QED BY <1>7, <1>8, <1>9, <1>10, <1>11, <1>12

(* What may be ranked was found.                                           *)
LEMMA RankedIsOf == ASSUME NEW S, NEW T \in Ranked(S) PROVE T \subseteq S
  BY DEF Ranked

(* What is admitted was found in one of the lanes.                         *)
LEMMA AdmittedIsFound ==
  ASSUME SearchInv
  PROVE  Admitted \subseteq Served /\ Admitted \subseteq Rows
  BY DEF SearchInv, Admitted, HeldWasServed, SearchTypeOK, Pools, Lanes

(* The lanes have answered: a keyword search and a plain search with the   *)
(* reranker are done, an exact search reads on, the others hydrate.        *)
LEMMA GatheredStep ==
  ASSUME SearchInv, Gathered
  PROVE  SearchInv'
<1>1. pc = "lanes" /\ Running /\ mode \in Strategies
      BY DEF Gathered, Running, SearchInv, ModesStand
<1>2. CASE mode = "vector" /\ ~cross
  <2>1. Reach("wider")
        BY <1>2 DEF Gathered
  <2> QED BY <1>1, <1>2, <2>1, ReachStep
<1>3. CASE mode = "keyword" \/ (mode = "reranked" /\ ~cross)
  <2>1. PICK T \in Ranked(Admitted) : Answer(T)
        BY <1>3 DEF Gathered
  <2>2. T \subseteq Served /\ T \subseteq Rows
        BY AdmittedIsFound, RankedIsOf
  <2>3. mode = "keyword" => \E M \in moments : anchors \cup T \subseteq M
        BY <1>1, RankedIsOf DEF SearchInv, HitsAreOfOneMoment, OtherLanesAreEmpty, ModesStand, Admitted
  <2> QED BY <1>1, <1>3, <2>1, <2>2, <2>3, AnswerStep
<1>4. CASE ~(mode = "vector" /\ ~cross) /\ ~(mode = "keyword" \/ (mode = "reranked" /\ ~cross))
  <2>1. Reach("hydrate")
        BY <1>4 DEF Gathered
  <2> QED BY <1>1, <1>4, <2>1, ReachStep
<1> QED BY <1>2, <1>3, <1>4

(* The wider read of an exact search: its anchors were served together     *)
(* with the hits it found again.                                           *)
LEMMA WiderStep ==
  ASSUME SearchInv, WiderRead
  PROVE  SearchInv'
<1>1. pc = "wider" /\ Running /\ mode = "vector" /\ ~cross
      BY DEF WiderRead, Running, SearchInv, ModesStand
<1>2. CASE found["dense"] = {} \/ found["asked"] # {}
  <2>1. Reach("rank")
        BY <1>2 DEF WiderRead
  <2> QED BY <1>1, <2>1, ReachStep
<1>3. CASE found["dense"] # {} /\ found["asked"] = {} /\ (~present \/ ~SameCore)
  <2>1. Failed
        BY <1>3 DEF WiderRead
  <2> QED BY <2>1, FailedStep
<1>4. CASE found["dense"] # {} /\ found["asked"] = {} /\ present /\ SameCore
  <2>1. PICK S : /\ S = {c \in Top("dense", AnchorLimit) \cap Near : KindOf[c] # "image"}
                 /\ S \subseteq Eligible
        BY TopIsServed
  <2>2. /\ anchors' = S
        /\ pc' \in {"rank", "beside"}
        /\ UNCHANGED <<mode, todo, found, context, related, pack, moments>>
        /\ Still
        BY <1>4, <2>1 DEF WiderRead
  <2>3. Eligible' = Eligible /\ excluded' = excluded /\ cross' = cross /\ present' = present
        BY <2>2, StillServed
  <2>4. Eligible \in moments /\ Eligible \subseteq Rows
        BY <1>1, VersionsAreWhole DEF SearchInv, NowIsAMoment
  <2>5. found["dense"] \subseteq Eligible
        BY <1>4, TopIsServed DEF SameCore
  <2> USE DEF SearchInv
  <2>6. SearchTypeOK' /\ MomentsAreWhole' /\ NowIsAMoment'
        BY <1>1, <2>1, <2>2, <2>3, <2>4 DEF SearchTypeOK, MomentsAreWhole, NowIsAMoment, Running
  <2>7. HeldWasServed' /\ HitsAreOfOneMoment' /\ EvidenceWasServed'
        BY <1>1, <2>2 DEF HeldWasServed, HitsAreOfOneMoment, EvidenceWasServed, Running, Served
  <2>8. ReadsAgree'
        BY <1>1, <2>1, <2>2, <2>4, <2>5 DEF ReadsAgree, ModesStand
  <2>9. OtherLanesAreEmpty' /\ ModesStand' /\ DoneHoldsNothing'
        BY <1>1, <2>2, <2>3 DEF OtherLanesAreEmpty, ModesStand, DoneHoldsNothing, Running
  <2> QED BY <2>6, <2>7, <2>8, <2>9
<1> QED BY <1>2, <1>3, <1>4

(* Live anchors are all there were: the neighbours are chunks of their     *)
(* versions, and so were served whenever the anchors were.                 *)
LEMMA BesideStep ==
  ASSUME SearchInv, SourceNeighbours
  PROVE  SearchInv'
<1>1. pc = "beside" /\ Running /\ mode = "vector" /\ ~cross
      BY DEF SourceNeighbours, Running, SearchInv, ModesStand
<1>2. CASE ~present \/ ~Validated
      BY <1>2, FailedStep DEF SourceNeighbours
<1>3. CASE present /\ Validated
  <2>1. PICK C : C = {c \in Neighbours \ found["dense"] : KindOf[c] = "table"}
        OBVIOUS
  <2>2. /\ context' = C /\ pc' = "rank"
        /\ UNCHANGED <<mode, todo, found, anchors, related, pack, moments>>
        /\ Still
        BY <1>3, <2>1 DEF SourceNeighbours
  <2>3. Eligible' = Eligible /\ excluded' = excluded /\ cross' = cross /\ present' = present
        BY <2>2, StillServed
  <2>4. /\ C \subseteq Eligible
        /\ \A c \in C : \E a \in anchors : Home[a] = Home[c]
        BY <2>1, <1>3 DEF Neighbours, Beside, Validated, LiveAnchors
  <2>5. Eligible \in moments /\ Eligible \subseteq Rows \ excluded
        BY <1>1 DEF SearchInv, NowIsAMoment, Eligible
  <2> USE DEF SearchInv
  <2>6. SearchTypeOK' /\ MomentsAreWhole' /\ NowIsAMoment'
        BY <1>1, <2>2, <2>3, <2>4, <2>5 DEF SearchTypeOK, MomentsAreWhole, NowIsAMoment, Running
  <2>7. HeldWasServed' /\ HitsAreOfOneMoment' /\ EvidenceWasServed'
        BY <1>1, <2>2, <2>4, <2>5 DEF HeldWasServed, HitsAreOfOneMoment, EvidenceWasServed, Running, Served
  <2>8. ReadsAgree'
    <3>1. PICK M \in moments : found["dense"] \cup anchors \subseteq M
          BY <1>1 DEF ReadsAgree
    <3>2. C \subseteq M
          BY <2>4, <2>5, <3>1 DEF MomentsAreWhole
    <3> QED BY <2>2, <3>1, <3>2 DEF ReadsAgree
  <2>9. OtherLanesAreEmpty' /\ ModesStand' /\ DoneHoldsNothing'
        BY <1>1, <2>2, <2>3 DEF OtherLanesAreEmpty, ModesStand, DoneHoldsNothing, Running
  <2> QED BY <2>6, <2>7, <2>8, <2>9
<1> QED BY <1>2, <1>3

(* The hits and the table context are ranked together.                     *)
LEMMA RankStep ==
  ASSUME SearchInv, Rank
  PROVE  SearchInv'
<1>1. pc = "rank" /\ Running /\ mode = "vector" /\ ~cross
      BY DEF Rank, Running, SearchInv, ModesStand
<1>2. PICK T \in Ranked(Admitted \cup context) : Answer(T)
      BY DEF Rank
<1>3. T \subseteq Admitted \cup context
      BY RankedIsOf
<1>4. T \subseteq Served /\ T \subseteq Rows
      BY <1>3, AdmittedIsFound DEF SearchInv, HeldWasServed, SearchTypeOK
<1>5. \E M \in moments : anchors \cup T \subseteq M
      BY <1>1, <1>3 DEF SearchInv, ReadsAgree, Admitted, OtherLanesAreEmpty
<1> QED BY <1>1, <1>2, <1>4, <1>5, AnswerStep

(* The relations that are hydrated have both ends served.                  *)
LEMMA HydrateStep ==
  ASSUME SearchInv, Hydrate
  PROVE  SearchInv'
<1>1. PICK R : R = Related
      OBVIOUS
<1>2. /\ pc = "hydrate" /\ related' = R /\ pc' = "fuse"
      /\ UNCHANGED <<mode, todo, found, anchors, context, pack, moments>>
      BY <1>1 DEF Hydrate
<1>3. Eligible' = Eligible /\ excluded' = excluded /\ cross' = cross /\ present' = present
      BY StillServed DEF Hydrate
<1>4. R \subseteq Linked /\ \A r \in R : r[1] \in Eligible /\ r[2] \in Eligible
      BY <1>1 DEF Related
<1> USE DEF SearchInv
<1>5. SearchTypeOK' /\ MomentsAreWhole' /\ NowIsAMoment'
      BY <1>2, <1>3, <1>4 DEF SearchTypeOK, MomentsAreWhole, NowIsAMoment, Running
<1>6. HeldWasServed'
      BY <1>2, <1>4 DEF HeldWasServed, NowIsAMoment, Running, Served
<1>7. HitsAreOfOneMoment' /\ EvidenceWasServed' /\ ReadsAgree'
      BY <1>2 DEF HitsAreOfOneMoment, EvidenceWasServed, ReadsAgree, Running
<1>8. OtherLanesAreEmpty' /\ ModesStand' /\ DoneHoldsNothing'
      BY <1>2, <1>3 DEF OtherLanesAreEmpty, ModesStand, DoneHoldsNothing, Running
<1> QED BY <1>5, <1>6, <1>7, <1>8

(* The chunks that stand for a hit, and the visuals around them, were      *)
(* served when the hit or the relations were read.                         *)
LEMMA CompositeWasServed ==
  ASSUME SearchInv, NEW T \in Ranked(UNION {Bases(h) : h \in Admitted})
  PROVE  Composite(T) \subseteq Served /\ Composite(T) \subseteq Rows
<1>1. \A r \in related : r[1] \in Served /\ r[2] \in Served /\ r[1] \in Rows /\ r[2] \in Rows
      BY SearchConstants DEF SearchInv, HeldWasServed, SearchTypeOK
<1>2. \A h \in Admitted : Bases(h) \subseteq Served \cap Rows
      BY <1>1, AdmittedIsFound DEF Bases
<1>3. T \subseteq Served \cap Rows
      BY <1>2, RankedIsOf
<1>4. Visuals(T) \subseteq Served \cap Rows
      BY <1>1 DEF Visuals
<1> QED BY <1>3, <1>4 DEF Composite

(* Composite evidence answers, or is kept to fill up the paths.            *)
LEMMA FuseStep ==
  ASSUME SearchInv, Fuse
  PROVE  SearchInv'
<1>1. PICK T \in Ranked(UNION {Bases(h) : h \in Admitted}) : Answer(Composite(T))
      BY DEF Fuse
<1>2. pc = "fuse" /\ Running /\ mode \in Strategies \ {"keyword"}
      /\ ~(mode = "vector" /\ ~cross)
      BY DEF Fuse, Running, SearchInv, ModesStand
<1> QED BY <1>1, <1>2, CompositeWasServed, AnswerStep DEF Strategies

(* The hybrid evidence of a graph search.                                  *)
LEMMA FuseSeedsStep ==
  ASSUME SearchInv, FuseSeeds
  PROVE  SearchInv'
<1>1. PICK T \in Ranked(UNION {Bases(h) : h \in Admitted}) : pack' = Composite(T)
      BY DEF FuseSeeds
<1>2. PICK E : E = Composite(T) /\ E \subseteq Served /\ E \subseteq Rows
      BY CompositeWasServed
<1>3. /\ pc = "fuse" /\ mode = "graph" /\ pack' = E
      /\ pc' = "paths" /\ found' = NoHits /\ related' = {}
      /\ UNCHANGED <<mode, todo, anchors, context, moments>> /\ Still
      BY <1>1, <1>2 DEF FuseSeeds
<1>4. Eligible' = Eligible /\ excluded' = excluded /\ cross' = cross /\ present' = present
      BY <1>3, StillServed
<1> USE DEF SearchInv
<1>5. SearchTypeOK' /\ MomentsAreWhole' /\ NowIsAMoment'
      BY <1>2, <1>3, <1>4 DEF SearchTypeOK, MomentsAreWhole, NowIsAMoment, Running, NoHits
<1>6. HeldWasServed' /\ HitsAreOfOneMoment' /\ EvidenceWasServed' /\ ReadsAgree'
      BY <1>2, <1>3 DEF HeldWasServed, HitsAreOfOneMoment, EvidenceWasServed, ReadsAgree, Running,
                        Served, NoHits, Pools, Lanes
<1>7. OtherLanesAreEmpty' /\ ModesStand' /\ DoneHoldsNothing'
      BY <1>3, <1>4 DEF OtherLanesAreEmpty, ModesStand, DoneHoldsNothing, Running, NoHits
<1> QED BY <1>5, <1>6, <1>7

(* The chunks of whole paths are served now.                               *)
LEMMA PathsAreServed == ASSUME NEW S \in PathPacks PROVE S \subseteq Eligible
<1>1. \A p : \A X \in Sources(p) : X \subseteq Eligible
      BY DEF Sources, Live
<1>2. PICK g : /\ S = UNION {g[p] : p \in Paths}
               /\ \A p \in Paths : g[p] \in {{}} \cup Sources(p)
      BY DEF PathPacks
<1> QED BY <1>1, <1>2

(* Paths first, and the hybrid evidence of a graph search.                 *)
LEMMA PathsStep ==
  ASSUME SearchInv, ReadPaths
  PROVE  SearchInv'
<1>1. CASE ~present
      BY <1>1, FailedStep DEF ReadPaths
<1>2. CASE present
  <2>1. PICK S \in PathPacks : \E T \in SUBSET (pack \ S) :
          (mode = "relations" => T = {}) /\ Answer(S \cup T)
        BY <1>2 DEF ReadPaths
  <2>2. PICK T \in SUBSET (pack \ S) : (mode = "relations" => T = {}) /\ Answer(S \cup T)
        BY <2>1
  <2>3. pc = "paths" /\ Running /\ mode \in {"relations", "graph"}
        BY DEF ReadPaths, Running, SearchInv, ModesStand
  <2>4. S \subseteq Eligible /\ Eligible \in moments /\ Eligible \subseteq Rows
        BY <2>3, PathsAreServed, VersionsAreWhole DEF SearchInv, NowIsAMoment
  <2>5. S \cup T \subseteq Served /\ S \cup T \subseteq Rows
        BY <2>4 DEF SearchInv, HeldWasServed, SearchTypeOK, Served
  <2>6. mode = "relations" => \E M \in moments : anchors \cup (S \cup T) \subseteq M
        BY <2>2, <2>4 DEF SearchInv, ModesStand
  <2> QED BY <2>2, <2>3, <2>5, <2>6, AnswerStep
<1> QED BY <1>1, <1>2

(* A read of chunk context starts with the chunks an earlier search found. *)
LEMMA ReadContextStep ==
  ASSUME SearchInv, NEW asked \in SUBSET pack, ReadContext(asked)
  PROVE  SearchInv'
<1>1. /\ pc = "done"
      /\ mode' = "context" /\ anchors' = asked /\ pack' = {} /\ pc' = "context"
      /\ moments' = {Eligible}
      /\ UNCHANGED <<todo, found, context, related>> /\ Still
      BY DEF ReadContext
<1>2. Eligible' = Eligible /\ excluded' = excluded /\ cross' = cross /\ present' = present
      BY <1>1, StillServed
<1>3. found = NoHits /\ context = {} /\ related = {}
      BY <1>1 DEF SearchInv, DoneHoldsNothing
<1>4. SearchTypeOK' /\ MomentsAreWhole' /\ NowIsAMoment'
      BY <1>1, <1>2, VersionsAreWhole DEF SearchInv, SearchTypeOK, MomentsAreWhole, NowIsAMoment
<1>5. HeldWasServed' /\ HitsAreOfOneMoment' /\ EvidenceWasServed' /\ ReadsAgree'
      BY <1>1, <1>3 DEF HeldWasServed, HitsAreOfOneMoment, EvidenceWasServed, ReadsAgree, NoHits,
                        Pools, Lanes
<1>6. OtherLanesAreEmpty' /\ ModesStand' /\ DoneHoldsNothing'
      BY <1>1, <1>2 DEF OtherLanesAreEmpty, ModesStand, DoneHoldsNothing, Running
<1> QED BY <1>4, <1>5, <1>6 DEF SearchInv

(* The neighbours are read together with their anchors.                    *)
LEMMA AdjacentStep ==
  ASSUME SearchInv, AdjacentChunks
  PROVE  SearchInv'
<1>1. pc = "context" /\ Running /\ mode = "context"
      BY DEF AdjacentChunks, Running, SearchInv, ModesStand
<1>2. CASE ~present \/ ~Validated
      BY <1>2, FailedStep DEF AdjacentChunks
<1>3. CASE present /\ Validated
  <2>1. Answer(Neighbours)
        BY <1>3 DEF AdjacentChunks
  <2>2. anchors \cup Neighbours \subseteq Eligible
        BY <1>3 DEF Validated, LiveAnchors, Neighbours
  <2>3. Eligible \in moments /\ Eligible \subseteq Rows
        BY <1>1, VersionsAreWhole DEF SearchInv, NowIsAMoment
  <2> QED BY <1>1, <2>1, <2>2, <2>3, AnswerStep DEF Served
<1> QED BY <1>2, <1>3

-----------------------------------------------------------------------------
(* Every step keeps the invariant.                                         *)
LEMMA SearchStep ==
  ASSUME SearchInv, SearchNext
  PROVE  SearchInv'
<1>1. ASSUME NEW m \in Strategies, Begin(m) PROVE SearchInv'
      BY <1>1, StartedStep DEF Begin, Strategies
<1>2. ASSUME BeginRelations PROVE SearchInv'
      BY <1>2, StartedStep DEF BeginRelations
<1>3. ASSUME NEW l \in {"dense", "cross"}, VectorLane(l) PROVE SearchInv'
      BY <1>3, CollectStep, FailedStep DEF VectorLane, Lanes
<1>4. ASSUME LexicalLane PROVE SearchInv'
      BY <1>4, CollectStep, FailedStep DEF LexicalLane, Lanes
<1>5. ASSUME NEW asked \in SUBSET pack, ReadContext(asked) PROVE SearchInv'
      BY <1>5, ReadContextStep
<1>6. ASSUME Fail PROVE SearchInv'
      BY <1>6, FailedStep DEF Fail
<1> QED
    BY <1>1, <1>2, <1>3, <1>4, <1>5, <1>6, GatheredStep, WiderStep, BesideStep, RankStep,
       HydrateStep, FuseStep, FuseSeedsStep, PathsStep, AdjacentStep, ElsewhereStep
    DEF SearchNext, Search

(* In every reachable state a search holds what was served while it ran,   *)
(* and the reads of an exact search agree.                                 *)
THEOREM SearchInvariant == SearchSpec => []SearchInv
<1>1. ASSUME SearchInv, UNCHANGED vars PROVE SearchInv'
      BY <1>1 DEF vars, SearchInv, SearchTypeOK, MomentsAreWhole, NowIsAMoment, Eligible,
                  Serving, Running, HeldWasServed, Served, HitsAreOfOneMoment,
                  OtherLanesAreEmpty, ModesStand, ReadsAgree, EvidenceWasServed,
                  DoneHoldsNothing
<1>2. SearchInv /\ [SearchNext]_vars => SearchInv'
      BY <1>1, SearchStep
<1> QED BY <1>2, SearchInitially, PTL DEF SearchSpec

(* Whatever is published, replaced, excluded or deleted between the        *)
(* statements of a search, its answer was served while it ran; that of an  *)
(* exact, keyword, relation or context search at one moment.               *)
THEOREM AnswersWereServed == SearchSpec => []EvidenceWasServed
<1>1. SearchInv => EvidenceWasServed
      BY DEF SearchInv
<1> QED BY <1>1, SearchInvariant, PTL

-----------------------------------------------------------------------------
(* What is served, now or at a moment of the search, holds one version of  *)
(* the document.                                                           *)
Agreeing(S) == \A a, c \in S : Home[a] = Home[c] \/ Fixed \in {Home[a], Home[c]}
OneVersion  == /\ \A u, v \in shown : u = v
               /\ \A M \in moments : Agreeing(M)

(* No step mixes two versions in one moment.                               *)
LEMMA OneVersionStep ==
  ASSUME OneVersion, [SearchNext]_vars
  PROVE  OneVersion'
<1>1. \A u, v \in shown' : u = v
  <2>1. ASSUME UNCHANGED shown PROVE \A u, v \in shown' : u = v
        BY <2>1 DEF OneVersion
  <2>2. ASSUME IndexNext PROVE \A u, v \in shown' : u = v
        BY <2>2 DEF IndexNext, Publish, Show, Withdraw, OneVersion
  <2>3. ASSUME Search PROVE UNCHANGED shown
        BY <2>3 DEF Search, Begin, BeginRelations, Started, VectorLane, LexicalLane, Collect,
                    Gathered, Reach, Answer, Failed, Fail, WiderRead, SourceNeighbours, Rank,
                    Hydrate, Fuse, FuseSeeds, ReadPaths, ReadContext, AdjacentChunks, Still,
                    indexVars
  <2> QED BY <2>1, <2>2, <2>3 DEF SearchNext, Elsewhere, Replace, ExcludeChunk,
                                  DeleteKnowledgeBase, indexVars, vars
<1>2. Agreeing(Eligible) /\ Agreeing(Eligible')
      BY <1>1 DEF Agreeing, Eligible, Serving, OneVersion
<1>3. moments' \subseteq moments \cup {Eligible, Eligible'}
  <2>1. ASSUME Elsewhere PROVE moments' \subseteq moments \cup {Eligible'}
        BY <2>1 DEF Elsewhere, Replace, ExcludeChunk, DeleteKnowledgeBase, Watched
  <2>2. ASSUME Search PROVE moments' \subseteq moments \cup {Eligible}
        BY <2>2 DEF Search, Begin, BeginRelations, Started, VectorLane, LexicalLane, Collect,
                    Gathered, Reach, Answer, Failed, Fail, WiderRead, SourceNeighbours, Rank,
                    Hydrate, Fuse, FuseSeeds, ReadPaths, ReadContext, AdjacentChunks
  <2> QED BY <2>1, <2>2 DEF SearchNext, vars
<1> QED BY <1>1, <1>2, <1>3 DEF OneVersion

(* An answer as of one moment never holds chunks of two versions of a      *)
(* document, however often it was replaced during the search.              *)
THEOREM ExactAnswersHoldOneVersion ==
  SearchSpec => [](pc = "done" /\ (\/ mode = "vector" /\ ~cross
                                   \/ mode \in {"keyword", "relations", "context"})
                     => Agreeing(anchors \cup pack))
<1>1. SearchInit => OneVersion
      BY DEF SearchInit, IndexInit, OneVersion
<1>2. OneVersion /\ [SearchNext]_vars => OneVersion'
      BY OneVersionStep
<1>3. EvidenceWasServed /\ OneVersion =>
        (pc = "done" /\ (\/ mode = "vector" /\ ~cross
                         \/ mode \in {"keyword", "relations", "context"})
           => Agreeing(anchors \cup pack))
      BY DEF EvidenceWasServed, OneVersion, Agreeing
<1> QED BY <1>1, <1>2, <1>3, AnswersWereServed, PTL DEF SearchSpec

-----------------------------------------------------------------------------
(* Representations: what always holds of a build.                          *)

(* What is pooled into vectors, and the items that ask for vectors.        *)
Windows == {"analysis", "text", "image", "question"} \X Nat \X Nat

AnalysisEntries ==
  [unit : DOMAIN built.analysis, kind : {"analysis"}, required : {TRUE}]
PlannedEntries ==
  UNION {{PlannedOf(i)[k] : k \in DOMAIN PlannedOf(i)} : i \in UnitIds}
QuestionEntries ==
  [unit : UnitIds, number : 1..MaxQuestions, kind : {"question"}, required : {TRUE}]

Entries == AnalysisEntries \union PlannedEntries \union QuestionEntries

(* The items of a list with their own vectors.                             *)
AnswersTo(E) == {[item |-> e, vector |-> InputOf(e)] : e \in E}

(* Questions that were asked for, and what is kept of them.                *)
Asking(w) == {q \in [unit : UnitIds, number : 1..MaxQuestions] : q.number \in 1..w.asked[q.unit]}

KeptIn(kept, i) ==
  FlattenSeq([n \in DOMAIN kept |-> IF kept[n].unit = i THEN <<kept[n]>> ELSE <<>>])
QuestionsIn(kept, i) ==
  [k \in DOMAIN KeptIn(kept, i) |-> [unit |-> i, number |-> KeptIn(kept, i)[k].number,
                                     kind |-> "question", required |-> TRUE]]
QuestionsToEmbed(kept) ==
  FlattenSeq([n \in DOMAIN EligibleUnits |-> QuestionsIn(kept, EligibleUnits[n])])

(* The rows, the batch and the items that are left are parts of one kind.  *)
Holding(w, E) ==
  w.items \in Seq(E) /\ w.batch \in Seq(E) /\ w.rows \in Seq(AnswersTo(E))

(* What was answered and what is still asked for are the windows of the    *)
(* batch, in its order.                                                    *)
Answering(w) ==
  /\ w.got \in Seq(Windows) /\ w.todo \in Seq(Seq(Windows))
  /\ w.got \o FlattenSeq(w.todo) = InputsOf(w.batch)
  /\ w.batch = <<>> => w.got = <<>> /\ w.todo = <<>>

(* Where nothing may be left out, the rows, the batch and the rest are the *)
(* whole list.                                                             *)
Placed(w, all) ==
  /\ Len(w.rows) + Len(w.batch) + Len(w.items) = Len(all)
  /\ \A n \in 1..Len(w.rows) : w.rows[n].item = all[n]
  /\ \A n \in 1..Len(w.batch) : w.batch[n] = all[Len(w.rows) + n]
  /\ \A n \in 1..Len(w.items) : w.items[n] = all[Len(w.rows) + Len(w.batch) + n]

WorkIsRecord(w) ==
  w = [stage |-> w.stage, items |-> w.items, batch |-> w.batch, todo |-> w.todo,
       got |-> w.got, rows |-> w.rows, tries |-> w.tries, asked |-> w.asked,
       kept |-> w.kept, measured |-> w.measured, stored |-> w.stored,
       questions |-> w.questions]

WorkTypes(w) ==
  /\ WorkIsRecord(w)
  /\ w.stage \in {"measure", "text", "images", "ask", "verify", "questions",
                  "validate", "done", "failed"}
  /\ w.asked \in [UnitIds -> 0..MaxQuestions] /\ w.kept \in Seq(Asking(w))
  /\ w.rows \in Seq(AnswersTo(Entries)) /\ w.stored \in Seq(AnswersTo(PlannedEntries))

(* What a stage works on.                                                  *)
StageHolds(w) ==
  /\ w.stage = "measure" =>
       Holding(w, AnalysisEntries) /\ Answering(w) /\ Placed(w, AnalysisItems)
  /\ w.stage \in {"text", "images"} => Holding(w, PlannedEntries) /\ Answering(w)
  /\ w.stage = "questions" =>
       /\ Holding(w, QuestionEntries) /\ Answering(w)
       /\ Placed(w, QuestionsToEmbed(w.kept))
  /\ w.stage = "ask" => w.items \in Seq(UnitIds) /\ w.todo \in Seq(Seq(UnitIds))
  /\ w.stage = "verify" => w.items \in Seq(Asking(w)) /\ w.todo \in Seq(Seq(Asking(w)))

(* What a stage has not.                                                   *)
StageLacks(w) ==
  /\ w.stage \in {"ask", "verify", "validate", "done", "failed"} =>
       w.batch = <<>> /\ w.got = <<>>
  /\ w.stage \in {"validate", "done", "failed"} => w.todo = <<>>
  /\ w.stage \in {"ask", "verify"} => w.rows = <<>>
  /\ w.stage \in {"measure", "text", "images", "ask"} => w.kept = <<>>
  /\ w.stage \notin {"validate", "done", "failed"} => w.questions = <<>>

(* What is stored.                                                         *)
MeasuredOwn(w) ==
  /\ DOMAIN w.measured = DOMAIN built.analysis
  /\ \A i \in DOMAIN built.analysis :
       w.measured[i].vector = WindowsOf("analysis", i, built.analysis[i])

QuestionsOwn(w) ==
  \A n \in DOMAIN w.questions :
    LET row == w.questions[n]
    IN  /\ row.vector = <<<<"question", row.unit, row.number>>>>
        /\ row.support = [unit |-> row.unit, number |-> row.number]
        /\ row.number \in 1..w.asked[row.unit]

KindsComplete(w) ==
  \A i \in UnitIds :
    {row.item.kind : row \in {r \in ToSet(w.stored) : r.item.unit = i}}
      \in CASE built.units[i].kind = "image" -> {{"native_image"}}
            [] built.units[i].kind = "table" ->
                 {{"table_text"}, {"table_text", "table_image"}}
            [] OTHER -> {{"text"}}

StoreHolds(w) ==
  /\ w.stage \notin {"measure", "failed"} => MeasuredOwn(w)
  /\ QuestionsOwn(w)
  /\ w.stage = "done" => KindsComplete(w)

RepresentationInv ==
  /\ built \in BuildSources
  /\ WorkTypes(work) /\ StageHolds(work) /\ StageLacks(work) /\ StoreHolds(work)

-----------------------------------------------------------------------------
(* Parts of lists, and the lists that they are together.                   *)

(* A set of naturals that is not empty has a least member.                 *)
LEMMA LeastOf ==
  ASSUME NEW T, T \subseteq Nat, T # {}
  PROVE  \E x \in T : \A y \in T : x <= y
<1>1. PICK x \in T : \A y \in T : ~ (<<y, x>> \in OpToRel(<, Nat))
      BY WFMin, NatLessThanWellFounded
<1>2. ASSUME NEW y \in T PROVE ~ (y < x)
      BY <1>1, Zenon DEF OpToRel
<1> QED
    BY <1>2

(* g lists what the first parts are together.                              *)
Joined(S, parts, g) ==
  /\ parts \in Seq(Seq(S)) /\ g \in [0..Len(parts) -> Seq(S)]
  /\ g[0] = <<>>
  /\ \A n \in 1..Len(parts) : g[n] = g[n - 1] \o parts[n]

(* Every list of parts has its prefixes.                                   *)
LEMMA JoinedExist ==
  ASSUME NEW S, NEW parts \in Seq(Seq(S))
  PROVE  \E g : Joined(S, parts, g)
<1> DEFINE Upto(m, g) == /\ g \in [0..m -> Seq(S)] /\ g[0] = <<>>
                         /\ \A n \in 1..m : g[n] = g[n - 1] \o parts[n]
           Short == {m \in 0..Len(parts) : ~ \E g : Upto(m, g)}
<1>0. PICK N \in Nat : N = Len(parts)
      OBVIOUS
<1>1. \A n \in 1..N : parts[n] \in Seq(S)
      BY <1>0
<1>2. Upto(0, [n \in 0..0 |-> <<>>])
      OBVIOUS
<1>3. ASSUME NEW m \in 1..N, NEW g, Upto(m - 1, g) PROVE \E h : Upto(m, h)
  <2>1. PICK h : h = [n \in 0..m |-> IF n = m THEN g[m - 1] \o parts[m] ELSE g[n]]
        OBVIOUS
  <2>2. m - 1 \in 0..(m - 1) /\ m \in Nat
        BY <1>0
  <2>3. g[m - 1] \in Seq(S) /\ parts[m] \in Seq(S)
        BY <1>1, <1>3, <2>2
  <2>4. g[m - 1] \o parts[m] \in Seq(S)
        BY <2>3
  <2>5. h[m] = h[m - 1] \o parts[m] /\ h[0] = <<>>
    <3>1. m - 1 \in 0..m /\ m - 1 # m /\ 0 \in 0..m /\ 0 # m /\ m \in 0..m
          BY <2>2
    <3>2. h[m] = g[m - 1] \o parts[m]
          BY <2>1, <3>1
    <3>3. h[m - 1] = g[m - 1]
          BY <2>1, <3>1
    <3>4. h[0] = g[0] /\ g[0] = <<>>
          BY <1>3, <2>1, <3>1
    <3> QED
        BY <3>2, <3>3, <3>4
  <2>6. ASSUME NEW n \in 1..(m - 1) PROVE h[n] = h[n - 1] \o parts[n]
    <3>1. n \in 0..m /\ n - 1 \in 0..m /\ n # m /\ n - 1 # m
          BY <2>2
    <3>2. g[n] = g[n - 1] \o parts[n]
          BY <1>3
    <3>3. h[n] = g[n]
          BY <2>1, <3>1
    <3>4. h[n - 1] = g[n - 1]
          BY <2>1, <3>1
    <3> QED
        BY <3>2, <3>3, <3>4
  <2>7. h \in [0..m -> Seq(S)]
    <3>1. \A n \in 0..m : n # m => n \in 0..(m - 1)
          BY <2>2
    <3>2. \A n \in 0..m : n # m => g[n] \in Seq(S)
          BY <1>3, <3>1
    <3> QED
        BY <2>1, <2>4, <3>2
  <2>8. \A n \in 1..m : h[n] = h[n - 1] \o parts[n]
    <3>1. \A n \in 1..m : n = m \/ n \in 1..(m - 1)
          BY <2>2
    <3> QED
        BY <2>5, <2>6, <3>1
  <2> QED
      BY <2>5, <2>7, <2>8
<1> DEFINE Has(m) == \E g : Upto(m, g)
<1>4. Has(0)
      BY <1>2
<1>5. ASSUME NEW m \in 1..N, Has(m - 1) PROVE Has(m)
      BY <1>3, <1>5
<1> HIDE DEF Has
<1>6. Has(N)
  <2>1. SUFFICES ASSUME ~Has(N) PROVE FALSE
        OBVIOUS
  <2>2. PICK T : T = {m \in Nat : m <= N /\ ~Has(m)}
        OBVIOUS
  <2>3. T \subseteq Nat /\ T # {}
        BY <1>0, <2>1, <2>2
  <2>4. PICK m \in T : \A k \in T : m <= k
        BY <2>3, LeastOf
  <2>5. m \in Nat /\ m # 0 /\ m <= N
        BY <1>4, <2>2, <2>4
  <2>6. m - 1 \in Nat /\ m - 1 <= N /\ m \in 1..N /\ ~(m <= m - 1)
        BY <1>0, <2>5
  <2>7. Has(m - 1)
        BY <2>2, <2>4, <2>6
  <2> QED
      BY <1>5, <2>2, <2>4, <2>6, <2>7
<1> USE DEF Has
<1>7. PICK g : Upto(N, g)
      BY <1>6
<1> QED
    BY <1>0, <1>7 DEF Joined

(* FlattenSeq is the last of them.                                         *)
LEMMA FlattenIs ==
  ASSUME NEW S, NEW parts, NEW g, Joined(S, parts, g)
  PROVE  FlattenSeq(parts) = g[Len(parts)]
<1>0. PICK N \in Nat : N = Len(parts)
      BY DEF Joined
<1>p. parts \in Seq(Seq(S)) /\ g[0] = <<>>
      BY DEF Joined
<1>q. \A n \in 1..N : g[n] = g[n - 1] \o parts[n]
      BY <1>0, Zenon DEF Joined
<1>r. \A n \in 1..N : parts[n] \in Seq(S)
      BY <1>0, <1>p
<1>1. /\ g[0] = <<>> /\ \A n \in 1..N : g[n] = g[n - 1] \o parts[n]
      /\ \A n \in 1..N : parts[n] \in Seq(S)
      BY <1>p, <1>q, <1>r, Zenon
<1>2. CASE N = 0
  <2>1. parts = <<>>
        BY <1>0, <1>2, <1>p, EmptySeq
  <2> QED
      BY <1>0, <1>1, <1>2, <2>1 DEF FlattenSeq
<1>3. CASE N # 0
  <2> DEFINE Def(f) == f = [i \in 1..Len(parts) |-> IF i = 1 THEN parts[i] ELSE f[i - 1] \o parts[i]]
             flat == CHOOSE f : Def(f)
  <2>1. Def([n \in 1..N |-> g[n]])
    <3>1. g[1] = parts[1]
      <4>1. 1 \in 1..N /\ 1 - 1 = 0
            BY <1>3
      <4>2. g[1] = <<>> \o parts[1] /\ parts[1] \in Seq(S)
            BY <1>1, <4>1
      <4> QED
          BY <4>2
    <3>2. ASSUME NEW n \in 1..N, n # 1 PROVE g[n] = g[n - 1] \o parts[n] /\ n - 1 \in 1..N
      <4>1. n - 1 \in 1..N
            BY <1>0, <3>2
      <4> QED
          BY <1>1, <4>1
    <3>3. PICK h : h = [n \in 1..N |-> g[n]]
          OBVIOUS
    <3>4. \A n \in 1..N : h[n] = IF n = 1 THEN parts[n] ELSE h[n - 1] \o parts[n]
          BY <3>1, <3>2, <3>3
    <3>5. h = [i \in 1..N |-> IF i = 1 THEN parts[i] ELSE h[i - 1] \o parts[i]]
          BY <3>3, <3>4
    <3> QED
        BY <1>0, <3>3, <3>5
  <2>2. Def(flat)
    <3> HIDE DEF Def
    <3> QED
        BY <2>1
  <2>3. FlattenSeq(parts) = flat[N]
        BY <1>0, <1>3 DEF FlattenSeq
  <2>4. PICK f : f = flat
        OBVIOUS
  <2>5. f = [i \in 1..N |-> IF i = 1 THEN parts[i] ELSE f[i - 1] \o parts[i]]
        BY <1>0, <2>2, <2>4, ZenonT(40)
  <2> HIDE DEF Def, flat
  <2>6. f[N] = g[N]
    <3>1. SUFFICES ASSUME f[N] # g[N] PROVE FALSE
          OBVIOUS
    <3>2. PICK T : T = {k \in 1..N : f[k] # g[k]}
          OBVIOUS
    <3>3. T \subseteq Nat /\ N \in T
          BY <1>3, <3>1, <3>2
    <3>4. PICK m \in T : \A k \in T : m <= k
          BY <3>3, LeastOf
    <3>5. m \in 1..N /\ f[m] # g[m]
          BY <3>2, <3>4
    <3>6. f[1] = parts[1] /\ g[1] = parts[1]
      <4>1. 1 \in 1..N /\ 1 - 1 = 0
            BY <1>3
      <4>2. g[1] = <<>> \o parts[1] /\ parts[1] \in Seq(S)
            BY <1>1, <4>1
      <4>3. f[1] = parts[1]
            BY <2>5, <4>1
      <4> QED
          BY <4>2, <4>3
    <3>7. m # 1
          BY <3>5, <3>6
    <3>8. m - 1 \in 1..N /\ ~(m <= m - 1)
          BY <3>5, <3>7
    <3>9. f[m - 1] = g[m - 1]
          BY <3>2, <3>4, <3>8
    <3>10. f[m] = f[m - 1] \o parts[m]
          BY <2>5, <3>5, <3>7
    <3>11. g[m] = g[m - 1] \o parts[m]
          BY <1>1, <3>5
    <3> QED
        BY <3>5, <3>9, <3>10, <3>11
  <2> QED
      BY <1>0, <2>3, <2>4, <2>6
<1> QED
    BY <1>2, <1>3

(* Induction over the numbers in a set.                                    *)
LEMMA AllNumbers ==
  ASSUME NEW T, 0 \in T, \A n \in Nat : n \in T => n + 1 \in T
  PROVE  \A n \in Nat : n \in T
<1>1. PICK U : U = {n \in Nat : n \notin T}
      OBVIOUS
<1>2. SUFFICES ASSUME U # {} PROVE FALSE
      BY <1>1
<1>3. PICK m \in U : \A k \in U : m <= k
      BY <1>1, <1>2, LeastOf
<1>4. m \in Nat /\ m # 0 /\ m \notin T
      BY <1>1, <1>3
<1>5. m - 1 \in Nat /\ m - 1 \notin U /\ (m - 1) + 1 = m
      BY <1>3, <1>4
<1>6. m - 1 \in T
      BY <1>1, <1>5
<1> QED
    BY <1>4, <1>5, <1>6

(* The first parts alone, flattened.                                       *)
FirstParts(parts, k) == [m \in 1..k |-> parts[m]]

(* The first parts are the beginning of the whole.                         *)
LEMMA FlattenFirst ==
  ASSUME NEW S, NEW parts, NEW g, Joined(S, parts, g), NEW k, k \in 0..Len(parts)
  PROVE  FlattenSeq(FirstParts(parts, k)) = g[k]
<1>0. /\ parts \in Seq(Seq(S)) /\ g \in [0..Len(parts) -> Seq(S)] /\ g[0] = <<>>
      /\ Len(parts) \in Nat
      BY DEF Joined
<1>1. \A n \in 1..Len(parts) : g[n] = g[n - 1] \o parts[n]
      BY Zenon DEF Joined
<1>2. PICK first : first = [m \in 1..k |-> parts[m]]
      OBVIOUS
<1>3. k \in Nat /\ \A m \in 1..k : m \in 1..Len(parts) /\ parts[m] \in Seq(S)
      BY <1>0
<1>4. first \in Seq(Seq(S)) /\ Len(first) = k
      BY <1>2, <1>3
<1>5. PICK h : h = [n \in 0..k |-> g[n]]
      OBVIOUS
<1>6. h \in [0..k -> Seq(S)] /\ h[0] = <<>> /\ h[k] = g[k]
  <2>1. 0 \in 0..k /\ k \in 0..k /\ \A n \in 0..k : n \in 0..Len(parts)
        BY <1>0, <1>3
  <2>2. \A n \in 0..k : g[n] \in Seq(S)
        BY <1>0, <2>1
  <2> QED
      BY <1>0, <1>5, <2>1, <2>2
<1>7. ASSUME NEW n \in 1..k PROVE h[n] = h[n - 1] \o first[n]
  <2>1. n \in 1..Len(parts) /\ n \in 0..k /\ n - 1 \in 0..k
        BY <1>3
  <2>2. g[n] = g[n - 1] \o parts[n]
        BY <1>1, <2>1
  <2>3. h[n] = g[n] /\ h[n - 1] = g[n - 1] /\ first[n] = parts[n]
        BY <1>2, <1>5, <2>1
  <2> QED
      BY <2>2, <2>3
<1>8. Joined(S, first, h)
      BY <1>4, <1>6, <1>7 DEF Joined
<1> QED
    BY <1>2, <1>4, <1>6, <1>8, FlattenIs DEF FirstParts

(* One list begins another.                                                *)
Begins(S, a, b) == \E r \in Seq(S) : b = a \o r

(* The prefixes begin the whole.                                           *)
LEMMA JoinedBegin ==
  ASSUME NEW S, NEW parts, NEW g, Joined(S, parts, g), NEW n, n \in 0..Len(parts)
  PROVE  Begins(S, g[n], g[Len(parts)])
<1>0. PICK N \in Nat : N = Len(parts)
      BY DEF Joined
<1>1. parts \in Seq(Seq(S)) /\ g \in [0..N -> Seq(S)]
      BY <1>0 DEF Joined
<1>2. \A m \in 1..N : g[m] = g[m - 1] \o parts[m]
      BY <1>0, Zenon DEF Joined
<1>3. PICK T : T = {d \in Nat : d <= N => \E r \in Seq(S) : g[N] = g[N - d] \o r}
      OBVIOUS
<1>4. 0 \in T
  <2>1. g[N] \in Seq(S) /\ <<>> \in Seq(S) /\ N - 0 = N
        BY <1>1
  <2>2. g[N] = g[N] \o <<>>
        BY <2>1
  <2> QED
      BY <1>3, <2>1, <2>2
<1>5. ASSUME NEW d \in Nat, d \in T PROVE d + 1 \in T
  <2>1. SUFFICES ASSUME d + 1 <= N PROVE \E r \in Seq(S) : g[N] = g[N - (d + 1)] \o r
        BY <1>3
  <2>2. PICK r \in Seq(S) : g[N] = g[N - d] \o r
        BY <1>3, <1>5, <2>1
  <2>3. N - d \in 1..N /\ (N - d) - 1 = N - (d + 1) /\ N - (d + 1) \in 0..N
        BY <2>1
  <2>4. g[N - d] = g[N - (d + 1)] \o parts[N - d]
        BY <1>2, <2>3
  <2>5. g[N - (d + 1)] \in Seq(S) /\ parts[N - d] \in Seq(S)
    <3>1. parts[N - d] \in Seq(S)
          BY <1>0, <1>1, <2>3, ElementOfSeq
    <3> QED
        BY <1>1, <2>3, <3>1
  <2>6. g[N] = g[N - (d + 1)] \o (parts[N - d] \o r)
    <3>1. PICK p \in Seq(S), q \in Seq(S) : p = parts[N - d] /\ q = g[N - (d + 1)]
          BY <2>5
    <3>2. (q \o p) \o r = q \o (p \o r)
          BY ConcatAssociative
    <3> QED
        BY <2>2, <2>4, <3>1, <3>2
  <2>7. parts[N - d] \o r \in Seq(S)
        BY <2>5
  <2> QED
      BY <2>6, <2>7
<1>6. N - n \in T /\ N - (N - n) = n
  <2>1. N - n \in Nat /\ N - (N - n) = n
        BY <1>0
  <2>2. \A d \in Nat : d \in T
        BY <1>4, <1>5, AllNumbers
  <2> QED
      BY <2>1, <2>2
<1>7. N - n <= N
      BY <1>0
<1> QED
    BY <1>0, <1>3, <1>6, <1>7 DEF Begins

(* A part of a list begins after its first at elements.                    *)
LiesAt(S, list, part, at) ==
  /\ list \in Seq(S) /\ part \in Seq(S)
  /\ at \in Nat /\ at + Len(part) <= Len(list)
  /\ \A k \in 1..Len(part) : list[at + k] = part[k]
  /\ SubSeq(list, at + 1, at + Len(part)) = part

(* Every part is where its predecessors end.                               *)
LEMMA PartIsAt ==
  ASSUME NEW S, NEW parts, NEW g, Joined(S, parts, g), NEW n, n \in 1..Len(parts)
  PROVE  LiesAt(S, FlattenSeq(parts), parts[n], Len(g[n - 1]))
<1>0. PICK N \in Nat : N = Len(parts)
      BY DEF Joined
<1>1. parts \in Seq(Seq(S)) /\ g \in [0..N -> Seq(S)]
      BY <1>0 DEF Joined
<1>2. \A m \in 1..N : g[m] = g[m - 1] \o parts[m]
      BY <1>0, Zenon DEF Joined
<1>3. n - 1 \in 0..N /\ n \in 1..N /\ n \in 0..N
      BY <1>0
<1>4. PICK a \in Seq(S), p \in Seq(S) : a = g[n - 1] /\ p = parts[n]
      BY <1>0, <1>1, <1>3, ElementOfSeq
<1>5. g[n] = a \o p
      BY <1>2, <1>3, <1>4
<1>6. PICK r \in Seq(S) : g[N] = (a \o p) \o r
  <2>1. n \in 0..Len(parts)
        BY <1>0, <1>3
  <2>2. Begins(S, g[n], g[Len(parts)])
        BY <2>1, JoinedBegin
  <2>3. Begins(S, a \o p, g[N])
        BY <1>0, <1>5, <2>2
  <2> QED
      BY <2>3 DEF Begins
<1>7. PICK flat : flat = FlattenSeq(parts)
      OBVIOUS
<1>8. flat = (a \o p) \o r
      BY <1>0, <1>6, <1>7, FlattenIs
<1>9. /\ flat \in Seq(S) /\ Len(flat) = Len(a) + Len(p) + Len(r)
      /\ Len(a) \in Nat /\ Len(p) \in Nat /\ Len(r) \in Nat
      BY <1>8
<1>10. \A k \in 1..Len(p) : flat[Len(a) + k] = p[k]
      BY <1>8, <1>9
<1>11. SubSeq(flat, Len(a) + 1, Len(a) + Len(p)) = p
  <2>1. PICK s : s = SubSeq(flat, Len(a) + 1, Len(a) + Len(p))
        OBVIOUS
  <2>2. \A i \in (Len(a) + 1)..(Len(a) + Len(p)) : flat[i] \in S
        BY <1>9
  <2>3. /\ s \in Seq(S) /\ Len(s) = Len(p)
        /\ \A i \in 1..Len(p) : s[i] = flat[Len(a) + i]
    <3>1. Len(a) + 1 \in Int /\ Len(a) + Len(p) \in Int
          BY <1>9
    <3>2. /\ SubSeq(flat, Len(a) + 1, Len(a) + Len(p)) \in Seq(S)
          /\ Len(SubSeq(flat, Len(a) + 1, Len(a) + Len(p)))
               = IF Len(a) + 1 <= Len(a) + Len(p) THEN (Len(a) + Len(p)) - (Len(a) + 1) + 1 ELSE 0
          /\ \A i \in 1..((Len(a) + Len(p)) - (Len(a) + 1) + 1) :
               SubSeq(flat, Len(a) + 1, Len(a) + Len(p))[i] = flat[(Len(a) + 1) + i - 1]
          BY <2>2, <3>1, SubSeqProperties
    <3> QED
        BY <1>9, <2>1, <3>2
  <2>4. \A i \in 1..Len(s) : s[i] = p[i]
        BY <1>10, <2>3
  <2>5. s = p
        BY <2>3, <2>4, SeqEqual
  <2> QED
      BY <2>1, <2>5
<1>12. Len(a) + Len(p) <= Len(flat)
      BY <1>9
<1> QED
    BY <1>4, <1>7, <1>9, <1>10, <1>11, <1>12 DEF LiesAt

(* Every element of the whole is one of a part.                            *)
LEMMA ElementIsIn ==
  ASSUME NEW S, NEW parts, NEW g, Joined(S, parts, g),
         NEW j, j \in 1..Len(FlattenSeq(parts))
  PROVE  \E n \in 1..Len(parts) : \E k \in 1..Len(parts[n]) :
           j = Len(g[n - 1]) + k /\ FlattenSeq(parts)[j] = parts[n][k]
<1>0. PICK N \in Nat : N = Len(parts)
      BY DEF Joined
<1>1. parts \in Seq(Seq(S)) /\ g \in [0..N -> Seq(S)] /\ g[0] = <<>>
      BY <1>0 DEF Joined
<1>2. \A m \in 1..N : g[m] = g[m - 1] \o parts[m]
      BY <1>0, Zenon DEF Joined
<1>3. \A m \in 0..N : Len(g[m]) \in Nat
      BY <1>1
<1>4. j \in 1..Len(g[N]) /\ j \in Nat
  <2>1. g[N] \in Seq(S)
        BY <1>1
  <2>2. FlattenSeq(parts) = g[N]
        BY <1>0, FlattenIs
  <2> QED
      BY <2>1, <2>2
<1>5. PICK T : T = {m \in 0..N : j <= Len(g[m])}
      OBVIOUS
<1>6. T \subseteq Nat /\ N \in T
      BY <1>0, <1>4, <1>5
<1>7. PICK n \in T : \A m \in T : n <= m
      BY <1>6, LeastOf
<1>8. n \in 0..N /\ j <= Len(g[n])
      BY <1>5, <1>7
<1>9. n # 0
  <2>1. Len(g[0]) = 0
        BY <1>1, EmptySeq
  <2> QED
      BY <1>4, <1>8, <2>1
<1>10. n \in 1..N /\ n - 1 \in 0..N /\ ~(n <= n - 1)
      BY <1>8, <1>9
<1>11. PICK a \in Seq(S), p \in Seq(S) : a = g[n - 1] /\ p = parts[n]
      BY <1>0, <1>1, <1>10, ElementOfSeq
<1>12. ~(j <= Len(a))
      BY <1>5, <1>7, <1>10, <1>11
<1>13. Len(g[n]) = Len(a) + Len(p) /\ Len(a) \in Nat /\ Len(p) \in Nat
  <2>1. g[n] = a \o p
        BY <1>2, <1>10, <1>11
  <2>2. Len(a \o p) = Len(a) + Len(p) /\ Len(a) \in Nat /\ Len(p) \in Nat
        BY ConcatProperties, LenProperties
  <2> QED
      BY <2>1, <2>2
<1>14. PICK k \in Int : k = j - Len(a)
  <2>1. j - Len(a) \in Int
        BY <1>4, <1>13
  <2> QED
      BY <2>1
<1>15. k \in 1..Len(p) /\ j = Len(a) + k
      BY <1>4, <1>8, <1>12, <1>13, <1>14
<1>16. \A i \in 1..Len(parts[n]) : FlattenSeq(parts)[Len(g[n - 1]) + i] = parts[n][i]
  <2>1. n \in 1..Len(parts)
        BY <1>0, <1>10
  <2>2. LiesAt(S, FlattenSeq(parts), parts[n], Len(g[n - 1]))
        BY <2>1, PartIsAt
  <2> QED
      BY <2>2 DEF LiesAt
<1> QED
    BY <1>0, <1>10, <1>11, <1>15, <1>16
(* A list of lists is flattened to a list of their elements.               *)
LEMMA FlattenType ==
  ASSUME NEW S, NEW parts \in Seq(Seq(S))
  PROVE  FlattenSeq(parts) \in Seq(S)
<1>1. PICK g : Joined(S, parts, g)
      BY JoinedExist
<1>2. FlattenSeq(parts) = g[Len(parts)]
      BY <1>1, FlattenIs
<1>3. g \in [0..Len(parts) -> Seq(S)] /\ Len(parts) \in 0..Len(parts)
      BY <1>1 DEF Joined
<1> QED
    BY <1>2, <1>3

(* How many elements come before a part.                                   *)
Starts(parts, n) == Len(FlattenSeq(FirstParts(parts, n - 1)))

(* A part starts where those before it end.                                *)
LEMMA StartsAt ==
  ASSUME NEW S, NEW parts, NEW g, Joined(S, parts, g), NEW n, n \in 1..Len(parts)
  PROVE  Starts(parts, n) = Len(g[n - 1])
<1>1. n - 1 \in 0..Len(parts)
      BY DEF Joined
<1>2. FlattenSeq(FirstParts(parts, n - 1)) = g[n - 1]
      BY <1>1, FlattenFirst
<1> QED
    BY <1>2, Zenon DEF Starts

(* Every part is where its predecessors end, and every element is in one.  *)
LEMMA PartLies ==
  ASSUME NEW S, NEW parts \in Seq(Seq(S)), NEW n \in 1..Len(parts)
  PROVE  LiesAt(S, FlattenSeq(parts), parts[n], Starts(parts, n))
<1>1. PICK g : Joined(S, parts, g)
      BY JoinedExist
<1>2. Starts(parts, n) = Len(g[n - 1])
      BY <1>1, StartsAt
<1>3. LiesAt(S, FlattenSeq(parts), parts[n], Len(g[n - 1]))
      BY <1>1, PartIsAt
<1> QED
    BY <1>2, <1>3

(* Every element of the whole list is one of a part.                       *)
LEMMA ElementHasPart ==
  ASSUME NEW S, NEW parts \in Seq(Seq(S)), NEW j \in 1..Len(FlattenSeq(parts))
  PROVE  \E n \in 1..Len(parts) : \E k \in 1..Len(parts[n]) :
           j = Starts(parts, n) + k /\ FlattenSeq(parts)[j] = parts[n][k]
<1>1. PICK g : Joined(S, parts, g)
      BY JoinedExist
<1>2. PICK n \in 1..Len(parts) : \E k \in 1..Len(parts[n]) :
        j = Len(g[n - 1]) + k /\ FlattenSeq(parts)[j] = parts[n][k]
      BY <1>1, ElementIsIn
<1>3. Starts(parts, n) = Len(g[n - 1])
      BY <1>1, <1>2, StartsAt
<1> QED
    BY <1>2, <1>3

(* Lists are joined in any grouping.                                       *)
Grouped(a, b, c) == (a \o b) \o c = a \o (b \o c)
LEMMA Regroup ==
  ASSUME NEW S, NEW a \in Seq(S), NEW b \in Seq(S), NEW c \in Seq(S)
  PROVE  Grouped(a, b, c)
BY ConcatAssociative DEF Grouped

(* A list that begins as one and goes on as another is the two joined.     *)
LEMMA TwoLists ==
  ASSUME NEW S, NEW a \in Seq(S), NEW b \in Seq(S), NEW c \in Seq(S),
         Len(b) = Len(a) + Len(c),
         \A k \in 1..Len(a) : b[k] = a[k],
         \A k \in 1..Len(c) : b[Len(a) + k] = c[k]
  PROVE  a \o c = b
<1>1. PICK u \in Nat, w \in Nat : u = Len(a) /\ w = Len(c)
      BY LenProperties
<1>2. PICK d \in Seq(S) : d = a \o c /\ Len(d) = u + w
      BY <1>1, ConcatProperties
<1>3. \A k \in 1..(u + w) : d[k] = IF k <= u THEN a[k] ELSE c[k - u]
      BY <1>1, <1>2, ConcatProperties
<1>4. ASSUME NEW k \in 1..(u + w) PROVE d[k] = b[k]
  <2>1. CASE k <= u
    <3>1. k \in 1..u
          BY <2>1
    <3>2. b[k] = a[k]
          BY <1>1, <3>1
    <3>3. d[k] = a[k]
          BY <1>3, <1>4, <2>1
    <3> QED
        BY <3>2, <3>3
  <2>2. CASE ~(k <= u)
    <3>j. /\ k \in Int /\ 1 <= k /\ k <= u + w
          /\ u \in Int /\ w \in Int /\ u < k
          BY <2>2
    <3>1. PICK j \in 1..w : j = k - u /\ k = u + j
      <4>1. k - u \in 1..w /\ k = u + (k - u)
            BY <3>j
      <4> QED
          BY <4>1, Zenon
    <3>2. b[u + j] = c[j]
          BY <1>1, <3>1
    <3>3. d[k] = c[j]
          BY <1>3, <1>4, <2>2, <3>1
    <3> QED
        BY <3>1, <3>2, <3>3
  <2> QED
      BY <2>1, <2>2
<1>5. Len(d) = Len(b)
      BY <1>1, <1>2
<1>6. \A k \in 1..Len(d) : d[k] = b[k]
      BY <1>2, <1>4
<1> QED
    BY <1>2, <1>5, <1>6, SeqEqual

(* The first part comes first.                                             *)
LEMMA FlattenTail ==
  ASSUME NEW S, NEW parts \in Seq(Seq(S)), parts # <<>>
  PROVE  FlattenSeq(parts) = Head(parts) \o FlattenSeq(Tail(parts))
<1>1. PICK g : Joined(S, parts, g)
      BY JoinedExist
<1>2. PICK tail : tail = Tail(parts)
      OBVIOUS
<1>3. PICK N \in Nat : N = Len(tail)
  <2>1. tail \in Seq(Seq(S))
        BY <1>2
  <2> QED
      BY <2>1
<1>4. /\ tail \in Seq(Seq(S)) /\ Len(parts) = N + 1
      /\ \A n \in 1..N : tail[n] = parts[n + 1]
      BY <1>2, <1>3
<1>5. PICK h : Joined(S, tail, h)
      BY <1>4, JoinedExist
<1>6. PICK head \in Seq(S) : head = Head(parts) /\ head = parts[1]
      OBVIOUS
<1>7. /\ g[0] = <<>> /\ \A n \in 1..(N + 1) : g[n] = g[n - 1] \o parts[n]
      /\ h[0] = <<>> /\ \A n \in 1..N : h[n] = h[n - 1] \o tail[n]
      BY <1>1, <1>3, <1>4, <1>5, Zenon DEF Joined
<1>8. h \in [0..N -> Seq(S)]
      BY <1>3, <1>5 DEF Joined
<1>9. PICK T : T = {n \in Nat : n <= N => g[n + 1] = head \o h[n]}
      OBVIOUS
<1>10. 0 \in T
  <2>1. 1 \in 1..(N + 1) /\ 1 - 1 = 0 /\ 0 + 1 = 1
        OBVIOUS
  <2>2. g[1] = g[0] \o parts[1]
        BY <1>7, <2>1
  <2>3. <<>> \o head = head /\ head \o <<>> = head
        OBVIOUS
  <2>4. g[0 + 1] = head \o h[0]
        BY <1>6, <1>7, <2>1, <2>2, <2>3
  <2> QED
      BY <1>9, <2>4
<1>11. ASSUME NEW n \in Nat, n \in T PROVE n + 1 \in T
  <2>1. SUFFICES ASSUME n + 1 <= N PROVE g[(n + 1) + 1] = head \o h[n + 1]
        BY <1>9
  <2>2. /\ n + 1 \in 1..N /\ (n + 1) - 1 = n /\ n \in 0..N
        /\ (n + 1) + 1 \in 1..(N + 1) /\ ((n + 1) + 1) - 1 = n + 1
        BY <2>1
  <2>3. g[n + 1] = head \o h[n]
        BY <1>9, <1>11, <2>2
  <2>4. g[(n + 1) + 1] = g[n + 1] \o parts[(n + 1) + 1]
        BY <1>7, <2>2
  <2>5. h[n + 1] = h[n] \o tail[n + 1] /\ tail[n + 1] = parts[(n + 1) + 1]
        BY <1>4, <1>7, <2>2
  <2>6. PICK b \in Seq(S), c \in Seq(S) : b = h[n] /\ c = tail[n + 1]
    <3>1. tail[n + 1] \in Seq(S)
          BY <1>3, <1>4, <2>2, ElementOfSeq
    <3> QED
        BY <1>8, <2>2, <3>1
  <2>7. (head \o b) \o c = head \o (b \o c)
    <3>1. Grouped(head, b, c)
          BY Regroup, Zenon
    <3> QED
        BY <3>1, Zenon DEF Grouped
  <2> QED
      BY <2>3, <2>4, <2>5, <2>6, <2>7
<1>12. N \in T
      BY <1>10, <1>11, AllNumbers
<1>13. g[N + 1] = head \o h[N]
      BY <1>9, <1>12
<1>14. FlattenSeq(parts) = g[N + 1] /\ FlattenSeq(tail) = h[N]
      BY <1>1, <1>3, <1>4, <1>5, FlattenIs
<1> QED
    BY <1>2, <1>6, <1>13, <1>14

(* One part more in front.                                                 *)
LEMMA FlattenCons ==
  ASSUME NEW S, NEW head \in Seq(S), NEW parts \in Seq(Seq(S))
  PROVE  FlattenSeq(<<head>> \o parts) = head \o FlattenSeq(parts)
<1>1. PICK all : all = <<head>> \o parts
      OBVIOUS
<1>2. all \in Seq(Seq(S)) /\ all # <<>> /\ Head(all) = head /\ Tail(all) = parts
  <2>1. <<head>> \in Seq(Seq(S)) /\ Len(<<head>>) = 1
        OBVIOUS
  <2>2. all \in Seq(Seq(S)) /\ Len(all) = 1 + Len(parts) /\ all[1] = head
        BY <1>1, <2>1
  <2>3. Tail(all) \in Seq(Seq(S)) /\ Len(Tail(all)) = Len(parts)
        BY <2>2
  <2>4. \A i \in 1..Len(parts) : Tail(all)[i] = parts[i]
        BY <1>1, <2>1, <2>2
  <2>5. Tail(all) = parts
        BY <2>3, <2>4, SeqEqual
  <2> QED
      BY <2>2, <2>5
<1> QED
    BY <1>1, <1>2, FlattenTail

(* A list of single elements is flattened to the list of the elements.     *)
LEMMA FlattenSingles ==
  ASSUME NEW S, NEW list \in Seq(S), NEW parts, parts = [n \in 1..Len(list) |-> <<list[n]>>]
  PROVE  FlattenSeq(parts) = list
<1>1. parts \in Seq(Seq(S)) /\ Len(parts) = Len(list)
      OBVIOUS
<1>2. PICK N \in Nat : N = Len(list)
      OBVIOUS
<1>3. PICK g : g = [n \in 0..N |-> SubSeq(list, 1, n)]
      OBVIOUS
<1>4. \A n \in 0..N : g[n] \in Seq(S) /\ Len(g[n]) = n /\ \A k \in 1..n : g[n][k] = list[k]
      BY <1>2, <1>3
<1>5. ASSUME NEW n \in 1..N PROVE g[n] = g[n - 1] \o parts[n]
  <2>1. n - 1 \in 0..N /\ n \in 0..N
        OBVIOUS
  <2>2. PICK a \in Seq(S), b \in Seq(S) : a = g[n - 1] /\ b = g[n]
        BY <1>4, <2>1
  <2>3. parts[n] = <<list[n]>> /\ list[n] \in S
        BY <1>2
  <2>4. parts[n] \in Seq(S) /\ Len(parts[n]) = 1 /\ parts[n][1] = list[n]
    <3>1. PICK x \in S : x = list[n]
          BY <2>3
    <3>2. <<x>> \in Seq(S) /\ Len(<<x>>) = 1 /\ <<x>>[1] = x
          OBVIOUS
    <3> QED
        BY <2>3, <3>1, <3>2
  <2>c. PICK c \in Seq(S) : c = parts[n] /\ Len(c) = 1 /\ c[1] = list[n]
        BY <2>4
  <2>5. /\ Len(a) = n - 1 /\ \A k \in 1..(n - 1) : a[k] = list[k]
        /\ Len(b) = n /\ \A k \in 1..n : b[k] = list[k]
        BY <1>4, <2>1, <2>2
  <2>6. a \o c \in Seq(S) /\ Len(a \o c) = n
    <3>1. a \o c \in Seq(S) /\ Len(a \o c) = Len(a) + Len(c)
          BY <2>c
    <3>2. (n - 1) + 1 = n
          OBVIOUS
    <3> QED
        BY <2>c, <2>5, <3>1, <3>2
  <2>7. \A k \in 1..n : (a \o c)[k] = b[k]
    <3> SUFFICES ASSUME NEW k \in 1..n PROVE (a \o c)[k] = b[k]
        OBVIOUS
    <3>1. k = n \/ k \in 1..(n - 1)
          OBVIOUS
    <3>2. CASE k \in 1..(n - 1)
      <4>1. (a \o c)[k] = a[k]
            BY <2>c, <2>5, <3>2
      <4> QED
          BY <2>5, <3>2, <4>1
    <3>3. CASE k = n
      <4>1. (a \o c)[(n - 1) + 1] = c[1]
            BY <2>c, <2>5
      <4> QED
          BY <2>c, <2>5, <3>3, <4>1
    <3> QED
        BY <3>1, <3>2, <3>3, Zenon
  <2>8. a \o c = b
        BY <2>5, <2>6, <2>7, SeqEqual
  <2> QED
      BY <2>2, <2>c, <2>8
<1>6. g[0] = <<>> /\ g \in [0..N -> Seq(S)]
      BY <1>2, <1>3, <1>4
<1>7. Joined(S, parts, g)
      BY <1>1, <1>2, <1>5, <1>6 DEF Joined
<1>8. FlattenSeq(parts) = g[N]
      BY <1>1, <1>2, <1>7, FlattenIs
<1>9. g[N] = list
  <2>1. g[N] \in Seq(S) /\ Len(g[N]) = Len(list) /\ \A k \in 1..Len(list) : g[N][k] = list[k]
        BY <1>2, <1>4
  <2> QED
      BY <2>1, SeqEqual
<1> QED
    BY <1>8, <1>9

(* Slices together are the list.                                           *)
LEMMA SlicesTogether ==
  ASSUME NEW S, NEW list \in Seq(S), NEW size \in Nat \ {0}
  PROVE  InSlices(list, size) \in Seq(Seq(S)) /\ FlattenSeq(InSlices(list, size)) = list
<1>1. PICK L \in Nat : L = Len(list)
      OBVIOUS
<1>2. PICK M \in Int : M = (L + size - 1) \div size
      OBVIOUS
<1>3. M * size >= L /\ (M - 1) * size < L /\ M >= 0
      BY <1>2
<1>4. M \in Nat
      BY <1>3
<1>5. PICK parts : parts = InSlices(list, size)
      OBVIOUS
<1>6. parts = [n \in 1..M |-> FirstOf(RestOf(list, (n - 1) * size), size)]
      BY <1>1, <1>2, <1>5 DEF InSlices
<1> DEFINE Upto(n) == IF n * size < L THEN n * size ELSE L
<1>7. ASSUME NEW n \in 1..M
      PROVE  /\ Upto(n - 1) \in Nat /\ Upto(n) \in Nat /\ Upto(n - 1) <= Upto(n) /\ Upto(n) <= L
             /\ parts[n] \in Seq(S) /\ Len(parts[n]) = Upto(n) - Upto(n - 1)
             /\ \A k \in 1..Len(parts[n]) : parts[n][k] = list[Upto(n - 1) + k]
  <2>1. PICK x \in Nat : x = (n - 1) * size
        OBVIOUS
  <2>2. n * size = x + size
        BY <2>1
  <2>3. x < L
    <3>1. (n - 1) * size <= (M - 1) * size
      <4>1. PICK a \in Nat, b \in Nat : a = n - 1 /\ b = M - 1 /\ a <= b
            BY <1>4
      <4>2. a * size <= b * size
        <5>1. PICK c \in Nat : b = a + c
              BY <4>1
        <5>2. b * size = a * size + c * size /\ c * size >= 0
              BY <5>1
        <5>3. a * size \in Nat /\ c * size \in Nat
              OBVIOUS
        <5> QED
            BY <5>2, <5>3
      <4> QED
          BY <4>1, <4>2
    <3>2. (M - 1) * size \in Int
          BY <1>4
    <3> QED
        BY <1>3, <2>1, <3>1, <3>2
  <2>4. Upto(n - 1) = x /\ Upto(n) = IF x + size < L THEN x + size ELSE L
        BY <2>1, <2>2, <2>3
  <2>5. PICK rest : rest = SubSeq(list, x + 1, L)
        OBVIOUS
  <2>6. rest \in Seq(S) /\ Len(rest) = L - x /\ \A k \in 1..(L - x) : rest[k] = list[x + k]
        BY <1>1, <2>3, <2>5
  <2>7. parts[n] = SubSeq(rest, 1, IF L - x < size THEN L - x ELSE size)
        BY <1>1, <1>6, <2>1, <2>5, <2>6 DEF FirstOf, RestOf
  <2>y. PICK y : y = IF L - x < size THEN L - x ELSE size
        OBVIOUS
  <2>8. y \in Nat /\ y <= L - x
        BY <2>3, <2>y
  <2>9. /\ parts[n] \in Seq(S) /\ Len(parts[n]) = y
        /\ \A k \in 1..y : parts[n][k] = rest[k]
        BY <2>6, <2>7, <2>8, <2>y
  <2>10. Upto(n) = x + y
        BY <2>3, <2>4, <2>y
  <2> HIDE DEF Upto
  <2>11. \A k \in 1..y : parts[n][k] = list[x + k]
        BY <2>6, <2>8, <2>9
  <2>12. Upto(n - 1) = x
        BY <2>4
  <2>13. x <= x + y /\ x + y <= L /\ y = (x + y) - x /\ x + y \in Nat
        BY <2>3, <2>8
  <2> QED
      BY <2>9, <2>10, <2>11, <2>12, <2>13
<1>8. parts \in Seq(Seq(S)) /\ Len(parts) = M
  <2>1. \A n \in 1..M : parts[n] \in Seq(S)
        BY <1>7
  <2> QED
      BY <1>4, <1>6, <2>1
<1>9. /\ Upto(0) = 0 /\ Upto(M) = L
      /\ \A n \in 0..M : Upto(n) \in 0..L
  <2>1. 0 * size = 0
        OBVIOUS
  <2>2. Upto(M) = L
        BY <1>3, <1>4
  <2>3. \A n \in 0..M : n = 0 \/ n \in 1..M
        OBVIOUS
  <2>4. Upto(0) = 0
        BY <1>1, <2>1
  <2> QED
      BY <1>7, <2>2, <2>3, <2>4
<1> HIDE DEF Upto
<1>10. PICK g : g = [n \in 0..M |-> SubSeq(list, 1, Upto(n))]
      OBVIOUS
<1>11. ASSUME NEW n \in 0..M
       PROVE  /\ g[n] \in Seq(S) /\ Len(g[n]) = Upto(n)
              /\ \A k \in 1..Upto(n) : g[n][k] = list[k]
  <2>1. PICK u \in 0..L : u = Upto(n)
        BY <1>9
  <2>2. g[n] = SubSeq(list, 1, u)
        BY <1>10, <2>1
  <2> QED
      BY <1>1, <2>1, <2>2
<1>12. ASSUME NEW n \in 1..M PROVE g[n] = g[n - 1] \o parts[n]
  <2>1. n - 1 \in 0..M /\ n \in 0..M
        BY <1>4
  <2>2. PICK a \in Seq(S), b \in Seq(S), c \in Seq(S) : a = g[n - 1] /\ b = g[n] /\ c = parts[n]
        BY <1>7, <1>11, <2>1
  <2>3. PICK u \in Nat, v \in Nat : u = Upto(n - 1) /\ v = Upto(n) /\ u <= v
        BY <1>7
  <2>4. /\ Len(a) = u /\ \A k \in 1..u : a[k] = list[k]
        /\ Len(b) = v /\ \A k \in 1..v : b[k] = list[k]
        BY <1>11, <2>1, <2>2, <2>3
  <2>5. Len(c) = v - u /\ \A k \in 1..(v - u) : c[k] = list[u + k]
        BY <1>7, <2>2, <2>3
  <2>6. Len(b) = Len(a) + Len(c) /\ \A k \in 1..Len(a) : b[k] = a[k]
    <3>1. Len(b) = Len(a) + Len(c)
          BY <2>3, <2>4, <2>5
    <3>2. \A k \in 1..u : k \in 1..v
          BY <2>3
    <3>3. \A k \in 1..u : b[k] = a[k]
          BY <2>4, <3>2, Zenon
    <3> QED
        BY <2>4, <3>1, <3>3, Zenon
  <2>7. ASSUME NEW k \in 1..Len(c) PROVE b[Len(a) + k] = c[k]
    <3>1. k \in 1..(v - u) /\ u + k \in 1..v
          BY <2>3, <2>5
    <3> QED
        BY <2>4, <2>5, <3>1
  <2>8. a \o c = b
        BY <2>6, <2>7, TwoLists
  <2> QED
      BY <2>2, <2>8
<1>13. g \in [0..M -> Seq(S)] /\ g[0] = <<>>
  <2>1. 0 \in 0..M
        BY <1>4
  <2>2. g[0] \in Seq(S) /\ Len(g[0]) = 0
        BY <1>9, <1>11, <2>1
  <2> QED
      BY <1>10, <1>11, <2>2, EmptySeq
<1>14. Joined(S, parts, g)
      BY <1>8, <1>12, <1>13 DEF Joined
<1>15. FlattenSeq(parts) = g[M]
      BY <1>8, <1>14, FlattenIs
<1>16. g[M] = list
  <2>1. M \in 0..M
        BY <1>4
  <2>2. g[M] \in Seq(S) /\ Len(g[M]) = Len(list) /\ \A k \in 1..Len(list) : g[M][k] = list[k]
        BY <1>1, <1>9, <1>11, <2>1
  <2> QED
      BY <2>2, SeqEqual
<1> QED
    BY <1>5, <1>8, <1>15, <1>16

-----------------------------------------------------------------------------
(* Representations: the items and what is asked for them.                  *)

(* What the assumption says of a source.                                   *)
LEMMA SourceTypes ==
  ASSUME built \in BuildSources
  PROVE  /\ built.analysis \in Seq(Nat) /\ built.units \in Seq(BuildUnits)
         /\ UnitIds = 1..Len(built.units) /\ Len(built.units) \in Nat
         /\ DOMAIN built.analysis = 1..Len(built.analysis) /\ Len(built.analysis) \in Nat
         /\ \A i \in UnitIds : i \in Nat /\ built.units[i] \in BuildUnits
         /\ \A i \in DOMAIN built.analysis : i \in Nat /\ built.analysis[i] \in Nat
<1>1. built.analysis \in Seq(Nat) /\ built.units \in Seq(BuildUnits)
      BY RepresentationsAssumption
<1>2. UnitIds = 1..Len(built.units) /\ Len(built.units) \in Nat
      BY <1>1 DEF UnitIds
<1>3. DOMAIN built.analysis = 1..Len(built.analysis) /\ Len(built.analysis) \in Nat
      BY <1>1
<1>4. \A i \in UnitIds : i \in Nat /\ built.units[i] \in BuildUnits
      BY <1>1, <1>2
<1>5. \A i \in DOMAIN built.analysis : i \in Nat /\ built.analysis[i] \in Nat
      BY <1>1, <1>3
<1> QED
    BY <1>1, <1>2, <1>3, <1>4, <1>5

(* Lists of one and of two elements.                                       *)
LEMMA OneElement ==
  ASSUME NEW S, NEW x \in S
  PROVE  <<x>> \in Seq(S) /\ Len(<<x>>) = 1 /\ <<x>>[1] = x
OBVIOUS

(* A list of two.                                                          *)
LEMMA TwoElements ==
  ASSUME NEW S, NEW x \in S, NEW y \in S
  PROVE  <<x, y>> \in Seq(S) /\ Len(<<x, y>>) = 2 /\ <<x, y>>[1] = x /\ <<x, y>>[2] = y
OBVIOUS

(* What is planned for a unit: its own items, those of its kind.           *)
PlannedRight(i, entries) ==
  /\ Len(entries) \in 1..2
  /\ \A k \in 1..Len(entries) : entries[k].unit = i
  /\ entries[1].required
  /\ CASE built.units[i].kind = "image" ->
             Len(entries) = 1 /\ entries[1].kind = "native_image"
       [] built.units[i].kind = "table" ->
             /\ entries[1].kind = "table_text"
             /\ Len(entries) = 2 => entries[2].kind = "table_image"
       [] OTHER -> Len(entries) = 1 /\ entries[1].kind = "text"

(* What is planned for a unit is as its kind asks.                         *)
LEMMA PlannedKinds ==
  ASSUME built \in BuildSources, NEW i \in UnitIds
  PROVE  PlannedOf(i) \in Seq(PlannedEntries) /\ PlannedRight(i, PlannedOf(i))
<1>1. built.units[i].kind \in {"text", "table", "image"}
      BY SourceTypes DEF BuildUnits
<1>2. PICK entries : entries = PlannedOf(i)
      OBVIOUS
<1>3. PICK text : text = TextItem(i)
      OBVIOUS
<1>4. /\ text.unit = i /\ text.required = TRUE
      /\ text.kind = IF built.units[i].kind = "table" THEN "table_text" ELSE "text"
      BY <1>3 DEF TextItem
<1>5. PICK image : image = [unit |-> i, kind |-> "native_image", required |-> TRUE]
      OBVIOUS
<1>6. PICK drawn : drawn = [unit |-> i, kind |-> "table_image", required |-> FALSE]
      OBVIOUS
<1>7. entries = IF built.units[i].kind = "image" THEN <<image>>
                ELSE IF built.units[i].kind = "table" /\ built.units[i].asset
                       THEN <<text, drawn>>
                ELSE <<text>>
      BY <1>2, <1>3, <1>5, <1>6, Zenon DEF PlannedOf
<1>8. PICK S : S = {text, image, drawn}
      OBVIOUS
<1>9. text \in S /\ image \in S /\ drawn \in S
      BY <1>8
<1>10. /\ entries \in Seq(S) /\ Len(entries) \in 1..2
       /\ built.units[i].kind = "image" => Len(entries) = 1 /\ entries[1] = image
       /\ built.units[i].kind # "image" => entries[1] = text
       /\ Len(entries) = 2 => built.units[i].kind = "table" /\ entries[2] = drawn
  <2>1. CASE entries = <<image>> /\ built.units[i].kind = "image"
        BY <1>9, <2>1, OneElement
  <2>2. CASE entries = <<text, drawn>> /\ built.units[i].kind = "table"
        BY <1>9, <2>2, TwoElements
  <2>3. CASE entries = <<text>> /\ built.units[i].kind # "image"
        BY <1>9, <2>3, OneElement
  <2> QED
      BY <1>7, <2>1, <2>2, <2>3, Zenon
<1>11. \A k \in 1..Len(entries) : k = 1 \/ (k = 2 /\ Len(entries) = 2)
  <2>1. PICK N \in 1..2 : N = Len(entries)
        BY <1>10
  <2>2. \A k \in 1..N : k = 1 \/ (k = 2 /\ N = 2)
        OBVIOUS
  <2> QED
      BY <2>1, <2>2
<1>12. image.unit = i /\ image.kind = "native_image" /\ image.required = TRUE
       /\ drawn.unit = i /\ drawn.kind = "table_image"
       BY <1>5, <1>6
<1>13. PlannedRight(i, entries)
  <2>1. \A k \in 1..Len(entries) : entries[k].unit = i
        BY <1>4, <1>10, <1>11, <1>12
  <2>2. entries[1].required
        BY <1>4, <1>10, <1>12
  <2>3. CASE built.units[i].kind = "image"
        BY <1>10, <1>12, <2>1, <2>2, <2>3 DEF PlannedRight
  <2>4. CASE built.units[i].kind = "table"
        BY <1>4, <1>10, <1>12, <2>1, <2>2, <2>4 DEF PlannedRight
  <2>5. CASE built.units[i].kind = "text"
    <3>1. Len(entries) = 1
          BY <1>10, <2>5
    <3> QED
        BY <1>4, <1>10, <1>12, <2>1, <2>2, <2>5, <3>1 DEF PlannedRight
  <2> QED
      BY <1>1, <2>3, <2>4, <2>5
<1>14. entries \in Seq(PlannedEntries)
  <2>1. \A k \in 1..Len(entries) : entries[k] \in PlannedEntries
    <3>1. DOMAIN entries = 1..Len(entries)
          BY <1>10
    <3> QED
        BY <1>2, <3>1 DEF PlannedEntries
  <2> QED
      BY <1>10, <2>1
<1> QED
    BY <1>2, <1>13, <1>14

(* Every planned item is one of its unit, and of a kind that units have.   *)
LEMMA PlannedIs ==
  ASSUME built \in BuildSources, NEW e \in PlannedEntries
  PROVE  /\ e.unit \in UnitIds
         /\ e.kind \in {"text", "table_text", "native_image", "table_image"}
         /\ \E k \in 1..Len(PlannedOf(e.unit)) : e = PlannedOf(e.unit)[k]
<1>1. PICK i \in UnitIds : \E k \in DOMAIN PlannedOf(i) : e = PlannedOf(i)[k]
      BY DEF PlannedEntries
<1>2. PICK entries : entries = PlannedOf(i)
      OBVIOUS
<1>3. entries \in Seq(PlannedEntries) /\ PlannedRight(i, entries)
      BY <1>2, PlannedKinds
<1>4. DOMAIN entries = 1..Len(entries) /\ Len(entries) \in 1..2
      BY <1>3 DEF PlannedRight
<1>5. PICK k \in 1..Len(entries) : e = entries[k]
      BY <1>1, <1>2, <1>4
<1>6. e.unit = i
      BY <1>3, <1>5 DEF PlannedRight
<1>7. k = 1 \/ (k = 2 /\ Len(entries) = 2)
      BY <1>4
<1>8. built.units[i].kind \in {"text", "table", "image"}
      BY SourceTypes DEF BuildUnits
<1>9. e.kind \in {"text", "table_text", "native_image", "table_image"}
  <2>1. CASE built.units[i].kind = "image"
        BY <1>3, <1>5, <1>7, <2>1 DEF PlannedRight
  <2>2. CASE built.units[i].kind = "table"
        BY <1>3, <1>5, <1>7, <2>2 DEF PlannedRight
  <2>3. CASE built.units[i].kind = "text"
        BY <1>3, <1>5, <1>7, <2>3 DEF PlannedRight
  <2> QED
      BY <1>8, <2>1, <2>2, <2>3
<1> QED
    BY <1>2, <1>5, <1>6, <1>9

(* Every item has windows to pool.                                         *)
LEMMA EntryInput ==
  ASSUME built \in BuildSources, NEW e \in Entries
  PROVE  InputOf(e) \in Seq(Windows)
<1>1. ASSUME NEW what \in {"analysis", "text", "image", "question"}, NEW i \in Nat, NEW n \in Nat
      PROVE  WindowsOf(what, i, n) \in Seq(Windows)
  <2>1. \A k \in 1..n : <<what, i, k>> \in Windows
        BY DEF Windows
  <2> QED
      BY <2>1 DEF WindowsOf
<1>2. CASE e \in AnalysisEntries
  <2>1. e.unit \in DOMAIN built.analysis /\ e.kind = "analysis"
        BY <1>2 DEF AnalysisEntries
  <2>2. InputOf(e) = WindowsOf("analysis", e.unit, built.analysis[e.unit])
        BY <2>1 DEF InputOf, CrossModal
  <2>3. e.unit \in Nat /\ built.analysis[e.unit] \in Nat
        BY <2>1, SourceTypes
  <2> QED
      BY <1>1, <2>2, <2>3
<1>3. CASE e \in QuestionEntries
  <2>1. e.unit \in UnitIds /\ e.kind = "question" /\ e.number \in Nat
        BY <1>3, RepresentationsAssumption DEF QuestionEntries
  <2>2. InputOf(e) = <<<<"question", e.unit, e.number>>>>
        BY <2>1 DEF InputOf, CrossModal
  <2>3. <<"question", e.unit, e.number>> \in Windows
        BY <2>1, SourceTypes DEF Windows
  <2> QED
      BY <2>2, <2>3, OneElement
<1>4. CASE e \in PlannedEntries
  <2>1. /\ e.unit \in UnitIds
        /\ e.kind \in {"text", "table_text", "native_image", "table_image"}
        BY <1>4, PlannedIs
  <2>2. e.unit \in Nat /\ built.units[e.unit].windows \in Nat
        BY <2>1, SourceTypes DEF BuildUnits
  <2>3. CASE e.kind \in CrossModal
    <3>1. InputOf(e) = <<<<"image", e.unit, 1>>>>
          BY <2>1, <2>3 DEF InputOf, CrossModal
    <3>2. <<"image", e.unit, 1>> \in Windows
          BY <2>2 DEF Windows
    <3> QED
        BY <3>1, <3>2, OneElement
  <2>4. CASE e.kind \in {"text", "table_text"}
    <3>1. InputOf(e) = WindowsOf("text", e.unit, built.units[e.unit].windows)
          BY <2>4 DEF InputOf, CrossModal
    <3> QED
        BY <1>1, <2>2, <3>1
  <2> QED
      BY <2>1, <2>3, <2>4 DEF CrossModal
<1> QED
    BY <1>2, <1>3, <1>4 DEF Entries

(* What a batch asks for, part by part.                                    *)
LEMMA InputParts ==
  ASSUME built \in BuildSources, NEW batch \in Seq(Entries),
         NEW parts, parts = [n \in DOMAIN batch |-> InputOf(batch[n])]
  PROVE  /\ parts \in Seq(Seq(Windows)) /\ Len(parts) = Len(batch)
         /\ \A n \in 1..Len(batch) : parts[n] = InputOf(batch[n])
         /\ InputsOf(batch) = FlattenSeq(parts) /\ InputsOf(batch) \in Seq(Windows)
<1>1. DOMAIN batch = 1..Len(batch) /\ Len(batch) \in Nat
      OBVIOUS
<1>2. \A n \in 1..Len(batch) : batch[n] \in Entries
      OBVIOUS
<1>3. \A n \in 1..Len(batch) : InputOf(batch[n]) \in Seq(Windows)
      BY <1>2, EntryInput
<1>4. /\ parts \in Seq(Seq(Windows)) /\ Len(parts) = Len(batch)
      /\ \A n \in 1..Len(batch) : parts[n] = InputOf(batch[n])
      BY <1>1, <1>3
<1>5. InputsOf(batch) = FlattenSeq(parts)
      BY Zenon DEF InputsOf
<1>6. FlattenSeq(parts) \in Seq(Windows)
      BY <1>4, FlattenType
<1> QED
    BY <1>4, <1>5, <1>6

(* Out of all the answers, a text takes those of its own windows.          *)
LEMMA PooledIs ==
  ASSUME built \in BuildSources, NEW batch \in Seq(Entries), NEW n \in 1..Len(batch)
  PROVE  PooledVector(batch, InputsOf(batch), n) = InputOf(batch[n])
<1>1. PICK parts : parts = [m \in DOMAIN batch |-> InputOf(batch[m])]
      OBVIOUS
<1>2. /\ parts \in Seq(Seq(Windows)) /\ Len(parts) = Len(batch)
      /\ \A m \in 1..Len(batch) : parts[m] = InputOf(batch[m])
      /\ InputsOf(batch) = FlattenSeq(parts)
      BY <1>1, InputParts
<1>3. PICK first : first = SubSeq(batch, 1, n - 1)
      OBVIOUS
<1>4. /\ n - 1 \in 0..Len(batch) /\ DOMAIN first = 1..(n - 1)
      /\ \A m \in 1..(n - 1) : first[m] = batch[m] /\ m \in 1..Len(batch)
      BY <1>3
<1>5. FirstParts(parts, n - 1) = [m \in DOMAIN first |-> InputOf(first[m])]
  <2>1. \A m \in 1..(n - 1) : parts[m] = InputOf(first[m])
        BY <1>2, <1>4
  <2> QED
      BY <1>4, <2>1 DEF FirstParts
<1>6. InputsOf(first) = FlattenSeq(FirstParts(parts, n - 1))
      BY <1>5, Zenon DEF InputsOf
<1>7. Before(batch, n) = Starts(parts, n)
      BY <1>3, <1>6, Zenon DEF Before, Starts
<1>8. LiesAt(Windows, FlattenSeq(parts), parts[n], Starts(parts, n))
      BY <1>2, PartLies
<1>9. PooledVector(batch, InputsOf(batch), n)
        = SubSeq(FlattenSeq(parts), Starts(parts, n) + 1, Starts(parts, n) + Len(parts[n]))
  <2>1. parts[n] = InputOf(batch[n])
        BY <1>2
  <2> QED
      BY <1>2, <1>7, <2>1, Zenon DEF PooledVector
<1>10. PooledVector(batch, InputsOf(batch), n) = parts[n]
       BY <1>8, <1>9, Zenon DEF LiesAt
<1> QED
    BY <1>2, <1>10

(* A batch collapses to its items, each with its own vector.               *)
LEMMA CollapsedIs ==
  ASSUME built \in BuildSources, NEW E, E \subseteq Entries, NEW batch \in Seq(E),
         NEW rows, rows = Collapsed(batch, InputsOf(batch))
  PROVE  /\ rows \in Seq(AnswersTo(E)) /\ Len(rows) = Len(batch)
         /\ \A n \in 1..Len(batch) : rows[n].item = batch[n]
<1>1. DOMAIN batch = 1..Len(batch) /\ Len(batch) \in Nat /\ batch \in Seq(Entries)
      OBVIOUS
<1>2. \A n \in 1..Len(batch) : PooledVector(batch, InputsOf(batch), n) = InputOf(batch[n])
      BY <1>1, PooledIs
<1>3. rows = [n \in 1..Len(batch) |->
                [item |-> batch[n], vector |-> PooledVector(batch, InputsOf(batch), n)]]
      BY <1>1, Zenon DEF Collapsed
<1>4. \A n \in 1..Len(batch) : rows[n] = [item |-> batch[n], vector |-> InputOf(batch[n])]
      BY <1>2, <1>3
<1>5. ASSUME NEW n \in 1..Len(batch)
      PROVE  rows[n] \in AnswersTo(E) /\ rows[n].item = batch[n]
  <2>1. PICK e \in E : e = batch[n]
        BY <1>1
  <2>2. rows[n] = [item |-> e, vector |-> InputOf(e)]
        BY <1>4, <2>1
  <2> QED
      BY <2>1, <2>2 DEF AnswersTo
<1> QED
    BY <1>1, <1>3, <1>5

(* Two in front of a list are the one in front of the other.               *)
BothInFront(x, y, rest) == <<x, y>> \o rest = <<x>> \o (<<y>> \o rest)
LEMMA TwoInFront ==
  ASSUME NEW R, NEW x \in R, NEW y \in R, NEW rest \in Seq(R)
  PROVE  BothInFront(x, y, rest)
<1>1. PICK a \in Seq(R), b \in Seq(R) :
        a = <<x>> /\ b = <<y>> /\ Len(a) = 1 /\ a[1] = x /\ Len(b) = 1 /\ b[1] = y
      BY OneElement, ZenonT(40)
<1>2. PICK c \in Seq(R) : c = <<x, y>> /\ Len(c) = 2 /\ c[1] = x /\ c[2] = y
  <2>1. <<x, y>> \in Seq(R) /\ Len(<<x, y>>) = 2 /\ <<x, y>>[1] = x /\ <<x, y>>[2] = y
        BY TwoElements
  <2> QED
      BY <2>1, Zenon
<1>3. a \o b = c
  <2>1. Len(c) = Len(a) + Len(b)
        BY <1>1, <1>2
  <2>2. \A k \in 1..1 : k = 1 /\ 1 + k = 2
        OBVIOUS
  <2>3. \A k \in 1..Len(a) : c[k] = a[k]
        BY <1>1, <1>2, <2>2, Zenon
  <2>4. \A k \in 1..Len(b) : c[Len(a) + k] = b[k]
        BY <1>1, <1>2, <2>2, Zenon
  <2> QED
      BY <2>1, <2>3, <2>4, TwoLists
<1>4. Grouped(a, b, rest)
      BY Regroup, Zenon
<1> QED
    BY <1>1, <1>2, <1>3, <1>4, Zenon DEF Grouped, BothInFront

(* Halves together are the batch.                                          *)
LEMMA HalvedTogether ==
  ASSUME NEW S, NEW calls \in Seq(Seq(S)), calls # <<>>
  PROVE  Halved(calls) \in Seq(Seq(S)) /\ FlattenSeq(Halved(calls)) = FlattenSeq(calls)
<1>1. PICK list \in Seq(S) : list = Head(calls)
      OBVIOUS
<1>2. PICK rest \in Seq(Seq(S)) : rest = Tail(calls)
      BY HeadTailProperties
<1>3. FlattenSeq(calls) = list \o FlattenSeq(rest)
      BY <1>1, <1>2, FlattenTail
<1>4. PICK m \in Nat : m = Middle(list) /\ m <= Len(list)
  <2>1. Len(list) \in Nat
        OBVIOUS
  <2>2. Len(list) \div 2 \in Nat /\ Len(list) \div 2 <= Len(list)
        BY <2>1
  <2> QED
      BY <2>2 DEF Middle
<1>5. PICK left \in Seq(S), right \in Seq(S) :
        left = LeftHalf(list) /\ right = RightHalf(list)
  <2>1. SubSeq(list, 1, m) \in Seq(S) /\ SubSeq(list, m + 1, Len(list)) \in Seq(S)
    <3>1. (\A k \in 1..m : list[k] \in S) /\ (\A k \in (m + 1)..Len(list) : list[k] \in S)
          BY <1>4, LenProperties, ElementOfSeq
    <3>2. Len(list) \in Int
          BY LenProperties
    <3> QED
        BY <3>1, <3>2, SubSeqProperties
  <2> QED
      BY <1>4, <2>1 DEF LeftHalf, RightHalf
<1>6. left \o right = list
  <2>1. /\ Len(left) = m /\ \A k \in 1..m : left[k] = list[k]
        /\ Len(right) = Len(list) - m /\ \A k \in 1..(Len(list) - m) : right[k] = list[m + k]
    <3>1. PICK l \in Nat : l = Len(list) /\ m <= l
          BY <1>4, LenProperties
    <3>2. (\A k \in 1..m : list[k] \in S) /\ (\A k \in (m + 1)..l : list[k] \in S)
          BY <3>1, ElementOfSeq
    <3>3. Len(left) = m /\ \A k \in 1..m : left[k] = list[1 + k - 1]
      <4>1. left = SubSeq(list, 1, m)
            BY <1>4, <1>5 DEF LeftHalf
      <4>2. Len(SubSeq(list, 1, m)) = IF 1 <= m THEN m - 1 + 1 ELSE 0
            BY <3>2, SubSeqProperties
      <4>3. \A k \in 1..(m - 1 + 1) : SubSeq(list, 1, m)[k] = list[1 + k - 1]
            BY <3>2, SubSeqProperties
      <4> QED
          BY <4>1, <4>2, <4>3
    <3>4. Len(right) = l - m /\ \A k \in 1..(l - m) : right[k] = list[m + 1 + k - 1]
      <4>1. right = SubSeq(list, m + 1, l)
            BY <1>4, <1>5, <3>1 DEF RightHalf
      <4>2. Len(SubSeq(list, m + 1, l)) = IF m + 1 <= l THEN l - (m + 1) + 1 ELSE 0
            BY <3>2, SubSeqProperties
      <4>3. \A k \in 1..(l - (m + 1) + 1) : SubSeq(list, m + 1, l)[k] = list[m + 1 + k - 1]
            BY <3>2, SubSeqProperties
      <4>4. l - (m + 1) + 1 = l - m
            BY <3>1
      <4> QED
          BY <3>1, <4>1, <4>2, <4>3, <4>4
    <3>5. \A k \in Int : 1 + k - 1 = k /\ m + 1 + k - 1 = m + k
          OBVIOUS
    <3> QED
        BY <3>1, <3>3, <3>4, <3>5
  <2>2. Len(list) = Len(left) + Len(right) /\ \A k \in 1..Len(left) : list[k] = left[k]
    <3>1. Len(list) \in Nat /\ m + (Len(list) - m) = Len(list)
          BY LenProperties
    <3> QED
        BY <2>1, <3>1
  <2>3. \A k \in 1..Len(right) : list[Len(left) + k] = right[k]
        BY <2>1
  <2> QED
      BY <2>2, <2>3, TwoLists, ZenonT(40)
<1>7. PICK after \in Seq(S) : after = FlattenSeq(rest)
      BY FlattenType
<1>8. Halved(calls) = <<left, right>> \o rest
      BY <1>1, <1>2, <1>5, Zenon DEF Halved
<1>9. <<left, right>> \o rest = <<left>> \o (<<right>> \o rest)
  <2>1. BothInFront(left, right, rest)
        BY <1>2, <1>5, TwoInFront, Zenon
  <2> QED
      BY <2>1, Zenon DEF BothInFront
<1>10. PICK some \in Seq(Seq(S)) : some = <<right>> \o rest
  <2>r. PICK R : R = Seq(S)
        OBVIOUS
  <2>o. right \in R => <<right>> \in Seq(R)
        BY OneElement
  <2>1. PICK one \in Seq(Seq(S)) : one = <<right>>
        BY <2>r, <2>o
  <2>2. one \o rest \in Seq(Seq(S))
        OBVIOUS
  <2> QED
      BY <2>1, <2>2, Zenon
<1>11. FlattenSeq(some) = right \o after
       BY <1>7, <1>10, FlattenCons
<1>12. <<left>> \o some \in Seq(Seq(S)) /\ FlattenSeq(<<left>> \o some) = left \o FlattenSeq(some)
  <2>1. PICK one \in Seq(Seq(S)) : one = <<left>>
        BY OneElement
  <2>2. one \o some \in Seq(Seq(S))
        OBVIOUS
  <2>3. FlattenSeq(<<left>> \o some) = left \o FlattenSeq(some)
        BY FlattenCons
  <2> QED
      BY <2>1, <2>2, <2>3, Zenon
<1>13. (left \o right) \o after = left \o (right \o after)
  <2>1. Grouped(left, right, after)
        BY Regroup, Zenon
  <2> QED
      BY <2>1, Zenon DEF Grouped
<1> QED
    BY <1>3, <1>6, <1>7, <1>8, <1>9, <1>10, <1>11, <1>12, <1>13, Zenon

(* A list and its first elements.                                          *)
LEMMA FirstAndRest ==
  ASSUME NEW S, NEW list \in Seq(S), NEW size \in Nat \ {0},
         NEW a, a = FirstOf(list, size), NEW b, b = RestOf(list, size)
  PROVE  /\ a \in Seq(S) /\ b \in Seq(S) /\ Len(a) + Len(b) = Len(list)
         /\ \A n \in 1..Len(a) : a[n] = list[n]
         /\ \A n \in 1..Len(b) : b[n] = list[Len(a) + n]
<1>1. PICK L \in Nat : L = Len(list)
      OBVIOUS
<1>2. PICK m : m = IF L < size THEN L ELSE size
      OBVIOUS
<1>3. m \in Nat /\ m <= L
      BY <1>2
<1>4. a = SubSeq(list, 1, m)
      BY <1>1, <1>2, Zenon DEF FirstOf
<1>5. a \in Seq(S) /\ Len(a) = m /\ \A n \in 1..m : a[n] = list[n]
      BY <1>1, <1>3, <1>4
<1>6. b = SubSeq(list, size + 1, L)
      BY <1>1, Zenon DEF RestOf
<1>7. CASE L < size
  <2>1. b \in Seq(S) /\ Len(b) = 0
        BY <1>1, <1>6, <1>7
  <2>2. m = L /\ m + 0 = L
        BY <1>2, <1>7
  <2> QED
      BY <1>1, <1>5, <2>1, <2>2
<1>8. CASE ~(L < size)
  <2>1. m = size /\ size <= L /\ m + (L - size) = L
        BY <1>2, <1>8
  <2>2. b \in Seq(S) /\ Len(b) = L - size /\ \A n \in 1..(L - size) : b[n] = list[size + n]
        BY <1>1, <1>6, <2>1
  <2> QED
      BY <1>1, <1>5, <2>1, <2>2
<1> QED
    BY <1>7, <1>8

(* What passes a test: each element of the list by itself or not at all.   *)
LEMMA ChosenType ==
  ASSUME NEW S, NEW T, NEW list \in Seq(S), NEW parts,
         DOMAIN parts = DOMAIN list,
         parts = [n \in DOMAIN list |-> parts[n]],
         \A n \in DOMAIN list : parts[n] = <<>> \/ (parts[n] = <<list[n]>> /\ list[n] \in T)
  PROVE  FlattenSeq(parts) \in Seq(T)
<1>1. DOMAIN list = 1..Len(list) /\ Len(list) \in Nat
      OBVIOUS
<1>2. ASSUME NEW n \in 1..Len(list) PROVE parts[n] \in Seq(T)
  <2>1. CASE parts[n] = <<>>
        BY <2>1, EmptySeq
  <2>2. CASE parts[n] = <<list[n]>> /\ list[n] \in T
        BY <2>2, OneElement
  <2> QED
      BY <1>1, <2>1, <2>2
<1>3. parts \in Seq(Seq(T))
      BY <1>1, <1>2
<1> QED
    BY <1>3, FlattenType

-----------------------------------------------------------------------------
(* Representations: the batches.                                           *)

WorkGood(w) == WorkTypes(w) /\ StageHolds(w) /\ StageLacks(w) /\ StoreHolds(w)

(* What is stored does not change with what is done besides it.            *)
LEMMA StoreStays ==
  ASSUME NEW v, NEW w, StoreHolds(v),
         w.asked = v.asked, w.measured = v.measured, w.stored = v.stored,
         w.questions = v.questions,
         w.stage = "done" => v.stage = "done",
         w.stage \notin {"measure", "failed"} => v.stage \notin {"measure", "failed"}
  PROVE  StoreHolds(w)
<1>1. w.stage \notin {"measure", "failed"} => MeasuredOwn(w)
      BY DEF StoreHolds, MeasuredOwn
<1>2. QuestionsOwn(w)
      BY DEF StoreHolds, QuestionsOwn
<1>3. w.stage = "done" => KindsComplete(w)
      BY DEF StoreHolds, KindsComplete
<1> QED
    BY <1>1, <1>2, <1>3 DEF StoreHolds

(* Nothing that the types speak of changes.                                *)
LEMMA TypesStay ==
  ASSUME NEW v, NEW w, WorkTypes(v), WorkIsRecord(w),
         w.asked = v.asked, w.kept = v.kept, w.stored = v.stored, w.rows = v.rows,
         w.stage \in {"measure", "text", "images", "ask", "verify", "questions",
                      "validate", "done", "failed"}
  PROVE  WorkTypes(w)
<1>1. Asking(w) = Asking(v)
      BY DEF Asking
<1> QED
    BY <1>1 DEF WorkTypes

(* An error.                                                               *)
LEMMA FailKeeps ==
  ASSUME NEW v, NEW w, WorkGood(v),
         w = [v EXCEPT !.stage = "failed", !.items = <<>>, !.batch = <<>>,
                       !.todo = <<>>, !.got = <<>>]
  PROVE  WorkGood(w)
<1>1. /\ w.stage = "failed" /\ w.batch = <<>> /\ w.todo = <<>> /\ w.got = <<>>
      /\ w.asked = v.asked /\ w.kept = v.kept /\ w.stored = v.stored /\ w.rows = v.rows
      /\ w.measured = v.measured /\ w.questions = v.questions
      /\ WorkIsRecord(w)
      BY DEF WorkGood, WorkTypes, WorkIsRecord
<1>2. WorkTypes(w)
      BY <1>1, TypesStay DEF WorkGood
<1>3. StoreHolds(w)
      BY <1>1, StoreStays DEF WorkGood
<1>4. StageHolds(w)
      BY <1>1 DEF StageHolds
<1>5. StageLacks(w)
      BY <1>1 DEF StageLacks
<1> QED
    BY <1>2, <1>3, <1>4, <1>5 DEF WorkGood

(* The stages that embed.                                                  *)
EmbedStages == {"measure", "text", "images", "questions"}

(* What is asked of a provider is asked in a stage that embeds.            *)
LEMMA BatchIsEmbedded ==
  ASSUME NEW v, WorkGood(v), v.batch # <<>> \/ v.stage \in EmbedStages
  PROVE  v.stage \in EmbedStages /\ Answering(v)
<1>1. v.stage \in EmbedStages
      BY DEF WorkGood, WorkTypes, StageLacks, EmbedStages
<1> QED
    BY <1>1 DEF WorkGood, StageHolds, EmbedStages

(* The answers to a batch arrive, or it is cut.                            *)
LEMMA AnswerKeeps ==
  ASSUME NEW v, NEW w, WorkGood(v), v.batch # <<>>, NEW g, NEW t,
         w = [v EXCEPT !.got = g, !.todo = t],
         g \in Seq(Windows), t \in Seq(Seq(Windows)),
         g \o FlattenSeq(t) = v.got \o FlattenSeq(v.todo)
  PROVE  WorkGood(w)
<1>1. /\ w.stage = v.stage /\ w.items = v.items /\ w.batch = v.batch /\ w.todo = t
      /\ w.got = g /\ w.asked = v.asked /\ w.kept = v.kept /\ w.stored = v.stored
      /\ w.rows = v.rows /\ w.measured = v.measured /\ w.questions = v.questions
      /\ WorkIsRecord(w)
      BY DEF WorkGood, WorkTypes, WorkIsRecord
<1>2. v.stage \in EmbedStages /\ Answering(v)
      BY BatchIsEmbedded
<1>3. Answering(w)
      BY <1>1, <1>2 DEF Answering
<1>4. WorkTypes(w)
  <2>1. w.stage \in {"measure", "text", "images", "ask", "verify", "questions",
                     "validate", "done", "failed"}
        BY <1>1 DEF WorkGood, WorkTypes
  <2> QED
      BY <1>1, <2>1, TypesStay DEF WorkGood
<1>5. StoreHolds(w)
      BY <1>1, StoreStays DEF WorkGood
<1>6. StageHolds(w)
  <2>1. StageHolds(v)
        BY DEF WorkGood
  <2>2. \A E : Holding(v, E) => Holding(w, E)
        BY <1>1 DEF Holding
  <2>3. \A all : Placed(v, all) => Placed(w, all)
        BY <1>1 DEF Placed
  <2>4. w.stage = v.stage /\ w.kept = v.kept
        BY <1>1
  <2> QED
      BY <1>2, <1>3, <2>1, <2>2, <2>3, <2>4 DEF StageHolds, EmbedStages
<1>7. StageLacks(w)
      BY <1>1, <1>2 DEF WorkGood, StageLacks, EmbedStages
<1> QED
    BY <1>4, <1>5, <1>6, <1>7 DEF WorkGood

(* The next slice of the batch is answered.                                *)
LEMMA EmbeddedKeeps ==
  ASSUME NEW v, NEW w, WorkGood(v), v.batch # <<>>, v.todo # <<>>,
         w = [v EXCEPT !.got = v.got \o Head(v.todo), !.todo = Tail(v.todo)]
  PROVE  WorkGood(w)
<1>1. Answering(v)
      BY BatchIsEmbedded
<1>2. PICK got \in Seq(Windows), calls \in Seq(Seq(Windows)) : got = v.got /\ calls = v.todo
      BY <1>1 DEF Answering
<1>3. PICK head \in Seq(Windows), tail \in Seq(Seq(Windows)) :
        head = Head(calls) /\ tail = Tail(calls)
      BY <1>2, HeadTailProperties
<1>4. PICK left \in Seq(Windows) : left = FlattenSeq(tail)
      BY FlattenType
<1>5. FlattenSeq(calls) = head \o left
      BY <1>2, <1>3, <1>4, FlattenTail
<1>6. (got \o head) \o left = got \o (head \o left)
  <2>1. Grouped(got, head, left)
        BY Regroup, Zenon
  <2> QED
      BY <2>1, Zenon DEF Grouped
<1>7. PICK g \in Seq(Windows) : g = got \o head
      BY ConcatProperties
<1>8. g \o FlattenSeq(tail) = got \o FlattenSeq(calls)
      BY <1>4, <1>5, <1>6, <1>7, Zenon
<1>9. w = [v EXCEPT !.got = g, !.todo = tail]
      BY <1>2, <1>3, <1>7, Zenon
<1>10. g \o FlattenSeq(tail) = v.got \o FlattenSeq(v.todo)
       BY <1>2, <1>8, Zenon
<1> QED
    BY <1>9, <1>10, AnswerKeeps

(* The next slice of the batch is cut in half.                             *)
LEMMA SplitKeeps ==
  ASSUME NEW v, NEW w, WorkGood(v), v.batch # <<>>, v.todo # <<>>,
         w = [v EXCEPT !.todo = Halved(v.todo)]
  PROVE  WorkGood(w)
<1>1. Answering(v)
      BY BatchIsEmbedded
<1>2. PICK got \in Seq(Windows), calls \in Seq(Seq(Windows)) : got = v.got /\ calls = v.todo
      BY <1>1 DEF Answering
<1>3. PICK t \in Seq(Seq(Windows)) : t = Halved(calls) /\ FlattenSeq(t) = FlattenSeq(calls)
      BY <1>2, HalvedTogether
<1>4. w = [v EXCEPT !.got = got, !.todo = t]
  <2>1. WorkIsRecord(v)
        BY DEF WorkGood, WorkTypes
  <2> QED
      BY <1>2, <1>3, <2>1 DEF WorkIsRecord
<1>5. got \o FlattenSeq(t) = v.got \o FlattenSeq(v.todo)
      BY <1>2, <1>3, Zenon
<1> QED
    BY <1>4, <1>5, AnswerKeeps

(* No items, no inputs and no slices.                                      *)
LEMMA NothingAsked ==
  /\ FlattenSeq(<<>>) = <<>> /\ InputsOf(<<>>) = <<>>
  /\ \A size \in Nat \ {0} : InSlices(<<>>, size) = <<>>
<1>1. FlattenSeq(<<>>) = <<>>
      BY DEF FlattenSeq
<1>2. InputsOf(<<>>) = <<>>
  <2>1. PICK none : none = [n \in DOMAIN <<>> |-> InputOf(<<>>[n])]
        OBVIOUS
  <2>2. none = <<>>
        BY <2>1
  <2> QED
      BY <1>1, <2>1, <2>2, Zenon DEF InputsOf
<1>3. ASSUME NEW size \in Nat \ {0} PROVE InSlices(<<>>, size) = <<>>
  <2>1. PICK M \in Int : M = (Len(<<>>) + size - 1) \div size
        OBVIOUS
  <2>2. Len(<<>>) = 0
        OBVIOUS
  <2>3. M = 0
    <3>1. M = (0 + size - 1) \div size
          BY <2>1, <2>2
    <3>2. M * size >= 0 /\ (M - 1) * size < 0 /\ M >= 0
          BY <3>1
    <3>3. M = 0 \/ M - 1 >= 0
          BY <3>2
    <3>4. M - 1 >= 0 => (M - 1) * size >= 0
      <4>1. SUFFICES ASSUME M - 1 >= 0 PROVE (M - 1) * size >= 0
            OBVIOUS
      <4>2. PICK a \in Nat : a = M - 1
            BY <4>1
      <4>3. a * size \in Nat
            OBVIOUS
      <4> QED
          BY <4>2, <4>3
    <3>5. (M - 1) * size \in Int
          OBVIOUS
    <3> QED
        BY <3>2, <3>3, <3>4, <3>5
  <2>4. InSlices(<<>>, size)
          = [n \in 1..M |-> FirstOf(RestOf(<<>>, (n - 1) * size), size)]
        BY <2>1, Zenon DEF InSlices
  <2>5. 1..M = {}
        BY <2>3
  <2> QED
      BY <2>4, <2>5
<1> QED
    BY <1>1, <1>2, <1>3

(* Those of a batch that have an input; of analysis units and questions    *)
(* they are all.                                                           *)
LEMMA UsableIs ==
  ASSUME NEW E, NEW batch \in Seq(E), NEW usable, usable = Chosen(batch, HasInput)
  PROVE  usable \in Seq(E) /\ ((\A e \in E : HasInput(e)) => usable = batch)
<1>1. PICK parts : parts = [n \in DOMAIN batch |->
                              IF HasInput(batch[n]) THEN <<batch[n]>> ELSE <<>>]
      OBVIOUS
<1>2. usable = FlattenSeq(parts)
      BY <1>1, Zenon DEF Chosen
<1>3. DOMAIN batch = 1..Len(batch) /\ \A n \in DOMAIN batch : batch[n] \in E
      OBVIOUS
<1>4. \A n \in DOMAIN batch :
        parts[n] = IF HasInput(batch[n]) THEN <<batch[n]>> ELSE <<>>
      BY <1>1
<1>5. DOMAIN parts = DOMAIN batch /\ parts = [n \in DOMAIN batch |-> parts[n]]
      BY <1>1
<1>6. \A n \in DOMAIN batch : parts[n] = <<>> \/ (parts[n] = <<batch[n]>> /\ batch[n] \in E)
      BY <1>3, <1>4, Zenon
<1>7. usable \in Seq(E)
      BY <1>2, <1>5, <1>6, ChosenType
<1>8. ASSUME \A e \in E : HasInput(e) PROVE usable = batch
  <2>1. \A n \in DOMAIN batch : parts[n] = <<batch[n]>>
        BY <1>3, <1>4, <1>8, Zenon
  <2>2. parts = [n \in 1..Len(batch) |-> <<batch[n]>>]
        BY <1>3, <1>5, <2>1
  <2> QED
      BY <1>2, <2>2, FlattenSingles
<1> QED
    BY <1>7, <1>8

(* Analysis units and questions always have an input.                      *)
LEMMA AllHaveInput ==
  /\ \A e \in AnalysisEntries : HasInput(e)
  /\ \A e \in QuestionEntries : HasInput(e)
BY DEF AnalysisEntries, QuestionEntries, HasInput, CrossModal

(* A batch is begun.                                                       *)
Begun(v, w, size) ==
  LET usable == Chosen(FirstOf(v.items, size), HasInput)
  IN  w = [v EXCEPT !.items = RestOf(v.items, size), !.batch = usable,
                    !.todo = InSlices(InputsOf(usable), size)]

(* The items of a batch that is begun leave the list, in their places.     *)
LEMMA BegunHolds ==
  ASSUME built \in BuildSources, NEW v, NEW w, NEW size \in Nat \ {0}, NEW E,
         WorkIsRecord(v), Begun(v, w, size), E \subseteq Entries, Holding(v, E),
         Answering(v), v.batch = <<>>
  PROVE  /\ Holding(w, E) /\ Answering(w)
         /\ \A all : (\A e \in E : HasInput(e)) /\ Placed(v, all) => Placed(w, all)
<1>1. PICK batch : batch = FirstOf(v.items, size)
      OBVIOUS
<1>2. PICK usable : usable = Chosen(batch, HasInput)
      OBVIOUS
<1>3. PICK rest : rest = RestOf(v.items, size)
      OBVIOUS
<1>4. PICK t : t = InSlices(InputsOf(usable), size)
      OBVIOUS
<1>5. w = [v EXCEPT !.items = rest, !.batch = usable, !.todo = t]
      BY <1>1, <1>2, <1>3, <1>4, Zenon DEF Begun
<1>6. /\ w.items = rest /\ w.batch = usable /\ w.todo = t /\ w.got = v.got /\ w.rows = v.rows
      BY <1>5 DEF WorkIsRecord
<1>7. PICK items \in Seq(E) : items = v.items
      BY DEF Holding
<1>8. /\ batch \in Seq(E) /\ rest \in Seq(E) /\ Len(batch) + Len(rest) = Len(items)
      /\ \A n \in 1..Len(batch) : batch[n] = items[n]
      /\ \A n \in 1..Len(rest) : rest[n] = items[Len(batch) + n]
  <2>1. batch = FirstOf(items, size) /\ rest = RestOf(items, size)
        BY <1>1, <1>3, <1>7, Zenon
  <2> QED
      BY <2>1, FirstAndRest
<1>9. usable \in Seq(E) /\ ((\A e \in E : HasInput(e)) => usable = batch)
      BY <1>2, <1>8, UsableIs
<1>10. Holding(w, E)
       BY <1>6, <1>8, <1>9 DEF Holding
<1>11. PICK inputs \in Seq(Windows) : inputs = InputsOf(usable)
  <2>1. usable \in Seq(Entries)
        BY <1>9
  <2> QED
      BY <2>1, InputParts
<1>12. t \in Seq(Seq(Windows)) /\ FlattenSeq(t) = inputs
       BY <1>4, <1>11, SlicesTogether
<1>13. v.got = <<>>
       BY DEF Answering
<1>14. Answering(w)
  <2>1. w.got \o FlattenSeq(w.todo) = InputsOf(w.batch)
    <3>1. <<>> \o inputs = inputs
          BY ConcatEmptySeq
    <3> QED
        BY <1>6, <1>11, <1>12, <1>13, <3>1, Zenon
  <2>2. w.batch = <<>> => w.got = <<>> /\ w.todo = <<>>
        BY <1>4, <1>6, <1>13, NothingAsked
  <2>3. w.got \in Seq(Windows) /\ w.todo \in Seq(Seq(Windows))
        BY <1>6, <1>12, <1>13, EmptySeq
  <2> QED
      BY <2>1, <2>2, <2>3 DEF Answering
<1>15. ASSUME NEW all, \A e \in E : HasInput(e), Placed(v, all) PROVE Placed(w, all)
  <2>1. /\ w.rows = v.rows /\ w.batch = batch /\ w.items = rest /\ v.items = items
        /\ v.batch = <<>> /\ Len(v.batch) = 0
        BY <1>6, <1>7, <1>9, <1>15, EmptySeq
  <2>2. PICK r : r = Len(v.rows)
        OBVIOUS
  <2>3. /\ r + 0 + Len(items) = Len(all)
        /\ \A n \in 1..r : v.rows[n].item = all[n]
        /\ \A n \in 1..Len(items) : items[n] = all[r + 0 + n]
        BY <1>15, <2>1, <2>2 DEF Placed
  <2>4. r \in Nat
        BY <2>2 DEF Holding
  <2>5. Len(batch) \in Nat /\ Len(rest) \in Nat /\ Len(batch) + Len(rest) = Len(items)
        BY <1>8
  <2>6. r + Len(batch) + Len(rest) = Len(all)
    <3>1. PICK p \in Nat, q \in Nat : p = Len(batch) /\ q = Len(rest)
          BY <2>5
    <3>2. Len(items) = p + q
          BY <2>5, <3>1
    <3>3. r + 0 + (p + q) = r + p + q
          BY <2>4
    <3> QED
        BY <2>3, <3>1, <3>2, <3>3
  <2>7. \A n \in 1..Len(batch) : batch[n] = all[r + n]
    <3>1. \A n \in 1..Len(batch) : n \in 1..Len(items) /\ r + 0 + n = r + n
          BY <2>4, <2>5
    <3> QED
        BY <1>8, <2>3, <3>1
  <2>8. \A n \in 1..Len(rest) : rest[n] = all[r + Len(batch) + n]
    <3>1. \A n \in 1..Len(rest) :
            Len(batch) + n \in 1..Len(items) /\ r + 0 + (Len(batch) + n) = r + Len(batch) + n
          BY <2>4, <2>5
    <3> QED
        BY <1>8, <2>3, <3>1
  <2> QED
      BY <2>1, <2>2, <2>3, <2>6, <2>7, <2>8 DEF Placed
<1> QED
    BY <1>10, <1>14, <1>15

(* The three kinds of items are all that is embedded.                      *)
LEMMA EntriesWithin ==
  /\ AnalysisEntries \subseteq Entries /\ PlannedEntries \subseteq Entries
  /\ QuestionEntries \subseteq Entries
BY DEF Entries

(* A batch that is begun, in every stage that embeds.                      *)
LEMMA BegunKeeps ==
  ASSUME built \in BuildSources, NEW v, NEW w, NEW size \in Nat \ {0},
         WorkGood(v), v.stage \in EmbedStages, v.batch = <<>>, Begun(v, w, size)
  PROVE  WorkGood(w)
<1>1. Answering(v)
      BY BatchIsEmbedded
<1>2. WorkIsRecord(v)
      BY DEF WorkGood, WorkTypes
<1>3. /\ w.stage = v.stage /\ w.got = v.got /\ w.asked = v.asked /\ w.kept = v.kept
      /\ w.stored = v.stored /\ w.rows = v.rows /\ w.measured = v.measured
      /\ w.questions = v.questions /\ WorkIsRecord(w)
      BY <1>2 DEF Begun, WorkIsRecord
<1>4. WorkTypes(w)
  <2>1. w.stage \in {"measure", "text", "images", "ask", "verify", "questions",
                     "validate", "done", "failed"}
        BY <1>3 DEF WorkGood, WorkTypes
  <2> QED
      BY <1>3, <2>1, TypesStay DEF WorkGood
<1>5. StoreHolds(w)
      BY <1>3, StoreStays DEF WorkGood
<1>6. StageLacks(w)
      BY <1>3 DEF WorkGood, StageLacks, EmbedStages
<1>7. StageHolds(v)
      BY DEF WorkGood
<1>8. CASE v.stage = "measure"
  <2>1. Holding(v, AnalysisEntries) /\ Placed(v, AnalysisItems)
        BY <1>7, <1>8 DEF StageHolds
  <2>2. Holding(w, AnalysisEntries) /\ Answering(w) /\ Placed(w, AnalysisItems)
        BY <1>1, <1>2, <2>1, BegunHolds, AllHaveInput, EntriesWithin
  <2> QED
      BY <1>3, <1>4, <1>5, <1>6, <1>8, <2>2 DEF WorkGood, StageHolds
<1>9. CASE v.stage \in {"text", "images"}
  <2>1. Holding(v, PlannedEntries)
        BY <1>7, <1>9 DEF StageHolds
  <2>2. Holding(w, PlannedEntries) /\ Answering(w)
        BY <1>1, <1>2, <2>1, BegunHolds, EntriesWithin
  <2> QED
      BY <1>3, <1>4, <1>5, <1>6, <1>9, <2>2 DEF WorkGood, StageHolds
<1>10. CASE v.stage = "questions"
  <2>1. Holding(v, QuestionEntries) /\ Placed(v, QuestionsToEmbed(v.kept))
        BY <1>7, <1>10 DEF StageHolds
  <2>2. /\ Holding(w, QuestionEntries) /\ Answering(w)
        /\ Placed(w, QuestionsToEmbed(v.kept))
        BY <1>1, <1>2, <2>1, BegunHolds, AllHaveInput, EntriesWithin
  <2> QED
      BY <1>3, <1>4, <1>5, <1>6, <1>10, <2>2 DEF WorkGood, StageHolds
<1> QED
    BY <1>8, <1>9, <1>10 DEF EmbedStages

(* Images that may be left out are.                                        *)
LEMMA SkipKeeps ==
  ASSUME NEW v, NEW w, WorkGood(v), v.batch # <<>>,
         ~ \E n \in DOMAIN v.batch : v.batch[n].required,
         w = [v EXCEPT !.batch = <<>>, !.todo = <<>>, !.got = <<>>]
  PROVE  WorkGood(w)
<1>1. v.stage \in EmbedStages /\ Answering(v)
      BY BatchIsEmbedded
<1>2. /\ w.stage = v.stage /\ w.items = v.items /\ w.batch = <<>> /\ w.todo = <<>>
      /\ w.got = <<>> /\ w.asked = v.asked /\ w.kept = v.kept /\ w.stored = v.stored
      /\ w.rows = v.rows /\ w.measured = v.measured /\ w.questions = v.questions
      /\ WorkIsRecord(w)
      BY DEF WorkGood, WorkTypes, WorkIsRecord
<1>3. StageHolds(v)
      BY DEF WorkGood
<1>4. ASSUME NEW E, v.batch \in Seq(E), \A e \in E : e.required = TRUE PROVE FALSE
  <2>1. PICK batch \in Seq(E) : batch = v.batch
        BY <1>4
  <2>2. Len(batch) \in Nat \ {0}
        BY <2>1, EmptySeq
  <2>3. 1 \in DOMAIN batch /\ batch[1] \in E
        BY <2>2
  <2> QED
      BY <1>4, <2>1, <2>3
<1>5. v.stage # "measure"
  <2>1. SUFFICES ASSUME v.stage = "measure" PROVE FALSE
        OBVIOUS
  <2>2. v.batch \in Seq(AnalysisEntries)
        BY <1>3, <2>1 DEF StageHolds, Holding
  <2>3. \A e \in AnalysisEntries : e.required = TRUE
        BY DEF AnalysisEntries
  <2> QED
      BY <1>4, <2>2, <2>3
<1>6. v.stage # "questions"
  <2>1. SUFFICES ASSUME v.stage = "questions" PROVE FALSE
        OBVIOUS
  <2>2. v.batch \in Seq(QuestionEntries)
        BY <1>3, <2>1 DEF StageHolds, Holding
  <2>3. \A e \in QuestionEntries : e.required = TRUE
        BY DEF QuestionEntries
  <2> QED
      BY <1>4, <2>2, <2>3
<1>7. v.stage \in {"text", "images"}
      BY <1>1, <1>5, <1>6 DEF EmbedStages
<1>8. Holding(w, PlannedEntries)
  <2>1. Holding(v, PlannedEntries)
        BY <1>3, <1>7 DEF StageHolds
  <2> QED
      BY <1>2, <2>1, EmptySeq DEF Holding
<1>9. Answering(w)
  <2>1. <<>> \in Seq(Windows) /\ <<>> \in Seq(Seq(Windows))
        BY EmptySeq
  <2>2. <<>> \o <<>> = <<>>
        BY <2>1, ConcatEmptySeq
  <2> QED
      BY <1>2, <2>1, <2>2, NothingAsked DEF Answering
<1>10. WorkTypes(w)
  <2>1. w.stage \in {"measure", "text", "images", "ask", "verify", "questions",
                     "validate", "done", "failed"}
        BY <1>2 DEF WorkGood, WorkTypes
  <2> QED
      BY <1>2, <2>1, TypesStay DEF WorkGood
<1>11. StoreHolds(w)
       BY <1>2, StoreStays DEF WorkGood
<1>12. StageHolds(w)
       BY <1>2, <1>7, <1>8, <1>9 DEF StageHolds
<1>13. StageLacks(w)
       BY <1>2, <1>7 DEF WorkGood, StageLacks
<1> QED
    BY <1>10, <1>11, <1>12, <1>13 DEF WorkGood

(* A batch is done: every item takes its own windows.                      *)
Done(v, w) ==
  w = [v EXCEPT !.batch = <<>>, !.got = <<>>, !.rows = v.rows \o Collapsed(v.batch, v.got)]

(* The items of a batch that is done become rows, in their places.         *)
LEMMA DoneHolds ==
  ASSUME built \in BuildSources, NEW v, NEW w, NEW E,
         WorkIsRecord(v), Done(v, w), E \subseteq Entries, Holding(v, E),
         Answering(v), v.todo = <<>>
  PROVE  /\ Holding(w, E) /\ Answering(w)
         /\ \A all : Placed(v, all) => Placed(w, all)
<1>1. PICK batch \in Seq(E), rows \in Seq(AnswersTo(E)), got \in Seq(Windows) :
        batch = v.batch /\ rows = v.rows /\ got = v.got
      BY DEF Holding, Answering
<1>2. got = InputsOf(batch)
  <2>1. got \o <<>> = got
        BY ConcatEmptySeq
  <2>2. got \o FlattenSeq(<<>>) = InputsOf(batch)
        BY <1>1, Zenon DEF Answering
  <2> QED
      BY <2>1, <2>2, NothingAsked, Zenon
<1>3. PICK new : new = Collapsed(batch, InputsOf(batch))
      OBVIOUS
<1>4. /\ new \in Seq(AnswersTo(E)) /\ Len(new) = Len(batch)
      /\ \A n \in 1..Len(batch) : new[n].item = batch[n]
      BY <1>3, CollapsedIs
<1>5. w = [v EXCEPT !.batch = <<>>, !.got = <<>>, !.rows = rows \o new]
      BY <1>1, <1>2, <1>3, Zenon DEF Done
<1>6. /\ w.items = v.items /\ w.batch = <<>> /\ w.todo = <<>> /\ w.got = <<>>
      /\ w.rows = rows \o new
      BY <1>5 DEF WorkIsRecord
<1>7. PICK sum \in Seq(AnswersTo(E)) :
        /\ sum = rows \o new /\ Len(sum) = Len(rows) + Len(batch)
        /\ \A n \in 1..Len(rows) : sum[n] = rows[n]
        /\ \A n \in 1..Len(batch) : sum[Len(rows) + n] = new[n]
  <2>1. rows \o new \in Seq(AnswersTo(E)) /\ Len(rows \o new) = Len(rows) + Len(new)
        BY <1>4, ConcatProperties
  <2>2. \A i \in 1..(Len(rows) + Len(new)) :
          (rows \o new)[i] = IF i <= Len(rows) THEN rows[i] ELSE new[i - Len(rows)]
        BY <1>4, ConcatProperties
  <2>3. PICK p \in Nat, q \in Nat : p = Len(rows) /\ q = Len(new)
        BY <1>4
  <2>4. \A n \in 1..p : (rows \o new)[n] = rows[n]
        BY <2>2, <2>3
  <2>5. \A n \in 1..q : (rows \o new)[p + n] = new[n]
    <3>1. \A n \in 1..q : p + n \in 1..(p + q) /\ ~(p + n <= p) /\ p + n - p = n
          OBVIOUS
    <3> QED
        BY <2>2, <2>3, <3>1
  <2> QED
      BY <1>4, <2>1, <2>3, <2>4, <2>5
<1>8. Holding(w, E)
      BY <1>6, <1>7, EmptySeq DEF Holding
<1>9. Answering(w)
  <2>1. <<>> \in Seq(Windows) /\ <<>> \in Seq(Seq(Windows))
        BY EmptySeq
  <2>2. <<>> \o <<>> = <<>>
        BY <2>1, ConcatEmptySeq
  <2> QED
      BY <1>6, <2>1, <2>2, NothingAsked DEF Answering
<1>10. ASSUME NEW all, Placed(v, all) PROVE Placed(w, all)
  <2>1. PICK p \in Nat, q \in Nat, r \in Nat :
          p = Len(rows) /\ q = Len(batch) /\ r = Len(v.items)
        BY DEF Holding
  <2>2. /\ p + q + r = Len(all)
        /\ \A n \in 1..p : rows[n].item = all[n]
        /\ \A n \in 1..q : batch[n] = all[p + n]
        /\ \A n \in 1..r : v.items[n] = all[p + q + n]
        BY <1>1, <1>10, <2>1 DEF Placed
  <2>3. /\ w.rows = sum /\ Len(sum) = p + q /\ w.items = v.items
        /\ w.batch = <<>> /\ Len(w.batch) = 0
        BY <1>6, <1>7, <2>1, EmptySeq
  <2>4. p + q + 0 + r = Len(all)
        BY <2>2
  <2>5. ASSUME NEW n \in 1..(p + q) PROVE sum[n].item = all[n]
    <3>1. CASE n <= p
      <4>1. n \in 1..p
            BY <3>1
      <4>2. sum[n] = rows[n]
            BY <1>7, <2>1, <4>1
      <4> QED
          BY <2>2, <4>1, <4>2
    <3>2. CASE ~(n <= p)
      <4>1. PICK k \in 1..q : n = p + k
        <5>1. n - p \in 1..q /\ n = p + (n - p)
              BY <3>2
        <5> QED
            BY <5>1
      <4>2. sum[n].item = batch[k]
            BY <1>4, <1>7, <2>1, <4>1
      <4> QED
          BY <2>2, <4>1, <4>2
    <3> QED
        BY <3>1, <3>2
  <2>6. \A n \in 1..r : v.items[n] = all[p + q + 0 + n]
        BY <2>2
  <2>7. Len(w.rows) = p + q /\ Len(w.items) = r
        BY <2>1, <2>3
  <2>8. \A n \in 1..Len(w.rows) : w.rows[n].item = all[n]
        BY <2>3, <2>5, <2>7
  <2>9. \A n \in 1..Len(w.batch) : w.batch[n] = all[Len(w.rows) + n]
        BY <2>3
  <2>10. \A n \in 1..Len(w.items) : w.items[n] = all[Len(w.rows) + Len(w.batch) + n]
         BY <2>3, <2>6, <2>7
  <2>11. Len(w.rows) + Len(w.batch) + Len(w.items) = Len(all)
         BY <2>3, <2>4, <2>7
  <2> QED
      BY <2>8, <2>9, <2>10, <2>11 DEF Placed
<1> QED
    BY <1>8, <1>9, <1>10

(* Answers to some of the items are answers to all.                        *)
LEMMA AnswersWithin ==
  ASSUME NEW E, E \subseteq Entries
  PROVE  AnswersTo(E) \subseteq AnswersTo(Entries)
BY DEF AnswersTo

(* A batch that is done, in every stage that embeds.                       *)
LEMMA DoneKeeps ==
  ASSUME built \in BuildSources, NEW v, NEW w, WorkGood(v), v.batch # <<>>,
         v.todo = <<>>, Done(v, w)
  PROVE  WorkGood(w)
<1>1. v.stage \in EmbedStages /\ Answering(v)
      BY BatchIsEmbedded
<1>2. WorkIsRecord(v) /\ StageHolds(v)
      BY DEF WorkGood, WorkTypes
<1>3. /\ w.stage = v.stage /\ w.asked = v.asked /\ w.kept = v.kept
      /\ w.stored = v.stored /\ w.measured = v.measured
      /\ w.questions = v.questions /\ WorkIsRecord(w)
      BY <1>2 DEF Done, WorkIsRecord
<1>4. StoreHolds(w)
      BY <1>3, StoreStays DEF WorkGood
<1>5. StageLacks(w)
      BY <1>1, <1>3 DEF WorkGood, StageLacks, EmbedStages
<1>6. ASSUME NEW E, E \subseteq Entries, Holding(w, E) PROVE WorkTypes(w)
  <2>1. w.rows \in Seq(AnswersTo(Entries))
    <3>1. PICK A : A = AnswersTo(E)
          OBVIOUS
    <3>2. PICK B : B = AnswersTo(Entries)
          OBVIOUS
    <3>3. A \subseteq B
          BY <1>6, <3>1, <3>2, AnswersWithin
    <3>4. PICK rows \in Seq(A) : rows = w.rows
          BY <1>6, <3>1 DEF Holding
    <3>5. rows \in Seq(B)
          BY <3>3
    <3> QED
        BY <3>2, <3>4, <3>5
  <2>2. Asking(w) = Asking(v)
        BY <1>3 DEF Asking
  <2> QED
      BY <1>3, <2>1, <2>2 DEF WorkTypes, WorkGood
<1>7. CASE v.stage = "measure"
  <2>1. Holding(v, AnalysisEntries) /\ Placed(v, AnalysisItems)
        BY <1>2, <1>7 DEF StageHolds
  <2>2. Holding(w, AnalysisEntries) /\ Answering(w) /\ Placed(w, AnalysisItems)
        BY <1>1, <1>2, <2>1, DoneHolds, EntriesWithin
  <2>3. WorkTypes(w)
        BY <1>6, <2>2, EntriesWithin
  <2> QED
      BY <1>3, <1>4, <1>5, <1>7, <2>2, <2>3 DEF WorkGood, StageHolds
<1>8. CASE v.stage \in {"text", "images"}
  <2>1. Holding(v, PlannedEntries)
        BY <1>2, <1>8 DEF StageHolds
  <2>2. Holding(w, PlannedEntries) /\ Answering(w)
        BY <1>1, <1>2, <2>1, DoneHolds, EntriesWithin
  <2>3. WorkTypes(w)
        BY <1>6, <2>2, EntriesWithin
  <2> QED
      BY <1>3, <1>4, <1>5, <1>8, <2>2, <2>3 DEF WorkGood, StageHolds
<1>9. CASE v.stage = "questions"
  <2>1. Holding(v, QuestionEntries) /\ Placed(v, QuestionsToEmbed(v.kept))
        BY <1>2, <1>9 DEF StageHolds
  <2>2. /\ Holding(w, QuestionEntries) /\ Answering(w)
        /\ Placed(w, QuestionsToEmbed(v.kept))
        BY <1>1, <1>2, <2>1, DoneHolds, EntriesWithin
  <2>3. WorkTypes(w)
        BY <1>6, <2>2, EntriesWithin
  <2> QED
      BY <1>3, <1>4, <1>5, <1>9, <2>2, <2>3 DEF WorkGood, StageHolds
<1> QED
    BY <1>1, <1>7, <1>8, <1>9 DEF EmbedStages

-----------------------------------------------------------------------------
(* Representations: the lists that the stages begin with.                  *)

(* The lists that the stages begin with.                                   *)
LEMMA PlannedRowsType ==
  ASSUME built \in BuildSources
  PROVE  PlannedRows \in Seq(PlannedEntries)
<1>1. PICK parts : parts = [i \in UnitIds |-> PlannedOf(i)]
      OBVIOUS
<1>2. UnitIds = 1..Len(built.units) /\ Len(built.units) \in Nat
      BY SourceTypes
<1>3. \A i \in UnitIds : PlannedOf(i) \in Seq(PlannedEntries)
      BY PlannedKinds
<1>4. parts \in Seq(Seq(PlannedEntries))
      BY <1>1, <1>2, <1>3
<1>5. PlannedRows = FlattenSeq(parts)
      BY <1>1, Zenon DEF PlannedRows
<1> QED
    BY <1>4, <1>5, FlattenType

(* Text and image items are of those planned.                              *)
LEMMA ItemsTypes ==
  ASSUME built \in BuildSources
  PROVE  TextItems \in Seq(PlannedEntries) /\ ImageItems \in Seq(PlannedEntries)
<1>1. PICK list \in Seq(PlannedEntries) : list = PlannedRows
      BY PlannedRowsType
<1>2. \A n \in DOMAIN list : list[n] \in PlannedEntries
      OBVIOUS
<1>3. PICK parts : parts = [n \in DOMAIN list |->
                     IF list[n].kind \notin CrossModal THEN <<list[n]>> ELSE <<>>]
      OBVIOUS
<1>4. TextItems = FlattenSeq(parts)
      BY <1>1, <1>3, Zenon DEF TextItems, Chosen
<1>5. TextItems \in Seq(PlannedEntries)
  <2>1. DOMAIN parts = DOMAIN list /\ parts = [n \in DOMAIN list |-> parts[n]]
        BY <1>3
  <2>2. \A n \in DOMAIN list :
          parts[n] = IF list[n].kind \notin CrossModal THEN <<list[n]>> ELSE <<>>
        BY <1>3
  <2>3. \A n \in DOMAIN list :
          parts[n] = <<>> \/ (parts[n] = <<list[n]>> /\ list[n] \in PlannedEntries)
        BY <1>2, <2>2, Zenon
  <2> QED
      BY <1>4, <2>1, <2>3, ChosenType
<1>6. PICK drawn : drawn = [n \in DOMAIN list |->
                     IF list[n].kind \in CrossModal THEN <<list[n]>> ELSE <<>>]
      OBVIOUS
<1>7. ImageItems = FlattenSeq(drawn)
      BY <1>1, <1>6, Zenon DEF ImageItems, Chosen
<1>8. ImageItems \in Seq(PlannedEntries)
  <2>1. DOMAIN drawn = DOMAIN list /\ drawn = [n \in DOMAIN list |-> drawn[n]]
        BY <1>6
  <2>2. \A n \in DOMAIN list :
          drawn[n] = IF list[n].kind \in CrossModal THEN <<list[n]>> ELSE <<>>
        BY <1>6
  <2>3. \A n \in DOMAIN list :
          drawn[n] = <<>> \/ (drawn[n] = <<list[n]>> /\ list[n] \in PlannedEntries)
        BY <1>2, <2>2, Zenon
  <2> QED
      BY <1>7, <2>1, <2>3, ChosenType
<1> QED
    BY <1>5, <1>8

(* Units with content of their own are units.                              *)
LEMMA EligibleTypes ==
  ASSUME built \in BuildSources
  PROVE  EligibleUnits \in Seq(UnitIds)
<1>1. UnitIds = 1..Len(built.units) /\ Len(built.units) \in Nat
      BY SourceTypes
<1>2. PICK list : list = [i \in UnitIds |-> i]
      OBVIOUS
<1>3. list \in Seq(UnitIds) /\ \A n \in DOMAIN list : list[n] \in UnitIds
      BY <1>1, <1>2
<1>4. PICK parts : parts = [n \in DOMAIN list |->
                     IF built.units[list[n]].said THEN <<list[n]>> ELSE <<>>]
      OBVIOUS
<1>5. EligibleUnits = FlattenSeq(parts)
      BY <1>2, <1>4, Zenon DEF EligibleUnits, Chosen
<1>6. DOMAIN parts = DOMAIN list /\ parts = [n \in DOMAIN list |-> parts[n]]
      BY <1>4
<1>7. \A n \in DOMAIN list :
        parts[n] = IF built.units[list[n]].said THEN <<list[n]>> ELSE <<>>
      BY <1>4
<1>8. \A n \in DOMAIN list :
        parts[n] = <<>> \/ (parts[n] = <<list[n]>> /\ list[n] \in UnitIds)
      BY <1>3, <1>7, Zenon
<1> QED
    BY <1>3, <1>5, <1>6, <1>8, ChosenType

(* What was asked is what is verified.                                     *)
LEMMA AskedType ==
  ASSUME built \in BuildSources, WorkTypes(work)
  PROVE  AskedQuestions \in Seq(Asking(work))
<1>1. PICK eligible \in Seq(UnitIds) : eligible = EligibleUnits
      BY EligibleTypes
<1>2. work.asked \in [UnitIds -> 0..MaxQuestions] /\ MaxQuestions \in Nat
      BY RepresentationsAssumption DEF WorkTypes
<1>3. ASSUME NEW i \in UnitIds
      PROVE  [k \in 1..work.asked[i] |-> [unit |-> i, number |-> k]] \in Seq(Asking(work))
  <2>1. PICK m \in 0..MaxQuestions : m = work.asked[i]
        BY <1>2
  <2>2. m \in Nat /\ \A k \in 1..m : k \in 1..MaxQuestions
        BY <1>2
  <2>3. \A k \in 1..m : [unit |-> i, number |-> k] \in Asking(work)
        BY <2>1, <2>2 DEF Asking
  <2>4. [k \in 1..m |-> [unit |-> i, number |-> k]] \in Seq(Asking(work))
        BY <2>2, <2>3
  <2> QED
      BY <2>1, <2>4
<1>4. PICK parts : parts = [n \in DOMAIN eligible |->
                     [k \in 1..work.asked[eligible[n]] |->
                        [unit |-> eligible[n], number |-> k]]]
      OBVIOUS
<1>5. DOMAIN eligible = 1..Len(eligible) /\ Len(eligible) \in Nat
      /\ \A n \in DOMAIN eligible : eligible[n] \in UnitIds
      OBVIOUS
<1>6. \A n \in DOMAIN eligible : parts[n] \in Seq(Asking(work))
      BY <1>3, <1>4, <1>5
<1>7. parts \in Seq(Seq(Asking(work)))
      BY <1>4, <1>5, <1>6
<1>8. AskedQuestions = FlattenSeq(parts)
      BY <1>1, <1>4, Zenon DEF AskedQuestions
<1> QED
    BY <1>7, <1>8, FlattenType

(* The questions that are kept are listed by unit.                         *)
LEMMA KeptTypes ==
  ASSUME NEW Q, NEW kept \in Seq(Q), NEW i
  PROVE  KeptIn(kept, i) \in Seq({q \in Q : q.unit = i})
<1>1. PICK parts : parts = [n \in DOMAIN kept |-> IF kept[n].unit = i THEN <<kept[n]>> ELSE <<>>]
      OBVIOUS
<1>2. DOMAIN parts = DOMAIN kept /\ parts = [n \in DOMAIN kept |-> parts[n]]
      BY <1>1
<1>3. \A n \in DOMAIN kept : kept[n] \in Q
      OBVIOUS
<1>4. PICK T : T = {q \in Q : q.unit = i}
      OBVIOUS
<1>5. \A n \in DOMAIN kept : parts[n] = <<>> \/ (parts[n] = <<kept[n]>> /\ kept[n] \in T)
      BY <1>1, <1>3, <1>4
<1>6. FlattenSeq(parts) \in Seq(T)
      BY <1>2, <1>5, ChosenType
<1>7. KeptIn(kept, i) = FlattenSeq(parts)
      BY <1>1, Zenon DEF KeptIn
<1> QED
    BY <1>4, <1>6, <1>7

QuestionParts(kept) == [n \in DOMAIN EligibleUnits |-> QuestionsIn(kept, EligibleUnits[n])]

(* The questions of a unit are listed in the order of their verdicts.      *)
LEMMA QuestionTypes ==
  ASSUME built \in BuildSources, NEW w, WorkTypes(w)
  PROVE  /\ \A i \in UnitIds :
              /\ QuestionsIn(w.kept, i) \in Seq(QuestionEntries)
              /\ Len(QuestionsIn(w.kept, i)) = Len(KeptIn(w.kept, i))
              /\ \A k \in 1..Len(KeptIn(w.kept, i)) :
                   /\ KeptIn(w.kept, i)[k] = [unit |-> i, number |-> KeptIn(w.kept, i)[k].number]
                   /\ KeptIn(w.kept, i)[k].number \in 1..w.asked[i]
                   /\ QuestionsIn(w.kept, i)[k]
                        = [unit |-> i, number |-> KeptIn(w.kept, i)[k].number,
                           kind |-> "question", required |-> TRUE]
         /\ QuestionParts(w.kept) \in Seq(Seq(QuestionEntries))
         /\ QuestionsToEmbed(w.kept) \in Seq(QuestionEntries)
<1>1. ASSUME NEW i \in UnitIds
      PROVE  /\ QuestionsIn(w.kept, i) \in Seq(QuestionEntries)
             /\ Len(QuestionsIn(w.kept, i)) = Len(KeptIn(w.kept, i))
             /\ \A k \in 1..Len(KeptIn(w.kept, i)) :
                  /\ KeptIn(w.kept, i)[k] = [unit |-> i, number |-> KeptIn(w.kept, i)[k].number]
                  /\ KeptIn(w.kept, i)[k].number \in 1..w.asked[i]
                  /\ QuestionsIn(w.kept, i)[k]
                       = [unit |-> i, number |-> KeptIn(w.kept, i)[k].number,
                          kind |-> "question", required |-> TRUE]
  <2>1. PICK T : T = {q \in Asking(w) : q.unit = i}
        OBVIOUS
  <2>2. PICK mine \in Seq(T) : mine = KeptIn(w.kept, i)
        BY <2>1, KeptTypes DEF WorkTypes
  <2>3. DOMAIN mine = 1..Len(mine) /\ Len(mine) \in Nat /\ \A k \in 1..Len(mine) : mine[k] \in T
        OBVIOUS
  <2>4. ASSUME NEW k \in 1..Len(mine)
        PROVE  /\ mine[k] = [unit |-> i, number |-> mine[k].number]
               /\ mine[k].number \in 1..w.asked[i] /\ mine[k].number \in 1..MaxQuestions
    <3>1. PICK q \in T : q = mine[k]
          BY <2>3
    <3>2. q \in [unit : UnitIds, number : 1..MaxQuestions] /\ q.unit = i
          /\ q.number \in 1..w.asked[i]
          BY <2>1 DEF Asking
    <3> QED
        BY <3>1, <3>2
  <2>5. PICK asks : asks = QuestionsIn(w.kept, i)
        OBVIOUS
  <2>6. asks = [k \in 1..Len(mine) |-> [unit |-> i, number |-> mine[k].number,
                                        kind |-> "question", required |-> TRUE]]
        BY <2>2, <2>3, <2>5, Zenon DEF QuestionsIn
  <2>7. \A k \in 1..Len(mine) :
          [unit |-> i, number |-> mine[k].number, kind |-> "question", required |-> TRUE]
            \in QuestionEntries
        BY <2>4 DEF QuestionEntries
  <2>8. asks \in Seq(QuestionEntries) /\ Len(asks) = Len(mine)
        BY <2>3, <2>6, <2>7
  <2> QED
      BY <2>2, <2>4, <2>5, <2>6, <2>8
<1>2. PICK eligible \in Seq(UnitIds) : eligible = EligibleUnits
      BY EligibleTypes
<1>3. DOMAIN eligible = 1..Len(eligible) /\ Len(eligible) \in Nat
      /\ \A n \in DOMAIN eligible : eligible[n] \in UnitIds
      OBVIOUS
<1>4. PICK parts : parts = QuestionParts(w.kept)
      OBVIOUS
<1>5. parts = [n \in DOMAIN eligible |-> QuestionsIn(w.kept, eligible[n])]
      BY <1>2, <1>4, Zenon DEF QuestionParts
<1>6. parts \in Seq(Seq(QuestionEntries))
  <2>1. \A n \in DOMAIN eligible : QuestionsIn(w.kept, eligible[n]) \in Seq(QuestionEntries)
        BY <1>1, <1>3
  <2> QED
      BY <1>3, <1>5, <2>1
<1>7. QuestionsToEmbed(w.kept) = FlattenSeq(parts)
      BY <1>4, Zenon DEF QuestionsToEmbed, QuestionParts
<1> QED
    BY <1>1, <1>4, <1>6, <1>7, FlattenType

-----------------------------------------------------------------------------
(* Representations: the stages and the questions.                          *)

(* The types hold when rows are stored or cleared.                         *)
LEMMA TypesKeep ==
  ASSUME NEW v, NEW w, WorkTypes(v), WorkIsRecord(w),
         w.asked = v.asked, w.kept = v.kept,
         w.stored = v.stored \/ w.stored \in Seq(AnswersTo(PlannedEntries)),
         w.rows = v.rows \/ w.rows = <<>>,
         w.stage \in {"measure", "text", "images", "ask", "verify", "questions",
                      "validate", "done", "failed"}
  PROVE  WorkTypes(w)
<1>1. Asking(w) = Asking(v)
      BY DEF Asking
<1>2. w.rows \in Seq(AnswersTo(Entries))
      BY EmptySeq DEF WorkTypes
<1> QED
    BY <1>1, <1>2 DEF WorkTypes

(* Nothing is asked of the providers.                                      *)
LEMMA NothingAnswering ==
  ASSUME NEW w, w.batch = <<>>, w.todo = <<>>, w.got = <<>>
  PROVE  Answering(w)
<1>1. <<>> \in Seq(Windows) /\ <<>> \in Seq(Seq(Windows))
      BY EmptySeq
<1>2. <<>> \o <<>> = <<>>
      BY <1>1, ConcatEmptySeq
<1> QED
    BY <1>1, <1>2, NothingAsked DEF Answering

(* The analysis is measured: its rows are one for each unit, in order.     *)
LEMMA MeasuredKeeps ==
  ASSUME built \in BuildSources, NEW v, NEW w, WorkGood(v),
         v.stage = "measure", v.items = <<>>, v.batch = <<>>, v.todo = <<>>,
         NEW items \in Seq(PlannedEntries),
         w = [v EXCEPT !.stage = "text", !.items = items, !.measured = v.rows, !.rows = <<>>]
  PROVE  WorkGood(w)
<1>1. /\ w.stage = "text" /\ w.items = items /\ w.batch = <<>> /\ w.todo = <<>>
      /\ w.got = v.got /\ w.asked = v.asked /\ w.kept = v.kept /\ w.stored = v.stored
      /\ w.rows = <<>> /\ w.measured = v.rows /\ w.questions = v.questions
      /\ WorkIsRecord(w)
      BY DEF WorkGood, WorkTypes, WorkIsRecord
<1>2. Holding(v, AnalysisEntries) /\ Answering(v) /\ Placed(v, AnalysisItems)
      BY DEF WorkGood, StageHolds
<1>3. v.got = <<>>
      BY <1>2 DEF Answering
<1>4. WorkTypes(w)
      BY <1>1, TypesKeep DEF WorkGood
<1>5. PICK rows \in Seq(AnswersTo(AnalysisEntries)) : rows = v.rows
      BY <1>2 DEF Holding
<1>6. /\ DOMAIN built.analysis = 1..Len(built.analysis) /\ Len(built.analysis) \in Nat
      /\ AnalysisItems \in Seq(AnalysisEntries) /\ Len(AnalysisItems) = Len(built.analysis)
      /\ \A i \in DOMAIN built.analysis :
           AnalysisItems[i] = [unit |-> i, kind |-> "analysis", required |-> TRUE]
  <2>1. DOMAIN built.analysis = 1..Len(built.analysis) /\ Len(built.analysis) \in Nat
        BY SourceTypes
  <2>2. \A i \in DOMAIN built.analysis :
          [unit |-> i, kind |-> "analysis", required |-> TRUE] \in AnalysisEntries
        BY DEF AnalysisEntries
  <2>3. AnalysisItems = [i \in 1..Len(built.analysis) |->
                           [unit |-> i, kind |-> "analysis", required |-> TRUE]]
        BY <2>1 DEF AnalysisItems
  <2> QED
      BY <2>1, <2>2, <2>3
<1>7. /\ Len(rows) = Len(built.analysis) /\ DOMAIN rows = 1..Len(rows)
      /\ \A n \in 1..Len(rows) : rows[n].item = AnalysisItems[n]
  <2>1. Len(v.items) = 0 /\ Len(v.batch) = 0 /\ Len(rows) \in Nat
        BY EmptySeq
  <2>2. Len(rows) + 0 + 0 = Len(AnalysisItems)
        BY <1>2, <1>5, <2>1 DEF Placed
  <2> QED
      BY <1>2, <1>5, <1>6, <2>1, <2>2 DEF Placed
<1>8. MeasuredOwn(w)
  <2>1. DOMAIN w.measured = DOMAIN built.analysis
        BY <1>1, <1>5, <1>6, <1>7
  <2>2. ASSUME NEW i \in DOMAIN built.analysis
        PROVE  rows[i].vector = WindowsOf("analysis", i, built.analysis[i])
    <3>1. i \in 1..Len(rows)
          BY <1>6, <1>7
    <3>2. rows[i] \in AnswersTo(AnalysisEntries)
          BY <3>1
    <3>3. PICK e \in AnalysisEntries : rows[i] = [item |-> e, vector |-> InputOf(e)]
          BY <3>2 DEF AnswersTo
    <3>4. e = [unit |-> i, kind |-> "analysis", required |-> TRUE]
      <4>1. rows[i].item = e
            BY <3>3
      <4>2. rows[i].item = AnalysisItems[i]
            BY <1>7, <3>1
      <4> QED
          BY <1>6, <4>1, <4>2, Zenon
    <3>5. e.kind = "analysis" /\ e.unit = i
          BY <3>4
    <3>6. InputOf(e) = WindowsOf("analysis", i, built.analysis[i])
          BY <3>5 DEF InputOf, CrossModal
    <3> QED
        BY <3>3, <3>6
  <2> QED
      BY <1>1, <1>5, <2>1, <2>2 DEF MeasuredOwn
<1>9. StoreHolds(w)
  <2>1. QuestionsOwn(w)
        BY <1>1 DEF WorkGood, StoreHolds, QuestionsOwn
  <2> QED
      BY <1>1, <1>8, <2>1 DEF StoreHolds
<1>10. StageHolds(w)
  <2>1. Holding(w, PlannedEntries)
        BY <1>1, EmptySeq DEF Holding
  <2>2. Answering(w)
        BY <1>1, <1>3, NothingAnswering
  <2> QED
      BY <1>1, <2>1, <2>2 DEF StageHolds
<1>11. StageLacks(w)
       BY <1>1 DEF WorkGood, StageLacks
<1> QED
    BY <1>4, <1>9, <1>10, <1>11 DEF WorkGood

(* The texts are embedded: the images are next.                            *)
LEMMA TextKeeps ==
  ASSUME NEW v, NEW w, WorkGood(v),
         v.stage = "text", v.batch = <<>>, v.todo = <<>>,
         NEW items \in Seq(PlannedEntries),
         w = [v EXCEPT !.stage = "images", !.items = items]
  PROVE  WorkGood(w)
<1>1. /\ w.stage = "images" /\ w.items = items /\ w.batch = <<>> /\ w.todo = <<>>
      /\ w.got = v.got /\ w.asked = v.asked /\ w.kept = v.kept /\ w.stored = v.stored
      /\ w.rows = v.rows /\ w.measured = v.measured /\ w.questions = v.questions
      /\ WorkIsRecord(w)
      BY DEF WorkGood, WorkTypes, WorkIsRecord
<1>2. Holding(v, PlannedEntries) /\ v.got = <<>>
      BY DEF WorkGood, StageHolds, Answering
<1>3. WorkTypes(w)
      BY <1>1, TypesKeep DEF WorkGood
<1>4. StoreHolds(w)
      BY <1>1, StoreStays DEF WorkGood
<1>5. Holding(w, PlannedEntries) /\ Answering(w)
      BY <1>1, <1>2, NothingAnswering, EmptySeq DEF Holding
<1>6. StageHolds(w)
      BY <1>1, <1>5 DEF StageHolds
<1>7. StageLacks(w)
      BY <1>1 DEF WorkGood, StageLacks
<1> QED
    BY <1>3, <1>4, <1>6, <1>7 DEF WorkGood

(* The images are embedded: the rows are stored.                           *)
LEMMA ImagesKeeps ==
  ASSUME NEW v, NEW w, WorkGood(v),
         v.stage = "images", v.batch = <<>>, v.todo = <<>>,
         NEW ask \in BOOLEAN, NEW items \in Seq(UnitIds), ~ask => items = <<>>,
         w = [v EXCEPT !.stage = IF ask THEN "ask" ELSE "validate", !.items = items,
                       !.stored = v.rows, !.rows = <<>>]
  PROVE  WorkGood(w)
<1>1. PICK stage \in {"ask", "validate"} : stage = IF ask THEN "ask" ELSE "validate"
      OBVIOUS
<1>2. /\ w.stage = stage /\ w.items = items /\ w.batch = <<>> /\ w.todo = <<>>
      /\ w.got = v.got /\ w.asked = v.asked /\ w.kept = v.kept /\ w.stored = v.rows
      /\ w.rows = <<>> /\ w.measured = v.measured /\ w.questions = v.questions
      /\ WorkIsRecord(w)
      BY <1>1 DEF WorkGood, WorkTypes, WorkIsRecord
<1>3. v.got = <<>> /\ v.rows \in Seq(AnswersTo(PlannedEntries))
      BY DEF WorkGood, StageHolds, Answering, Holding
<1>4. WorkTypes(w)
  <2>1. w.stage \in {"measure", "text", "images", "ask", "verify", "questions",
                     "validate", "done", "failed"}
        BY <1>2
  <2>2. w.stored \in Seq(AnswersTo(PlannedEntries)) /\ WorkTypes(v)
        BY <1>2, <1>3 DEF WorkGood
  <2>3. Asking(w) = Asking(v)
        BY <1>2 DEF Asking
  <2>4. w.rows \in Seq(AnswersTo(Entries))
        BY <1>2, EmptySeq
  <2> QED
      BY <1>2, <2>1, <2>2, <2>3, <2>4 DEF WorkTypes
<1>5. StoreHolds(w)
  <2>1. MeasuredOwn(w)
        BY <1>2 DEF WorkGood, StoreHolds, MeasuredOwn
  <2>2. QuestionsOwn(w)
        BY <1>2 DEF WorkGood, StoreHolds, QuestionsOwn
  <2> QED
      BY <1>2, <2>1, <2>2 DEF StoreHolds
<1>6. StageHolds(w)
  <2>1. w.items \in Seq(UnitIds) /\ w.todo \in Seq(Seq(UnitIds))
        BY <1>2, EmptySeq
  <2> QED
      BY <1>2, <2>1 DEF StageHolds
<1>7. StageLacks(w)
      BY <1>2, <1>3 DEF WorkGood, StageLacks
<1> QED
    BY <1>4, <1>5, <1>6, <1>7 DEF WorkGood

(* Questions are asked and verified by batches: the lists change, and      *)
(* nothing else but the counts.                                            *)
LEMMA ListsKeep ==
  ASSUME NEW v, NEW w, WorkGood(v), NEW S,
         \/ v.stage = "ask" /\ S = UnitIds
         \/ v.stage = "verify" /\ S = Asking(v),
         NEW items \in Seq(S), NEW t \in Seq(Seq(S)), NEW tries,
         w = [v EXCEPT !.items = items, !.todo = t, !.tries = tries]
  PROVE  WorkGood(w)
<1>1. /\ w.stage = v.stage /\ w.items = items /\ w.batch = v.batch /\ w.todo = t
      /\ w.got = v.got /\ w.asked = v.asked /\ w.kept = v.kept /\ w.stored = v.stored
      /\ w.rows = v.rows /\ w.measured = v.measured /\ w.questions = v.questions
      /\ WorkIsRecord(w)
      BY DEF WorkGood, WorkTypes, WorkIsRecord
<1>2. WorkTypes(w)
  <2>1. w.stage \in {"measure", "text", "images", "ask", "verify", "questions",
                     "validate", "done", "failed"}
        BY <1>1
  <2>2. WorkTypes(v)
        BY DEF WorkGood
  <2> QED
      BY <1>1, <2>1, <2>2, TypesKeep
<1>3. StoreHolds(w)
      BY <1>1, StoreStays DEF WorkGood
<1>4. Asking(w) = Asking(v)
      BY <1>1 DEF Asking
<1>5. StageHolds(w)
      BY <1>1, <1>4 DEF StageHolds
<1>6. StageLacks(w)
      BY <1>1 DEF WorkGood, StageLacks
<1> QED
    BY <1>2, <1>3, <1>5, <1>6 DEF WorkGood

(* The model answers for the units of a batch.                             *)
LEMMA AnsweredKeeps ==
  ASSUME NEW v, NEW w, WorkGood(v), v.stage = "ask",
         NEW f \in [UnitIds -> 0..MaxQuestions], NEW t \in Seq(Seq(UnitIds)),
         w = [v EXCEPT !.asked = f, !.todo = t, !.tries = 1]
  PROVE  WorkGood(w)
<1>1. /\ w.stage = "ask" /\ w.items = v.items /\ w.batch = v.batch /\ w.todo = t
      /\ w.got = v.got /\ w.asked = f /\ w.kept = v.kept /\ w.stored = v.stored
      /\ w.rows = v.rows /\ w.measured = v.measured /\ w.questions = v.questions
      /\ WorkIsRecord(w)
      BY DEF WorkGood, WorkTypes, WorkIsRecord
<1>2. v.kept = <<>> /\ v.questions = <<>>
      BY DEF WorkGood, StageLacks
<1>3. WorkTypes(w)
  <2>1. w.kept \in Seq(Asking(w))
        BY <1>1, <1>2, EmptySeq
  <2> QED
      BY <1>1, <2>1 DEF WorkGood, WorkTypes
<1>4. StoreHolds(w)
  <2>1. MeasuredOwn(w)
        BY <1>1 DEF WorkGood, StoreHolds, MeasuredOwn
  <2>2. QuestionsOwn(w)
        BY <1>1, <1>2 DEF QuestionsOwn
  <2> QED
      BY <1>1, <2>1, <2>2 DEF StoreHolds
<1>5. StageHolds(w)
      BY <1>1 DEF WorkGood, StageHolds
<1>6. StageLacks(w)
      BY <1>1 DEF WorkGood, StageLacks
<1> QED
    BY <1>3, <1>4, <1>5, <1>6 DEF WorkGood

(* All units are asked for: the questions are verified.                    *)
LEMMA AskedKeeps ==
  ASSUME NEW v, NEW w, WorkGood(v), v.stage = "ask", v.todo = <<>>,
         NEW items \in Seq(Asking(v)),
         w = [v EXCEPT !.stage = "verify", !.items = items]
  PROVE  WorkGood(w)
<1>1. /\ w.stage = "verify" /\ w.items = items /\ w.batch = v.batch /\ w.todo = <<>>
      /\ w.got = v.got /\ w.asked = v.asked /\ w.kept = v.kept /\ w.stored = v.stored
      /\ w.rows = v.rows /\ w.measured = v.measured /\ w.questions = v.questions
      /\ WorkIsRecord(w)
      BY DEF WorkGood, WorkTypes, WorkIsRecord
<1>2. WorkTypes(w)
      BY <1>1, TypesKeep DEF WorkGood
<1>3. StoreHolds(w)
      BY <1>1, StoreStays DEF WorkGood
<1>4. Asking(w) = Asking(v)
      BY <1>1 DEF Asking
<1>5. StageHolds(w)
      BY <1>1, <1>4, EmptySeq DEF StageHolds
<1>6. StageLacks(w)
      BY <1>1 DEF WorkGood, StageLacks
<1> QED
    BY <1>2, <1>3, <1>5, <1>6 DEF WorkGood

(* Verdicts are appended.                                                  *)
LEMMA VerifiedKeeps ==
  ASSUME NEW v, NEW w, WorkGood(v), v.stage = "verify",
         NEW verdicts \in Seq(Asking(v)), NEW t \in Seq(Seq(Asking(v))),
         w = [v EXCEPT !.kept = v.kept \o verdicts, !.todo = t]
  PROVE  WorkGood(w)
<1>1. PICK kept : kept = v.kept \o verdicts
      OBVIOUS
<1>2. kept \in Seq(Asking(v))
      BY <1>1 DEF WorkGood, WorkTypes
<1>3. /\ w.stage = "verify" /\ w.items = v.items /\ w.batch = v.batch /\ w.todo = t
      /\ w.got = v.got /\ w.asked = v.asked /\ w.kept = kept /\ w.stored = v.stored
      /\ w.rows = v.rows /\ w.measured = v.measured /\ w.questions = v.questions
      /\ WorkIsRecord(w)
      BY <1>1 DEF WorkGood, WorkTypes, WorkIsRecord
<1>4. Asking(w) = Asking(v)
      BY <1>3 DEF Asking
<1>5. WorkTypes(w)
      BY <1>2, <1>3, <1>4 DEF WorkGood, WorkTypes
<1>6. StoreHolds(w)
      BY <1>3, StoreStays DEF WorkGood
<1>7. StageHolds(w)
      BY <1>3, <1>4 DEF WorkGood, StageHolds
<1>8. StageLacks(w)
      BY <1>3 DEF WorkGood, StageLacks
<1> QED
    BY <1>5, <1>6, <1>7, <1>8 DEF WorkGood

(* All questions are verified: the supported ones are embedded.            *)
LEMMA AllVerifiedKeeps ==
  ASSUME built \in BuildSources, NEW v, NEW w, WorkGood(v), v.stage = "verify",
         v.todo = <<>>,
         w = [v EXCEPT !.stage = "questions", !.items = QuestionsToEmbed(v.kept)]
  PROVE  WorkGood(w)
<1>1. PICK items \in Seq(QuestionEntries) : items = QuestionsToEmbed(v.kept)
      BY QuestionTypes DEF WorkGood
<1>2. /\ w.stage = "questions" /\ w.items = items /\ w.batch = v.batch /\ w.todo = <<>>
      /\ w.got = v.got /\ w.asked = v.asked /\ w.kept = v.kept /\ w.stored = v.stored
      /\ w.rows = v.rows /\ w.measured = v.measured /\ w.questions = v.questions
      /\ WorkIsRecord(w)
      BY <1>1 DEF WorkGood, WorkTypes, WorkIsRecord
<1>3. v.batch = <<>> /\ v.got = <<>> /\ v.rows = <<>>
      BY DEF WorkGood, StageLacks
<1>4. WorkTypes(w)
      BY <1>2, TypesKeep DEF WorkGood
<1>5. StoreHolds(w)
      BY <1>2, StoreStays DEF WorkGood
<1>6. Holding(w, QuestionEntries)
      BY <1>2, <1>3, EmptySeq DEF Holding
<1>7. Answering(w)
      BY <1>2, <1>3, NothingAnswering
<1>8. Placed(w, QuestionsToEmbed(w.kept))
  <2>1. Len(w.rows) = 0 /\ Len(w.batch) = 0 /\ w.items = items /\ Len(items) \in Nat
        BY <1>2, <1>3, EmptySeq
  <2>2. QuestionsToEmbed(w.kept) = items
        BY <1>1, <1>2
  <2>3. 0 + 0 + Len(items) = Len(items)
        BY <2>1
  <2>4. \A n \in 1..Len(items) : 0 + 0 + n = n
        BY <2>1
  <2>5. Len(w.rows) + Len(w.batch) + Len(w.items) = Len(QuestionsToEmbed(w.kept))
        BY <2>1, <2>2, <2>3
  <2>6. (\A n \in 1..Len(w.rows) : w.rows[n].item = items[n])
        /\ \A n \in 1..Len(w.batch) : w.batch[n] = items[Len(w.rows) + n]
        BY <2>1
  <2>7. \A n \in 1..Len(w.items) : w.items[n] = items[Len(w.rows) + Len(w.batch) + n]
        BY <2>1, <2>4
  <2> QED
      BY <2>2, <2>5, <2>6, <2>7 DEF Placed
<1>9. StageHolds(w)
      BY <1>2, <1>6, <1>7, <1>8 DEF StageHolds
<1>10. StageLacks(w)
       BY <1>2 DEF WorkGood, StageLacks
<1> QED
    BY <1>4, <1>5, <1>9, <1>10 DEF WorkGood

(* The questions are stored, each with the next vector.                    *)
QuestionRowsIn(kept, vectors) ==
  LET first(n) == Len(FlattenSeq([m \in 1..(n - 1) |-> QuestionsIn(kept, EligibleUnits[m])]))
      of(n)    == [k \in DOMAIN KeptIn(kept, EligibleUnits[n]) |->
                     [unit |-> EligibleUnits[n], ordinal |-> k - 1,
                      number |-> KeptIn(kept, EligibleUnits[n])[k].number,
                      support |-> KeptIn(kept, EligibleUnits[n])[k],
                      vector |-> vectors[first(n) + k].vector]]
  IN  FlattenSeq([n \in DOMAIN EligibleUnits |-> of(n)])

OwnQuestions(w) ==
  {r \in [unit : UnitIds, ordinal : Nat, number : 1..MaxQuestions,
          support : Asking(w), vector : Seq(Windows)] :
     /\ r.vector = <<<<"question", r.unit, r.number>>>>
     /\ r.support = [unit |-> r.unit, number |-> r.number]
     /\ r.number \in 1..w.asked[r.unit]}

(* The row of a question has the vector of that question.                  *)
LEMMA QuestionVector ==
  ASSUME built \in BuildSources, NEW v, WorkGood(v), v.stage = "questions",
         v.items = <<>>, v.batch = <<>>, NEW m \in DOMAIN EligibleUnits,
         NEW k \in 1..Len(KeptIn(v.kept, EligibleUnits[m]))
  PROVE  v.rows[Starts(QuestionParts(v.kept), m) + k].vector
           = <<<<"question", EligibleUnits[m], KeptIn(v.kept, EligibleUnits[m])[k].number>>>>
<1>1. Holding(v, QuestionEntries) /\ Placed(v, QuestionsToEmbed(v.kept))
      BY DEF WorkGood, StageHolds
<1>2. PICK rows \in Seq(AnswersTo(QuestionEntries)) : rows = v.rows
      BY <1>1 DEF Holding
<1>3. PICK all \in Seq(QuestionEntries) : all = QuestionsToEmbed(v.kept)
      BY QuestionTypes DEF WorkGood
<1>4. Len(rows) = Len(all) /\ \A n \in 1..Len(rows) : rows[n].item = all[n]
  <2>1. Len(v.items) = 0 /\ Len(v.batch) = 0 /\ Len(rows) \in Nat
        BY EmptySeq
  <2>2. Len(rows) + 0 + 0 = Len(all)
        BY <1>1, <1>2, <1>3, <2>1 DEF Placed
  <2> QED
      BY <1>1, <1>2, <1>3, <2>1, <2>2 DEF Placed
<1>5. PICK i \in UnitIds : i = EligibleUnits[m]
      BY EligibleTypes
<1>6. PICK parts \in Seq(Seq(QuestionEntries)) : parts = QuestionParts(v.kept)
      BY QuestionTypes DEF WorkGood
<1>7. m \in 1..Len(parts) /\ parts[m] = QuestionsIn(v.kept, i)
  <2>1. PICK eligible \in Seq(UnitIds) : eligible = EligibleUnits
        BY EligibleTypes
  <2>2. parts = [n \in DOMAIN eligible |-> QuestionsIn(v.kept, eligible[n])]
        BY <1>6, <2>1, Zenon DEF QuestionParts
  <2>3. DOMAIN parts = 1..Len(parts) /\ m \in DOMAIN eligible
        BY <1>6, <2>1
  <2> QED
      BY <1>5, <2>1, <2>2, <2>3
<1>8. all = FlattenSeq(parts)
      BY <1>3, <1>6, Zenon DEF QuestionsToEmbed, QuestionParts
<1>9. LiesAt(QuestionEntries, all, parts[m], Starts(parts, m))
      BY <1>7, <1>8, PartLies
<1>10. /\ k \in 1..Len(parts[m])
       /\ parts[m][k] = [unit |-> i, number |-> KeptIn(v.kept, i)[k].number,
                         kind |-> "question", required |-> TRUE]
  <2>1. Len(QuestionsIn(v.kept, i)) = Len(KeptIn(v.kept, i))
        BY QuestionTypes DEF WorkGood
  <2>2. k \in 1..Len(KeptIn(v.kept, i))
        BY <1>5
  <2>3. QuestionsIn(v.kept, i)[k]
          = [unit |-> i, number |-> KeptIn(v.kept, i)[k].number,
             kind |-> "question", required |-> TRUE]
        BY <2>2, QuestionTypes DEF WorkGood
  <2> QED
      BY <1>7, <2>1, <2>2, <2>3
<1>11. PICK j \in 1..Len(all) : j = Starts(parts, m) + k /\ all[j] = parts[m][k]
  <2>1. PICK at \in Nat, len \in Nat, total \in Nat :
          at = Starts(parts, m) /\ len = Len(parts[m]) /\ total = Len(all) /\ at + len <= total
        BY <1>9 DEF LiesAt
  <2>2. k \in 1..len
        BY <1>10, <2>1
  <2>3. at + k \in 1..total
        BY <2>1, <2>2
  <2>4. all[at + k] = parts[m][k]
        BY <1>9, <2>1, <2>2 DEF LiesAt
  <2> QED
      BY <2>1, <2>3, <2>4
<1>12. PICK e \in QuestionEntries : rows[j] = [item |-> e, vector |-> InputOf(e)]
  <2>1. rows[j] \in AnswersTo(QuestionEntries)
        BY <1>4, <1>11
  <2> QED
      BY <2>1 DEF AnswersTo
<1>13. e = parts[m][k]
  <2>1. rows[j].item = e
        BY <1>12
  <2>2. rows[j].item = all[j]
        BY <1>4, <1>11
  <2> QED
      BY <1>11, <2>1, <2>2, Zenon
<1>14. e.kind = "question" /\ e.unit = i /\ e.number = KeptIn(v.kept, i)[k].number
       BY <1>10, <1>13
<1>15. rows[j].vector = <<<<"question", i, KeptIn(v.kept, i)[k].number>>>>
  <2>1. InputOf(e) = <<<<"question", e.unit, e.number>>>>
        BY <1>14 DEF InputOf, CrossModal
  <2>2. rows[j].vector = InputOf(e)
        BY <1>12
  <2> QED
      BY <1>14, <2>1, <2>2, Zenon
<1> QED
    BY <1>2, <1>5, <1>6, <1>11, <1>15, Zenon

(* The rows of the questions of one unit are those of its questions.       *)
LEMMA RowsOfUnit ==
  ASSUME built \in BuildSources, NEW v, WorkGood(v), v.stage = "questions",
         v.items = <<>>, v.batch = <<>>, NEW m \in DOMAIN EligibleUnits,
         NEW of, of = [k \in DOMAIN KeptIn(v.kept, EligibleUnits[m]) |->
                        [unit |-> EligibleUnits[m], ordinal |-> k - 1,
                         number |-> KeptIn(v.kept, EligibleUnits[m])[k].number,
                         support |-> KeptIn(v.kept, EligibleUnits[m])[k],
                         vector |-> v.rows[Starts(QuestionParts(v.kept), m) + k].vector]]
  PROVE  of \in Seq(OwnQuestions(v))
<1>1. PICK i \in UnitIds : i = EligibleUnits[m]
      BY EligibleTypes
<1>2. PICK T : T = {q \in Asking(v) : q.unit = i}
      OBVIOUS
<1>3. PICK mine \in Seq(T) : mine = KeptIn(v.kept, i)
      BY <1>2, KeptTypes, ZenonT(40) DEF WorkGood, WorkTypes
<1>4. DOMAIN mine = 1..Len(mine) /\ Len(mine) \in Nat /\ \A k \in 1..Len(mine) : mine[k] \in T
      OBVIOUS
<1>5. PICK start : start = Starts(QuestionParts(v.kept), m)
      OBVIOUS
<1>6. of = [k \in 1..Len(mine) |->
             [unit |-> i, ordinal |-> k - 1, number |-> mine[k].number,
              support |-> mine[k], vector |-> v.rows[start + k].vector]]
      BY <1>1, <1>3, <1>4, <1>5, Zenon
<1>7. ASSUME NEW k \in 1..Len(mine) PROVE of[k] \in OwnQuestions(v)
  <2>1. /\ mine[k] = [unit |-> i, number |-> mine[k].number]
        /\ mine[k].number \in 1..v.asked[i]
        BY <1>3, QuestionTypes DEF WorkGood
  <2>2. PICK number : number = mine[k].number
        OBVIOUS
  <2>3. mine[k] \in Asking(v)
        BY <1>2, <1>4
  <2>4. number \in 1..MaxQuestions
        BY <2>2, <2>3 DEF Asking
  <2>5. v.rows[start + k].vector = <<<<"question", i, number>>>>
        BY <1>1, <1>3, <1>5, <2>2, QuestionVector
  <2>6. <<"question", i, number>> \in Windows
    <3>1. i \in Nat
          BY SourceTypes
    <3>2. number \in Nat
          BY <2>4, RepresentationsAssumption
    <3> QED
        BY <3>1, <3>2 DEF Windows
  <2>7. <<<<"question", i, number>>>> \in Seq(Windows)
        BY <2>6, OneElement
  <2>8. k - 1 \in Nat
        BY <1>4
  <2>9. PICK row : row = [unit |-> i, ordinal |-> k - 1, number |-> number,
                          support |-> mine[k], vector |-> <<<<"question", i, number>>>>]
        OBVIOUS
  <2>10. of[k] = row
         BY <1>6, <2>2, <2>5, <2>9
  <2>11. row \in [unit : UnitIds, ordinal : Nat, number : 1..MaxQuestions,
                  support : Asking(v), vector : Seq(Windows)]
         BY <2>3, <2>4, <2>7, <2>8, <2>9
  <2>12. row.vector = <<<<"question", row.unit, row.number>>>>
         BY <2>9
  <2>13. row.support = [unit |-> row.unit, number |-> row.number]
         BY <2>1, <2>2, <2>9
  <2>14. row.number \in 1..v.asked[row.unit]
         BY <2>1, <2>2, <2>9
  <2> QED
      BY <2>10, <2>11, <2>12, <2>13, <2>14 DEF OwnQuestions
<1>8. PICK len \in Nat : len = Len(mine)
      BY <1>4
<1>r. PICK R : R = OwnQuestions(v)
      OBVIOUS
<1>9. DOMAIN of = 1..len /\ of = [k \in 1..len |-> of[k]] /\ \A k \in 1..len : of[k] \in R
      BY <1>6, <1>7, <1>8, <1>r
<1>10. of \in [1..len -> R]
       BY <1>9
<1>11. of \in Seq(R)
       BY <1>10
<1> QED
    BY <1>r, <1>11

(* All rows of the questions.                                              *)
LEMMA RowsOwn ==
  ASSUME built \in BuildSources, NEW v, WorkGood(v), v.stage = "questions",
         v.items = <<>>, v.batch = <<>>
  PROVE  QuestionRowsIn(v.kept, v.rows) \in Seq(OwnQuestions(v))
<1>1. PICK eligible \in Seq(UnitIds) : eligible = EligibleUnits
      BY EligibleTypes
<1>2. DOMAIN eligible = 1..Len(eligible) /\ Len(eligible) \in Nat
      OBVIOUS
<1>3. PICK parts : parts = QuestionParts(v.kept)
      OBVIOUS
<1>4. parts = [n \in DOMAIN eligible |-> QuestionsIn(v.kept, eligible[n])]
      BY <1>1, <1>3, Zenon DEF QuestionParts
<1>5. ASSUME NEW n \in DOMAIN eligible
      PROVE  Len(FlattenSeq([m \in 1..(n - 1) |-> QuestionsIn(v.kept, eligible[m])]))
               = Starts(parts, n)
  <2>1. \A m \in 1..(n - 1) : m \in DOMAIN eligible
        BY <1>2
  <2>2. [m \in 1..(n - 1) |-> QuestionsIn(v.kept, eligible[m])]
          = [m \in 1..(n - 1) |-> parts[m]]
        BY <1>4, <2>1
  <2> QED
      BY <2>2, Zenon DEF Starts, FirstParts
<1>6. PICK rows : rows = [n \in DOMAIN eligible |->
                     [k \in DOMAIN KeptIn(v.kept, eligible[n]) |->
                       [unit |-> eligible[n], ordinal |-> k - 1,
                        number |-> KeptIn(v.kept, eligible[n])[k].number,
                        support |-> KeptIn(v.kept, eligible[n])[k],
                        vector |-> v.rows[Len(FlattenSeq([m \in 1..(n - 1) |->
                                      QuestionsIn(v.kept, eligible[m])])) + k].vector]]]
      OBVIOUS
<1>7. QuestionRowsIn(v.kept, v.rows) = FlattenSeq(rows)
      BY <1>1, <1>6, Zenon DEF QuestionRowsIn
<1>8. ASSUME NEW n \in DOMAIN eligible PROVE rows[n] \in Seq(OwnQuestions(v))
  <2>1. rows[n] = [k \in DOMAIN KeptIn(v.kept, eligible[n]) |->
                       [unit |-> eligible[n], ordinal |-> k - 1,
                        number |-> KeptIn(v.kept, eligible[n])[k].number,
                        support |-> KeptIn(v.kept, eligible[n])[k],
                        vector |-> v.rows[Starts(parts, n) + k].vector]]
        BY <1>5, <1>6
  <2>2. PICK of : of = rows[n]
        OBVIOUS
  <2>3. n \in DOMAIN EligibleUnits
        BY <1>1
  <2>4. of = [k \in DOMAIN KeptIn(v.kept, EligibleUnits[n]) |->
                [unit |-> EligibleUnits[n], ordinal |-> k - 1,
                 number |-> KeptIn(v.kept, EligibleUnits[n])[k].number,
                 support |-> KeptIn(v.kept, EligibleUnits[n])[k],
                 vector |-> v.rows[Starts(QuestionParts(v.kept), n) + k].vector]]
        BY <1>1, <1>3, <2>1, <2>2, Zenon
  <2> QED
      BY <2>2, <2>3, <2>4, RowsOfUnit
<1>9. rows \in Seq(Seq(OwnQuestions(v)))
      BY <1>2, <1>6, <1>8
<1> QED
    BY <1>7, <1>9, FlattenType

(* The questions are stored.                                               *)
LEMMA StoredKeeps ==
  ASSUME built \in BuildSources, NEW v, NEW w, WorkGood(v), v.stage = "questions",
         v.items = <<>>, v.batch = <<>>, v.todo = <<>>,
         w = [v EXCEPT !.stage = "validate", !.questions = QuestionRowsIn(v.kept, v.rows)]
  PROVE  WorkGood(w)
<1>1. PICK rows \in Seq(OwnQuestions(v)) : rows = QuestionRowsIn(v.kept, v.rows)
      BY RowsOwn
<1>2. /\ w.stage = "validate" /\ w.items = v.items /\ w.batch = <<>> /\ w.todo = <<>>
      /\ w.got = v.got /\ w.asked = v.asked /\ w.kept = v.kept /\ w.stored = v.stored
      /\ w.rows = v.rows /\ w.measured = v.measured /\ w.questions = rows
      /\ WorkIsRecord(w)
      BY <1>1 DEF WorkGood, WorkTypes, WorkIsRecord
<1>3. v.got = <<>>
      BY DEF WorkGood, StageHolds, Answering
<1>4. WorkTypes(w)
      BY <1>2, TypesKeep DEF WorkGood
<1>5. QuestionsOwn(w)
  <2>1. \A n \in DOMAIN rows : rows[n] \in OwnQuestions(v)
        OBVIOUS
  <2> QED
      BY <1>2, <2>1 DEF QuestionsOwn, OwnQuestions
<1>6. StoreHolds(w)
  <2>1. MeasuredOwn(w)
        BY <1>2 DEF WorkGood, StoreHolds, MeasuredOwn
  <2> QED
      BY <1>2, <1>5, <2>1 DEF StoreHolds
<1>7. StageHolds(w)
      BY <1>2 DEF StageHolds
<1>8. StageLacks(w)
      BY <1>2, <1>3 DEF StageLacks
<1> QED
    BY <1>4, <1>6, <1>7, <1>8 DEF WorkGood

(* The planned items are in the list that completeness compares with.      *)
LEMMA PlannedThere ==
  ASSUME built \in BuildSources, NEW i \in UnitIds
  PROVE  \E n \in DOMAIN PlannedRows : PlannedRows[n] = PlannedOf(i)[1]
<1>1. PICK parts : parts = [j \in UnitIds |-> PlannedOf(j)]
      OBVIOUS
<1>2. UnitIds = 1..Len(built.units) /\ Len(built.units) \in Nat
      BY SourceTypes
<1>3. \A j \in UnitIds : PlannedOf(j) \in Seq(PlannedEntries)
      BY PlannedKinds
<1>4. parts \in Seq(Seq(PlannedEntries)) /\ Len(parts) = Len(built.units)
      BY <1>1, <1>2, <1>3
<1>5. PICK all \in Seq(PlannedEntries) : all = PlannedRows
      BY PlannedRowsType
<1>6. all = FlattenSeq(parts)
      BY <1>1, <1>5, Zenon DEF PlannedRows
<1>7. i \in 1..Len(parts) /\ parts[i] = PlannedOf(i)
      BY <1>1, <1>2, <1>4
<1>8. LiesAt(PlannedEntries, all, parts[i], Starts(parts, i))
      BY <1>4, <1>6, <1>7, PartLies
<1>9. 1 \in 1..Len(parts[i])
  <2>1. PICK N \in 1..2 : N = Len(PlannedOf(i))
        BY PlannedKinds DEF PlannedRight
  <2>2. 1 \in 1..N
        OBVIOUS
  <2> QED
      BY <1>7, <2>1, <2>2
<1>10. PICK j \in 1..Len(all) : all[j] = parts[i][1]
  <2>1. PICK at \in Nat, len \in Nat, total \in Nat :
          at = Starts(parts, i) /\ len = Len(parts[i]) /\ total = Len(all) /\ at + len <= total
        BY <1>8 DEF LiesAt
  <2>2. 1 \in 1..len
        BY <1>9, <2>1
  <2>3. at + 1 \in 1..total
        BY <2>1, <2>2
  <2>4. all[at + 1] = parts[i][1]
        BY <1>8, <2>1, <2>2 DEF LiesAt
  <2> QED
      BY <2>1, <2>3, <2>4
<1> QED
    BY <1>5, <1>7, <1>10

(* A complete build has the kinds that its units need.                     *)
LEMMA CompleteKinds ==
  ASSUME built \in BuildSources, NEW w, w.stored \in Seq(AnswersTo(PlannedEntries)),
         \A n \in DOMAIN PlannedRows : PlannedRows[n].required =>
           \E m \in DOMAIN w.stored : w.stored[m].item = PlannedRows[n]
  PROVE  KindsComplete(w)
<1>1. SUFFICES ASSUME NEW i \in UnitIds, NEW K,
                      K = {row.item.kind : row \in {r \in ToSet(w.stored) : r.item.unit = i}}
               PROVE  K \in CASE built.units[i].kind = "image" -> {{"native_image"}}
                              [] built.units[i].kind = "table" ->
                                   {{"table_text"}, {"table_text", "table_image"}}
                              [] OTHER -> {{"text"}}
      BY DEF KindsComplete
<1>2. PICK stored \in Seq(AnswersTo(PlannedEntries)) : stored = w.stored
      OBVIOUS
<1>3. K = {stored[m].item.kind : m \in {n \in DOMAIN stored : stored[n].item.unit = i}}
      BY <1>1, <1>2 DEF ToSet
<1>4. PICK entries : entries = PlannedOf(i)
      OBVIOUS
<1>5. PlannedRight(i, entries)
      BY <1>4, PlannedKinds
<1>6. entries[1].kind \in K
  <2>1. PICK n \in DOMAIN PlannedRows : PlannedRows[n] = entries[1]
        BY <1>4, PlannedThere
  <2>2. PlannedRows[n].required /\ PlannedRows[n].unit = i
        BY <1>5, <2>1 DEF PlannedRight
  <2>3. PICK m \in DOMAIN stored : stored[m].item = entries[1]
        BY <1>2, <2>1, <2>2
  <2> QED
      BY <1>3, <2>1, <2>2, <2>3
<1>7. \A kind \in K : \E k \in 1..Len(entries) : kind = entries[k].kind
  <2>1. SUFFICES ASSUME NEW kind \in K PROVE \E k \in 1..Len(entries) : kind = entries[k].kind
        OBVIOUS
  <2>2. PICK m \in DOMAIN stored : stored[m].item.unit = i /\ kind = stored[m].item.kind
        BY <1>3
  <2>3. PICK e \in PlannedEntries : stored[m] = [item |-> e, vector |-> InputOf(e)]
        BY DEF AnswersTo
  <2>4. e.unit = i /\ kind = e.kind
        BY <2>2, <2>3
  <2>5. PICK k \in 1..Len(PlannedOf(e.unit)) : e = PlannedOf(e.unit)[k]
        BY PlannedIs
  <2> QED
      BY <1>4, <2>4, <2>5
<1>8. \A k \in 1..Len(entries) : k = 1 \/ (k = 2 /\ Len(entries) = 2)
  <2>1. PICK N \in 1..2 : N = Len(entries)
        BY <1>5 DEF PlannedRight
  <2>2. \A k \in 1..N : k = 1 \/ (k = 2 /\ N = 2)
        OBVIOUS
  <2> QED
      BY <2>1, <2>2
<1>9. PICK one : one = entries[1].kind
      OBVIOUS
<1>10. \A kind \in K : kind = one \/ (Len(entries) = 2 /\ kind = entries[2].kind)
       BY <1>7, <1>8, <1>9
<1>11. built.units[i].kind \in {"text", "table", "image"}
       BY SourceTypes DEF BuildUnits
<1>12. CASE built.units[i].kind = "image"
  <2>1. Len(entries) = 1 /\ one = "native_image"
        BY <1>5, <1>9, <1>12 DEF PlannedRight
  <2>2. K = {"native_image"}
        BY <1>6, <1>9, <1>10, <2>1
  <2> QED
      BY <1>12, <2>2
<1>13. CASE built.units[i].kind = "table"
  <2>1. one = "table_text" /\ (Len(entries) = 2 => entries[2].kind = "table_image")
        BY <1>5, <1>9, <1>13 DEF PlannedRight
  <2>2. K = {"table_text"} \/ K = {"table_text", "table_image"}
        BY <1>6, <1>9, <1>10, <2>1
  <2> QED
      BY <1>13, <2>2
<1>14. CASE built.units[i].kind = "text"
  <2>1. Len(entries) = 1 /\ one = "text"
        BY <1>5, <1>9, <1>14 DEF PlannedRight
  <2>2. K = {"text"}
        BY <1>6, <1>9, <1>10, <2>1
  <2> QED
      BY <1>14, <2>2
<1> QED
    BY <1>11, <1>12, <1>13, <1>14

(* A complete build is done.                                               *)
LEMMA CompletedKeeps ==
  ASSUME built \in BuildSources, NEW v, NEW w, WorkGood(v), v.stage = "validate",
         KindsComplete(v), w = [v EXCEPT !.stage = "done"]
  PROVE  WorkGood(w)
<1>1. /\ w.stage = "done" /\ w.items = v.items /\ w.batch = v.batch /\ w.todo = v.todo
      /\ w.got = v.got /\ w.asked = v.asked /\ w.kept = v.kept /\ w.stored = v.stored
      /\ w.rows = v.rows /\ w.measured = v.measured /\ w.questions = v.questions
      /\ WorkIsRecord(w)
      BY DEF WorkGood, WorkTypes, WorkIsRecord
<1>2. WorkTypes(w)
      BY <1>1, TypesKeep DEF WorkGood
<1>3. StoreHolds(w)
  <2>1. MeasuredOwn(w)
        BY <1>1 DEF WorkGood, StoreHolds, MeasuredOwn
  <2>2. QuestionsOwn(w)
        BY <1>1 DEF WorkGood, StoreHolds, QuestionsOwn
  <2>3. KindsComplete(w)
        BY <1>1 DEF KindsComplete
  <2> QED
      BY <2>1, <2>2, <2>3 DEF StoreHolds
<1>4. StageHolds(w)
      BY <1>1 DEF StageHolds
<1>5. StageLacks(w)
      BY <1>1 DEF WorkGood, StageLacks
<1> QED
    BY <1>2, <1>3, <1>4, <1>5 DEF WorkGood

-----------------------------------------------------------------------------
(* Representations: the actions.                                           *)

(* What is built of a source stays while the source does.                  *)
LEMMA SourceStays ==
  ASSUME built' = built
  PROVE  /\ UnitIds' = UnitIds /\ AnalysisItems' = AnalysisItems
         /\ EligibleUnits' = EligibleUnits
         /\ AnalysisEntries' = AnalysisEntries /\ PlannedEntries' = PlannedEntries
         /\ QuestionEntries' = QuestionEntries /\ Entries' = Entries
<1>1. UnitIds' = UnitIds
      BY DEF UnitIds
<1>2. AnalysisItems' = AnalysisItems
      BY DEF AnalysisItems
<1>3. EligibleUnits' = EligibleUnits
      BY <1>1, Zenon DEF EligibleUnits, Chosen
<1>4. AnalysisEntries' = AnalysisEntries
      BY DEF AnalysisEntries
<1>5. QuestionEntries' = QuestionEntries
      BY <1>1 DEF QuestionEntries
<1>6. PlannedEntries' = PlannedEntries
  <2>1. \A i : PlannedOf(i)' = PlannedOf(i)
        BY DEF PlannedOf, TextItem
  <2>2. \A e : e \in PlannedEntries <=>
                 \E i \in UnitIds : \E k \in DOMAIN PlannedOf(i) : e = PlannedOf(i)[k]
        BY DEF PlannedEntries
  <2>3. \A e : e \in PlannedEntries' <=>
                 \E i \in UnitIds' : \E k \in DOMAIN PlannedOf(i)' : e = PlannedOf(i)'[k]
        BY DEF PlannedEntries
  <2>4. \A e : e \in PlannedEntries' <=> e \in PlannedEntries
        BY <1>1, <2>1, <2>2, <2>3
  <2> QED
      BY <2>4
<1>7. Entries' = Entries
      BY <1>4, <1>5, <1>6, Zenon DEF Entries
<1> QED
    BY <1>1, <1>2, <1>3, <1>4, <1>5, <1>6, <1>7

(* What is asked for an item stays while the source does.                  *)
LEMMA InputsStay ==
  ASSUME built' = built
  PROVE  /\ \A e : InputOf(e)' = InputOf(e)
         /\ \A batch : InputsOf(batch)' = InputsOf(batch)
         /\ \A E : AnswersTo(E)' = AnswersTo(E)
         /\ \A kept : QuestionsToEmbed(kept)' = QuestionsToEmbed(kept)
<1>1. \A e : InputOf(e)' = InputOf(e)
      BY DEF InputOf
<1>2. \A batch : InputsOf(batch)' = InputsOf(batch)
      BY <1>1, Zenon DEF InputsOf
<1>3. \A E : AnswersTo(E)' = AnswersTo(E)
      BY <1>1, Zenon DEF AnswersTo
<1>4. \A kept : QuestionsToEmbed(kept)' = QuestionsToEmbed(kept)
      BY SourceStays, Zenon DEF QuestionsToEmbed
<1> QED
    BY <1>1, <1>2, <1>3, <1>4

(* So does what holds of the work.                                         *)
LEMMA GoodStays ==
  ASSUME built' = built, NEW w, w = work', WorkGood(w)
  PROVE  WorkGood(work)'
<1>1. Asking(work)' = Asking(w)
      BY SourceStays DEF Asking
<1>2. WorkTypes(work)'
  <2>1. WorkIsRecord(work)'
        BY DEF WorkGood, WorkTypes, WorkIsRecord
  <2>2. AnswersTo(Entries)' = AnswersTo(Entries)
        BY SourceStays, InputsStay DEF AnswersTo
  <2>3. AnswersTo(PlannedEntries)' = AnswersTo(PlannedEntries)
        BY SourceStays, InputsStay DEF AnswersTo
  <2> QED
      BY <1>1, <2>1, <2>2, <2>3, SourceStays DEF WorkGood, WorkTypes
<1>3. StageHolds(work)'
  <2>1. ASSUME Holding(w, AnalysisEntries) PROVE Holding(work, AnalysisEntries)'
    <3>1. AnswersTo(AnalysisEntries)' = AnswersTo(AnalysisEntries)
          BY SourceStays, InputsStay DEF AnswersTo
    <3> QED
        BY <2>1, <3>1, SourceStays DEF Holding
  <2>2. ASSUME Holding(w, PlannedEntries) PROVE Holding(work, PlannedEntries)'
    <3>1. AnswersTo(PlannedEntries)' = AnswersTo(PlannedEntries)
          BY SourceStays, InputsStay DEF AnswersTo
    <3> QED
        BY <2>2, <3>1, SourceStays DEF Holding
  <2>3. ASSUME Holding(w, QuestionEntries) PROVE Holding(work, QuestionEntries)'
    <3>1. AnswersTo(QuestionEntries)' = AnswersTo(QuestionEntries)
          BY SourceStays, InputsStay DEF AnswersTo
    <3> QED
        BY <2>3, <3>1, SourceStays DEF Holding
  <2>4. ASSUME Answering(w) PROVE Answering(work)'
    <3>1. InputsOf(work.batch)' = InputsOf(w.batch)
          BY InputsStay, Zenon DEF InputsOf
    <3> QED
        BY <2>4, <3>1 DEF Answering
  <2>5. ASSUME Placed(w, AnalysisItems) PROVE Placed(work, AnalysisItems)'
        BY <2>5, SourceStays DEF Placed
  <2>6. ASSUME Placed(w, QuestionsToEmbed(w.kept)) PROVE Placed(work, QuestionsToEmbed(work.kept))'
    <3>1. QuestionsToEmbed(work.kept)' = QuestionsToEmbed(w.kept)
          BY SourceStays, Zenon DEF QuestionsToEmbed
    <3> QED
        BY <2>6, <3>1 DEF Placed
  <2>7. StageHolds(w)
        BY DEF WorkGood
  <2> QED
      BY <1>1, <2>1, <2>2, <2>3, <2>4, <2>5, <2>6, <2>7, SourceStays DEF StageHolds
<1>4. StageLacks(work)'
      BY DEF WorkGood, StageLacks
<1>5. StoreHolds(work)'
  <2>1. MeasuredOwn(w) => MeasuredOwn(work)'
        BY DEF MeasuredOwn
  <2>2. QuestionsOwn(w) => QuestionsOwn(work)'
        BY DEF QuestionsOwn
  <2>3. KindsComplete(w) => KindsComplete(work)'
        BY SourceStays, Zenon DEF KindsComplete
  <2> QED
      BY <2>1, <2>2, <2>3 DEF WorkGood, StoreHolds
<1> QED
    BY <1>2, <1>3, <1>4, <1>5 DEF WorkGood

(* Verdicts are some of the questions, each once.                          *)
LEMMA VerdictsType ==
  ASSUME NEW S, NEW list \in Seq(S), NEW supported, supported \subseteq ToSet(list),
         NEW verdicts \in SetToSeqs(supported)
  PROVE  verdicts \in Seq(S)
<1>1. PICK L \in Nat : L = Len(list)
      OBVIOUS
<1>2. \A n \in 1..L : list[n] \in S
      BY <1>1
<1>3. DOMAIN list = 1..L
      BY <1>1
<1>4. ToSet(list) \subseteq S
      BY <1>2, <1>3 DEF ToSet
<1>5. IsFiniteSet(ToSet(list))
  <2>1. list \in [1..L -> ToSet(list)]
        BY <1>1, <1>3 DEF ToSet
  <2>2. \A x \in ToSet(list) : \E n \in 1..L : list[n] = x
        BY <1>3 DEF ToSet
  <2>3. list \in Surjection(1..L, ToSet(list))
        BY <2>1, <2>2 DEF Surjection
  <2>4. IsFiniteSet(1..L)
        BY <1>1, FS_Interval
  <2> QED
      BY <2>3, <2>4, FS_Surjection
<1>6. IsFiniteSet(supported)
      BY <1>5, FS_Subset
<1>7. PICK C \in Nat : C = Cardinality(supported)
      BY <1>6, FS_CardinalityType
<1>8. verdicts \in [1..C -> supported]
      BY <1>7 DEF SetToSeqs
<1>9. verdicts \in [1..C -> S]
      BY <1>4, <1>8
<1> QED
    BY <1>9

(* The parts of a list are lists.                                          *)
LEMMA PartsTypes ==
  ASSUME NEW S, NEW calls \in Seq(Seq(S)), calls # <<>>
  PROVE  Head(calls) \in Seq(S) /\ Tail(calls) \in Seq(Seq(S))
BY HeadTailProperties

(* The definitions of the model, of its work.                              *)
LEMMA KeptAre ==
  /\ \A i : KeptOf(i) = KeptIn(work.kept, i)
  /\ \A i : QuestionsOf(i) = QuestionsIn(work.kept, i)
  /\ QuestionItems = QuestionsToEmbed(work.kept)
  /\ \A vectors : QuestionRows(vectors) = QuestionRowsIn(work.kept, vectors)
<1>1. \A i : KeptOf(i) = KeptIn(work.kept, i)
      BY Zenon DEF KeptOf, KeptIn, Chosen
<1>2. \A i : QuestionsOf(i) = QuestionsIn(work.kept, i)
      BY <1>1, Zenon DEF QuestionsOf, QuestionsIn
<1>3. QuestionItems = QuestionsToEmbed(work.kept)
      BY <1>2, Zenon DEF QuestionItems, QuestionsToEmbed
<1>4. \A vectors : QuestionRows(vectors) = QuestionRowsIn(work.kept, vectors)
      BY <1>1, <1>2, Zenon DEF QuestionRows, QuestionRowsIn
<1> QED
    BY <1>1, <1>2, <1>3, <1>4

(* An error ends the build.                                                *)
LEMMA GivesUpKeeps ==
  ASSUME built' = built, WorkGood(work), GivesUp
  PROVE  WorkGood(work)'
<1>1. PICK w : w = work'
      OBVIOUS
<1>2. w = [work EXCEPT !.stage = "failed", !.items = <<>>, !.batch = <<>>,
                       !.todo = <<>>, !.got = <<>>]
      BY <1>1 DEF GivesUp
<1>3. WorkGood(w)
      BY <1>2, FailKeeps
<1> QED
    BY <1>1, <1>3, GoodStays

(* The actions of the batches.                                             *)
LEMMA StartBatchKeeps ==
  ASSUME built' = built, built \in BuildSources, WorkGood(work), StartBatch
  PROVE  WorkGood(work)'
<1>1. PICK w : w = work'
      OBVIOUS
<1>2. PICK size : size = SizeOf(work.stage)
      OBVIOUS
<1>3. size \in Nat \ {0}
      BY <1>2, RepresentationsAssumption DEF SizeOf
<1>4. work.stage \in EmbedStages /\ work.batch = <<>>
      BY DEF StartBatch, TextStages, EmbedStages, Embedding
<1>5. GivesUp \/ Begun(work, work', size)
      BY <1>2, Zenon DEF StartBatch, Begun
<1>6. CASE GivesUp
      BY <1>6, GivesUpKeeps
<1>7. CASE Begun(work, work', size)
  <2>1. Begun(work, w, size)
        BY <1>1, <1>7, Zenon
  <2>2. WorkGood(w)
        BY <1>3, <1>4, <2>1, BegunKeeps
  <2> QED
      BY <1>1, <2>2, GoodStays
<1> QED
    BY <1>5, <1>6, <1>7

(* A call is answered.                                                     *)
LEMMA EmbeddedStepKeeps ==
  ASSUME built' = built, WorkGood(work), Embedded
  PROVE  WorkGood(work)'
<1>1. PICK w : w = work'
      OBVIOUS
<1>2. /\ w = [work EXCEPT !.got = work.got \o Head(work.todo), !.todo = Tail(work.todo)]
      /\ work.batch # <<>> /\ work.todo # <<>>
      BY <1>1, Zenon DEF Embedded, Embedding
<1>3. WorkGood(w)
      BY <1>2, EmbeddedKeeps
<1> QED
    BY <1>1, <1>3, GoodStays

(* A call is refused for one of its texts.                                 *)
LEMMA SplitBatchKeeps ==
  ASSUME built' = built, WorkGood(work), SplitBatch
  PROVE  WorkGood(work)'
<1>1. PICK w : w = work'
      OBVIOUS
<1>2. /\ w = [work EXCEPT !.todo = Halved(work.todo)]
      /\ work.batch # <<>> /\ work.todo # <<>>
      BY <1>1, Zenon DEF SplitBatch, Embedding
<1>3. WorkGood(w)
      BY <1>2, SplitKeeps
<1> QED
    BY <1>1, <1>3, GoodStays

(* A call fails.                                                           *)
LEMMA BatchFailsKeeps ==
  ASSUME built' = built, WorkGood(work), BatchFails
  PROVE  WorkGood(work)'
<1>1. PICK w : w = work'
      OBVIOUS
<1>2. CASE GivesUp
      BY <1>2, GivesUpKeeps
<1>3. CASE ~GivesUp
  <2>1. /\ ~\E n \in DOMAIN work.batch : work.batch[n].required
        /\ w = [work EXCEPT !.batch = <<>>, !.todo = <<>>, !.got = <<>>]
        /\ work.batch # <<>>
        BY <1>1, <1>3, Zenon DEF BatchFails, Embedding
  <2>2. WorkGood(w)
        BY <2>1, SkipKeeps
  <2> QED
      BY <1>1, <2>2, GoodStays
<1> QED
    BY <1>2, <1>3

(* All calls of a batch are answered.                                      *)
LEMMA FinishBatchKeeps ==
  ASSUME built' = built, built \in BuildSources, WorkGood(work), FinishBatch
  PROVE  WorkGood(work)'
<1>1. PICK w : w = work'
      OBVIOUS
<1>2. Done(work, w) /\ work.batch # <<>> /\ work.todo = <<>>
      BY <1>1, Zenon DEF FinishBatch, Embedding, Done
<1>3. WorkGood(w)
      BY <1>2, DoneKeeps
<1> QED
    BY <1>1, <1>3, GoodStays

(* What is listed in the stages of the questions.                          *)
LEMMA AskingLists ==
  ASSUME WorkGood(work)
  PROVE  /\ work.stage = "ask" => work.items \in Seq(UnitIds) /\ work.todo \in Seq(Seq(UnitIds))
         /\ work.stage = "verify" =>
              work.items \in Seq(Asking(work)) /\ work.todo \in Seq(Seq(Asking(work)))
BY DEF WorkGood, StageHolds

(* A batch of units or questions is taken from the list.                   *)
LEMMA TakenKeeps ==
  ASSUME built' = built, WorkGood(work), NEW S,
         \/ work.stage = "ask" /\ S = UnitIds
         \/ work.stage = "verify" /\ S = Asking(work),
         NEW tries,
         work' = [work EXCEPT !.items = RestOf(work.items, QaBatch),
                              !.todo = <<FirstOf(work.items, QaBatch)>>, !.tries = tries]
  PROVE  WorkGood(work)'
<1>1. PICK w : w = work'
      OBVIOUS
<1>2. PICK items \in Seq(S) : items = work.items
      BY AskingLists
<1>3. QaBatch \in Nat \ {0}
      BY RepresentationsAssumption
<1>4. PICK a, b : a = FirstOf(items, QaBatch) /\ b = RestOf(items, QaBatch)
      OBVIOUS
<1>5. a \in Seq(S) /\ b \in Seq(S)
      BY <1>3, <1>4, FirstAndRest
<1>6. PICK R : R = Seq(S)
      OBVIOUS
<1>7. <<a>> \in Seq(R)
      BY <1>5, <1>6, OneElement
<1>8. PICK t \in Seq(Seq(S)) : t = <<a>>
      BY <1>6, <1>7
<1>9. w = [work EXCEPT !.items = b, !.todo = t, !.tries = tries]
      BY <1>1, <1>2, <1>4, <1>8, Zenon
<1>10. WorkGood(w)
       BY <1>5, <1>9, ListsKeep
<1> QED
    BY <1>1, <1>10, GoodStays

(* A batch of units is asked for.                                          *)
LEMMA AskBatchKeeps ==
  ASSUME built' = built, WorkGood(work), AskBatch
  PROVE  WorkGood(work)'
<1>1. WorkIsRecord(work)
      BY DEF WorkGood, WorkTypes
<1>2. work' = [work EXCEPT !.items = RestOf(work.items, QaBatch),
                           !.todo = <<FirstOf(work.items, QaBatch)>>, !.tries = 1]
      BY <1>1 DEF AskBatch, WorkIsRecord
<1>3. work.stage = "ask"
      BY DEF AskBatch
<1> QED
    BY <1>2, <1>3, TakenKeeps

(* A batch of questions is verified.                                       *)
LEMMA VerifyBatchKeeps ==
  ASSUME built' = built, WorkGood(work), VerifyBatch
  PROVE  WorkGood(work)'
<1>1. WorkIsRecord(work)
      BY DEF WorkGood, WorkTypes
<1>2. work' = [work EXCEPT !.items = RestOf(work.items, QaBatch),
                           !.todo = <<FirstOf(work.items, QaBatch)>>, !.tries = work.tries]
      BY <1>1 DEF VerifyBatch, WorkIsRecord
<1>3. work.stage = "verify"
      BY DEF VerifyBatch
<1> QED
    BY <1>2, <1>3, TakenKeeps

(* The questions of a batch arrive.                                        *)
LEMMA AnsweredStepKeeps ==
  ASSUME built' = built, WorkGood(work), Answered
  PROVE  WorkGood(work)'
<1>1. PICK w : w = work'
      OBVIOUS
<1>2. work.stage = "ask" /\ work.todo # <<>>
      BY DEF Answered
<1>3. PICK answer \in [ToSet(Head(work.todo)) -> 0..MaxQuestions] :
        w = [work EXCEPT !.asked = [i \in UnitIds |->
                                      IF i \in DOMAIN answer THEN answer[i] ELSE work.asked[i]],
                         !.todo = Tail(work.todo), !.tries = 1]
      BY <1>1, Zenon DEF Answered
<1>4. work.asked \in [UnitIds -> 0..MaxQuestions]
      BY DEF WorkGood, WorkTypes
<1>5. PICK f \in [UnitIds -> 0..MaxQuestions] :
        f = [i \in UnitIds |-> IF i \in DOMAIN answer THEN answer[i] ELSE work.asked[i]]
      BY <1>4
<1>6. PICK calls \in Seq(Seq(UnitIds)) : calls = work.todo
      BY <1>2, AskingLists
<1>7. PICK t \in Seq(Seq(UnitIds)) : t = Tail(calls)
      BY <1>2, <1>6, PartsTypes
<1>8. w = [work EXCEPT !.asked = f, !.todo = t, !.tries = 1]
      BY <1>3, <1>5, <1>6, <1>7, Zenon
<1>9. WorkGood(w)
      BY <1>2, <1>8, AnsweredKeeps
<1> QED
    BY <1>1, <1>9, GoodStays

(* A response that breaks the schema.                                      *)
LEMMA MalformedKeeps ==
  ASSUME built' = built, WorkGood(work), Malformed
  PROVE  WorkGood(work)'
<1>1. PICK w : w = work'
      OBVIOUS
<1>2. work.stage = "ask" /\ work.todo # <<>>
      BY DEF Malformed
<1>3. WorkIsRecord(work)
      BY DEF WorkGood, WorkTypes
<1>4. PICK items \in Seq(UnitIds), calls \in Seq(Seq(UnitIds)) :
        items = work.items /\ calls = work.todo
      BY <1>2, AskingLists
<1>5. CASE GivesUp
      BY <1>5, GivesUpKeeps
<1>6. CASE work' = [work EXCEPT !.tries = work.tries + 1]
  <2>1. w = [work EXCEPT !.items = items, !.todo = calls, !.tries = work.tries + 1]
        BY <1>1, <1>3, <1>4, <1>6 DEF WorkIsRecord
  <2>2. WorkGood(w)
        BY <1>2, <2>1, ListsKeep
  <2> QED
      BY <1>1, <2>2, GoodStays
<1>7. CASE work' = [work EXCEPT !.todo = Halved(work.todo), !.tries = 1]
  <2>1. PICK t \in Seq(Seq(UnitIds)) : t = Halved(calls)
        BY <1>2, <1>4, HalvedTogether
  <2>2. w = [work EXCEPT !.items = items, !.todo = t, !.tries = 1]
        BY <1>1, <1>3, <1>4, <1>7, <2>1 DEF WorkIsRecord
  <2>3. WorkGood(w)
        BY <1>2, <2>2, ListsKeep
  <2> QED
      BY <1>1, <2>3, GoodStays
<1> QED
    BY <1>5, <1>6, <1>7, Zenon DEF Malformed

(* The verdicts of a batch arrive.                                         *)
LEMMA VerifiedStepKeeps ==
  ASSUME built' = built, WorkGood(work), Verified
  PROVE  WorkGood(work)'
<1>1. PICK w : w = work'
      OBVIOUS
<1>2. work.stage = "verify" /\ work.todo # <<>>
      BY DEF Verified
<1>3. PICK supported \in SUBSET ToSet(Head(work.todo)) :
        \E verdicts \in SetToSeqs(supported) :
          w = [work EXCEPT !.kept = work.kept \o verdicts, !.todo = Tail(work.todo)]
      BY <1>1, Zenon DEF Verified
<1>4. PICK verdicts \in SetToSeqs(supported) :
        w = [work EXCEPT !.kept = work.kept \o verdicts, !.todo = Tail(work.todo)]
      BY <1>3
<1>5. PICK Q : Q = Asking(work)
      OBVIOUS
<1>6. PICK calls \in Seq(Seq(Q)) : calls = work.todo
      BY <1>2, <1>5, AskingLists
<1>7. PICK head \in Seq(Q), t \in Seq(Seq(Q)) : head = Head(calls) /\ t = Tail(calls)
      BY <1>2, <1>6, PartsTypes
<1>8. supported \subseteq ToSet(head)
      BY <1>3, <1>6, <1>7
<1>9. verdicts \in Seq(Q)
      BY <1>4, <1>8, VerdictsType
<1>10. w = [work EXCEPT !.kept = work.kept \o verdicts, !.todo = t]
       BY <1>4, <1>6, <1>7, Zenon
<1>11. WorkGood(w)
       BY <1>2, <1>5, <1>9, <1>10, VerifiedKeeps
<1> QED
    BY <1>1, <1>11, GoodStays

(* The stages.                                                             *)
LEMMA MeasuredStepKeeps ==
  ASSUME built' = built, built \in BuildSources, WorkGood(work), Measured
  PROVE  WorkGood(work)'
<1>1. PICK w : w = work'
      OBVIOUS
<1>2. PICK items \in Seq(PlannedEntries) : items = TextItems
      BY ItemsTypes
<1>3. /\ work.stage = "measure" /\ work.items = <<>> /\ work.batch = <<>> /\ work.todo = <<>>
      /\ w = [work EXCEPT !.stage = "text", !.items = items, !.measured = work.rows,
                          !.rows = <<>>]
      BY <1>1, <1>2, Zenon DEF Measured, Drained, Embedding
<1>4. WorkGood(w)
      BY <1>3, MeasuredKeeps
<1> QED
    BY <1>1, <1>4, GoodStays

(* The texts are done.                                                     *)
LEMMA TextEmbeddedKeeps ==
  ASSUME built' = built, built \in BuildSources, WorkGood(work), TextEmbedded
  PROVE  WorkGood(work)'
<1>1. PICK w : w = work'
      OBVIOUS
<1>2. PICK items \in Seq(PlannedEntries) : items = ImageItems
      BY ItemsTypes
<1>3. /\ work.stage = "text" /\ work.batch = <<>> /\ work.todo = <<>>
      /\ w = [work EXCEPT !.stage = "images", !.items = items]
      BY <1>1, <1>2, Zenon DEF TextEmbedded, Drained, Embedding
<1>4. WorkGood(w)
      BY <1>3, TextKeeps
<1> QED
    BY <1>1, <1>4, GoodStays

(* The images are done.                                                    *)
LEMMA ImagesEmbeddedKeeps ==
  ASSUME built' = built, built \in BuildSources, WorkGood(work), ImagesEmbedded
  PROVE  WorkGood(work)'
<1>1. PICK w : w = work'
      OBVIOUS
<1>2. PICK ask \in BOOLEAN : ask = built.autoQa
      BY RepresentationsAssumption
<1>3. PICK items \in Seq(UnitIds) : items = IF ask THEN EligibleUnits ELSE <<>>
      BY EligibleTypes, EmptySeq
<1>4. /\ work.stage = "images" /\ work.batch = <<>> /\ work.todo = <<>>
      /\ w = [work EXCEPT !.stage = IF ask THEN "ask" ELSE "validate", !.items = items,
                          !.stored = work.rows, !.rows = <<>>]
      BY <1>1, <1>2, <1>3, Zenon DEF ImagesEmbedded, Drained, Embedding
<1>5. ~ask => items = <<>>
      BY <1>3
<1>6. WorkGood(w)
      BY <1>4, <1>5, ImagesKeeps
<1> QED
    BY <1>1, <1>6, GoodStays

(* All units have been asked for.                                          *)
LEMMA AskedStepKeeps ==
  ASSUME built' = built, built \in BuildSources, WorkGood(work), Asked
  PROVE  WorkGood(work)'
<1>1. PICK w : w = work'
      OBVIOUS
<1>2. WorkTypes(work)
      BY DEF WorkGood
<1>3. PICK items \in Seq(Asking(work)) : items = AskedQuestions
      BY <1>2, AskedType
<1>4. /\ work.stage = "ask" /\ work.todo = <<>>
      /\ w = [work EXCEPT !.stage = "verify", !.items = items]
      BY <1>1, <1>3, Zenon DEF Asked, Drained
<1>5. WorkGood(w)
      BY <1>4, AskedKeeps
<1> QED
    BY <1>1, <1>5, GoodStays

(* All questions have been verified.                                       *)
LEMMA AllVerifiedStepKeeps ==
  ASSUME built' = built, built \in BuildSources, WorkGood(work), AllVerified
  PROVE  WorkGood(work)'
<1>1. PICK w : w = work'
      OBVIOUS
<1>2. /\ work.stage = "verify" /\ work.todo = <<>>
      /\ w = [work EXCEPT !.stage = "questions", !.items = QuestionsToEmbed(work.kept)]
      BY <1>1, KeptAre, Zenon DEF AllVerified, Drained
<1>3. WorkGood(w)
      BY <1>2, AllVerifiedKeeps
<1> QED
    BY <1>1, <1>3, GoodStays

(* The rows of the questions are written.                                  *)
LEMMA QuestionsStoredKeeps ==
  ASSUME built' = built, built \in BuildSources, WorkGood(work), QuestionsStored
  PROVE  WorkGood(work)'
<1>1. PICK w : w = work'
      OBVIOUS
<1>2. /\ work.stage = "questions" /\ work.items = <<>> /\ work.batch = <<>> /\ work.todo = <<>>
      /\ w = [work EXCEPT !.stage = "validate",
                          !.questions = QuestionRowsIn(work.kept, work.rows)]
      BY <1>1, KeptAre, Zenon DEF QuestionsStored, Drained, Embedding
<1>3. WorkGood(w)
      BY <1>2, StoredKeeps
<1> QED
    BY <1>1, <1>3, GoodStays

(* The build is completed, or fails.                                       *)
LEMMA CompletesKeeps ==
  ASSUME built' = built, built \in BuildSources, WorkGood(work), Completes
  PROVE  WorkGood(work)'
<1>1. PICK w : w = work'
      OBVIOUS
<1>2. CASE GivesUp
      BY <1>2, GivesUpKeeps
<1>3. CASE ~GivesUp
  <2>1. /\ work.stage = "validate" /\ RepresentationsComplete
        /\ w = [work EXCEPT !.stage = "done"]
        BY <1>1, <1>3, Zenon DEF Completes, Drained
  <2>2. work.stored \in Seq(AnswersTo(PlannedEntries))
        BY DEF WorkGood, WorkTypes
  <2>3. \A n \in DOMAIN PlannedRows : PlannedRows[n].required =>
          \E m \in DOMAIN work.stored : work.stored[m].item = PlannedRows[n]
        BY <2>1, Zenon DEF RepresentationsComplete
  <2>4. KindsComplete(work)
        BY <2>2, <2>3, CompleteKinds
  <2>5. WorkGood(w)
        BY <2>1, <2>4, CompletedKeeps
  <2> QED
      BY <1>1, <2>5, GoodStays
<1> QED
    BY <1>2, <1>3

(* A build begins with the analysis.                                       *)
LEMMA BuildBegins ==
  ASSUME RepresentationInit
  PROVE  RepresentationInv
<1>1. built \in BuildSources
      BY DEF RepresentationInit
<1>2. PICK items : items = AnalysisItems
      OBVIOUS
<1>3. PICK asked : asked = [i \in UnitIds |-> 0]
      OBVIOUS
<1>4. work = [stage |-> "measure", items |-> items, batch |-> <<>>, todo |-> <<>>,
              got |-> <<>>, rows |-> <<>>, tries |-> 1, asked |-> asked,
              kept |-> <<>>, measured |-> <<>>, stored |-> <<>>, questions |-> <<>>]
      BY <1>2, <1>3, Zenon DEF RepresentationInit, NoWork
<1>5. items \in Seq(AnalysisEntries)
  <2>1. PICK L \in Nat : DOMAIN built.analysis = 1..L
        BY <1>1, SourceTypes
  <2>2. \A i \in 1..L :
          [unit |-> i, kind |-> "analysis", required |-> TRUE] \in AnalysisEntries
        BY <2>1 DEF AnalysisEntries
  <2>3. items = [i \in 1..L |-> [unit |-> i, kind |-> "analysis", required |-> TRUE]]
        BY <1>2, <2>1 DEF AnalysisItems
  <2> QED
      BY <2>2, <2>3
<1>6. /\ work.stage = "measure" /\ work.items = items /\ work.batch = <<>>
      /\ work.todo = <<>> /\ work.got = <<>> /\ work.rows = <<>> /\ work.asked = asked
      /\ work.kept = <<>> /\ work.stored = <<>> /\ work.questions = <<>>
      /\ WorkIsRecord(work)
      BY <1>4 DEF WorkIsRecord
<1>7. WorkTypes(work)
  <2>1. asked \in [UnitIds -> 0..MaxQuestions]
        BY <1>3, RepresentationsAssumption
  <2>2. /\ work.kept \in Seq(Asking(work)) /\ work.rows \in Seq(AnswersTo(Entries))
        /\ work.stored \in Seq(AnswersTo(PlannedEntries))
        BY <1>6, EmptySeq
  <2> QED
      BY <1>6, <2>1, <2>2 DEF WorkTypes
<1>8. Holding(work, AnalysisEntries)
      BY <1>5, <1>6, EmptySeq DEF Holding
<1>9. Answering(work)
      BY <1>6, NothingAnswering
<1>10. Placed(work, AnalysisItems)
  <2>1. Len(work.rows) = 0 /\ Len(work.batch) = 0 /\ Len(items) \in Nat
        BY <1>5, <1>6, EmptySeq
  <2>2. Len(work.rows) + Len(work.batch) + Len(work.items) = Len(items)
        BY <1>6, <2>1
  <2>3. /\ \A n \in 1..Len(work.rows) : work.rows[n].item = items[n]
        /\ \A n \in 1..Len(work.batch) : work.batch[n] = items[Len(work.rows) + n]
        BY <2>1
  <2>4. \A n \in 1..Len(items) : 0 + 0 + n = n
        BY <2>1
  <2>5. \A n \in 1..Len(work.items) :
          work.items[n] = items[Len(work.rows) + Len(work.batch) + n]
        BY <1>6, <2>1, <2>4
  <2> QED
      BY <1>2, <2>2, <2>3, <2>5 DEF Placed
<1>11. StageHolds(work)
       BY <1>6, <1>8, <1>9, <1>10 DEF StageHolds
<1>12. StageLacks(work)
       BY <1>6 DEF StageLacks
<1>13. StoreHolds(work)
  <2>1. QuestionsOwn(work)
        BY <1>6 DEF QuestionsOwn
  <2> QED
      BY <1>6, <2>1 DEF StoreHolds
<1> QED
    BY <1>1, <1>7, <1>11, <1>12, <1>13 DEF RepresentationInv

(* No step of a build breaks it.                                           *)
LEMMA BuildStepsKeep ==
  ASSUME RepresentationInv, [RepresentationNext]_representationVars
  PROVE  RepresentationInv'
<1>1. built \in BuildSources /\ WorkGood(work)
      BY DEF RepresentationInv, WorkGood
<1>2. SUFFICES built' = built /\ WorkGood(work)'
  <2>1. ASSUME built' = built, WorkGood(work)' PROVE RepresentationInv'
        BY <1>1, <2>1 DEF RepresentationInv, WorkGood
  <2> QED
      BY <2>1
<1>3. built' = built
      BY DEF RepresentationNext, representationVars
<1>4. CASE UNCHANGED representationVars
  <2>1. PICK w : w = work'
        OBVIOUS
  <2>2. w = work
        BY <1>4, <2>1 DEF representationVars
  <2>3. WorkGood(w)
        BY <1>1, <2>2
  <2> QED
      BY <1>3, <2>1, <2>3, GoodStays
<1>5. CASE StartBatch
      BY <1>1, <1>3, <1>5, StartBatchKeeps
<1>6. CASE Embedded
      BY <1>1, <1>3, <1>6, EmbeddedStepKeeps
<1>7. CASE SplitBatch
      BY <1>1, <1>3, <1>7, SplitBatchKeeps
<1>8. CASE BatchFails
      BY <1>1, <1>3, <1>8, BatchFailsKeeps
<1>9. CASE FinishBatch
      BY <1>1, <1>3, <1>9, FinishBatchKeeps
<1>10. CASE AskBatch
       BY <1>1, <1>3, <1>10, AskBatchKeeps
<1>11. CASE Answered
       BY <1>1, <1>3, <1>11, AnsweredStepKeeps
<1>12. CASE Malformed
       BY <1>1, <1>3, <1>12, MalformedKeeps
<1>13. CASE AskFails
       BY <1>1, <1>3, <1>13, GivesUpKeeps DEF AskFails
<1>14. CASE VerifyBatch
       BY <1>1, <1>3, <1>14, VerifyBatchKeeps
<1>15. CASE Verified
       BY <1>1, <1>3, <1>15, VerifiedStepKeeps
<1>16. CASE Measured
       BY <1>1, <1>3, <1>16, MeasuredStepKeeps
<1>17. CASE TextEmbedded
       BY <1>1, <1>3, <1>17, TextEmbeddedKeeps
<1>18. CASE ImagesEmbedded
       BY <1>1, <1>3, <1>18, ImagesEmbeddedKeeps
<1>19. CASE Asked
       BY <1>1, <1>3, <1>19, AskedStepKeeps
<1>20. CASE AllVerified
       BY <1>1, <1>3, <1>20, AllVerifiedStepKeeps
<1>21. CASE QuestionsStored
       BY <1>1, <1>3, <1>21, QuestionsStoredKeeps
<1>22. CASE Completes
       BY <1>1, <1>3, <1>22, CompletesKeeps
<1> QED
    BY <1>3, <1>4, <1>5, <1>6, <1>7, <1>8, <1>9, <1>10, <1>11, <1>12, <1>13, <1>14,
       <1>15, <1>16, <1>17, <1>18, <1>19, <1>20, <1>21, <1>22
       DEF RepresentationNext, representationVars

(* What always holds of a build says that its vectors are their own.       *)
LEMMA InvIsOwn ==
  ASSUME RepresentationInv
  PROVE  VectorsAreTheirOwn
<1>1. \A E : \A rows \in Seq(AnswersTo(E)) : \A n \in DOMAIN rows : OwnVector(rows[n])
  <2>1. SUFFICES ASSUME NEW E, NEW rows \in Seq(AnswersTo(E)), NEW n \in DOMAIN rows
                 PROVE  OwnVector(rows[n])
        OBVIOUS
  <2>2. rows[n] \in AnswersTo(E)
        OBVIOUS
  <2>3. PICK e \in E : rows[n] = [item |-> e, vector |-> InputOf(e)]
        BY <2>2 DEF AnswersTo
  <2> QED
      BY <2>3 DEF OwnVector
<1>2. /\ work.rows \in Seq(AnswersTo(Entries)) /\ work.stored \in Seq(AnswersTo(PlannedEntries))
      /\ StoreHolds(work)
      BY DEF RepresentationInv, WorkTypes
<1>3. \A n \in DOMAIN work.rows : OwnVector(work.rows[n])
      BY <1>1, <1>2
<1>4. \A n \in DOMAIN work.stored : OwnVector(work.stored[n])
      BY <1>1, <1>2
<1> QED
    BY <1>2, <1>3, <1>4 DEF VectorsAreTheirOwn, StoreHolds, MeasuredOwn, QuestionsOwn, KindsComplete

(* Whatever batches are refused and cut in half, in every build.           *)
THEOREM VectorsAreOwn == RepresentationSpec => []VectorsAreTheirOwn
<1>1. RepresentationInit => RepresentationInv
      BY BuildBegins
<1>2. RepresentationInv /\ [RepresentationNext]_representationVars => RepresentationInv'
      BY BuildStepsKeep
<1>3. RepresentationInv => VectorsAreTheirOwn
      BY InvIsOwn
<1> QED
    BY <1>1, <1>2, <1>3, PTL DEF RepresentationSpec
=============================================================================
