----------------------------- MODULE MCEvidence -----------------------------
(* Retrieval, the chunks it rests on, the vectors of the chunks and the    *)
(* evaluation of the answers.  The parts share no state, so each is        *)
(* checked by itself: part says which.                                     *)
EXTENDS Searches, MCEvidenceFlow, MCChunks, Representations, Evaluations, TLC

(* Two versions of a document, each with text, a table and a picture of    *)
(* the text, and a document that does not change.                          *)
CONSTANTS v1, v2, a1, t1, i1, a2, t2, o, p

MCHome == (a1 :> v1) @@ (t1 :> v1) @@ (i1 :> v1)
          @@ (a2 :> v2) @@ (t2 :> v2) @@ (o :> Fixed) @@ (p :> Fixed)
MCOrdinal == (a1 :> 1) @@ (t1 :> 2) @@ (i1 :> 3) @@ (a2 :> 1) @@ (t2 :> 2)
             @@ (o :> 1) @@ (p :> 2)
MCKindOf == (a1 :> "text") @@ (t1 :> "table") @@ (i1 :> "image")
              @@ (a2 :> "text") @@ (t2 :> "table")
              @@ (o :> "text") @@ (p :> "table")
NoPlace == [c \in Rows |-> 0]
MCPlace ==
  [dense   |-> (o :> 1) @@ (a1 :> 2) @@ (a2 :> 3) @@ (i1 :> 4) @@ (t2 :> 5)
               @@ (p :> 6) @@ NoPlace,
   lexical |-> (a2 :> 1) @@ (a1 :> 2) @@ (t1 :> 3) @@ (o :> 4) @@ NoPlace,
   cross   |-> (i1 :> 1) @@ NoPlace,
   asked   |-> (t2 :> 1) @@ NoPlace]
MCNear       == {o, a1, a2, i1}
MCLinked  == {<<a1, i1>>}
MCPaths      == {{{a1, a2}, {o}}, {{t1}}}

(* Builds of up to three units: texts of one and two windows, tables with  *)
(* and without a picture, pictures, and a unit that lacks what it needs.   *)
Prose(n)   == [kind |-> "text", windows |-> n, asset |-> FALSE, said |-> TRUE]
Drawn(n)   == [kind |-> "table", windows |-> n, asset |-> TRUE, said |-> TRUE]
Picture    == [kind |-> "image", windows |-> 0, asset |-> TRUE, said |-> FALSE]
Captioned  == [kind |-> "image", windows |-> 0, asset |-> TRUE, said |-> TRUE]
Unpictured == [kind |-> "image", windows |-> 0, asset |-> FALSE, said |-> FALSE]

BuildOf(analysis, units, autoQa) ==
  [analysis |-> analysis, units |-> units, autoQa |-> autoQa]

MCBuildSources ==
  {BuildOf(<<>>, units, FALSE) :
     units \in {<<Prose(2), Prose(1), Prose(3)>>, <<Drawn(1), Picture, Drawn(2)>>,
                <<Drawn(1), Drawn(1), Picture>>, <<Prose(1), Unpictured>>,
                <<Prose(0)>>}}
  \union {BuildOf(<<1, 2, 1>>, <<Prose(1)>>, FALSE)}
  \union {BuildOf(<<>>, units, TRUE) :
     units \in {<<Prose(1), Captioned, Prose(1)>>, <<Captioned, Picture, Drawn(1)>>}}

(* Two cases: the first may be answered in two ways and is the preflight,  *)
(* the second has two aspects.                                             *)
MCAspectsOf == "q1" :> <<"x">> @@ "q2" :> <<"x", "y">>
Reply(mentioned, cited) == [mentioned |-> mentioned, cited |-> cited]
MCAnswersOf == "q1" :> {Reply({"x"}, {"d"}), Reply({}, {"e"})}
               @@ "q2" :> {Reply({"x"}, {"d", "e"})}
MCRequired == [c \in {"q1", "q2"} |-> {"d"}]
MCBenchmark == <<"q1", "q2">>
MCPreflight == <<"q1">>

VARIABLE part

evidenceVars == <<part, vars, flowVars, chunkVars, representationVars, evalVars>>

AnyTask      == CHOOSE t \in Tasks : TRUE
AnyChunkTask == CHOOSE t \in ChunkTasks : TRUE
AnyBuild     == CHOOSE s \in BuildSources : TRUE

SearchIdle == SearchInit /\ cross
FlowIdle   == task = AnyTask /\ stage = "start" /\ out = <<>>
ChunkIdle  == /\ chunkTask = AnyChunkTask
              /\ chunkStep = "start" /\ chunkOut = NoChunks
BuildIdle  == built = AnyBuild /\ work = NoWork

EvaluationIdle == EvaluationInit /\ kept = {}

EvidenceInit ==
  \/ /\ part = "search" /\ SearchInit
     /\ FlowIdle /\ ChunkIdle /\ BuildIdle /\ EvaluationIdle
  \/ /\ part = "flow" /\ FlowInit
     /\ SearchIdle /\ ChunkIdle /\ BuildIdle /\ EvaluationIdle
  \/ /\ part = "chunks" /\ ChunkInit
     /\ SearchIdle /\ FlowIdle /\ BuildIdle /\ EvaluationIdle
  \/ /\ part = "vectors" /\ RepresentationInit
     /\ SearchIdle /\ FlowIdle /\ ChunkIdle /\ EvaluationIdle
  \/ /\ part = "evaluation" /\ EvaluationInit
     /\ SearchIdle /\ FlowIdle /\ ChunkIdle /\ BuildIdle

EvidenceNext ==
  /\ UNCHANGED part
  /\ \/ /\ part = "search" /\ SearchNext
        /\ UNCHANGED <<flowVars, chunkVars, representationVars, evalVars>>
     \/ /\ part = "flow" /\ FlowNext
        /\ UNCHANGED <<vars, chunkVars, representationVars, evalVars>>
     \/ /\ part = "chunks" /\ ChunkNext
        /\ UNCHANGED <<vars, flowVars, representationVars, evalVars>>
     \/ /\ part = "vectors" /\ RepresentationNext
        /\ UNCHANGED <<vars, flowVars, chunkVars, evalVars>>
     \/ /\ part = "evaluation" /\ EvaluationNext
        /\ UNCHANGED <<vars, flowVars, chunkVars, representationVars>>

EvidenceSpec == EvidenceInit /\ [][EvidenceNext]_evidenceVars
=============================================================================
