--------------------------- MODULE MCEvidenceFlow ---------------------------
(* Chunk 4 is an image of two texts, 6 another image of the first, 7 an     *)
(* image without a parent, 8 a table that has the query's term; the graph   *)
(* has four entities, parallel edges and a loop.                            *)
EXTENDS EvidenceFlow, TLC

MCVersion  == <<"v", "v", "w", "v", "w", "v", "v", "w">>
MCModality == <<"text", "text", "table", "image", "table", "image", "image", "table">>
MCDistance == <<7, 2, 2, 1, 4, 3, 2, 5>>
MCSimilarity ==
  [c \in Chunks |-> [d \in Chunks |->
     CASE c = d -> 100 [] {c, d} = {1, 2} -> 60 [] {c, d} = {3, 5} -> 30
       [] OTHER -> 10]]
MCRelations == << [chunk |-> 1, visual |-> 4, group |-> 11],
                  [chunk |-> 1, visual |-> 6, group |-> 11],
                  [chunk |-> 2, visual |-> 4, group |-> 12] >>
MCWeight  == [dense_text |-> 2, lexical |-> 1, cross_modal |-> 1]

MCEnds    == << <<1, 2>>, <<2, 3>>, <<2, 1>>, <<3, 4>>, <<2, 2>> >>
MCSupport == << <<1>>, <<2, 1>>, <<3>>, <<2, 3>>, <<4>> >>
MCEntry   == <<1, 2, 2, 3, 2>>

Scores  == {<<30, 20, 60, 10, 20, 5, 5, 40>>, <<80, 70, 20, 10, 20, 5, 5, 10>>}
Windows == {<<1, 1, 1, 1, 1, 1, 1, 1>>, <<2, 1, 2, 1, 1, 1, 1, 1>>,
            <<1, 3, 1, 1, 1, 1, 1, 1>>}

ByDistance(S) == SortBy(S, LAMBDA c : <<MCDistance[c], c>>)
Dense == {ByDistance(S) : S \in SUBSET {1, 2, 3, 5}}
Cross == {ByDistance(S) : S \in {{}, {4}, {4, 6}, {6, 7}, {4, 7}}}

FlowTasks ==
  [kind : {"hybrid"}, model : BOOLEAN, score : Scores, windows : Windows,
   hits : [dense_text : Dense, lexical : SetToAllKPermutations({1, 2, 3}),
           cross_modal : Cross]]
  \cup [kind : {"multimodal"}, model : BOOLEAN, score : Scores,
        windows : Windows,
        hits : [dense_text : Dense, lexical : {<<>>}, cross_modal : Cross]]
  \cup [kind : {"context"}, core : (SUBSET {1, 2, 3}) \ {{}},
        beside : SUBSET {5, 8}]
  \cup [kind : {"paths"}, model : BOOLEAN, score : Scores,
        ranked : SetToSeqs({1, 2, 3, 4}) \cup {<<5, 2, 1, 4>>, <<2>>, <<>>},
        seeds : {<<>>, <<1>>, <<1, 3>>, <<2, 4>>, <<3, 1, 2>>},
        chain : {"direct", "inferred", "explicit"},
        served : {{1, 2, 3}, {1, 2}, {2, 3}, {1}},
        evidence : {<<5, 1>>}]
=============================================================================
