------------------------------ MODULE MCChunks ------------------------------
(* Documents of up to three items of every kind, on one page or two, and   *)
(* five or six units with every mix of hard boundaries.  A chunk holds 8   *)
(* tokens: one text of the alphabet and one row of its table are longer.   *)
EXTENDS ChunkFlow, TLC

Item(kind, parts, header, shape, records) ==
  [kind |-> kind, parts |-> parts, header |-> header,
   container |-> 0, shape |-> shape, records |-> records, lone |-> 0]
Plain(kind, parts) == Item(kind, parts, 0, "plain", {})

Alphabet ==
  {Plain("heading", <<2>>), Plain("heading", <<4, 3>>), Plain("text", <<1, 2>>), Plain("text", <<4, 6>>),
   Plain("picture", <<>>), Plain("caption", <<2>>), Plain("block", <<2, 2>>),
   Item("table", <<1, 2, 3, 6>>, 1, "plain", {}),
   Item("text", <<1>>, 0, "headlike", {}),
   Item("text", <<2, 1, 2>>, 0, "plain", {2}),
   [Item("text", <<2, 1>>, 0, "projection", {2}) EXCEPT !.container = 1, !.lone = 2]}

Paged(doc, turn) ==
  [i \in DOMAIN doc |-> doc[i] @@ [page |-> IF i < turn THEN 1 ELSE 2]]
Documents ==
  UNION {{Paged(doc, turn) : doc \in [1 .. n -> Alphabet], turn \in 1 .. n} :
           n \in 1 .. 3}

Planned(sizes, before) ==
  [k \in DOMAIN sizes |->
     NewUnit(<< <<k, 1, sizes[k]>> >>, {k},
             IF k = 1 THEN NoBoundary ELSE before[k], "text", TRUE)]
UnitLists ==
  {Planned(sizes, before) : sizes \in [1 .. 5 -> {1, 3}],
                            before \in [2 .. 5 -> {NoBoundary, "section", "page"}]}
  \cup {Planned(sizes, before) : sizes \in [1 .. 6 -> {1, 3}],
                                 before \in [2 .. 6 -> {NoBoundary, "section"}]}

MCDistances == << [k \in 1 .. 40 |-> (k * 7) % 30], [k \in 1 .. 40 |-> 3 * ((k * k) % 7)],
                  [k \in 1 .. 40 |-> 3] >>

MCChunkTasks ==
  [kind : {"structural"}, items : Documents]
  \cup [kind : {"semantic"}, items : Documents, distances : {1}]
  \cup [kind : {"plan"}, units : UnitLists, distances : DOMAIN MCDistances]
=============================================================================
