----------------------------- MODULE MCChatRuns -----------------------------
(* The chat lane, and what one of its executions does.                     *)
(*                                                                         *)
(* "lane": two runs of two sessions on two workers.                        *)
(* "agent": two knowledge bases, both ready and one with a graph, or one   *)
(* ready and one of the two under the iterative strategy: two chunks of    *)
(* text that are one graph path, and an image of the other base.           *)
EXTENDS ChatRuns, AgentLoop, TLC

CONSTANTS c1, c2, c3, k1, k2

VARIABLE part

mcVars == <<part, vars, agentVars>>

MCHome     == (c1 :> k1) @@ (c2 :> k1) @@ (c3 :> k2)
MCRelated  == [c \in Chunks |-> {}]
MCAdjacent == (c1 :> {c2}) @@ (c2 :> {c1}) @@ (c3 :> {})
MCPath     == (k1 :> {c1, c2}) @@ (k2 :> {})

Call(tool, to, ref) == [tool |-> tool, to |-> to, ref |-> ref]
MCRequests ==
  {Call("semantic_search", KBs, c1), Call("keyword_search", {k1}, c1),
   Call("search_graph_relations", {k1}, NoChunk),
   Call("read_chunk_context", {k1}, c1), Call("calculate", {}, NoChunk)}

MCScopes ==
  {[ready |-> KBs, graph |-> {k1}, iterative |-> {}],
   [ready |-> {k1}, graph |-> {}, iterative |-> {k1}],
   [ready |-> {k1}, graph |-> {}, iterative |-> {k2}]}

MCAgent == AgentInit /\ scope \in MCScopes
           /\ keyword = IF IterativeBalanced THEN {k1} ELSE {}
NoAgent == MCAgent /\ scope.iterative = {k1}

MCInit ==
  /\ ChatInit
  /\ \/ part = "lane" /\ NoAgent
     \/ part = "agent" /\ MCAgent

MCNext ==
  /\ UNCHANGED part
  /\ \/ part = "lane" /\ ChatNext /\ UNCHANGED agentVars
     \/ part = "agent" /\ AgentNext /\ UNCHANGED vars

MCSpec == MCInit /\ [][MCNext]_mcVars /\ ChatFairness
=============================================================================
