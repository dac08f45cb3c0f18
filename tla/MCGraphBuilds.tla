--------------------------- MODULE MCGraphBuilds ---------------------------
(* Small instances of GraphBuilds for TLC.  Under one worker two chunks    *)
(* are served and one thing happens to them, or one is and the other may   *)
(* come, and two things happen; or two workers contend for one chunk.      *)
EXTENDS GraphBuilds

CONSTANTS c1, c2, w1, w2

VARIABLE crowd

Crowded(A) ==
  /\ A
  /\ UNCHANGED crowd
  /\ crowd # "workers" => UNCHANGED work[w2]
  /\ crowd # "arrival" => events' < MaxEvents
  /\ crowd = "workers" => chunk'[c2] = "unindexed"

MCGraphInit ==
  /\ GraphInit
  /\ \/ crowd = "chunks"  /\ chunk[c1] = "serving" /\ chunk[c2] = "serving"
     \/ crowd = "arrival" /\ chunk[c1] = "serving" /\ chunk[c2] = "unindexed"
     \/ crowd = "workers" /\ chunk[c2] = "unindexed"

MCGraphNext == Crowded(GraphNext)

mcVars == <<crowd, vars>>

(* The fairness of GraphSpec, of the workers there are.                    *)
MCGraphSpec ==
  /\ MCGraphInit /\ [][MCGraphNext]_mcVars
  /\ \A w \in Workers : /\ WF_mcVars(Crowded(Process(w)))
                        /\ WF_mcVars(Crowded(Claim(w)))
  /\ \A b \in Builds : WF_mcVars(Crowded(Expire(b)))
  /\ WF_mcVars(Crowded(ClaimRetires)) /\ WF_mcVars(Crowded(ClaimRefuses))

(* The external graph of the generation that answers questions survives    *)
(* whatever one worker at a time does to it: crashes, rotations, deletions *)
(* of retired graphs (adapters/graphiti/client.py).  Of two workers, a     *)
(* late one rewrites it: ServedGraphSurvives is the run graph_late_writes. *)
LoneWorkersKeepTheGraph == crowd # "workers" => ServedGraphSurvives
=============================================================================
