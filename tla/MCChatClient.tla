---------------------------- MODULE MCChatClient ----------------------------
(* The two pages of the web client.                                        *)
(*                                                                         *)
(* "chat": one tab opened with base b1: two sessions of it, one asked in   *)
(* another tab or not, or one and room for another.                        *)
(* "management": base b1 is shown with one document, at rest or with a     *)
(* deletion to confirm, and b2 is another base or one to be created.       *)
EXTENDS ChatClient, ManagementPage

CONSTANTS b1, b2, s1, s2, d1, d2

VARIABLE part

mcVars == <<part, clientVars, pageVars>>

MCHome == [d \in {d1, d2} |-> b1]

ChatInit ==
  /\ ClientInit
  /\ tab.base = b1
  /\ scopes[s1] = {b1} /\ scopes[s2] \in {{}, {b1}}
  /\ turns[s2] = <<>> /\ (scopes[s2] = {} <=> turns[s1] # <<>>)
  /\ budget.clicks + budget.failures = MaxClicks
  /\ scopes[s2] = {} => budget.failures = MaxFailures

NoChat ==
  /\ turns = [s \in Sessions |-> <<>>] /\ scopes = [s \in Sessions |-> {}]
  /\ tab = NewTab
  /\ budget = [questions |-> 0, clicks |-> 0, failures |-> 0]

NoPage ==
  /\ kept = [b \in KnowledgeBases |-> "unborn"] /\ job = Nothing /\ page = EmptyPage
  /\ requests = {} /\ told = NothingTold /\ acts = MaxActs

AtRest ==
  /\ kept[b1] = "kept" /\ kept[b2] \in {"unborn", "kept"}
  /\ job[d1] \in {"served", "failed"} /\ job[d2] = "none"
  /\ requests = {} /\ told = NothingTold /\ acts = 0
  /\ page \in {[EmptyPage EXCEPT !.list = Kept, !.base = b1, !.documents = {d1},
                  !.jobs = job, !.graph = b1, !.asked = a] :
                a \in {Unset, [kind |-> "delete document", doc |-> d1],
                       [kind |-> "delete base", doc |-> Unset]}}
  /\ job[d1] = "failed" => kept[b2] = "kept" /\ page.asked = Unset
  /\ kept[b2] = "unborn" =>
       page.asked \in {Unset, [kind |-> "delete base", doc |-> Unset]}

PageStates ==
  /\ kept \in [KnowledgeBases -> {"unborn", "kept"}]
  /\ job \in [Documents -> {"none", "served", "failed"}]
  /\ AtRest

MCInit ==
  \/ part = "chat" /\ ChatInit /\ NoPage
  \/ part = "management" /\ PageStates /\ NoChat

MCNext ==
  /\ UNCHANGED part
  /\ \/ part = "chat" /\ ClientNext /\ UNCHANGED pageVars
     \/ part = "management" /\ PageNext /\ UNCHANGED clientVars

MCSpec == MCInit /\ [][MCNext]_mcVars /\ ClientFairness
=============================================================================
