----------------------------- MODULE AgentLoop -----------------------------
(***************************************************************************)
(* One attempt of the native tool-calling agent: model rounds with         *)
(* concurrent tool calls, one evidence pool for the run, the fuses that    *)
(* take the tools away, and the history that every round sends again.      *)
(*                                                                         *)
(* A chunk stands for its EvidenceRef: _assign_refs gives every chunk one  *)
(* ref and never another.  The replies of one knowledge base in a round    *)
(* are one reply, because the round is absorbed as a whole.  The token     *)
(* count, and the caps on counters, are those of the code.                 *)
(***************************************************************************)
EXTENDS Naturals, Sequences, FiniteSets, Functions

CONSTANTS Chunks, KBs,
          Home,         \* the knowledge base of every chunk
          Images,       \* chunks with no text, of use only with their image
          Related,      \* the visual units related to every chunk
          Adjacent,     \* the chunks beside every chunk
          Path,         \* per knowledge base: the chunks of its graph path
          NoChunk,
          Requests,     \* the tool calls a model may make
          MaxCalls,     \* bound: tool calls of one response
          MaxCites,     \* bound: refs written in one answer
          MaxTokens,    \* budget.max_total_tokens
          Usage,        \* total_tokens of a response
          Allowance,    \* display allowance of a round, in chunks
          MaxImages     \* max_visual_images

ASSUME AgentConstants ==
  /\ Home \in [Chunks -> KBs] /\ Images \subseteq Chunks
  /\ Related \in [Chunks -> SUBSET Images]
  /\ \A c \in Chunks : \A v \in Related[c] : Home[v] = Home[c]
  /\ Adjacent \in [Chunks -> SUBSET Chunks]
  /\ Path \in [KBs -> SUBSET Chunks]
  /\ MaxTokens \in Nat \ {0} /\ MaxCalls \in Nat \ {0} /\ MaxCites \in Nat
  /\ Allowance \in Nat
  /\ MaxImages \in Nat /\ Usage \subseteq Nat /\ NoChunk \notin Chunks

SearchTools    == {"semantic_search", "keyword_search"}
RetrievalTools == SearchTools \cup {"search_graph_relations",
                                    "read_chunk_context"}
(* A tool that does not exist, or arguments that the parsers refuse.       *)
Malformed == "other"
Tools == RetrievalTools \cup {"list_documents", "calculate", Malformed}

ASSUME AgentRequests ==
  Requests \subseteq [tool : Tools, to : SUBSET KBs,
                      ref : Chunks \cup {NoChunk}]

MaxStalled     == 3     \* _MAX_CONSECUTIVE_STALLED_ROUNDS
MaxNoNew       == 2     \* _MAX_CONSECUTIVE_NO_NEW_EVIDENCE_ROUNDS
MaxBalanced    == 3     \* _ITERATIVE_BALANCED_MAX_RETRIEVAL_ROUNDS
KeepRounds     == 3     \* _COMPACTION_KEEP_RECENT_ROUNDS
TokenFraction  == 5     \* _COMPACTION_TOKEN_FRACTION

VARIABLES
  scope,      \* frozen: bases ready, graph-capable, of iterative strategy
  keyword,    \* bases whose keyword search is available
  pc,         \* "round", "model", "tools", "done" or "failed"
  calls,      \* the tool calls of the last response
  tokens,     \* total_tokens
  wrapUp,     \* wrap_up
  closed,     \* "no", or search_close_reason once search_closed
  calcUsed,   \* search_closed_calculation_used
  rounds,     \* retrieval_rounds, up to MaxBalanced
  stalled,    \* stalled_rounds
  noNew,      \* no_new_by_kb, up to MaxNoNew
  evidence,   \* the evidence pool: evidence_by_ref
  neighbours, \* evidence whose score kind is ADJACENCY
  sent,       \* sent_content_refs
  history,    \* per finished round: the chunks it still carries in full
  loaded,     \* loaded_visual_refs
  cited,      \* the citations of the final answer
  seen        \* history variables: what was shown, asked and still called

fuses    == <<wrapUp, closed, calcUsed, rounds, stalled, noNew>>
pool     == <<evidence, neighbours, sent, history, loaded>>
agentVars == <<scope, keyword, pc, calls, tokens, fuses, pool, cited, seen>>

ChunksOf(k) == {c \in Chunks : Home[c] = k}
Texts       == Chunks \ Images

(* prompt_by_ref: the pool, and the related images that were attached.     *)
Issued == evidence \cup loaded

(* Each base says for itself whether its graph is ready, and fails closed. *)
Capable(ready) == SUBSET ready

(* _budget_from_context, describe and the local state of run.              *)
AgentInit ==
  /\ scope \in [ready : (SUBSET KBs) \ {{}}, graph : SUBSET KBs,
                iterative : SUBSET KBs]
  /\ scope.graph \in Capable(scope.ready)
  /\ keyword \in {{}, scope.ready}
  /\ pc = "round" /\ calls = {} /\ tokens = 0
  /\ wrapUp = FALSE /\ closed = "no" /\ calcUsed = FALSE
  /\ rounds = 0 /\ stalled = 0 /\ noNew = [k \in KBs |-> 0]
  /\ evidence = {} /\ neighbours = {} /\ sent = {} /\ history = <<>>
  /\ loaded = {} /\ cited = {}
  /\ seen = [shown |-> {}, asked |-> [k \in KBs |-> 0],
             afterFuse |-> 0, afterClose |-> 0]

-----------------------------------------------------------------------------
(* The beginning of a round.                                               *)

(* _compact_history: the rounds before the last KeepRounds become stubs.   *)
StaleRounds ==
  IF tokens * TokenFraction < MaxTokens THEN {}
  ELSE {i \in DOMAIN history : i + KeepRounds <= Len(history)}

Compacted == [i \in DOMAIN history |->
                IF i \in StaleRounds THEN {} ELSE history[i]]

(* Refs whose content was stubbed may be sent again.                       *)
KeepsWithholding == sent                                        \* mutant
StillSent == sent \ UNION {history[i] : i \in StaleRounds}

(* The token fuse: no tools from here on, and a fresh chance to answer.    *)
Blown == ~wrapUp /\ tokens >= MaxTokens

BeginRound ==
  /\ pc = "round"
  /\ wrapUp' = (wrapUp \/ Blown)
  /\ stalled' = IF Blown THEN 0 ELSE stalled
  /\ history' = Compacted
  /\ sent' = StillSent
  /\ seen' = [seen EXCEPT
       !.afterFuse  = IF wrapUp' THEN @ + 1 ELSE @,
       !.afterClose = IF closed # "no" THEN @ + 1 ELSE @]
  /\ pc' = "model"
  /\ UNCHANGED <<scope, keyword, calls, tokens, closed, calcUsed, rounds,
                 noNew, evidence, neighbours, loaded, cited>>

(* The tools offered in this round.                                        *)
EveryTool == IF wrapUp THEN {} ELSE Tools \ {Malformed}           \* mutant
CalculatorStays ==                                              \* mutant
  IF wrapUp \/ closed # "no" THEN {"calculate"} ELSE Tools \ {Malformed}
Offered ==
  IF wrapUp \/ (closed # "no" /\ calcUsed) THEN {}
  ELSE IF closed # "no" THEN {"calculate"}
  ELSE (Tools \ {Malformed})
         \ ((IF keyword = {} THEN {"keyword_search"} ELSE {})
            \cup (IF scope.graph = {} THEN {"search_graph_relations"}
                                      ELSE {}))

-----------------------------------------------------------------------------
(* The response of the model.                                              *)

(* render_text_final_answer: what becomes of the refs the model writes.    *)
AnyCitation(refs) == refs \cap Issued                           \* mutant
Retained(refs) == {c \in refs \cap Issued : c \in Images => c \in loaded}

(* A response without tool calls is the final answer.                      *)
Answer(refs) ==
  /\ pc = "model"
  /\ Cardinality(refs) <= MaxCites
  /\ \E u \in Usage : tokens' = tokens + u
  /\ cited' = Retained(refs)
  /\ pc' = "done"
  /\ UNCHANGED <<scope, keyword, calls, fuses, pool, seen>>

CallTools(cs) ==
  /\ pc = "model"
  /\ \E u \in Usage : tokens' = tokens + u
  /\ calls' = cs
  /\ pc' = "tools"
  /\ UNCHANGED <<scope, keyword, fuses, pool, cited, seen>>

(* The local state of a run that raises is gone.                           *)
Discard ==
  /\ pc' = "failed" /\ calls' = {} /\ keyword' = {} /\ tokens' = 0
  /\ wrapUp' = FALSE /\ closed' = "no" /\ calcUsed' = FALSE
  /\ rounds' = 0 /\ stalled' = 0 /\ noNew' = [k \in KBs |-> 0]
  /\ evidence' = {} /\ neighbours' = {} /\ sent' = {} /\ history' = <<>>
  /\ loaded' = {}
  /\ UNCHANGED <<scope, cited, seen>>

(* complete_model or require_frozen_model refuses the response.            *)
ModelFails == pc = "model" /\ Discard

(* NativeAgentRunner: the deadline of the attempt, or a worker shutdown.   *)
Deadline == pc \in {"round", "model", "tools"} /\ Discard

-----------------------------------------------------------------------------
(* The tool calls of a response.                                           *)

(* A run with one base of strategy ITERATIVE_BALANCED is such a run, but   *)
(* only at that base must a query, after the first retrieval round, copy   *)
(* words of an issued chunk.                                               *)
IterativeBalanced == scope.iterative # {}
HasAnchor(c)      == c.ref \in evidence
Anchored(c, k)    == k \in scope.iterative /\ rounds > 0 => HasAnchor(c)

(* _read_context_anchors: text the run has retrieved, in the asked scope.  *)
Readable(c) ==
  /\ c.ref \in evidence \ neighbours /\ c.ref \in Texts
  /\ Home[c.ref] \in c.to

(* Whether call c makes a retrieval from knowledge base k.                 *)
RunsFor(c, k) ==
  /\ c.tool \in Offered /\ k \in c.to \cap scope.ready
  /\ \/ c.tool = "semantic_search" /\ Anchored(c, k)
     \/ c.tool = "keyword_search" /\ k \in keyword /\ Anchored(c, k)
     \/ c.tool = "search_graph_relations" /\ k \in scope.graph
     \/ c.tool = "read_chunk_context" /\ Readable(c) /\ k = Home[c.ref]

Asked == {k \in KBs : \E c \in calls : RunsFor(c, k)}

(* What one knowledge base may reply: the search hits and the chunks       *)
(* beside the anchors.  A failure comes from no base, and a retriever      *)
(* might answer with the chunks of another one.                            *)
NoBase   == "none"
Failure  == [from |-> NoBase, hits |-> {}, near |-> {}]
Searched(k) == \E c \in calls : RunsFor(c, k) /\ c.tool # "read_chunk_context"
NearBy(k) == UNION {Adjacent[c.ref] : c \in
                      {d \in calls : RunsFor(d, k)
                                     /\ d.tool = "read_chunk_context"}}
Replies(k) ==
  {Failure} \cup
  {[from |-> j, hits |-> ChunksOf(j), near |-> {}] : j \in KBs \ {k}} \cup
  [from : {k}, hits : IF Searched(k) THEN SUBSET ChunksOf(k) ELSE {{}},
   near : SUBSET (NearBy(k) \cap ChunksOf(k))]

(* execute_target: evidence of another scope is an error of the call.      *)
Answered(reply)   == {k \in Asked : reply[k].from = k}

(* Whether a call counts as a success of the round; a base that is not     *)
(* ready answers with its status.                                          *)
Succeeds(c, reply, listed) ==
  /\ c.tool \in Offered
  /\ \/ c.tool = "calculate"
     \/ c.tool = "list_documents" /\ (listed \/ c.to \ scope.ready # {})
     \/ /\ c.tool \in RetrievalTools \ {"read_chunk_context"}
        /\ \/ c.to \ scope.ready # {}
           \/ \E k \in Answered(reply) : RunsFor(c, k)
     \/ /\ c.tool = "read_chunk_context"
        /\ \E k \in Answered(reply) : RunsFor(c, k)

(* _observe_one: the calls of the round that came out as "ok".             *)
Worked(reply, listed) == {c \in calls : Succeeds(c, reply, listed)}

-----------------------------------------------------------------------------
(* _absorb_round.                                                          *)

(* _query_candidates: a graph path that is not whole is rejected; the      *)
(* units of display are whole paths and single chunks.                     *)
GraphAsked(k) == \E c \in calls : c.tool = "search_graph_relations"
                                  /\ RunsFor(c, k)
Units(k, r) ==
  LET whole == GraphAsked(k) /\ Path[k] # {} /\ Path[k] \subseteq r.hits
  IN  {{c} : c \in (r.hits \cup r.near) \ (IF whole THEN Path[k] ELSE {})}
        \cup (IF whole THEN {Path[k]} ELSE {})

(* _fair_round_groups: the units that were admitted.  The queues share the *)
(* allowance in turn, a unit whose content was sent is free, and a unit is *)
(* left out only when it did not fit any more.                             *)
Cost(kept) == Cardinality((UNION kept) \ sent)
FairShare(kept, units) ==
  /\ kept \subseteq units
  /\ Cost(kept) <= Allowance
  /\ \A u \in units \ kept : Cost(kept) + Cost({u}) > Allowance

(* _balanced_admissions and the plain order: whichever queue is served     *)
(* first, every chunk of the admitted units joins the pool.                *)
Admissions(kept) == UNION kept

(* _prepare_scope_visuals: the images of every base's share of the pool.   *)
ImagesFor(pooled) == (pooled \cap Images) \cup UNION {Related[c] : c \in pooled}

(* The image budget of the run; reading an image may fail.                 *)
MayLoad(pooled) ==
  {L \in SUBSET (ImagesFor(pooled) \ loaded) :
     Cardinality(loaded \cup L) <= MaxImages}

CloseByAny(stale) == \E k \in KBs : stale[k] >= MaxNoNew        \* mutant
CloseByAll(stale) == \A k \in KBs : stale[k] >= MaxNoNew

ClosesNow(stale, n) ==
  IF closed # "no" THEN closed
  ELSE IF CloseByAll(stale) THEN "no_new_evidence"
  ELSE IF IterativeBalanced /\ n >= MaxBalanced THEN "iterative_round_limit"
  ELSE "no"

(* _search_result: content that was sent is only referred to.              *)
NewContent(got) == got \ sent

(* _new_visuals and the evidence message with the images.                  *)
Attached(L) == loaded \cup L

AtMost(n, bound) == IF n > bound THEN bound ELSE n

(* The tool messages: one result per call, in the history for good.        *)
SendResults(full) ==
  /\ sent' = sent \cup full
  /\ history' = Append(history, full)

AttachImages(full, answered) ==
  \E L \in MayLoad(evidence') :
    /\ loaded' = Attached(L)
    /\ seen' = [seen EXCEPT
         !.shown = @ \cup full \cup L,
         !.asked = [k \in KBs |-> IF k \in answered
                                  THEN AtMost(@[k] + 1, MaxNoNew) ELSE @[k]]]

Absorb(reply) ==
  LET answered == Answered(reply)
      units == UNION {Units(k, reply[k]) : k \in answered}
  IN  \E kept \in SUBSET units :
        /\ FairShare(kept, units)
        /\ LET got == Admissions(kept)
               searched == UNION {reply[k].hits : k \in answered}
               added(k) == {c \in got \cap ChunksOf(reply[k].from) :
                              c \notin evidence} # {}
               full == NewContent(got)
           IN
           /\ evidence' = evidence \cup got
           /\ neighbours' = neighbours \cup (got \ (evidence \cup searched))
           /\ rounds' = AtMost(rounds + 1, MaxBalanced)
           /\ noNew' = [k \in KBs |->
                IF k \notin answered THEN noNew[k]
                ELSE IF added(k) THEN 0 ELSE AtMost(noNew[k] + 1, MaxNoNew)]
           /\ closed' = ClosesNow(noNew', rounds + 1)
           /\ SendResults(full)
           /\ AttachImages(full, answered)

(* A round whose calls retrieved nothing.                                  *)
AbsorbNothing ==
  /\ history' = Append(history, {})
  /\ UNCHANGED <<evidence, neighbours, rounds, noNew, closed, sent, loaded,
                 seen>>

(* _stall_or_reset.                                                        *)
Stalled(progressed) == IF progressed THEN 0 ELSE stalled + 1

(* The rest of the loop after the tools ran: accounting, the merge of the  *)
(* evidence, the tool messages and the count of stalled rounds.            *)
FinishRound ==
  /\ pc = "tools"
  /\ \E reply \in [Asked -> UNION {Replies(k) : k \in Asked}],
        listed \in BOOLEAN :
       /\ \A k \in Asked : reply[k] \in Replies(k)
       /\ listed => \E c \in calls : c.tool = "list_documents"
       /\ \E lost \in SUBSET {k \in keyword \cap Asked :
                                /\ k \notin Answered(reply)
                                /\ \E c \in calls : RunsFor(c, k) /\
                                     c.tool = "keyword_search"} :
            keyword' = keyword \ lost
       /\ IF Answered(reply) # {} THEN Absorb(reply) ELSE AbsorbNothing
       /\ calcUsed' = (calcUsed \/ /\ closed # "no"
                                   /\ \E c \in Worked(reply, listed) :
                                        c.tool = "calculate")
       /\ stalled' = Stalled(Worked(reply, listed) # {})
  /\ pc' = IF stalled' >= MaxStalled THEN "failed" ELSE "round"
  /\ calls' = {}
  /\ UNCHANGED <<scope, tokens, wrapUp, cited>>

Respond == \/ \E refs \in SUBSET Chunks : Answer(refs)
           \/ \E cs \in {Range(made) : made \in [1 .. MaxCalls -> Requests]} :
                CallTools(cs)
           \/ ModelFails

AgentNext == BeginRound \/ Respond \/ FinishRound \/ Deadline

AgentSpec == AgentInit /\ [][AgentNext]_agentVars

-----------------------------------------------------------------------------
(* Properties.                                                             *)

(* The variables of one attempt have their types.                          *)
AgentTypeOK ==
  /\ scope \in [ready : SUBSET KBs, graph : SUBSET KBs, iterative : SUBSET KBs]
  /\ keyword \subseteq KBs
  /\ pc \in {"round", "model", "tools", "done", "failed"}
  /\ calls \subseteq Requests /\ tokens \in Nat
  /\ wrapUp \in BOOLEAN /\ calcUsed \in BOOLEAN
  /\ closed \in {"no", "no_new_evidence", "iterative_round_limit"}
  /\ rounds \in 0 .. MaxBalanced /\ stalled \in 0 .. MaxStalled
  /\ noNew \in [KBs -> 0 .. MaxNoNew]
  /\ evidence \subseteq Chunks /\ neighbours \subseteq Chunks
  /\ sent \subseteq Chunks /\ history \in Seq(SUBSET Chunks)
  /\ loaded \subseteq Images /\ cited \subseteq Chunks
  /\ seen \in [shown : SUBSET Chunks, asked : [KBs -> 0 .. MaxNoNew],
               afterFuse : Nat, afterClose : Nat]

(* A ref whose content a later search will withhold as already provided    *)
(* still stands in full in the history that the model is sent, whatever    *)
(* rounds were compacted meanwhile, and in one place only.                 *)
WithheldContentIsVisible ==
  /\ \A c \in sent : \E i \in DOMAIN history : c \in history[i]
  /\ \A i, j \in DOMAIN history : i # j => history[i] \cap history[j] = {}

(* An answer cites only chunks of ready knowledge bases whose content this *)
(* attempt put before the model, and an image only if it was attached; the *)
(* attached images keep to the budget of the whole run.                    *)
CitationsWereShown ==
  /\ cited \subseteq seen.shown
  /\ cited \cap Images \subseteq loaded
  /\ Issued \subseteq {c \in Chunks : Home[c] \in scope.ready}
  /\ Cardinality(loaded) <= MaxImages

(* The search closes for want of new evidence only when every selected     *)
(* knowledge base has answered in two rounds: empty rounds of one do not   *)
(* take the search from another.                                           *)
NoBaseIsShutOut ==
  closed = "no_new_evidence" =>
    \A k \in KBs : seen.asked[k] = MaxNoNew

(* However the model behaves, at most three rounds follow the token fuse   *)
(* and eight the closing of the search: three stalled rounds fail the run, *)
(* and one calculation and the fuse each allow a fresh start.  As every    *)
(* response of Usage costs tokens, the run ends without its deadline.      *)
LastRoundsAreBounded ==
  /\ seen.afterFuse <= MaxStalled
  /\ seen.afterClose <= 2 * MaxStalled + 2
  /\ 0 \notin Usage => Len(history) <= MaxTokens + MaxStalled

(* Once the search is closed or the fuse has blown the pool is final, and  *)
(* neither comes undone.                                                   *)
ClosedPoolIsFinal ==
  [][(closed # "no" \/ wrapUp) /\ pc' # "failed" =>
       /\ evidence' = evidence /\ closed' = closed
       /\ wrapUp' \/ ~wrapUp]_agentVars
=============================================================================
