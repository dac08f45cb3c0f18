--------------------------- MODULE AgentLoopProofs ---------------------------
(***************************************************************************)
(* Proofs about AgentLoop, for any chunks, knowledge bases, tool calls,    *)
(* usages, allowances and budgets, and whatever the model answers; about   *)
(* Evaluations, the tool that judges those answers, for any cases,         *)
(* aspects, views and number of processes; and about ChatStream, the way   *)
(* of a run's progress to the page, for any number of attempts and size of *)
(* queues and streams.                                                     *)
(***************************************************************************)
EXTENDS AgentLoop, ChatStream, Evaluations, FiniteSetTheorems, TLAPS

(* What a later search withholds is what the history still carries, each   *)
(* chunk in one round.                                                     *)
HistoryCarriesSent ==
  /\ sent = UNION {history[i] : i \in DOMAIN history}
  /\ \A i, j \in DOMAIN history : i # j => history[i] \cap history[j] = {}

(* All of the pool was put before the model and comes from ready bases;    *)
(* only an answer cites.                                                   *)
PoolWasShown ==
  /\ evidence \subseteq seen.shown /\ sent \subseteq seen.shown
  /\ loaded \subseteq seen.shown
  /\ \A c \in Issued : Home[c] \in scope.ready
  /\ Cardinality(loaded) <= MaxImages
  /\ pc # "done" => cited = {}
  /\ cited \subseteq Retained(cited)

(* A base counts as exhausted for no more rounds than it answered in.      *)
StaleWereAsked ==
  /\ \A k \in KBs : noNew[k] <= seen.asked[k]
  /\ closed = "no_new_evidence" => \A k \in KBs : seen.asked[k] = MaxNoNew

(* Rounds of a run that begin and are not over yet.                        *)
Begun == IF pc \in {"model", "tools", "done"} THEN 1 ELSE 0

(* Once the fuse has blown every round stalls; once the search is closed   *)
(* every round stalls but the one of the last calculation, and but for the *)
(* fresh start that the fuse allows.                                       *)
FuseCounts ==
  pc # "failed" =>
    /\ stalled < MaxStalled
    /\ seen.afterFuse = IF wrapUp THEN stalled + Begun ELSE 0
CloseCounts ==
  pc # "failed" =>
    /\ closed = "no" => seen.afterClose = 0 /\ ~calcUsed
    /\ closed # "no" =>
         seen.afterClose <= stalled + Begun + (IF wrapUp THEN MaxStalled + 2
                                               ELSE IF calcUsed THEN MaxStalled ELSE 0)

(* Every round costs tokens, until the budget is used up.                  *)
TokensCount ==
  0 \notin Usage =>
    /\ wrapUp => Len(history) <= MaxTokens + stalled
    /\ ~wrapUp => /\ Len(history) <= tokens /\ Len(history) <= MaxTokens
                  /\ pc \in {"model", "tools"} => Len(history) < MaxTokens
                  /\ pc = "tools" => Len(history) < tokens
                  /\ pc = "model" => tokens < MaxTokens

(* Bounds that outlive the run.                                            *)
RoundsWereFew == seen.afterFuse <= MaxStalled /\ seen.afterClose <= 2 * MaxStalled + 2

AgentInv == /\ AgentTypeOK /\ HistoryCarriesSent /\ PoolWasShown /\ StaleWereAsked
            /\ FuseCounts /\ CloseCounts /\ TokensCount /\ RoundsWereFew

(* The invariant implies what the runs check.                              *)
LEMMA AgentInvImplies ==
  AgentInv => /\ WithheldContentIsVisible /\ CitationsWereShown
              /\ NoBaseIsShutOut /\ LastRoundsAreBounded
<1> SUFFICES ASSUME AgentInv
             PROVE  /\ WithheldContentIsVisible /\ CitationsWereShown
                    /\ NoBaseIsShutOut /\ LastRoundsAreBounded
    OBVIOUS
<1> USE DEF AgentInv
<1>1. WithheldContentIsVisible
      BY DEF HistoryCarriesSent, WithheldContentIsVisible
<1>2. CitationsWereShown
      BY DEF PoolWasShown, CitationsWereShown, AgentTypeOK, Retained, Issued
<1>3. NoBaseIsShutOut
      BY DEF StaleWereAsked, NoBaseIsShutOut
<1>4. LastRoundsAreBounded
      BY AgentConstants DEF RoundsWereFew, TokensCount, LastRoundsAreBounded, AgentTypeOK, MaxStalled
<1> QED BY <1>1, <1>2, <1>3, <1>4

(* An attempt begins with nothing.                                         *)
LEMMA AgentInitially == AgentInit => AgentInv
<1> SUFFICES ASSUME AgentInit PROVE AgentInv
    OBVIOUS
<1> USE AgentConstants DEF AgentInit, Capable
<1>1. Cardinality({}) = 0
      BY FS_EmptySet
<1>2. AgentTypeOK
  <2>1. noNew \in [KBs -> 0 .. MaxNoNew] /\ history \in Seq(SUBSET Chunks)
        BY DEF MaxNoNew
  <2>2. seen \in [shown : SUBSET Chunks, asked : [KBs -> 0 .. MaxNoNew],
                  afterFuse : Nat, afterClose : Nat]
        BY DEF MaxNoNew
  <2>3. scope \in [ready : SUBSET KBs, graph : SUBSET KBs, iterative : SUBSET KBs]
        OBVIOUS
  <2>4. keyword \subseteq KBs
        BY <2>3
  <2>5. rounds \in 0 .. MaxBalanced /\ stalled \in 0 .. MaxStalled
        BY DEF MaxBalanced, MaxStalled
  <2> QED BY <2>1, <2>2, <2>3, <2>4, <2>5 DEF AgentTypeOK
<1>3. HistoryCarriesSent /\ StaleWereAsked
      BY DEF HistoryCarriesSent, StaleWereAsked
<1>4. PoolWasShown
      BY <1>1 DEF PoolWasShown, Issued
<1>5. FuseCounts /\ CloseCounts /\ TokensCount /\ RoundsWereFew
      BY DEF FuseCounts, CloseCounts, TokensCount, RoundsWereFew, Begun, MaxStalled
<1> QED BY <1>2, <1>3, <1>4, <1>5 DEF AgentInv

-----------------------------------------------------------------------------
(* The beginning of a round.                                               *)

(* Stubs keep nothing; what the other rounds carry, and what is withheld,  *)
(* stays the same.                                                         *)
LEMMA CompactionIsWhole ==
  ASSUME AgentTypeOK, HistoryCarriesSent
  PROVE  /\ Compacted \in Seq(SUBSET Chunks) /\ Len(Compacted) = Len(history)
         /\ StillSent = UNION {Compacted[i] : i \in DOMAIN Compacted}
         /\ \A i, j \in DOMAIN Compacted :
              i # j => Compacted[i] \cap Compacted[j] = {}
         /\ StillSent \subseteq sent
<1>1. PICK n \in Nat : DOMAIN history = 1 .. n /\ n = Len(history)
      BY DEF AgentTypeOK
<1>2. \A i \in 1 .. n : history[i] \subseteq Chunks
      BY <1>1 DEF AgentTypeOK
<1>3. /\ DOMAIN Compacted = 1 .. n
      /\ \A i \in 1 .. n : Compacted[i] = IF i \in StaleRounds THEN {} ELSE history[i]
      BY <1>1 DEF Compacted
<1>4. Compacted \in [1 .. n -> SUBSET Chunks]
      BY <1>1, <1>2 DEF Compacted
<1>5. Compacted \in Seq(SUBSET Chunks) /\ Len(Compacted) = n
      BY <1>3, <1>4
<1>6. StaleRounds \subseteq 1 .. n
      BY <1>1 DEF StaleRounds
<1>7. StillSent = UNION {Compacted[i] : i \in 1 .. n}
  <2>1. ASSUME NEW c \in StillSent PROVE \E i \in 1 .. n : c \in Compacted[i]
        BY <2>1, <1>1, <1>3 DEF StillSent, HistoryCarriesSent
  <2>2. ASSUME NEW i \in 1 .. n, NEW c \in Compacted[i] PROVE c \in StillSent
        BY <2>2, <1>1, <1>3, <1>6 DEF StillSent, HistoryCarriesSent
  <2> QED BY <2>1, <2>2
<1>8. \A i, j \in 1 .. n : i # j => Compacted[i] \cap Compacted[j] = {}
      BY <1>1, <1>3 DEF HistoryCarriesSent
<1> QED BY <1>1, <1>3, <1>5, <1>7, <1>8 DEF StillSent

(* The fuse blows at most once and gives the fresh start.                  *)
LEMMA BeginStep ==
  ASSUME AgentInv, BeginRound
  PROVE  AgentInv'
<1> USE DEF AgentInv
<1>1. /\ pc = "round" /\ pc' = "model"
      /\ wrapUp' = (wrapUp \/ Blown)
      /\ stalled' = IF Blown THEN 0 ELSE stalled
      /\ history' = Compacted /\ sent' = StillSent
      /\ UNCHANGED <<scope, keyword, calls, tokens, closed, calcUsed, rounds,
                     noNew, evidence, neighbours, loaded, cited>>
      BY DEF BeginRound
<1>2. /\ seen' \in [shown : SUBSET Chunks, asked : [KBs -> 0 .. MaxNoNew],
                    afterFuse : Nat, afterClose : Nat]
      /\ seen'.shown = seen.shown /\ seen'.asked = seen.asked
      /\ seen'.afterFuse = seen.afterFuse + (IF wrapUp' THEN 1 ELSE 0)
      /\ seen'.afterClose = seen.afterClose + (IF closed # "no" THEN 1 ELSE 0)
  <2>1. PICK f : f = IF wrapUp' THEN seen.afterFuse + 1 ELSE seen.afterFuse
        OBVIOUS
  <2>2. PICK g : g = IF closed # "no" THEN seen.afterClose + 1 ELSE seen.afterClose
        OBVIOUS
  <2>3. seen' = [seen EXCEPT !.afterFuse = f, !.afterClose = g]
        BY <2>1, <2>2, Zenon DEF BeginRound
  <2>4. /\ seen \in [shown : SUBSET Chunks, asked : [KBs -> 0 .. MaxNoNew],
                    afterFuse : Nat, afterClose : Nat]
        /\ f \in Nat /\ g \in Nat
        BY <2>1, <2>2 DEF AgentTypeOK
  <2>5. /\ seen' \in [shown : SUBSET Chunks, asked : [KBs -> 0 .. MaxNoNew],
                      afterFuse : Nat, afterClose : Nat]
        /\ seen'.shown = seen.shown /\ seen'.asked = seen.asked
        /\ seen'.afterFuse = f /\ seen'.afterClose = g
        BY <2>3, <2>4
  <2> QED BY <2>1, <2>2, <2>4, <2>5
<1>3. AgentTypeOK'
      BY <1>1, <1>2, CompactionIsWhole DEF AgentTypeOK, Blown, MaxStalled
<1>4. HistoryCarriesSent'
      BY <1>1, CompactionIsWhole DEF HistoryCarriesSent
<1>5. PoolWasShown' /\ StaleWereAsked'
      BY <1>1, <1>2, CompactionIsWhole DEF PoolWasShown, StaleWereAsked, Issued, Retained
<1>6. FuseCounts'
      BY <1>1, <1>2 DEF FuseCounts, Begun, AgentTypeOK, Blown, MaxStalled
<1>7. CloseCounts'
  <2>1. /\ stalled \in 0 .. 2 /\ seen.afterClose \in Nat /\ wrapUp \in BOOLEAN
        /\ calcUsed \in BOOLEAN
        BY <1>1 DEF FuseCounts, AgentTypeOK, MaxStalled
  <2>2. CASE closed = "no"
        BY <1>1, <1>2, <2>1, <2>2 DEF CloseCounts
  <2>3. CASE closed # "no" /\ wrapUp
    <3>1. wrapUp' = TRUE /\ calcUsed' = calcUsed /\ closed' = closed
          BY <2>3, <1>1, Zenon
    <3> QED BY <3>1, <1>1, <1>2, <2>1, <2>3 DEF CloseCounts, Begun, Blown, MaxStalled
  <2>4. CASE closed # "no" /\ ~wrapUp /\ ~Blown
        BY <1>1, <1>2, <2>1, <2>4 DEF CloseCounts, Begun, MaxStalled
  <2>5. CASE closed # "no" /\ ~wrapUp /\ Blown
    <3>1. wrapUp' = TRUE /\ calcUsed' = calcUsed /\ closed' = closed
          BY <2>5, <1>1, Zenon
    <3> QED BY <3>1, <1>1, <1>2, <2>1, <2>5 DEF CloseCounts, Begun, MaxStalled
  <2> QED BY <2>2, <2>3, <2>4, <2>5
<1>8. RoundsWereFew'
      BY <1>1, <1>2, <1>6, <1>7 DEF FuseCounts, CloseCounts, RoundsWereFew, Begun, AgentTypeOK, MaxStalled
<1>9. TokensCount'
  <2>1. PICK n : n = Len(history) /\ n = Len(history') /\ n \in Nat
        BY <1>1, CompactionIsWhole DEF AgentTypeOK
  <2>2. tokens \in Nat /\ stalled \in 0 .. 3 /\ MaxTokens \in Nat
        BY AgentConstants DEF AgentTypeOK, MaxStalled
  <2>3. CASE wrapUp
        BY <1>1, <2>1, <2>2, <2>3 DEF TokensCount, Blown
  <2>4. CASE ~wrapUp /\ Blown
    <3>1. wrapUp' = TRUE
          BY <2>4, <1>1, Zenon
    <3> QED BY <3>1, <1>1, <2>1, <2>2, <2>4 DEF TokensCount
  <2>5. CASE ~wrapUp /\ ~Blown
        BY <1>1, <2>1, <2>2, <2>5 DEF TokensCount, Blown
  <2> QED BY <2>3, <2>4, <2>5
<1> QED BY <1>3, <1>4, <1>5, <1>6, <1>7, <1>8, <1>9

-----------------------------------------------------------------------------
(* The response of the model.                                              *)

(* An answer cites what it may.                                            *)
LEMMA FinalAnswerStep ==
  ASSUME AgentInv, NEW refs \in SUBSET Chunks, Answer(refs)
  PROVE  AgentInv'
<1> USE DEF AgentInv
<1>1. PICK u \in Usage : tokens' = tokens + u
      BY DEF Answer
<1>2. /\ pc = "model" /\ cited' = Retained(refs) /\ pc' = "done"
      /\ UNCHANGED <<scope, keyword, calls, fuses, pool, seen>>
      BY DEF Answer
<1>3. AgentTypeOK'
      BY <1>1, <1>2, AgentConstants DEF AgentTypeOK, fuses, pool, Retained
<1>4. HistoryCarriesSent' /\ StaleWereAsked'
      BY <1>2 DEF HistoryCarriesSent, StaleWereAsked, fuses, pool
<1>5. PoolWasShown'
      BY <1>2 DEF PoolWasShown, fuses, pool, Issued, Retained
<1>6. FuseCounts' /\ CloseCounts' /\ RoundsWereFew'
      BY <1>2 DEF FuseCounts, CloseCounts, RoundsWereFew, Begun, fuses
<1>7. TokensCount'
      BY <1>1, <1>2, AgentConstants DEF TokensCount, fuses, pool, AgentTypeOK
<1> QED BY <1>3, <1>4, <1>5, <1>6, <1>7

(* Tool calls cost a response.                                             *)
LEMMA CallToolsStep ==
  ASSUME AgentInv, NEW cs \in SUBSET Requests, CallTools(cs)
  PROVE  AgentInv'
<1> USE DEF AgentInv
<1>1. PICK u \in Usage : tokens' = tokens + u
      BY DEF CallTools
<1>2. /\ pc = "model" /\ calls' = cs /\ pc' = "tools"
      /\ UNCHANGED <<scope, keyword, fuses, pool, cited, seen>>
      BY DEF CallTools
<1>3. AgentTypeOK'
      BY <1>1, <1>2, AgentConstants DEF AgentTypeOK, fuses, pool
<1>4. HistoryCarriesSent' /\ StaleWereAsked' /\ PoolWasShown'
      BY <1>2 DEF HistoryCarriesSent, StaleWereAsked, PoolWasShown, fuses, pool, Issued, Retained
<1>5. FuseCounts' /\ CloseCounts' /\ RoundsWereFew'
      BY <1>2 DEF FuseCounts, CloseCounts, RoundsWereFew, Begun, fuses
<1>6. TokensCount'
      BY <1>1, <1>2, AgentConstants DEF TokensCount, fuses, pool, AgentTypeOK
<1> QED BY <1>3, <1>4, <1>5, <1>6

(* A run that raises keeps nothing.                                        *)
LEMMA DiscardStep ==
  ASSUME AgentInv, pc # "done", Discard
  PROVE  AgentInv'
<1> USE DEF AgentInv, Discard
<1>1. Cardinality({}) = 0
      BY FS_EmptySet
<1>2. AgentTypeOK'
  <2>1. noNew' \in [KBs -> 0 .. MaxNoNew] /\ history' \in Seq(SUBSET Chunks)
        BY DEF MaxNoNew
  <2>2. rounds' \in 0 .. MaxBalanced /\ stalled' \in 0 .. MaxStalled
        BY DEF MaxBalanced, MaxStalled
  <2> QED BY <2>1, <2>2 DEF AgentTypeOK
<1>3. HistoryCarriesSent'
      BY DEF HistoryCarriesSent
<1>4. StaleWereAsked'
      BY DEF StaleWereAsked, AgentTypeOK
<1>5. PoolWasShown'
      BY <1>1, AgentConstants DEF PoolWasShown, Issued, Retained
<1>6. FuseCounts' /\ CloseCounts' /\ TokensCount' /\ RoundsWereFew'
      BY AgentConstants DEF FuseCounts, CloseCounts, TokensCount, RoundsWereFew, MaxStalled
<1> QED BY <1>2, <1>3, <1>4, <1>5, <1>6

-----------------------------------------------------------------------------
(* The tools of a round.                                                   *)

(* Where the fuse has blown nothing is offered, where the search is closed *)
(* at most the calculator; no base is asked then.                          *)
LEMMA ClosedOffersLittle ==
  /\ wrapUp => Offered = {}
  /\ closed # "no" => Offered \subseteq {"calculate"}
  /\ closed # "no" /\ calcUsed => Offered = {}
  /\ wrapUp \/ closed # "no" => Asked = {}
<1>1. /\ wrapUp => Offered = {}
      /\ closed # "no" => Offered \subseteq {"calculate"}
      /\ closed # "no" /\ calcUsed => Offered = {}
      BY DEF Offered
<1>2. \A c, k : RunsFor(c, k) => c.tool \in Offered /\ c.tool # "calculate"
      BY DEF RunsFor
<1> QED BY <1>1, <1>2 DEF Asked

(* A base that is asked is ready.                                          *)
LEMMA AskedIsReady == Asked \subseteq scope.ready
  BY DEF Asked, RunsFor

(* A base that answered was asked by a call that worked.                   *)
LEMMA AnswersAreWork ==
  ASSUME NEW reply, NEW listed, Answered(reply) # {}
  PROVE  Worked(reply, listed) # {}
<1>1. PICK k \in Asked : k \in Answered(reply)
      BY DEF Answered
<1>2. PICK c \in calls : RunsFor(c, k)
      BY <1>1 DEF Asked
<1>3. c.tool \in Offered /\ c.tool \in RetrievalTools
      BY <1>2 DEF RunsFor, RetrievalTools, SearchTools
<1>4. Succeeds(c, reply, listed)
      BY <1>1, <1>2, <1>3 DEF Succeeds
<1> QED BY <1>4 DEF Worked

(* What a round ends with.                                                 *)
LEMMA RoundEnds ==
  ASSUME AgentInv, FinishRound
  PROVE  /\ pc = "tools" /\ calls' = {}
         /\ UNCHANGED <<scope, tokens, wrapUp, cited>>
         /\ pc' = IF stalled' >= MaxStalled THEN "failed" ELSE "round"
         /\ \E reply, listed :
              /\ \A k \in Asked : reply[k] \in Replies(k)
              /\ keyword' \subseteq keyword
              /\ Answered(reply) # {} => Absorb(reply)
              /\ Answered(reply) = {} => AbsorbNothing
              /\ calcUsed' = (calcUsed \/ /\ closed # "no"
                                          /\ \E c \in Worked(reply, listed) :
                                               c.tool = "calculate")
              /\ stalled' = IF Worked(reply, listed) # {} THEN 0 ELSE stalled + 1
<1>1. PICK reply, listed :
        /\ \A k \in Asked : reply[k] \in Replies(k)
        /\ \E lost \in SUBSET {k \in keyword \cap Asked :
                                /\ k \notin Answered(reply)
                                /\ \E c \in calls : RunsFor(c, k) /\
                                     c.tool = "keyword_search"} :
             keyword' = keyword \ lost
        /\ IF Answered(reply) # {} THEN Absorb(reply) ELSE AbsorbNothing
        /\ calcUsed' = (calcUsed \/ /\ closed # "no"
                                    /\ \E c \in Worked(reply, listed) :
                                         c.tool = "calculate")
        /\ stalled' = IF Worked(reply, listed) # {} THEN 0 ELSE stalled + 1
      BY Zenon DEF FinishRound, Stalled
<1>2. keyword' \subseteq keyword
      BY <1>1
<1>3. /\ pc = "tools" /\ calls' = {}
      /\ UNCHANGED <<scope, tokens, wrapUp, cited>>
      /\ pc' = IF stalled' >= MaxStalled THEN "failed" ELSE "round"
      BY Zenon DEF FinishRound
<1> QED BY <1>1, <1>2, <1>3, Zenon

(* The units of a base that was asked are its own chunks.                  *)
LEMMA UnitsAreOwn ==
  ASSUME NEW k, NEW r \in Replies(k), r.from = k, k \in KBs
  PROVE  UNION Units(k, r) \subseteq ChunksOf(k)
<1>1. r.hits \subseteq ChunksOf(k) /\ r.near \subseteq ChunksOf(k)
  <2>1. CASE r = Failure
        BY <2>1 DEF Failure
  <2>2. CASE \E j \in KBs \ {k} : r = [from |-> j, hits |-> ChunksOf(j), near |-> {}]
        BY <2>2
  <2>3. CASE r \in [from : {k}, hits : IF Searched(k) THEN SUBSET ChunksOf(k) ELSE {{}},
                    near : SUBSET (NearBy(k) \cap ChunksOf(k))]
        BY <2>3
  <2> QED BY <2>1, <2>2, <2>3 DEF Replies
<1>2. PICK w : w = (GraphAsked(k) /\ Path[k] # {} /\ Path[k] \subseteq r.hits)
      OBVIOUS
<1>3. CASE GraphAsked(k) /\ Path[k] # {} /\ Path[k] \subseteq r.hits
  <2>1. Units(k, r) = {{c} : c \in (r.hits \cup r.near) \ Path[k]} \cup {Path[k]}
        BY <1>3, Zenon DEF Units
  <2> QED BY <1>1, <1>3, <2>1
<1>4. CASE ~(GraphAsked(k) /\ Path[k] # {} /\ Path[k] \subseteq r.hits)
  <2>1. Units(k, r) = {{c} : c \in (r.hits \cup r.near) \ {}} \cup {}
        BY <1>4, Zenon DEF Units
  <2> QED BY <1>1, <2>1
<1> QED BY <1>3, <1>4

(* A capped counter stays within its cap.                                  *)
LEMMA CappedCounts ==
  ASSUME NEW bound \in Nat, NEW n \in 0 .. bound
  PROVE  AtMost(n + 1, bound) \in 0 .. bound /\ AtMost(n + 1, bound) = IF n = bound THEN n ELSE n + 1
  BY DEF AtMost

(* What a round that retrieved something changes.                          *)
LEMMA AbsorbedRound ==
  ASSUME AgentInv, NEW reply, \A k \in Asked : reply[k] \in Replies(k),
         Absorb(reply)
  PROVE  \E got \in SUBSET Chunks, L \in SUBSET Images :
           /\ \A c \in got \cup L : Home[c] \in scope.ready
           /\ Cardinality(loaded \cup L) <= MaxImages
           /\ evidence' = evidence \cup got /\ loaded' = loaded \cup L
           /\ neighbours' \subseteq neighbours \cup got
           /\ sent' = sent \cup got /\ history' = Append(history, got \ sent)
           /\ rounds' = AtMost(rounds + 1, MaxBalanced)
           /\ noNew' \in [KBs -> 0 .. MaxNoNew]
           /\ \A k \in KBs : noNew'[k] <= IF k \in Answered(reply)
                                          THEN AtMost(noNew[k] + 1, MaxNoNew) ELSE noNew[k]
           /\ closed' = ClosesNow(noNew', rounds + 1)
           /\ seen' = [seen EXCEPT
                !.shown = seen.shown \cup (got \ sent) \cup L,
                !.asked = [k \in KBs |-> IF k \in Answered(reply)
                                         THEN AtMost(seen.asked[k] + 1, MaxNoNew)
                                         ELSE seen.asked[k]]]
<1> DEFINE answered == Answered(reply)
           units == UNION {Units(k, reply[k]) : k \in answered}
           searched == UNION {reply[k].hits : k \in answered}
           Added(left, k) == {c \in (UNION left) \cap ChunksOf(reply[k].from) :
                                c \notin evidence} # {}
<1>1. PICK left \in SUBSET units :
        /\ evidence' = evidence \cup UNION left
        /\ neighbours' = neighbours \cup ((UNION left) \ (evidence \cup searched))
        /\ rounds' = AtMost(rounds + 1, MaxBalanced)
        /\ noNew' = [k \in KBs |->
             IF k \notin answered THEN noNew[k]
             ELSE IF Added(left, k) THEN 0 ELSE AtMost(noNew[k] + 1, MaxNoNew)]
        /\ closed' = ClosesNow(noNew', rounds + 1)
        /\ sent' = sent \cup ((UNION left) \ sent)
        /\ history' = Append(history, (UNION left) \ sent)
        /\ \E L \in MayLoad(evidence') :
             /\ loaded' = loaded \cup L
             /\ seen' = [seen EXCEPT
                  !.shown = @ \cup ((UNION left) \ sent) \cup L,
                  !.asked = [k \in KBs |-> IF k \in answered
                                           THEN AtMost(@[k] + 1, MaxNoNew)
                                           ELSE @[k]]]
      BY DEF Absorb, NewContent, Attached, Admissions, SendResults, AttachImages
<1>2. PICK L \in MayLoad(evidence') :
             /\ loaded' = loaded \cup L
             /\ seen' = [seen EXCEPT
                  !.shown = seen.shown \cup ((UNION left) \ sent) \cup L,
                  !.asked = [k \in KBs |-> IF k \in answered
                                           THEN AtMost(seen.asked[k] + 1, MaxNoNew)
                                           ELSE seen.asked[k]]]
      BY <1>1, Zenon
<1>3. PICK got : got = UNION left
      OBVIOUS
<1>4. answered \subseteq Asked /\ \A k \in answered : reply[k].from = k
      BY DEF Answered
<1>5. Asked \subseteq KBs /\ \A k \in Asked : k \in scope.ready
      BY AskedIsReady DEF Asked
<1>6. \A k \in answered : UNION Units(k, reply[k]) \subseteq ChunksOf(k)
      BY <1>4, <1>5, UnitsAreOwn
<1>7. got \subseteq Chunks /\ \A c \in got : Home[c] \in scope.ready
      BY <1>1, <1>3, <1>4, <1>5, <1>6 DEF ChunksOf
<1>8. evidence' = evidence \cup got
      BY <1>1, <1>3
<1>9. \A c \in evidence' : c \in Chunks /\ Home[c] \in scope.ready
      BY <1>7, <1>8 DEF AgentInv, AgentTypeOK, PoolWasShown, Issued
<1>10. L \subseteq Images /\ (\A c \in L : Home[c] \in scope.ready)
       /\ Cardinality(loaded \cup L) <= MaxImages
  <2>1. L \subseteq (evidence' \cap Images) \cup UNION {Related[c] : c \in evidence'}
        BY DEF MayLoad, ImagesFor
  <2>2. Cardinality(loaded \cup L) <= MaxImages
        BY DEF MayLoad, ImagesFor
  <2> QED BY <2>1, <2>2, <1>9, AgentConstants
<1>11. /\ noNew' \in [KBs -> 0 .. MaxNoNew]
       /\ \A k \in KBs : noNew'[k] <= IF k \in answered
                                      THEN AtMost(noNew[k] + 1, MaxNoNew) ELSE noNew[k]
  <2>1. noNew \in [KBs -> 0 .. MaxNoNew] /\ MaxNoNew \in Nat
        BY DEF AgentInv, AgentTypeOK, MaxNoNew
  <2>2. \A k \in KBs : AtMost(noNew[k] + 1, MaxNoNew) \in 0 .. MaxNoNew
        BY <2>1, CappedCounts
  <2>3. ASSUME NEW k \in KBs
        PROVE  /\ noNew'[k] \in 0 .. MaxNoNew
               /\ noNew'[k] <= IF k \in answered THEN AtMost(noNew[k] + 1, MaxNoNew)
                                                 ELSE noNew[k]
    <3>1. noNew'[k] = IF k \notin answered THEN noNew[k]
                      ELSE IF Added(left, k) THEN 0 ELSE AtMost(noNew[k] + 1, MaxNoNew)
          BY <1>1
    <3> QED BY <3>1, <2>1, <2>2
  <2>4. noNew' \in [KBs -> 0 .. MaxNoNew]
    <3>1. DOMAIN noNew' = KBs /\ noNew' = [k \in KBs |-> noNew'[k]]
          BY <1>1
    <3> QED BY <3>1, <2>3
  <2> QED BY <2>3, <2>4
<1>12. sent' = sent \cup got /\ neighbours' \subseteq neighbours \cup got
       BY <1>1, <1>3
<1>14. /\ history' = Append(history, got \ sent)
       /\ rounds' = AtMost(rounds + 1, MaxBalanced)
       /\ closed' = ClosesNow(noNew', rounds + 1)
       BY <1>1, <1>3, Zenon
<1>13. seen' = [seen EXCEPT
                !.shown = seen.shown \cup (got \ sent) \cup L,
                !.asked = [k \in KBs |-> IF k \in Answered(reply)
                                         THEN AtMost(seen.asked[k] + 1, MaxNoNew)
                                         ELSE seen.asked[k]]]
      BY <1>2, <1>3, Zenon
<1> QED BY <1>2, <1>7, <1>8, <1>10, <1>11, <1>12, <1>13, <1>14

(* A round stalls unless a call worked; where the search is closed, only a *)
(* calculation works, and only once.                                       *)
LEMMA StallsCount ==
  ASSUME AgentInv, NEW reply, NEW listed,
         calcUsed' = (calcUsed \/ /\ closed # "no"
                                  /\ \E c \in Worked(reply, listed) : c.tool = "calculate"),
         stalled' = IF Worked(reply, listed) # {} THEN 0 ELSE stalled + 1
  PROVE  /\ calcUsed' \in BOOLEAN
         /\ stalled' = 0 \/ stalled' = stalled + 1
         /\ wrapUp => stalled' = stalled + 1 /\ calcUsed' = calcUsed
         /\ closed = "no" => calcUsed' = calcUsed
         /\ closed # "no" /\ calcUsed => stalled' = stalled + 1 /\ calcUsed'
         /\ closed # "no" /\ ~calcUsed' => stalled' = stalled + 1
<1>1. \A c \in Worked(reply, listed) : c.tool \in Offered
      BY DEF Worked, Succeeds
<1>2. calcUsed \in BOOLEAN
      BY DEF AgentInv, AgentTypeOK
<1>3. calcUsed' \in BOOLEAN
      BY <1>2, Zenon
<1>4. wrapUp => Worked(reply, listed) = {}
      BY <1>1, ClosedOffersLittle
<1>5. closed # "no" /\ calcUsed => Worked(reply, listed) = {}
      BY <1>1, ClosedOffersLittle
<1>6. closed # "no" /\ ~calcUsed' => Worked(reply, listed) = {}
      BY <1>1, ClosedOffersLittle
<1>7. wrapUp => calcUsed' = calcUsed
      BY <1>2, <1>4
<1>8. (closed = "no" => calcUsed' = calcUsed) /\ (calcUsed => calcUsed')
      BY <1>2
<1> QED BY <1>3, <1>4, <1>5, <1>6, <1>7, <1>8

(* A round that retrieved something.                                       *)
LEMMA AnsweredStep ==
  ASSUME AgentInv, FinishRound, NEW reply, NEW listed,
         \A k \in Asked : reply[k] \in Replies(k), keyword' \subseteq keyword,
         Absorb(reply), Answered(reply) # {},
         calcUsed' = (calcUsed \/ /\ closed # "no"
                                  /\ \E c \in Worked(reply, listed) : c.tool = "calculate"),
         stalled' = IF Worked(reply, listed) # {} THEN 0 ELSE stalled + 1
  PROVE  AgentInv'
<1>1. /\ pc = "tools" /\ calls' = {} /\ UNCHANGED <<scope, tokens, wrapUp, cited>>
      /\ pc' = IF stalled' >= MaxStalled THEN "failed" ELSE "round"
      BY RoundEnds
<1>2. ~wrapUp /\ closed = "no" /\ stalled' = 0 /\ calcUsed' = calcUsed
      BY ClosedOffersLittle, AnswersAreWork, StallsCount DEF Answered
<1>3. pc' = "round"
      BY <1>1, <1>2 DEF MaxStalled
<1>4. PICK got \in SUBSET Chunks, L \in SUBSET Images :
           /\ \A c \in got \cup L : Home[c] \in scope.ready
           /\ Cardinality(loaded \cup L) <= MaxImages
           /\ evidence' = evidence \cup got /\ loaded' = loaded \cup L
           /\ neighbours' \subseteq neighbours \cup got
           /\ sent' = sent \cup got /\ history' = Append(history, got \ sent)
           /\ rounds' = AtMost(rounds + 1, MaxBalanced)
           /\ noNew' \in [KBs -> 0 .. MaxNoNew]
           /\ \A k \in KBs : noNew'[k] <= IF k \in Answered(reply)
                                          THEN AtMost(noNew[k] + 1, MaxNoNew) ELSE noNew[k]
           /\ closed' = ClosesNow(noNew', rounds + 1)
           /\ seen' = [seen EXCEPT
                !.shown = seen.shown \cup (got \ sent) \cup L,
                !.asked = [k \in KBs |-> IF k \in Answered(reply)
                                         THEN AtMost(seen.asked[k] + 1, MaxNoNew)
                                         ELSE seen.asked[k]]]
      BY AbsorbedRound
<1>5. PICK A : A = [k \in KBs |-> IF k \in Answered(reply)
                                  THEN AtMost(seen.asked[k] + 1, MaxNoNew)
                                  ELSE seen.asked[k]]
      OBVIOUS
<1>6. PICK W : W = seen.shown \cup (got \ sent) \cup L
      OBVIOUS
<1>7. seen' = [seen EXCEPT !.shown = W, !.asked = A]
      BY <1>4, <1>5, <1>6, Zenon
<1> USE DEF AgentInv
<1>8. /\ A \in [KBs -> 0 .. MaxNoNew]
      /\ \A k \in KBs : noNew'[k] <= A[k] /\ seen.asked[k] <= A[k]
  <2>1. seen.asked \in [KBs -> 0 .. MaxNoNew] /\ noNew \in [KBs -> 0 .. MaxNoNew]
        BY DEF AgentTypeOK
  <2>2. ASSUME NEW k \in KBs
        PROVE  A[k] \in 0 .. MaxNoNew /\ noNew'[k] <= A[k] /\ seen.asked[k] <= A[k]
    <3>1. A[k] = IF k \in Answered(reply) THEN AtMost(seen.asked[k] + 1, MaxNoNew)
                                          ELSE seen.asked[k]
          BY <1>5
    <3>2. seen.asked[k] \in 0 .. 2 /\ noNew[k] \in 0 .. 2 /\ noNew[k] <= seen.asked[k]
          BY <2>1 DEF StaleWereAsked, MaxNoNew
    <3>3. noNew'[k] <= IF k \in Answered(reply) THEN AtMost(noNew[k] + 1, MaxNoNew) ELSE noNew[k]
          BY <1>4
    <3>4. noNew'[k] \in 0 .. 2
          BY <1>4 DEF MaxNoNew
    <3> QED BY <3>1, <3>2, <3>3, <3>4 DEF AtMost, MaxNoNew
  <2>3. A = [k \in KBs |-> A[k]]
        BY <1>5
  <2> QED BY <2>2, <2>3
<1>9. /\ seen' \in [shown : SUBSET Chunks, asked : [KBs -> 0 .. MaxNoNew],
                    afterFuse : Nat, afterClose : Nat]
      /\ seen'.shown = W /\ seen'.asked = A
      /\ seen'.afterFuse = seen.afterFuse /\ seen'.afterClose = seen.afterClose
  <2>1. seen \in [shown : SUBSET Chunks, asked : [KBs -> 0 .. MaxNoNew],
                  afterFuse : Nat, afterClose : Nat]
        BY DEF AgentTypeOK
  <2>2. W \subseteq Chunks
        BY <1>6, <2>1, AgentConstants
  <2>3. A \in [KBs -> 0 .. MaxNoNew]
        BY <1>8
  <2> QED BY <1>7, <2>1, <2>2, <2>3
<1>10. closed' \in {"no", "no_new_evidence", "iterative_round_limit"}
       BY <1>2, <1>4 DEF ClosesNow
<1>11. PICK n \in Nat : n = Len(history)
       BY DEF AgentTypeOK
<1>12. /\ history' \in Seq(SUBSET Chunks) /\ Len(history') = n + 1
       /\ DOMAIN history' = 1 .. n + 1 /\ DOMAIN history = 1 .. n
       /\ \A i \in 1 .. n : history'[i] = history[i]
       /\ history'[n + 1] = got \ sent
  <2>1. history \in Seq(SUBSET Chunks) /\ got \ sent \in SUBSET Chunks
        BY DEF AgentTypeOK
  <2> QED BY <1>4, <1>11, <2>1
<1>13. AgentTypeOK'
  <2>1. rounds' \in 0 .. MaxBalanced
        BY <1>4, CappedCounts DEF AgentTypeOK, MaxBalanced
  <2>2. stalled' \in 0 .. MaxStalled
        BY <1>2 DEF MaxStalled
  <2> QED BY <1>1, <1>2, <1>3, <1>4, <1>9, <1>10, <1>12, <2>1, <2>2 DEF AgentTypeOK
<1>14. HistoryCarriesSent'
  <2>1. sent = UNION {history[i] : i \in 1 .. n}
        BY <1>12 DEF HistoryCarriesSent
  <2>2. sent' = UNION {history'[i] : i \in 1 .. n + 1}
    <3>1. ASSUME NEW c \in sent' PROVE \E i \in 1 .. n + 1 : c \in history'[i]
      <4>1. CASE c \in sent
            BY <2>1, <4>1, <1>12
      <4>2. CASE c \notin sent
            BY <4>2, <1>4, <1>12
      <4> QED BY <4>1, <4>2
    <3>2. ASSUME NEW i \in 1 .. n + 1, NEW c \in history'[i] PROVE c \in sent'
      <4>1. CASE i = n + 1
            BY <4>1, <1>4, <1>12
      <4>2. CASE i \in 1 .. n
            BY <4>2, <2>1, <1>4, <1>12
      <4> QED BY <4>1, <4>2
    <3> QED BY <3>1, <3>2
  <2>3. ASSUME NEW i \in 1 .. n + 1, NEW j \in 1 .. n + 1, i # j
        PROVE  history'[i] \cap history'[j] = {}
    <3>1. \A k \in 1 .. n : history[k] \subseteq sent
          BY <2>1
    <3>2. CASE i \in 1 .. n /\ j \in 1 .. n
          BY <3>2, <2>3, <1>12 DEF HistoryCarriesSent
    <3>3. CASE i = n + 1 /\ j \in 1 .. n
          BY <3>3, <3>1, <1>12
    <3>4. CASE j = n + 1 /\ i \in 1 .. n
          BY <3>4, <3>1, <1>12
    <3> QED BY <2>3, <3>2, <3>3, <3>4
  <2> QED BY <2>2, <2>3, <1>12 DEF HistoryCarriesSent
<1>15. PoolWasShown'
       BY <1>1, <1>3, <1>4, <1>6, <1>9 DEF PoolWasShown, Issued, Retained
<1>16. StaleWereAsked'
  <2>1. ASSUME closed' = "no_new_evidence", NEW k \in KBs PROVE A[k] = MaxNoNew
    <3>1. noNew'[k] >= MaxNoNew
          BY <2>1, <1>2, <1>4 DEF ClosesNow, CloseByAll
    <3>2. A[k] \in 0 .. 2 /\ noNew'[k] \in 0 .. 2 /\ noNew'[k] <= A[k]
          BY <1>4, <1>8 DEF MaxNoNew
    <3> QED BY <3>1, <3>2 DEF MaxNoNew
  <2> QED BY <2>1, <1>8, <1>9 DEF StaleWereAsked
<1>17. FuseCounts' /\ CloseCounts' /\ RoundsWereFew'
       BY <1>1, <1>2, <1>3, <1>9 DEF FuseCounts, CloseCounts, RoundsWereFew, Begun, MaxStalled
<1>18. TokensCount'
  <2>1. tokens \in Nat /\ MaxTokens \in Nat
        BY AgentConstants DEF AgentTypeOK
  <2> QED BY <1>1, <1>2, <1>3, <1>11, <1>12, <2>1 DEF TokensCount
<1> QED BY <1>13, <1>14, <1>15, <1>16, <1>17, <1>18

(* A round that retrieved nothing: it stalls, or calculates or lists.      *)
LEMMA QuietStep ==
  ASSUME AgentInv, FinishRound, NEW reply, NEW listed,
         keyword' \subseteq keyword, AbsorbNothing,
         calcUsed' = (calcUsed \/ /\ closed # "no"
                                  /\ \E c \in Worked(reply, listed) : c.tool = "calculate"),
         stalled' = IF Worked(reply, listed) # {} THEN 0 ELSE stalled + 1
  PROVE  AgentInv'
<1>1. /\ pc = "tools" /\ calls' = {} /\ UNCHANGED <<scope, tokens, wrapUp, cited>>
      /\ pc' = IF stalled' >= MaxStalled THEN "failed" ELSE "round"
      BY RoundEnds
<1>2. /\ history' = Append(history, {})
      /\ UNCHANGED <<evidence, neighbours, rounds, noNew, closed, sent, loaded, seen>>
      BY DEF AbsorbNothing
<1>3. /\ calcUsed' \in BOOLEAN
      /\ stalled' = 0 \/ stalled' = stalled + 1
      /\ wrapUp => stalled' = stalled + 1 /\ calcUsed' = calcUsed
      /\ closed = "no" => calcUsed' = calcUsed
      /\ closed # "no" /\ calcUsed => stalled' = stalled + 1 /\ calcUsed'
      /\ closed # "no" /\ ~calcUsed' => stalled' = stalled + 1
      BY StallsCount
<1> USE DEF AgentInv
<1>4. PICK n \in Nat : n = Len(history)
      BY DEF AgentTypeOK
<1>5. /\ history' \in Seq(SUBSET Chunks) /\ Len(history') = n + 1
      /\ DOMAIN history' = 1 .. n + 1 /\ DOMAIN history = 1 .. n
      /\ \A i \in 1 .. n : history'[i] = history[i]
      /\ history'[n + 1] = {}
      BY <1>2, <1>4 DEF AgentTypeOK
<1>6. stalled \in 0 .. 2 /\ stalled' \in 0 .. 3
      BY <1>1, <1>3 DEF FuseCounts, AgentTypeOK, MaxStalled
<1>7. AgentTypeOK'
  <2>1. stalled' \in 0 .. MaxStalled
        BY <1>6 DEF MaxStalled
  <2> QED BY <1>1, <1>2, <1>3, <1>5, <2>1 DEF AgentTypeOK
<1>8. HistoryCarriesSent'
  <2>1. sent' = UNION {history[i] : i \in 1 .. n}
        BY <1>2, <1>5 DEF HistoryCarriesSent
  <2>2. UNION {history[i] : i \in 1 .. n} = UNION {history'[i] : i \in 1 .. n + 1}
    <3>1. ASSUME NEW i \in 1 .. n + 1, NEW c \in history'[i] PROVE i \in 1 .. n
          BY <3>1, <1>5
    <3>2. \A i \in 1 .. n : i \in 1 .. n + 1
          OBVIOUS
    <3> QED BY <3>1, <3>2, <1>5
  <2>3. ASSUME NEW i \in 1 .. n + 1, NEW j \in 1 .. n + 1, i # j
        PROVE  history'[i] \cap history'[j] = {}
    <3>1. CASE i \in 1 .. n /\ j \in 1 .. n
          BY <3>1, <2>3, <1>5 DEF HistoryCarriesSent
    <3>2. CASE i = n + 1 \/ j = n + 1
          BY <3>2, <1>5
    <3> QED BY <2>3, <3>1, <3>2
  <2> QED BY <2>1, <2>2, <2>3, <1>5 DEF HistoryCarriesSent
<1>9. PoolWasShown' /\ StaleWereAsked'
      BY <1>1, <1>2 DEF PoolWasShown, StaleWereAsked, Issued, Retained, MaxStalled
<1>10. FuseCounts'
       BY <1>1, <1>2, <1>3, <1>6 DEF FuseCounts, Begun, MaxStalled
<1>11. CloseCounts'
  <2>1. seen.afterClose \in Nat /\ calcUsed \in BOOLEAN /\ wrapUp \in BOOLEAN
        BY DEF AgentTypeOK
  <2>2. CASE closed = "no"
        BY <1>1, <1>2, <1>3, <2>2 DEF CloseCounts, MaxStalled
  <2>3. CASE closed # "no" /\ wrapUp
        BY <1>1, <1>2, <1>3, <1>6, <2>1, <2>3 DEF CloseCounts, Begun, MaxStalled
  <2>4. CASE closed # "no" /\ ~wrapUp /\ (calcUsed \/ ~calcUsed')
        BY <1>1, <1>2, <1>3, <1>6, <2>1, <2>4 DEF CloseCounts, Begun, MaxStalled
  <2>5. CASE closed # "no" /\ ~wrapUp /\ ~calcUsed /\ calcUsed'
        BY <1>1, <1>2, <1>3, <1>6, <2>1, <2>5 DEF CloseCounts, Begun, MaxStalled
  <2> QED BY <2>2, <2>3, <2>4, <2>5
<1>12. RoundsWereFew'
       BY <1>2 DEF RoundsWereFew
<1>13. TokensCount'
  <2>1. tokens \in Nat /\ MaxTokens \in Nat
        BY AgentConstants DEF AgentTypeOK
  <2>2. CASE wrapUp
        BY <1>1, <1>2, <1>3, <1>4, <1>5, <1>6, <2>1, <2>2 DEF TokensCount
  <2>3. CASE ~wrapUp
        BY <1>1, <1>2, <1>4, <1>5, <1>6, <2>1, <2>3 DEF TokensCount, MaxStalled
  <2> QED BY <2>2, <2>3
<1> QED BY <1>7, <1>8, <1>9, <1>10, <1>11, <1>12, <1>13

(* The end of a round keeps the invariant.                                 *)
LEMMA FinishStep ==
  ASSUME AgentInv, FinishRound
  PROVE  AgentInv'
<1>1. PICK reply, listed :
        /\ \A k \in Asked : reply[k] \in Replies(k)
        /\ keyword' \subseteq keyword
        /\ Answered(reply) # {} => Absorb(reply)
        /\ Answered(reply) = {} => AbsorbNothing
        /\ calcUsed' = (calcUsed \/ /\ closed # "no"
                                    /\ \E c \in Worked(reply, listed) :
                                         c.tool = "calculate")
        /\ stalled' = IF Worked(reply, listed) # {} THEN 0 ELSE stalled + 1
      BY RoundEnds
<1>2. CASE Answered(reply) # {}
      BY <1>1, <1>2, AnsweredStep
<1>3. CASE Answered(reply) = {}
      BY <1>1, <1>3, QuietStep
<1> QED BY <1>2, <1>3

-----------------------------------------------------------------------------
(* Every step keeps the invariant.                                         *)
LEMMA AgentStep ==
  ASSUME AgentInv, AgentNext
  PROVE  AgentInv'
<1>1. ASSUME NEW cs \in {Range(made) : made \in [1 .. MaxCalls -> Requests]}, CallTools(cs)
      PROVE  AgentInv'
  <2>1. PICK made \in [1 .. MaxCalls -> Requests] : cs = Range(made)
        BY <1>1
  <2>2. cs \in SUBSET Requests
        BY <2>1 DEF Range
  <2> QED BY <1>1, <2>2, CallToolsStep
<1>2. ASSUME ModelFails \/ Deadline PROVE AgentInv'
      BY <1>2, DiscardStep DEF ModelFails, Deadline
<1> QED BY <1>1, <1>2, BeginStep, FinalAnswerStep, FinishStep DEF AgentNext, Respond

(* An attempt of the agent keeps its invariant, whatever the model and the *)
(* retrievers answer.                                                      *)
THEOREM AgentInvariant == AgentSpec => []AgentInv
<1>1. ASSUME AgentInv, UNCHANGED agentVars PROVE AgentInv'
      BY <1>1 DEF agentVars, fuses, pool, AgentInv, AgentTypeOK, HistoryCarriesSent, PoolWasShown,
                  Issued, Retained, StaleWereAsked, FuseCounts, CloseCounts, Begun, TokensCount,
                  RoundsWereFew
<1>2. AgentInv /\ [AgentNext]_agentVars => AgentInv'
      BY <1>1, AgentStep
<1> QED BY <1>2, AgentInitially, PTL DEF AgentSpec

(* What a search withholds as already provided stands in the history in    *)
(* full, whatever was compacted.                                           *)
THEOREM WithheldIsVisible == AgentSpec => []WithheldContentIsVisible
  BY AgentInvariant, AgentInvImplies, PTL

(* An answer cites what this attempt put before the model.                 *)
THEOREM CitedWasShown == AgentSpec => []CitationsWereShown
  BY AgentInvariant, AgentInvImplies, PTL

(* The search closes for want of evidence only when every base had its two *)
(* rounds.                                                                 *)
THEOREM NobodyIsShutOut == AgentSpec => []NoBaseIsShutOut
  BY AgentInvariant, AgentInvImplies, PTL

(* A closed search and a blown fuse leave few rounds, and a run whose      *)
(* responses cost tokens ends.                                             *)
THEOREM RoundsAreBounded == AgentSpec => []LastRoundsAreBounded
  BY AgentInvariant, AgentInvImplies, PTL

(* No step adds evidence once the search is closed, or reopens it.         *)
LEMMA ClosedPoolStep ==
  ASSUME AgentInv, AgentNext, closed # "no" \/ wrapUp, pc' # "failed"
  PROVE  evidence' = evidence /\ closed' = closed /\ (wrapUp' \/ ~wrapUp)
<1>1. CASE FinishRound
  <2>1. PICK reply : Answered(reply) = {} => AbsorbNothing
        BY <1>1, RoundEnds
  <2>2. Answered(reply) = {}
        BY ClosedOffersLittle DEF Answered
  <2> QED BY <1>1, <2>1, <2>2, RoundEnds DEF AbsorbNothing, AgentInv, AgentTypeOK
<1>2. CASE BeginRound
      BY <1>2 DEF BeginRound
<1>3. CASE Respond
      BY <1>3 DEF Respond, Answer, CallTools, ModelFails, Discard, fuses, pool
<1>4. CASE Deadline
      BY <1>4 DEF Deadline, Discard
<1> QED BY <1>1, <1>2, <1>3, <1>4 DEF AgentNext

(* The pool is final once the search is closed or the fuse has blown.      *)
THEOREM ClosedIsFinal == AgentSpec => ClosedPoolIsFinal
<1>1. AgentInv /\ [AgentNext]_agentVars =>
        [(closed # "no" \/ wrapUp) /\ pc' # "failed" =>
           /\ evidence' = evidence /\ closed' = closed
           /\ wrapUp' \/ ~wrapUp]_agentVars
      BY ClosedPoolStep
<1> QED BY <1>1, AgentInvariant, PTL DEF AgentSpec, ClosedPoolIsFinal

-----------------------------------------------------------------------------
(* What a case may result in, and what may be kept of it.                  *)
AnyAnswer == (UNION {AnswersOf[c] : c \in DOMAIN AspectsOf}) \union {Missing}
CaseResults ==
  [case : DOMAIN AspectsOf, status : {"completed", "failed", "not_run"}, answer : AnyAnswer]

(* Results belong to the cases asked, in their order.                      *)
ResultsFollow(results, asked) ==
  /\ results \in Seq(CaseResults) /\ Len(results) <= Len(asked)
  /\ \A i \in 1..Len(results) : results[i].case = asked[i]

(* A judgement of this packet by this model: what ReportIsFaithful says of *)
(* a completed case.                                                       *)
Said(j, n, x) ==
  \E k \in 1..Len(j.calls[n].shown) :
    /\ j.calls[n].shown[k] = AspectsOf[j.packet[1]][x]
    /\ j.calls[n].said[k] = j.views[x]
JudgesThis(j, packet, model) ==
  /\ j.packet = packet /\ j.model = model
  /\ \A n \in 1..Len(j.calls) : j.calls[n].packet = packet
  /\ Len(j.views) = Len(AspectsOf[packet[1]])
  /\ \A x \in 1..Len(j.views) :
       \/ Said(j, 1, x) /\ Said(j, 2, x)
       \/ Len(j.calls) = 3 /\ Said(j, 3, x)
JudgesResult(j, r, model) ==
  IF r.status = "completed" THEN JudgesThis(j, Packet(r), model) ELSE j = NotJudged

(* The calls of one case: the pair sees every aspect, the arbiter what the *)
(* pair disputes.                                                          *)
CallIsFor(c, r, shown) ==
  /\ c.packet = Packet(r) /\ c.shown = shown
  /\ c.said \in [1..Len(shown) -> Views]
CallsAreFor(heard, r) ==
  \A n \in 1..Len(heard) :
    CallIsFor(heard[n], r, IF n < 3 THEN AspectsOf[r.case]
                           ELSE Disputed(heard, AspectsOf[r.case]))

(* A list, whatever it lists.                                              *)
IsList(s) == s \in Seq({s[i] : i \in DOMAIN s})
(* Past the asking there is a result for every case, and a process that    *)
(* does not judge holds no judgement.                                      *)
EvalIsSound ==
  /\ eval.step \in {"none", "asking", "saving", "loading", "judging"}
  /\ eval = [step |-> eval.step, model |-> eval.model, asked |-> eval.asked,
             results |-> eval.results, judged |-> eval.judged,
             calls |-> eval.calls, tries |-> eval.tries]
  /\ eval.step # "none" =>
       /\ eval.asked \in {Benchmark, Preflight} /\ eval.model \in JudgeModels
       /\ ResultsFollow(eval.results, eval.asked)
       /\ IF eval.step = "asking" THEN Len(eval.results) < Len(eval.asked)
          ELSE Len(eval.results) = Len(eval.asked)
  /\ eval.step # "judging" => eval.judged = <<>> /\ eval.calls = <<>>

(* The cases judged so far are judged rightly, and the calls are those of  *)
(* the next one.                                                           *)
JudgingIsSound ==
  eval.step = "judging" =>
    /\ IsList(eval.judged)
    /\ Len(eval.judged) <= Len(eval.results)
    /\ \A i \in 1..Len(eval.judged) :
         JudgesResult(eval.judged[i], eval.results[i], eval.model)
    /\ IsList(eval.calls)
    /\ Len(eval.calls) <= 3
    /\ eval.calls # <<>> =>
         /\ Len(eval.judged) < Len(eval.results)
         /\ Case.status = "completed"
         /\ CallsAreFor(eval.calls, Case)

(* What earlier processes of this tool left can be relied on.              *)
FilesAreSound ==
  /\ checkpoint # Missing => checkpoint \in Seq(CaseResults)
  /\ \A j \in kept : j.current /\ j.model \in JudgeModels =>
       JudgesThis(j, j.packet, j.model)

(* The inductive invariant of the evaluation.                              *)
EvaluationInv == EvalIsSound /\ JudgingIsSound /\ FilesAreSound /\ ReportIsFaithful

-----------------------------------------------------------------------------
(* A list and what is appended to it.                                      *)
LEMMA Longer ==
  ASSUME NEW s, IsList(s), NEW e
  PROVE  /\ IsList(Append(s, e)) /\ Len(Append(s, e)) = Len(s) + 1
         /\ Append(s, e)[Len(s) + 1] = e
         /\ \A i \in 1..Len(s) : Append(s, e)[i] = s[i]
<1> DEFINE S == {s[i] : i \in DOMAIN s}
           t == Append(s, e)
<1>1. s \in Seq(S \union {e}) /\ s \in Seq(S) /\ Len(s) \in Nat
  <2>1. s \in Seq(S)
        BY DEF IsList
  <2> HIDE DEF S
  <2> QED BY <2>1
<1>2. /\ t \in Seq(S \union {e}) /\ Len(t) = Len(s) + 1 /\ DOMAIN t = 1..(Len(s) + 1)
      /\ t[Len(s) + 1] = e /\ \A i \in 1..Len(s) : t[i] = s[i]
  <2> HIDE DEF S
  <2> QED BY <1>1
<1>3. t \in Seq({t[i] : i \in DOMAIN t})
  <2> HIDE DEF t
  <2> QED BY <1>1, <1>2
<1> QED BY <1>2, <1>3 DEF IsList

(* What is picked from some places of s is what stands there: none is      *)
(* lost.                                                                   *)
LEMMA PickedHolds ==
  ASSUME NEW s, NEW n \in Nat, NEW places \in SUBSET (1..n), NEW i \in places
  PROVE  /\ Len(Picked(s, places)) = Cardinality(places)
         /\ \E k \in 1..Len(Picked(s, places)) : Picked(s, places)[k] = s[i]
<1> DEFINE UpTo(x) == {j \in places : j <= x}
<1>1. IsFiniteSet(places) /\ Cardinality(places) \in Nat
  <2>1. IsFiniteSet(1..n)
        BY FS_Interval
  <2>2. IsFiniteSet(places)
        BY <2>1, FS_Subset
  <2> QED BY <2>2, FS_CardinalityType
<1>2. \A x \in places : /\ IsFiniteSet(UpTo(x)) /\ UpTo(x) \in SUBSET places
                        /\ Cardinality(UpTo(x)) \in 1..Cardinality(places)
  <2> TAKE x \in places
  <2>1. UpTo(x) \in SUBSET places /\ x \in UpTo(x)
        OBVIOUS
  <2> HIDE DEF UpTo
  <2>2. /\ IsFiniteSet(UpTo(x)) /\ Cardinality(UpTo(x)) <= Cardinality(places)
        /\ Cardinality(UpTo(x)) \in Nat
        BY <1>1, <2>1, FS_Subset, FS_CardinalityType
  <2>3. Cardinality(UpTo(x)) # 0
        BY <2>1, <2>2, FS_EmptySet
  <2> QED BY <1>1, <2>1, <2>2, <2>3
<1>3. \A x, y \in places : x < y => Cardinality(UpTo(x)) # Cardinality(UpTo(y))
  <2> SUFFICES ASSUME NEW x \in places, NEW y \in places, x < y,
                      Cardinality(UpTo(x)) = Cardinality(UpTo(y))
               PROVE  FALSE
      OBVIOUS
  <2>1. UpTo(x) \in SUBSET UpTo(y) /\ y \in UpTo(y) /\ y \notin UpTo(x)
    <3>1. x \in 1..n /\ y \in 1..n
          OBVIOUS
    <3>2. \A j \in places : j \in 1..n /\ (j <= x => j <= y)
      <4> TAKE j \in places
      <4>1. j \in 1..n
            OBVIOUS
      <4> QED BY <3>1, <4>1
    <3>3. ~(y <= x) /\ y <= y
          BY <3>1
    <3> QED BY <3>2, <3>3
  <2>2. IsFiniteSet(UpTo(y))
        BY <1>2
  <2> HIDE DEF UpTo
  <2>3. UpTo(x) = UpTo(y)
        BY <2>1, <2>2, FS_Subset
  <2> QED BY <2>1, <2>3
<1> DEFINE k == Cardinality(UpTo(i))
<1>4. k \in 1..Cardinality(places)
      BY <1>2
<1>5. (CHOOSE x \in places : Cardinality(UpTo(x)) = k) = i
  <2>1. \A x \in places : Cardinality(UpTo(x)) = k => x = i
    <3> TAKE x \in places
    <3>1. x < i \/ i < x \/ x = i
          OBVIOUS
    <3> HIDE DEF UpTo
    <3> QED BY <1>3, <3>1
  <2> HIDE DEF UpTo
  <2> QED BY <2>1
<1>6. Picked(s, places)[k] = s[i]
  <2>1. Picked(s, places)[k] = s[CHOOSE x \in places : Cardinality(UpTo(x)) = k]
        BY <1>4, Zenon DEF Picked
  <2> QED BY <2>1, <1>5
<1>7. Len(Picked(s, places)) = Cardinality(places)
  <2> DEFINE c == Cardinality(places)
             at(x) == s[CHOOSE y \in places : Cardinality({j \in places : j <= y}) = x]
  <2>1. Picked(s, places) = [x \in 1..c |-> at(x)]
        BY Zenon DEF Picked
  <2>2. c \in Nat
        BY <1>1
  <2> HIDE DEF c, at
  <2>3. Len([x \in 1..c |-> at(x)]) = c
        BY <2>2
  <2> QED BY <2>1, <2>3 DEF c
<1> QED BY <1>4, <1>6, <1>7

(* Where an entry of a list is found.                                      *)
LEMMA Numbered ==
  ASSUME NEW s, NEW i \in 1..Len(s)
  PROVE  NumberOf(s, s[i]) \in 1..Len(s) /\ s[NumberOf(s, s[i])] = s[i]
BY DEF NumberOf

(* The two calls of the pair settle every aspect they agree on, the        *)
(* arbiter every other one.                                                *)
LEMMA DecidedIsRight ==
  ASSUME NEW r, r.case \in DOMAIN AspectsOf, NEW model, NEW heard,
         Len(heard) \in {2, 3}, CallsAreFor(heard, r),
         Len(heard) = 3 \/ Disputed(heard, AspectsOf[r.case]) = <<>>,
         NEW j, j = Judgement(Packet(r), model, heard)
  PROVE  JudgesThis(j, Packet(r), model)
<1> DEFINE aspects == AspectsOf[r.case]
           n == Len(aspects)
           shown == Disputed(heard, aspects)
           places == {i \in 1..n : ViewOf(heard[1], aspects[i]) # ViewOf(heard[2], aspects[i])}
           view(i) == IF aspects[i] \in Span(shown)
                      THEN ViewOf(heard[3], aspects[i]) ELSE ViewOf(heard[1], aspects[i])
<1>1. n \in Nat
      BY EvaluationAssumption DEF EvaluationAssumption
<1>2. /\ j.packet = Packet(r) /\ j.model = model /\ j.calls = heard
      /\ j.views = [i \in 1..n |-> view(i)] /\ Packet(r)[1] = r.case
      BY DEF Judgement, Settled, Packet
<1>3. Len(j.views) = n
  <2> HIDE DEF view, n
  <2> QED BY <1>1, <1>2
<1>4. /\ \A k \in 1..Len(heard) : heard[k].packet = Packet(r)
      /\ heard[1].shown = aspects /\ heard[2].shown = aspects
      /\ Len(heard) = 3 => heard[3].shown = shown
  <2> HIDE DEF aspects, shown
  <2>1. \A k \in 1..Len(heard) : CallIsFor(heard[k], r, IF k < 3 THEN aspects ELSE shown)
        BY DEF CallsAreFor, aspects, shown
  <2> QED BY <2>1 DEF CallIsFor
<1>5. \A i \in places : aspects[i] \in Span(shown)
  <2> TAKE i \in places
  <2>1. shown = Picked(aspects, places)
        BY Zenon DEF Disputed
  <2>2. \E k \in 1..Len(shown) : shown[k] = aspects[i]
    <3>1. places \in SUBSET (1..n)
          OBVIOUS
    <3> HIDE DEF places, aspects, n
    <3>2. /\ Len(Picked(aspects, places)) = Cardinality(places)
          /\ \E k \in 1..Len(Picked(aspects, places)) : Picked(aspects, places)[k] = aspects[i]
          BY <1>1, <3>1, PickedHolds
    <3> HIDE DEF shown
    <3> QED BY <2>1, <3>2
  <2> QED BY <2>2 DEF Span
<1>6. \A x \in 1..n : \/ Said(j, 1, x) /\ Said(j, 2, x)
                      \/ Len(heard) = 3 /\ Said(j, 3, x)
  <2> TAKE x \in 1..n
  <2>0. j.views[x] = view(x)
        BY <1>2
  <2>1. CASE aspects[x] \in Span(shown)
    <3>1. PICK k \in 1..Len(shown) : shown[k] = aspects[x]
          BY <2>1 DEF Span
    <3>2. Len(heard) = 3
          BY <3>1
    <3> HIDE DEF shown, aspects, n
    <3>3. /\ NumberOf(shown, aspects[x]) \in 1..Len(shown)
          /\ shown[NumberOf(shown, aspects[x])] = aspects[x]
          BY <3>1, Numbered
    <3>4. j.views[x] = heard[3].said[NumberOf(shown, aspects[x])]
          BY <1>4, <2>0, <2>1, <3>2 DEF ViewOf
    <3> QED BY <1>2, <1>4, <3>2, <3>3, <3>4 DEF Said, aspects
  <2>2. CASE aspects[x] \notin Span(shown)
    <3>1. ViewOf(heard[1], aspects[x]) = ViewOf(heard[2], aspects[x])
          BY <1>5, <2>2
    <3> HIDE DEF shown
    <3>3. /\ NumberOf(aspects, aspects[x]) \in 1..Len(aspects)
          /\ aspects[NumberOf(aspects, aspects[x])] = aspects[x]
          BY Numbered
    <3> HIDE DEF aspects
    <3>4. /\ j.views[x] = heard[1].said[NumberOf(aspects, aspects[x])]
          /\ j.views[x] = heard[2].said[NumberOf(aspects, aspects[x])]
          BY <1>4, <2>0, <2>2, <3>1 DEF ViewOf
    <3>5. AspectsOf[j.packet[1]][x] = aspects[x]
          BY <1>2 DEF aspects
    <3>6. j.calls[1].shown = aspects /\ j.calls[2].shown = aspects /\ j.calls = heard
          BY <1>2, <1>4
    <3>7. Said(j, 1, x)
          BY <3>3, <3>4, <3>5, <3>6 DEF Said
    <3>8. Said(j, 2, x)
          BY <3>3, <3>4, <3>5, <3>6 DEF Said
    <3> QED BY <3>7, <3>8
  <2> QED BY <2>1, <2>2
<1> HIDE DEF view, shown, places
<1> QED BY <1>2, <1>3, <1>4, <1>6 DEF JudgesThis

(* One more call keeps what the earlier ones were shown.                   *)
LEMMA OneMoreCall ==
  ASSUME NEW heard, IsList(heard), Len(heard) <= 2, NEW r, CallsAreFor(heard, r), NEW c,
         CallIsFor(c, r, IF Len(heard) < 2 THEN AspectsOf[r.case]
                         ELSE Disputed(heard, AspectsOf[r.case]))
  PROVE  CallsAreFor(Append(heard, c), r)
<1> DEFINE aspects == AspectsOf[r.case]
           more == Append(heard, c)
<1>1. Len(heard) \in Nat
      BY DEF IsList
<1>2. /\ Len(more) = Len(heard) + 1 /\ more[Len(heard) + 1] = c
      /\ \A i \in 1..Len(heard) : more[i] = heard[i]
      BY Longer
<1>3. ASSUME Len(heard) = 2 PROVE Disputed(more, aspects) = Disputed(heard, aspects)
  <2>1. more[1] = heard[1] /\ more[2] = heard[2]
        BY <1>2, <1>3
  <2> HIDE DEF more, aspects
  <2> QED BY <2>1, Zenon DEF Disputed
<1> SUFFICES ASSUME NEW n \in 1..Len(more)
             PROVE  CallIsFor(more[n], r, IF n < 3 THEN aspects ELSE Disputed(more, aspects))
    BY DEF CallsAreFor
<1> HIDE DEF more, aspects
<1>4. CASE n = Len(heard) + 1
  <2>1. more[n] = c
        BY <1>2, <1>4
  <2>2. CASE Len(heard) < 2
        BY <1>1, <1>4, <2>1, <2>2 DEF aspects
  <2>3. CASE Len(heard) = 2
    <3>1. CallIsFor(c, r, Disputed(heard, aspects))
          BY <2>3 DEF aspects
    <3>2. ~(n < 3)
          BY <1>4, <2>3
    <3> QED BY <1>3, <2>1, <2>3, <3>1, <3>2
  <2>4. Len(heard) < 2 \/ Len(heard) = 2
    <3>1. \A k \in Nat : k <= 2 => k < 2 \/ k = 2
          OBVIOUS
    <3> QED BY <1>1, <3>1
  <2> QED BY <2>2, <2>3, <2>4
<1>5. CASE n \in 1..Len(heard)
  <2>1. CallIsFor(heard[n], r, IF n < 3 THEN aspects ELSE Disputed(heard, aspects))
        BY <1>5 DEF CallsAreFor, aspects
  <2>2. n < 3
        BY <1>1, <1>5
  <2> QED BY <1>2, <1>5, <2>1, <2>2
<1> QED BY <1>1, <1>2, <1>4, <1>5

(* What is counted is counted of completed results only.                   *)
LEMMA CountsAgree ==
  ASSUME NEW results, results \in Seq(CaseResults), NEW judged, Len(judged) = Len(results),
         NEW model, \A i \in 1..Len(judged) : JudgesResult(judged[i], results[i], model)
  PROVE  /\ Summary(results, judged).strict <= Summary(results, judged).completed
         /\ Summary(results, judged).legacy <= Summary(results, judged).completed
         /\ Summary(results, judged).completed <= Summary(results, judged).attempted
<1> DEFINE n == Len(results)
           attempted == {i \in 1..n : results[i].status # "not_run"}
           completed == {i \in 1..n : results[i].status = "completed"}
           strict == {i \in 1..n : Strict(judged[i])}
           legacy == {i \in 1..n : LegacyStrict(results[i])}
<1>1. /\ Summary(results, judged).attempted = Cardinality(attempted)
      /\ Summary(results, judged).completed = Cardinality(completed)
      /\ Summary(results, judged).strict = Cardinality(strict)
      /\ Summary(results, judged).legacy = Cardinality(legacy)
      BY DEF Summary, Count
<1>2. /\ completed \in SUBSET attempted /\ strict \in SUBSET completed
      /\ legacy \in SUBSET completed /\ attempted \in SUBSET (1..n)
  <2>1. completed \in SUBSET attempted /\ attempted \in SUBSET (1..n)
        OBVIOUS
  <2>2. legacy \in SUBSET completed
        BY DEF LegacyStrict
  <2>3. \A i \in 1..n : Strict(judged[i]) => results[i].status = "completed"
    <3> TAKE i \in 1..n
    <3>1. ASSUME results[i].status # "completed" PROVE ~Strict(judged[i])
      <4>1. judged[i] = NotJudged
            BY <3>1 DEF JudgesResult
      <4> QED BY <4>1 DEF NotJudged, Strict
    <3> QED BY <3>1
  <2> QED BY <2>1, <2>2, <2>3
<1>3. IsFiniteSet(1..n)
      BY FS_Interval
<1> HIDE DEF attempted, completed, strict, legacy
<1>4. IsFiniteSet(attempted) /\ IsFiniteSet(completed)
      BY <1>2, <1>3, FS_Subset
<1> QED BY <1>1, <1>2, <1>4, FS_Subset

(* A process that starts knows its cases and a judge.                      *)
LEMMA StartStep ==
  ASSUME EvaluationInv, NEW model \in JudgeModels, Evaluate(model) \/ Rescore(model)
  PROVE  EvaluationInv'
<1> USE DEF EvaluationInv
<1>0. \A s \in {Benchmark, Preflight} : s \in Seq(DOMAIN AspectsOf) /\ Len(s) \in Nat \ {0}
      BY EvaluationAssumption DEF EvaluationAssumption
<1>1. ASSUME NEW asked \in {Benchmark, Preflight}, NEW results, NEW step,
             StartProcess(model, asked, results, step), ResultsFollow(results, asked),
             \/ step = "asking" /\ Len(results) < Len(asked)
             \/ step = "loading" /\ Len(results) = Len(asked)
      PROVE  EvaluationInv'
  <2>1. /\ eval' = [step |-> step, model |-> model, asked |-> asked, results |-> results,
                    judged |-> <<>>, calls |-> <<>>, tries |-> 0]
        /\ UNCHANGED <<checkpoint, kept, report>>
        BY <1>1 DEF StartProcess, NoEvaluation
  <2>2. EvalIsSound'
        BY <1>1, <2>1 DEF EvalIsSound
  <2>3. JudgingIsSound'
        BY <1>1, <2>1 DEF JudgingIsSound
  <2> QED BY <2>1, <2>2, <2>3 DEF FilesAreSound, ReportIsFaithful
<1>2. CASE Evaluate(model)
  <2>1. PICK asked \in {Benchmark, Preflight} : StartProcess(model, asked, <<>>, "asking")
        BY <1>2 DEF Evaluate
  <2>2. ResultsFollow(<<>>, asked) /\ Len(<<>>) < Len(asked)
        BY <1>0 DEF ResultsFollow
  <2> QED BY <1>1, <2>1, <2>2
<1>3. CASE Rescore(model)
  <2>1. /\ Loadable(checkpoint)
        /\ StartProcess(model, Benchmark, Restored(checkpoint), "loading")
        BY <1>3 DEF Rescore
  <2>2. checkpoint \in Seq(CaseResults)
        BY <2>1 DEF Loadable, FilesAreSound
  <2> DEFINE at(i) == CHOOSE r \in Span(checkpoint) : r.case = Benchmark[i]
  <2>3. \A i \in 1..Len(Benchmark) : at(i) \in CaseResults /\ at(i).case = Benchmark[i]
    <3> TAKE i \in 1..Len(Benchmark)
    <3>1. Benchmark[i] \in {r.case : r \in Span(checkpoint)}
          BY <2>1 DEF Loadable, Span
    <3>2. \E r \in Span(checkpoint) : r.case = Benchmark[i]
          BY <3>1
    <3>3. Span(checkpoint) \in SUBSET CaseResults
          BY <2>2 DEF Span
    <3> QED BY <3>2, <3>3
  <2>4. Restored(checkpoint) = [i \in 1..Len(Benchmark) |-> at(i)]
        BY DEF Restored
  <2> HIDE DEF at
  <2>5. /\ Restored(checkpoint) \in Seq(CaseResults) /\ Len(Restored(checkpoint)) = Len(Benchmark)
        /\ \A i \in 1..Len(Benchmark) : Restored(checkpoint)[i].case = Benchmark[i]
        BY <1>0, <2>3, <2>4
  <2>6. ResultsFollow(Restored(checkpoint), Benchmark)
        BY <1>0, <2>5 DEF ResultsFollow
  <2> QED BY <1>1, <2>1, <2>5, <2>6
<1> QED BY <1>2, <1>3

(* A report stands while nobody writes another.                            *)
LEMMA ReportStays ==
  ASSUME ReportIsFaithful, report' = report PROVE ReportIsFaithful'
BY DEF ReportIsFaithful

(* What lies in the files stays sound while nobody writes.                 *)
LEMMA FilesStay ==
  ASSUME FilesAreSound, ReportIsFaithful, UNCHANGED <<kept, report>>,
         checkpoint' = checkpoint
  PROVE  FilesAreSound' /\ ReportIsFaithful'
<1>1. FilesAreSound'
      BY DEF FilesAreSound
<1>2. ReportIsFaithful'
      BY ReportStays
<1> QED BY <1>1, <1>2

(* A case without an answer.                                               *)
LEMMA NoAnswer ==
  ASSUME NEW c \in DOMAIN AspectsOf, NEW status \in {"failed", "not_run"}
  PROVE  /\ Result(c, status, Missing) \in CaseResults
         /\ Result(c, status, Missing).case = c
<1>1. Missing \in AnyAnswer
      BY DEF AnyAnswer
<1>2. Result(c, status, Missing) = [case |-> c, status |-> status, answer |-> Missing]
      BY DEF Result
<1> QED BY <1>1, <1>2 DEF CaseResults

(* The next case is answered, or fails, alone or with all that follow.     *)
LEMMA AskStep ==
  ASSUME EvaluationInv, Ask PROVE EvaluationInv'
<1> USE DEF EvaluationInv
<1>0. /\ eval.step = "asking" /\ eval.asked \in {Benchmark, Preflight}
      /\ eval.asked \in Seq(DOMAIN AspectsOf) /\ Len(eval.asked) \in Nat
      /\ eval.results \in Seq(CaseResults) /\ Len(eval.results) < Len(eval.asked)
      /\ \A i \in 1..Len(eval.results) : eval.results[i].case = eval.asked[i]
      /\ eval.judged = <<>> /\ eval.calls = <<>> /\ eval.model \in JudgeModels
      BY EvaluationAssumption DEF EvaluationAssumption, Ask, EvalIsSound, ResultsFollow
<1>1. ASSUME NEW results, Received(results), ResultsFollow(results, eval.asked)
      PROVE  EvaluationInv'
  <2>1. PICK step : /\ step = IF Len(results) = Len(eval.asked) THEN "saving" ELSE "asking"
                    /\ eval' = [step |-> step, model |-> eval.model, asked |-> eval.asked,
                                results |-> results, judged |-> eval.judged,
                                calls |-> eval.calls, tries |-> eval.tries]
    <3>1. eval = [step |-> eval.step, model |-> eval.model, asked |-> eval.asked,
                  results |-> eval.results, judged |-> eval.judged,
                  calls |-> eval.calls, tries |-> eval.tries]
          BY DEF EvalIsSound
    <3>2. PICK step : step = IF Len(results) = Len(eval.asked) THEN "saving" ELSE eval.step
          OBVIOUS
    <3>3. eval' = [eval EXCEPT !.results = results, !.step = step]
          BY <1>1, <3>2 DEF Received
    <3> QED BY <1>0, <3>1, <3>2, <3>3
  <2>2. Len(results) \in Nat /\ Len(results) <= Len(eval.asked)
        BY <1>1 DEF ResultsFollow
  <2>3. EvalIsSound'
    <3>1. /\ eval'.step = step /\ eval'.model = eval.model /\ eval'.asked = eval.asked
          /\ eval'.results = results /\ eval'.judged = <<>> /\ eval'.calls = <<>>
          BY <1>0, <2>1
    <3> QED BY <1>0, <1>1, <2>1, <2>2, <3>1 DEF EvalIsSound
  <2>4. JudgingIsSound'
        BY <2>1 DEF JudgingIsSound
  <2> QED BY <2>3, <2>4, FilesStay DEF Ask
<1> DEFINE n == Len(eval.results)
<1>2. NextCase = eval.asked[n + 1] /\ NextCase \in DOMAIN AspectsOf
      BY <1>0 DEF NextCase
<1>3. \A answer \in AnswersOf[NextCase] : Result(NextCase, "completed", answer) \in CaseResults
      BY <1>2 DEF Result, CaseResults, AnyAnswer
<1>4. Unanswered \in CaseResults /\ Unanswered.case = NextCase
      BY <1>2, NoAnswer DEF Unanswered
<1>5. ASSUME NEW r \in CaseResults, r.case = NextCase
      PROVE  ResultsFollow(Append(eval.results, r), eval.asked)
      BY <1>0, <1>2, <1>5 DEF ResultsFollow
<1>6. CASE \E answer \in AnswersOf[NextCase] :
             Received(Append(eval.results, Result(NextCase, "completed", answer)))
  <2>1. PICK answer \in AnswersOf[NextCase] :
          Received(Append(eval.results, Result(NextCase, "completed", answer)))
        BY <1>6
  <2>2. Result(NextCase, "completed", answer).case = NextCase
        BY DEF Result
  <2> QED BY <1>1, <1>3, <1>5, <2>1, <2>2
<1>7. CASE Received(Append(eval.results, Unanswered))
      BY <1>1, <1>4, <1>5, <1>7
<1> DEFINE at(i) == IF i <= n THEN eval.results[i]
                    ELSE IF i = n + 1 THEN Unanswered
                    ELSE Result(eval.asked[i], "not_run", Missing)
<1>8. CASE Received([i \in 1..Len(eval.asked) |-> at(i)])
  <2>1. \A i \in 1..Len(eval.asked) : at(i) \in CaseResults /\ at(i).case = eval.asked[i]
    <3> TAKE i \in 1..Len(eval.asked)
    <3>1. eval.asked[i] \in DOMAIN AspectsOf
          BY <1>0
    <3>2. CASE i <= n
          BY <1>0, <3>2
    <3>3. CASE i = n + 1
          BY <1>0, <1>2, <1>4, <3>3
    <3>4. CASE ~(i <= n) /\ i # n + 1
          BY <3>1, <3>4, NoAnswer
    <3> QED BY <3>2, <3>3, <3>4
  <2> HIDE DEF at
  <2>2. ResultsFollow([i \in 1..Len(eval.asked) |-> at(i)], eval.asked)
        BY <1>0, <2>1 DEF ResultsFollow
  <2> QED BY <1>1, <1>8, <2>2
<1> QED BY <1>6, <1>7, <1>8 DEF Ask

(* Whatever ends the process.                                              *)
LEMMA StopStep ==
  ASSUME EvaluationInv, Stop, UNCHANGED <<checkpoint, kept, report>> PROVE EvaluationInv'
<1> USE DEF EvaluationInv
<1>1. EvalIsSound' /\ JudgingIsSound'
      BY DEF Stop, NoEvaluation, EvalIsSound, JudgingIsSound
<1> QED BY <1>1, FilesStay

(* The answers are saved, the judge is loaded.                             *)
LEMMA SaveStep ==
  ASSUME EvaluationInv, SaveAnswers \/ LoadJudge PROVE EvaluationInv'
<1> USE DEF EvaluationInv
<1>1. /\ eval.step \in {"saving", "loading"}
      /\ eval' = [step |-> IF eval.step = "saving" THEN "loading" ELSE "judging",
                  model |-> eval.model, asked |-> eval.asked,
                  results |-> eval.results, judged |-> eval.judged,
                  calls |-> eval.calls, tries |-> eval.tries]
      BY DEF SaveAnswers, LoadJudge, EvalIsSound
<1>2. EvalIsSound'
      BY <1>1 DEF EvalIsSound
<1>3. JudgingIsSound'
  <2>1. eval'.judged = <<>> /\ eval'.calls = <<>> /\ eval'.results = eval.results
        BY <1>1 DEF EvalIsSound
  <2>2. IsList(<<>>)
        BY DEF IsList
  <2>3. Len(eval.results) \in Nat
        BY <1>1 DEF EvalIsSound, ResultsFollow
  <2> QED BY <2>1, <2>2, <2>3 DEF JudgingIsSound
<1>4. FilesAreSound' /\ ReportIsFaithful'
  <2>1. UNCHANGED <<kept, report>>
        BY DEF SaveAnswers, LoadJudge
  <2>2. checkpoint' \in {checkpoint, eval.results}
        BY DEF SaveAnswers, LoadJudge
  <2>3. eval.results \in Seq(CaseResults)
        BY <1>1 DEF EvalIsSound, ResultsFollow
  <2> QED BY <2>1, <2>2, <2>3 DEF FilesAreSound, ReportIsFaithful
<1> QED BY <1>2, <1>3, <1>4

(* A case is judged rightly, or the judge says nothing.                    *)
LEMMA JudgedStep ==
  ASSUME EvaluationInv, eval.step = "judging", Len(eval.judged) < Len(eval.results),
         NEW j, JudgesResult(j, Case, eval.model), Judge(j)
  PROVE  EvalIsSound' /\ JudgingIsSound'
<1> USE DEF EvaluationInv
<1>1. eval' = [step |-> eval.step, model |-> eval.model, asked |-> eval.asked,
               results |-> eval.results, judged |-> Append(eval.judged, j),
               calls |-> <<>>, tries |-> 0]
  <2>1. eval = [step |-> eval.step, model |-> eval.model, asked |-> eval.asked,
                results |-> eval.results, judged |-> eval.judged,
                calls |-> eval.calls, tries |-> eval.tries]
        BY DEF EvalIsSound
  <2>2. PICK judged : judged = Append(eval.judged, j)
        OBVIOUS
  <2>3. eval' = [eval EXCEPT !.judged = judged, !.calls = <<>>, !.tries = 0]
        BY <2>2 DEF Judge
  <2> QED BY <2>1, <2>2, <2>3
<1>2. EvalIsSound'
      BY <1>1 DEF EvalIsSound
<1>3. JudgingIsSound'
  <2>1. /\ IsList(eval.judged) /\ Len(eval.results) \in Nat
        /\ \A i \in 1..Len(eval.judged) :
             JudgesResult(eval.judged[i], eval.results[i], eval.model)
        BY DEF JudgingIsSound, EvalIsSound, ResultsFollow
  <2>2. PICK more : more = Append(eval.judged, j)
        OBVIOUS
  <2>3. /\ IsList(more) /\ Len(more) = Len(eval.judged) + 1 /\ more[Len(eval.judged) + 1] = j
        /\ \A i \in 1..Len(eval.judged) : more[i] = eval.judged[i]
        BY <2>1, <2>2, Longer
  <2>4. Len(eval.judged) \in Nat
        BY <2>1 DEF IsList
  <2>5. \A i \in 1..Len(more) : JudgesResult(more[i], eval.results[i], eval.model)
    <3> TAKE i \in 1..Len(more)
    <3>1. CASE i = Len(eval.judged) + 1
          BY <2>3, <3>1 DEF Case
    <3>2. CASE i \in 1..Len(eval.judged)
          BY <2>1, <2>3, <3>2
    <3> QED BY <2>3, <2>4, <3>1, <3>2
  <2>6. IsList(<<>>) /\ Len(<<>>) <= 3
        BY DEF IsList
  <2>7. /\ eval'.judged = more /\ eval'.calls = <<>> /\ eval'.results = eval.results
        /\ eval'.model = eval.model
        BY <1>1, <2>2
  <2>8. Len(more) <= Len(eval.results)
        BY <2>1, <2>3, <2>4
  <2> QED BY <2>3, <2>5, <2>6, <2>7, <2>8 DEF JudgingIsSound
<1> QED BY <1>2, <1>3

(* A case is not judged, was judged before, or is decided by its calls.    *)
LEMMA KnownStep ==
  ASSUME EvaluationInv, SkipJudging \/ TakeKept \/ KeepJudgement PROVE EvaluationInv'
<1> USE DEF EvaluationInv
<1>0. /\ eval.step = "judging" /\ Len(eval.judged) < Len(eval.results)
      /\ Len(eval.judged) \in Nat /\ Case \in CaseResults /\ Case.case \in DOMAIN AspectsOf
      /\ eval.model \in JudgeModels /\ UNCHANGED <<checkpoint, report>>
  <2>1. /\ eval.step = "judging" /\ Len(eval.judged) < Len(eval.results)
        /\ UNCHANGED <<checkpoint, report>>
        BY DEF SkipJudging, TakeKept, KeepJudgement, Unknown, Judging
  <2>2. Len(eval.judged) \in Nat
        BY <2>1 DEF JudgingIsSound, IsList
  <2>3. Case \in CaseResults
        BY <2>1, <2>2 DEF Case, EvalIsSound, ResultsFollow
  <2> QED BY <2>1, <2>2, <2>3 DEF CaseResults, EvalIsSound
<1>1. CASE SkipJudging
  <2>1. JudgesResult(NotJudged, Case, eval.model) /\ Judge(NotJudged)
        BY <1>1 DEF SkipJudging, Judging, JudgesResult
  <2>2. EvalIsSound' /\ JudgingIsSound'
        BY <1>0, <2>1, JudgedStep
  <2> QED BY <1>0, <1>1, <2>2, FilesStay DEF SkipJudging
<1>2. CASE TakeKept
  <2>1. PICK j \in Known(Packet(Case), eval.model) : Judge(j)
        BY <1>2 DEF TakeKept
  <2>2. JudgesThis(j, Packet(Case), eval.model)
        BY <1>0, <2>1 DEF Known, FileOf, FilesAreSound
  <2>3. JudgesResult(j, Case, eval.model)
        BY <1>2, <2>2 DEF TakeKept, Judging, JudgesResult
  <2>4. EvalIsSound' /\ JudgingIsSound'
        BY <1>0, <2>1, <2>3, JudgedStep
  <2> QED BY <1>0, <1>2, <2>4, FilesStay DEF TakeKept
<1>3. CASE KeepJudgement
  <2>1. PICK j : /\ j = Judgement(Packet(Case), eval.model, eval.calls)
                 /\ kept' = (kept \ FileOf(j.packet, j.model)) \union {j} /\ Judge(j)
        BY <1>3, Zenon DEF KeepJudgement
  <2>2. Case.status = "completed" /\ Decided
        BY <1>3 DEF KeepJudgement, Unknown, Judging
  <2>3. /\ Len(eval.calls) \in {2, 3} /\ CallsAreFor(eval.calls, Case)
        /\ Len(eval.calls) = 3 \/ Disputed(eval.calls, AspectsOf[Case.case]) = <<>>
    <3>1. /\ Len(eval.calls) \in {2, 3}
          /\ Len(eval.calls) = 3 \/ Disputed(eval.calls, AspectsOf[Case.case]) = <<>>
          BY <2>2 DEF Decided, ShownNext
    <3>2. eval.calls # <<>>
          BY <3>1
    <3> QED BY <1>0, <3>1, <3>2 DEF JudgingIsSound
  <2>4. JudgesThis(j, Packet(Case), eval.model)
        BY <1>0, <2>1, <2>3, DecidedIsRight
  <2>5. EvalIsSound' /\ JudgingIsSound'
    <3>1. JudgesResult(j, Case, eval.model)
          BY <2>2, <2>4 DEF JudgesResult
    <3> QED BY <1>0, <2>1, <3>1, JudgedStep
  <2>6. FilesAreSound'
    <3>1. JudgesThis(j, j.packet, j.model)
          BY <2>4 DEF JudgesThis
    <3> QED BY <1>0, <2>1, <3>1 DEF FilesAreSound
  <2>7. ReportIsFaithful'
        BY <1>0, ReportStays
  <2> QED BY <2>5, <2>6, <2>7
<1> QED BY <1>1, <1>2, <1>3

(* A judge replies or fails.                                               *)
LEMMA CallStep ==
  ASSUME EvaluationInv, JudgeReplies \/ JudgeFails PROVE EvaluationInv'
<1> USE DEF EvaluationInv
<1>0. /\ eval.step = "judging" /\ Len(eval.judged) < Len(eval.results)
      /\ Case.status = "completed" /\ ~Decided /\ UNCHANGED <<checkpoint, kept, report>>
      /\ IsList(eval.calls) /\ Len(eval.calls) <= 2 /\ CallsAreFor(eval.calls, Case)
  <2>1. /\ eval.step = "judging" /\ Len(eval.judged) < Len(eval.results)
        /\ Case.status = "completed" /\ ~Decided /\ UNCHANGED <<checkpoint, kept, report>>
        BY DEF JudgeReplies, JudgeFails, Unknown, Judging
  <2>2. IsList(eval.calls) /\ Len(eval.calls) <= 3 /\ Len(eval.calls) \in Nat
        BY <2>1 DEF JudgingIsSound, IsList
  <2>3. eval.calls # <<>> => CallsAreFor(eval.calls, Case)
        BY <2>1 DEF JudgingIsSound
  <2>4. eval.calls = <<>> => CallsAreFor(eval.calls, Case)
        BY DEF CallsAreFor
  <2>5. Len(eval.calls) # 3
        BY <2>1 DEF Decided
  <2>6. Len(eval.calls) <= 2
    <3>1. \A k \in Nat : k <= 3 /\ k # 3 => k <= 2
          OBVIOUS
    <3> QED BY <2>2, <2>5, <3>1
  <2>7. CallsAreFor(eval.calls, Case)
        BY <2>3, <2>4
  <2> QED BY <2>1, <2>2, <2>6, <2>7
<1>1. eval = [step |-> eval.step, model |-> eval.model, asked |-> eval.asked,
              results |-> eval.results, judged |-> eval.judged,
              calls |-> eval.calls, tries |-> eval.tries]
      BY DEF EvalIsSound
<1>2. CASE JudgeReplies
  <2>1. PICK said \in [1..Len(ShownNext) -> Views] :
          eval' = [eval EXCEPT !.calls = Append(@, Call(Packet(Case), ShownNext, said)),
                               !.tries = 0]
        BY <1>2, Zenon DEF JudgeReplies
  <2>2. PICK more : more = Append(eval.calls, Call(Packet(Case), ShownNext, said))
        OBVIOUS
  <2>3. eval' = [step |-> eval.step, model |-> eval.model, asked |-> eval.asked,
                 results |-> eval.results, judged |-> eval.judged,
                 calls |-> more, tries |-> 0]
    <3>1. eval' = [eval EXCEPT !.calls = more, !.tries = 0]
          BY <2>1, <2>2
    <3> QED BY <1>1, <3>1
  <2>4. IsList(more) /\ Len(more) <= 3
    <3>1. Len(eval.calls) \in Nat
          BY <1>0 DEF IsList
    <3> QED BY <1>0, <2>2, <3>1, Longer
  <2>5. CallsAreFor(more, Case)
    <3>1. ShownNext = IF Len(eval.calls) < 2 THEN AspectsOf[Case.case]
                      ELSE Disputed(eval.calls, AspectsOf[Case.case])
          BY DEF ShownNext
    <3>2. CallIsFor(Call(Packet(Case), ShownNext, said), Case, ShownNext)
          BY DEF Call, CallIsFor
    <3> QED BY <1>0, <2>2, <3>1, <3>2, OneMoreCall
  <2>6. /\ eval'.step = eval.step /\ eval'.calls = more /\ eval'.judged = eval.judged
        /\ eval'.results = eval.results /\ eval'.model = eval.model /\ Case' = Case
        /\ eval'.asked = eval.asked
        BY <2>3 DEF Case
  <2>7. EvalIsSound'
        BY <1>0, <2>3 DEF EvalIsSound
  <2>8. JudgingIsSound'
        BY <1>0, <2>4, <2>5, <2>6 DEF JudgingIsSound
  <2> QED BY <1>0, <2>7, <2>8 DEF FilesAreSound, ReportIsFaithful
<1>3. CASE JudgeFails /\ ~Stop
  <2>1. eval' = [step |-> eval.step, model |-> eval.model, asked |-> eval.asked,
                 results |-> eval.results, judged |-> eval.judged,
                 calls |-> eval.calls, tries |-> eval.tries + 1]
    <3>1. eval' = [eval EXCEPT !.tries = @ + 1]
          BY <1>3 DEF JudgeFails
    <3> QED BY <1>1, <3>1
  <2>2. EvalIsSound' /\ JudgingIsSound'
        BY <2>1 DEF EvalIsSound, JudgingIsSound, Case
  <2> QED BY <1>0, <2>2 DEF FilesAreSound, ReportIsFaithful
<1>4. CASE Stop
      BY <1>0, <1>4, StopStep
<1> QED BY <1>2, <1>3, <1>4

(* The report says what was judged.                                        *)
LEMMA ReportStep ==
  ASSUME EvaluationInv, WriteReport PROVE EvaluationInv'
<1> USE DEF EvaluationInv
<1>1. /\ eval.step = "judging" /\ Len(eval.judged) = Len(eval.results) /\ Stop
      /\ report' = [asked |-> eval.asked, model |-> eval.model,
                    results |-> eval.results, judged |-> eval.judged,
                    summary |-> Summary(eval.results, eval.judged)]
      /\ UNCHANGED <<checkpoint, kept>>
      BY DEF WriteReport, Stop
<1>2. PICK summary : summary = Summary(eval.results, eval.judged)
      OBVIOUS
<1>3. /\ report'.asked = eval.asked /\ report'.model = eval.model
      /\ report'.results = eval.results /\ report'.judged = eval.judged
      /\ report'.summary = summary
      BY <1>1, <1>2
<1>4. /\ eval.results \in Seq(CaseResults) /\ eval.asked \in Seq(DOMAIN AspectsOf)
      /\ Len(eval.results) = Len(eval.asked)
      /\ \A i \in 1..Len(eval.results) : eval.results[i].case = eval.asked[i]
      BY <1>1, EvaluationAssumption DEF EvaluationAssumption, EvalIsSound, ResultsFollow
<1>5. \A i \in 1..Len(eval.judged) : JudgesResult(eval.judged[i], eval.results[i], eval.model)
      BY <1>1 DEF JudgingIsSound
<1>6. /\ summary.strict <= summary.completed /\ summary.legacy <= summary.completed
      /\ summary.completed <= summary.attempted
      BY <1>1, <1>2, <1>4, <1>5, CountsAgree
<1>7. [i \in 1..Len(report'.results) |-> report'.results[i].case] = report'.asked
      BY <1>3, <1>4
<1>8. ReportIsFaithful'
  <2>1. ASSUME NEW i \in 1..Len(report'.judged)
        PROVE  LET r == report'.results[i]
                   j == report'.judged[i]
                   SaidOf(n, x) == \E k \in 1..Len(j.calls[n].shown) :
                                   /\ j.calls[n].shown[k] = AspectsOf[r.case][x]
                                   /\ j.calls[n].said[k] = j.views[x]
               IN IF r.status # "completed" THEN j = NotJudged
                  ELSE /\ j.model = report'.model
                       /\ \A n \in 1..Len(j.calls) : j.calls[n].packet = Packet(r)
                       /\ Len(j.views) = Len(AspectsOf[r.case])
                       /\ \A x \in 1..Len(j.views) :
                            \/ SaidOf(1, x) /\ SaidOf(2, x)
                            \/ Len(j.calls) = 3 /\ SaidOf(3, x)
    <3>1. PICK r, j : r = report'.results[i] /\ j = report'.judged[i]
          OBVIOUS
    <3>2. JudgesResult(j, r, report'.model)
          BY <1>3, <1>5, <3>1
    <3>3. CASE r.status # "completed"
          BY <3>1, <3>2, <3>3 DEF JudgesResult
    <3>4. CASE r.status = "completed"
      <4>1. JudgesThis(j, Packet(r), report'.model) /\ Packet(r)[1] = r.case
            BY <3>2, <3>4 DEF JudgesResult, Packet
      <4>2. /\ j.model = report'.model
            /\ \A n \in 1..Len(j.calls) : j.calls[n].packet = Packet(r)
            /\ Len(j.views) = Len(AspectsOf[r.case])
            /\ \A x \in 1..Len(j.views) :
                 \/ Said(j, 1, x) /\ Said(j, 2, x)
                 \/ Len(j.calls) = 3 /\ Said(j, 3, x)
            BY <4>1, Zenon DEF JudgesThis
      <4>3. ASSUME NEW n, NEW x, Said(j, n, x)
            PROVE  \E k \in 1..Len(j.calls[n].shown) :
                      /\ j.calls[n].shown[k] = AspectsOf[r.case][x]
                      /\ j.calls[n].said[k] = j.views[x]
        <5>1. j.packet[1] = r.case
              BY <4>1 DEF JudgesThis
        <5> QED BY <4>3, <5>1, Zenon DEF Said
      <4>4. \A x \in 1..Len(j.views) :
              \/ /\ \E k \in 1..Len(j.calls[1].shown) :
                      /\ j.calls[1].shown[k] = AspectsOf[r.case][x]
                      /\ j.calls[1].said[k] = j.views[x]
                 /\ \E k \in 1..Len(j.calls[2].shown) :
                      /\ j.calls[2].shown[k] = AspectsOf[r.case][x]
                      /\ j.calls[2].said[k] = j.views[x]
              \/ /\ Len(j.calls) = 3
                 /\ \E k \in 1..Len(j.calls[3].shown) :
                      /\ j.calls[3].shown[k] = AspectsOf[r.case][x]
                      /\ j.calls[3].said[k] = j.views[x]
        <5> TAKE x \in 1..Len(j.views)
        <5>1. CASE Said(j, 1, x) /\ Said(j, 2, x)
          <6>1. Said(j, 1, x) /\ Said(j, 2, x)
                BY <5>1
          <6>2. \E k \in 1..Len(j.calls[1].shown) :
                   /\ j.calls[1].shown[k] = AspectsOf[r.case][x]
                   /\ j.calls[1].said[k] = j.views[x]
                BY <4>3, <6>1
          <6>3. \E k \in 1..Len(j.calls[2].shown) :
                   /\ j.calls[2].shown[k] = AspectsOf[r.case][x]
                   /\ j.calls[2].said[k] = j.views[x]
                BY <4>3, <6>1
          <6> QED BY <6>2, <6>3
        <5>2. CASE Len(j.calls) = 3 /\ Said(j, 3, x)
          <6>1. Said(j, 3, x)
                BY <5>2
          <6>2. \E k \in 1..Len(j.calls[3].shown) :
                   /\ j.calls[3].shown[k] = AspectsOf[r.case][x]
                   /\ j.calls[3].said[k] = j.views[x]
                BY <4>3, <6>1
          <6> QED BY <5>2, <6>2
        <5> QED BY <4>2, <5>1, <5>2
      <4> QED BY <3>1, <3>4, <4>2, <4>4
    <3> QED BY <3>3, <3>4
  <2> QED BY <1>1, <1>3, <1>6, <1>7, <2>1, Zenon DEF ReportIsFaithful, IsFaithful
<1>9. EvalIsSound' /\ JudgingIsSound'
      BY <1>1 DEF Stop, NoEvaluation, EvalIsSound, JudgingIsSound
<1>10. FilesAreSound'
      BY <1>1 DEF FilesAreSound
<1> QED BY <1>8, <1>9, <1>10

(* The invariant of the evaluation, and with it ReportIsFaithful: for any  *)
(* cases, answers, models and views, and any number of processes.          *)
THEOREM ReportsAreFaithful == EvaluationSpec => []ReportIsFaithful
<1>1. EvaluationInit => EvaluationInv
  <2> SUFFICES ASSUME EvaluationInit PROVE EvaluationInv
      OBVIOUS
  <2>1. EvalIsSound /\ JudgingIsSound /\ ReportIsFaithful
        BY DEF EvaluationInit, NoEvaluation, EvalIsSound, JudgingIsSound, ReportIsFaithful
  <2>2. \A j \in kept : ~(j.current /\ j.model \in JudgeModels)
        BY EvaluationAssumption DEF EvaluationAssumption, EvaluationInit, Leftovers, Leftover
  <2> QED BY <2>1, <2>2 DEF EvaluationInit, FilesAreSound, EvaluationInv
<1>2. EvaluationInv /\ [EvaluationNext]_evalVars => EvaluationInv'
  <2> SUFFICES ASSUME EvaluationInv, [EvaluationNext]_evalVars PROVE EvaluationInv'
      OBVIOUS
  <2>1. CASE UNCHANGED evalVars
    <3>1. UNCHANGED <<eval, checkpoint, kept, report>>
          BY <2>1 DEF evalVars
    <3> QED BY <3>1 DEF EvaluationInv, EvalIsSound, JudgingIsSound, FilesAreSound,
                        ReportIsFaithful, Case
  <2>2. CASE JudgeUnavailable \/ Crash
        BY <2>2, StopStep DEF JudgeUnavailable, Crash
  <2> QED BY <2>1, <2>2, StartStep, AskStep, SaveStep, KnownStep, CallStep, ReportStep
          DEF EvaluationNext
<1>3. EvaluationInv => ReportIsFaithful
      BY DEF EvaluationInv
<1> QED BY <1>1, <1>2, <1>3, PTL DEF EvaluationSpec

-----------------------------------------------------------------------------
(* The state of a run's live progress.                                     *)
Records   == [events : Seq(Nat), kept : SUBSET Nat, stage : Nat]
Notes     == [kind : {"step", "stage"}, attempt : Nth, step : Nat, seq : Nat, stage : Nat]
Sinks     == [queue : Seq(Notes), sent : Nat]
Wires     == [late : SUBSET Notes, open : BOOLEAN, events : Seq(Notes)]
StepMaps  == UNION {[D -> Nat] : D \in {S \in SUBSET Nat : IsFiniteSet(S)}}
Timelines == [steps : StepMaps, last : Nat, incomplete : BOOLEAN, omitted : Nat]
Pages     == [phase : {"away", "live", "polling", "settled"}, asked : Nat, live : [Nth -> Timelines],
              progress : [attempt : Nat, seq : Nat, stage : Nat]]

StreamTypeOK ==
  /\ attempts \in 0 .. MaxAttempts
  /\ record \in [Nth -> Records]
  /\ sink \in [Nth -> Sinks]
  /\ wire \in Wires
  /\ page \in Pages

(* The steps of the first n events.                                        *)
First(events, n) == {events[i] : i \in 1 .. n}

(* A step is updated only while it is kept, and what is kept is among the  *)
(* newest; a new one is numbered after all before it.                      *)
Recording(events, held) ==
  LET all == First(events, Len(events))
  IN  /\ held \subseteq Newest(all, Kept)
      /\ \A s \in held : \A t \in all : t > s => t \in held
      /\ all \subseteq 1 .. Cardinality(all)
      /\ \A n \in 0 .. Len(events) - 1 :
           \/ events[n + 1] \in Newest(First(events, n), Kept)
           \/ \A t \in First(events, n) : events[n + 1] > t

RecordOK(r) == Recording(r.events, r.kept)

(* What is on its way was recorded, and has its place in the order.        *)
Genuine(rec, e) ==
  IF e.kind = "step"
  THEN /\ e.seq \in 1 .. Len(rec[e.attempt].events)
       /\ rec[e.attempt].events[e.seq] = e.step
       /\ e.stage = 0
  ELSE e.stage \in 1 .. rec[e.attempt].stage

Rank(e) == IF e.kind = "step" THEN e.seq ELSE e.stage

QueuesOK(rec, sk) ==
  \A a \in Nth :
    /\ \A i \in 1 .. Len(sk[a].queue) :
         sk[a].queue[i].attempt = a /\ Genuine(rec, sk[a].queue[i])
    /\ \A i, j \in 1 .. Len(sk[a].queue) :
         i < j /\ sk[a].queue[i].kind = sk[a].queue[j].kind
           => Rank(sk[a].queue[i]) < Rank(sk[a].queue[j])

Flown(w) == w.late \cup {w.events[i] : i \in 1 .. Len(w.events)}

FlownOK(rec, sk, w) ==
  \A e \in Flown(w) :
    /\ Genuine(rec, e)
    /\ e.kind = "stage" => e.seq <= sk[e.attempt].sent
    /\ \A i \in 1 .. Len(sk[e.attempt].queue) :
         sk[e.attempt].queue[i].kind = e.kind => Rank(e) < Rank(sk[e.attempt].queue[i])

OrderOK(w) ==
  \A e, f \in Flown(w) :
    e.kind = "stage" /\ f.kind = "stage" /\ e.attempt = f.attempt /\ e.seq < f.seq
      => e.stage < f.stage

SameStep(e, f) ==
  e.kind = "step" /\ f.kind = "step" /\ e.attempt = f.attempt /\ e.seq = f.seq

OnceOK(w) ==
  /\ \A i, j \in 1 .. Len(w.events) : i < j => ~SameStep(w.events[i], w.events[j])
  /\ \A e \in w.late : \A i \in 1 .. Len(w.events) : ~SameStep(e, w.events[i])

(* Nothing recorded is forgotten; a queue has one more, or one fewer.      *)
RecordedMore(rec2, rec) ==
  \A a \in Nth :
    /\ Len(rec[a].events) <= Len(rec2[a].events)
    /\ \A i \in 1 .. Len(rec[a].events) : rec2[a].events[i] = rec[a].events[i]
    /\ rec[a].stage <= rec2[a].stage

Queued(sk2, sk, item) ==
  \A b \in Nth :
    /\ sk2[b].sent = sk[b].sent
    /\ \A i \in 1 .. Len(sk2[b].queue) :
         \/ i <= Len(sk[b].queue) /\ sk2[b].queue[i] = sk[b].queue[i]
         \/ i = Len(sk[b].queue) + 1 /\ sk2[b].queue[i] = item /\ b = item.attempt

Taken(sk2, sk) ==
  \A b \in Nth :
    /\ sk[b].sent <= sk2[b].sent
    /\ \/ sk2[b].queue = sk[b].queue
       \/ /\ Len(sk2[b].queue) = Len(sk[b].queue) - 1
          /\ \A i \in 1 .. Len(sk2[b].queue) : sk2[b].queue[i] = sk[b].queue[i + 1]

Unrecorded(rec, e) ==
  IF e.kind = "step" THEN e.seq > Len(rec[e.attempt].events)
  ELSE e.stage > rec[e.attempt].stage

(* A timeline that is not called incomplete.                               *)
StepsOK(events, r) ==
  /\ r.last <= Len(events)
  /\ DOMAIN r.steps = Newest(First(events, r.last), Kept)
  /\ \A s \in DOMAIN r.steps :
       /\ r.steps[s] \in 1 .. r.last
       /\ events[r.steps[s]] = s
       /\ \A j \in 1 .. r.last : j > r.steps[s] => events[j] # s
  /\ r.omitted + Cardinality(DOMAIN r.steps) = Cardinality(First(events, r.last))

AheadOK(sk, w, lv) ==
  \A a \in Nth : ~lv[a].incomplete =>
    /\ \A e \in Flown(w) : e.kind = "step" /\ e.attempt = a => e.seq > lv[a].last
    /\ \A i \in 1 .. Len(sk[a].queue) :
         sk[a].queue[i].kind = "step" => sk[a].queue[i].seq > lv[a].last

ProgressOK(rec, sk, w, p) ==
  p.attempt \in Nth =>
    /\ p.stage <= rec[p.attempt].stage
    /\ \A e \in Flown(w) :
         e.kind = "stage" /\ e.attempt = p.attempt /\ e.seq > p.seq => e.stage >= p.stage
    /\ \A i \in 1 .. Len(sk[p.attempt].queue) :
         sk[p.attempt].queue[i].kind = "stage" => sk[p.attempt].queue[i].stage >= p.stage

StreamInv ==
  /\ StreamTypeOK
  /\ \A a \in Nth : RecordOK(record[a])
  /\ QueuesOK(record, sink)
  /\ FlownOK(record, sink, wire)
  /\ OrderOK(wire)
  /\ OnceOK(wire)
  /\ \A a \in Nth : ~page.live[a].incomplete => StepsOK(record[a].events, page.live[a])
  /\ AheadOK(sink, wire, page.live)
  /\ ProgressOK(record, sink, wire, page.progress)

(* Of finitely many steps, fewer are newer than a newer one.               *)
LEMMA NewestFacts ==
  ASSUME NEW S \in SUBSET Nat, IsFiniteSet(S), NEW n \in Nat
  PROVE  /\ Newest(S, n) \subseteq S
         /\ \A x \in Newest(S, n) : \A y \in S : y > x => y \in Newest(S, n)
<1>1. ASSUME NEW x \in Newest(S, n), NEW y \in S, y > x
      PROVE  y \in Newest(S, n)
  <2>0. x \in S /\ \A t \in S : t > y => t > x
    BY <1>1 DEF Newest
  <2>1. {t \in S : t > y} \in SUBSET {t \in S : t > x}
    BY <2>0
  <2>2. IsFiniteSet({t \in S : t > x})
    BY FS_Subset
  <2>3. Cardinality({t \in S : t > y}) <= Cardinality({t \in S : t > x})
    BY <2>1, <2>2, FS_Subset
  <2>4. Cardinality({t \in S : t > x}) \in Nat /\ Cardinality({t \in S : t > y}) \in Nat
    BY <2>1, <2>2, FS_Subset, FS_CardinalityType
  <2> QED BY <1>1, <2>3, <2>4 DEF Newest
<1> QED BY <1>1 DEF Newest

(* What is shown after one more step can be told from what was shown.      *)
LEMMA NewestGrows ==
  ASSUME NEW S \in SUBSET Nat, IsFiniteSet(S), NEW n \in Nat \ {0}, NEW s \in Nat,
         s \in Newest(S, n) \/ \A t \in S : s > t
  PROVE  Newest(Newest(S, n) \cup {s}, n) = Newest(S \cup {s}, n)
<1> DEFINE N == Newest(S, n)
           Above(T, x) == {t \in T : t > x}
<1>1. N \subseteq S
  BY NewestFacts
<1>2. \A x \in N : \A y \in S : y > x => y \in N
  BY NewestFacts
<1>3. IsFiniteSet(S \cup {s}) /\ IsFiniteSet(N \cup {s})
  BY <1>1, FS_AddElement, FS_Subset
<1>4. \A x \in N \cup {s} : Above(S \cup {s}, x) = Above(N \cup {s}, x)
  <2>1. CASE s \in N
    BY <1>1, <1>2, <2>1
  <2>2. CASE \A t \in S : s > t
    <3> SUFFICES ASSUME NEW x \in N \cup {s}, NEW t \in S \cup {s}, t > x
                 PROVE  t \in N \cup {s}
      BY <1>1
    <3>1. x # s \/ t = s
      BY <2>2
    <3> QED BY <1>2, <3>1
  <2> QED BY <2>1, <2>2
<1>5. ASSUME NEW x \in S, Cardinality(Above(S \cup {s}, x)) < n
      PROVE  x \in N
  <2>1. Above(S, x) \in SUBSET Above(S \cup {s}, x)
    OBVIOUS
  <2>2. IsFiniteSet(Above(S \cup {s}, x))
    BY <1>3, FS_Subset
  <2>3. Cardinality(Above(S, x)) <= Cardinality(Above(S \cup {s}, x))
    BY <2>1, <2>2, FS_Subset
  <2>4. Cardinality(Above(S, x)) \in Nat /\ Cardinality(Above(S \cup {s}, x)) \in Nat
    BY <2>1, <2>2, FS_Subset, FS_CardinalityType
  <2> QED BY <1>5, <2>3, <2>4 DEF Newest
<1>6. Newest(N \cup {s}, n) = {x \in N \cup {s} : Cardinality(Above(S \cup {s}, x)) < n}
  BY <1>4 DEF Newest
<1>7. Newest(S \cup {s}, n) = {x \in S \cup {s} : Cardinality(Above(S \cup {s}, x)) < n}
  BY DEF Newest
<1> HIDE DEF N, Above
<1>8. Newest(N \cup {s}, n) = Newest(S \cup {s}, n)
  BY <1>1, <1>5, <1>6, <1>7
<1> QED BY <1>8 DEF N

(* The steps that are kept after one more are the newest still.            *)
LEMMA KeptGrows ==
  ASSUME NEW S \in SUBSET Nat, IsFiniteSet(S), NEW held \in SUBSET S, NEW s \in Nat,
         \A x \in held : \A y \in S : y > x => y \in held,
         s \in held \/ \A t \in S : s > t,
         NEW n \in Nat, n <= Kept
  PROVE  /\ Newest(held \cup {s}, n) \subseteq Newest(S \cup {s}, Kept)
         /\ \A x \in Newest(held \cup {s}, n) : \A y \in S \cup {s} :
              y > x => y \in Newest(held \cup {s}, n)
<1> DEFINE Above(T, x) == {t \in T : t > x}
           K == held \cup {s}
           U == S \cup {s}
<1>0. Kept \in Nat
  BY StreamConstants
<1>1. K \subseteq U /\ K \in SUBSET Nat
  OBVIOUS
<1>2. IsFiniteSet(U) /\ IsFiniteSet(K)
  BY <1>1, FS_AddElement, FS_Subset
<1>3. \A x \in K : \A y \in U : y > x => y \in K
  <2> SUFFICES ASSUME NEW x \in held \cup {s}, NEW y \in S \cup {s}, y > x
               PROVE  y \in held \cup {s}
    OBVIOUS
  <2>3. CASE y = s
    BY <2>3
  <2>1. CASE y # s /\ x \in held
    <3>1. y \in S
      BY <2>1
    <3>2. y \in held
      BY <2>1, <3>1
    <3> QED BY <3>2
  <2>2. CASE y # s /\ x \notin held
    <3>1. x = s /\ y \in S /\ ~(s > y)
      BY <2>2
    <3>2. s \in held
      BY <3>1
    <3> QED BY <2>2, <3>1, <3>2
  <2> QED BY <2>1, <2>2, <2>3
<1>4. \A x \in K : Above(U, x) = Above(K, x)
  BY <1>1, <1>3
<1>5. \A x \in K : Cardinality(Above(K, x)) \in Nat
  BY <1>2, FS_Subset, FS_CardinalityType
<1>6. Newest(K, n) = {x \in K : Cardinality(Above(K, x)) < n}
  BY DEF Newest
<1>7. Newest(U, Kept) = {x \in U : Cardinality(Above(U, x)) < Kept}
  BY DEF Newest
<1>8. \A x \in Newest(K, n) : \A y \in K : y > x => y \in Newest(K, n)
  BY <1>1, <1>2, NewestFacts
<1> HIDE DEF Above, K, U
<1>9. Newest(K, n) \subseteq Newest(U, Kept)
  <2>1. ASSUME NEW x \in Newest(K, n) PROVE x \in Newest(U, Kept)
    <3>1. x \in K /\ Cardinality(Above(K, x)) < n
      BY <1>6, <2>1
    <3>2. Cardinality(Above(K, x)) \in Nat
      BY <1>5, <3>1
    <3>3. Cardinality(Above(K, x)) < Kept
      BY <1>0, <3>1, <3>2
    <3> QED BY <1>1, <1>4, <1>7, <3>1, <3>3
  <2> QED BY <2>1
<1>10. Newest(K, n) \subseteq K
  BY <1>6
<1>11. \A x \in Newest(K, n) : \A y \in U : y > x => y \in Newest(K, n)
  BY <1>3, <1>8, <1>10
<1> QED BY <1>9, <1>11 DEF K, U

(* The steps of the first events.                                          *)
LEMMA FirstFacts ==
  ASSUME NEW ev \in Seq(Nat), NEW n \in 0 .. Len(ev)
  PROVE  /\ First(ev, n) \in SUBSET Nat
         /\ IsFiniteSet(First(ev, n))
         /\ Cardinality(First(ev, n)) \in Nat
<1>1. First(ev, n) \in SUBSET Nat
  BY DEF First
<1> DEFINE f == [i \in 1 .. n |-> ev[i]]
<1>2. f \in Surjection(1 .. n, First(ev, n))
  BY DEF Surjection, First
<1>3. ExistsSurjection(1 .. n, First(ev, n))
  BY <1>2 DEF ExistsSurjection
<1>4. n \in Nat
  OBVIOUS
<1>5. IsFiniteSet(First(ev, n))
  BY <1>3, <1>4, FS_NatSurjection
<1> QED BY <1>1, <1>5, FS_CardinalityType

(* One event more is one step more.                                        *)
LEMMA FirstGrows ==
  ASSUME NEW ev \in Seq(Nat), NEW n \in 0 .. Len(ev) - 1
  PROVE  First(ev, n + 1) = First(ev, n) \cup {ev[n + 1]}
BY DEF First

(* The events of an attempt are appended to.                               *)
LEMMA EventsGrow ==
  ASSUME NEW ev \in Seq(Nat), NEW s \in Nat
  PROVE  /\ Append(ev, s) \in Seq(Nat)
         /\ Len(Append(ev, s)) = Len(ev) + 1
         /\ \A i \in 1 .. Len(ev) : Append(ev, s)[i] = ev[i]
         /\ Append(ev, s)[Len(ev) + 1] = s
         /\ \A n \in 0 .. Len(ev) : First(Append(ev, s), n) = First(ev, n)
         /\ First(Append(ev, s), Len(ev) + 1) = First(ev, Len(ev)) \cup {s}
<1> DEFINE e == Append(ev, s)
<1>1. /\ e \in Seq(Nat)
      /\ Len(e) = Len(ev) + 1
      /\ \A i \in 1 .. Len(ev) : e[i] = ev[i]
      /\ e[Len(ev) + 1] = s
  OBVIOUS
<1>2. Len(ev) \in Nat
  OBVIOUS
<1> HIDE DEF e
<1>3. \A n \in 0 .. Len(ev) : First(e, n) = First(ev, n)
  <2> TAKE n \in 0 .. Len(ev)
  <2>1. \A i \in 1 .. n : e[i] = ev[i]
    BY <1>1, <1>2
  <2> QED BY <2>1 DEF First
<1>4. Len(ev) \in 0 .. Len(e) - 1
  BY <1>1, <1>2
<1>5. First(e, Len(ev) + 1) = First(e, Len(ev)) \cup {e[Len(ev) + 1]}
  BY <1>1, <1>4, FirstGrows
<1>6. First(e, Len(ev) + 1) = First(ev, Len(ev)) \cup {s}
  BY <1>1, <1>2, <1>3, <1>5
<1> QED BY <1>1, <1>3, <1>6 DEF e

(* What was recorded is still recorded after more is.                      *)
LEMMA GenuineStays ==
  ASSUME NEW rec \in [Nth -> Records], NEW rec2 \in [Nth -> Records], RecordedMore(rec2, rec),
         NEW e \in Notes, Genuine(rec, e)
  PROVE  Genuine(rec2, e)
<1>1. e.attempt \in Nth
  BY DEF Notes
<1>2. /\ Len(rec[e.attempt].events) <= Len(rec2[e.attempt].events)
      /\ \A i \in 1 .. Len(rec[e.attempt].events) :
           rec2[e.attempt].events[i] = rec[e.attempt].events[i]
      /\ rec[e.attempt].stage <= rec2[e.attempt].stage
  BY <1>1 DEF RecordedMore
<1>3. /\ rec[e.attempt].events \in Seq(Nat) /\ rec2[e.attempt].events \in Seq(Nat)
      /\ rec[e.attempt].stage \in Nat /\ rec2[e.attempt].stage \in Nat
  BY <1>1 DEF Records
<1>4. Len(rec[e.attempt].events) \in Nat /\ Len(rec2[e.attempt].events) \in Nat
  BY <1>3
<1>5. CASE e.kind = "step"
  BY <1>2, <1>4, <1>5 DEF Genuine
<1>6. CASE e.kind # "step"
  BY <1>2, <1>3, <1>6 DEF Genuine
<1> QED BY <1>5, <1>6

(* What is not recorded yet comes after all that is on its way.            *)
LEMMA RanksAreBounded ==
  ASSUME NEW rec \in [Nth -> Records], NEW e \in Notes, NEW f \in Notes,
         Genuine(rec, e), Unrecorded(rec, f), e.kind = f.kind, e.attempt = f.attempt
  PROVE  Rank(e) < Rank(f)
<1>1. e.attempt \in Nth /\ e.seq \in Nat /\ f.seq \in Nat /\ e.stage \in Nat /\ f.stage \in Nat
  BY DEF Notes
<1>2. rec[e.attempt].events \in Seq(Nat) /\ rec[e.attempt].stage \in Nat
  BY <1>1 DEF Records
<1>3. Len(rec[e.attempt].events) \in Nat
  BY <1>2
<1>4. CASE e.kind = "step"
  BY <1>1, <1>3, <1>4 DEF Genuine, Unrecorded, Rank
<1>5. CASE e.kind # "step"
  BY <1>1, <1>2, <1>5 DEF Genuine, Unrecorded, Rank
<1> QED BY <1>4, <1>5

(* What is in the connections are events.                                  *)
LEMMA FlownNotes ==
  ASSUME NEW w \in Wires
  PROVE  Flown(w) \in SUBSET Notes
<1>1. w.late \in SUBSET Notes /\ w.events \in Seq(Notes)
  BY DEF Wires
<1>2. \A i \in 1 .. Len(w.events) : w.events[i] \in Notes
  BY <1>1
<1> QED BY <1>1, <1>2 DEF Flown

(* What is in a queue are events.                                          *)
LEMMA QueueFacts ==
  ASSUME NEW sk \in [Nth -> Sinks], NEW a \in Nth
  PROVE  /\ Len(sk[a].queue) \in Nat
         /\ sk[a].sent \in Nat
         /\ \A i \in 1 .. Len(sk[a].queue) : sk[a].queue[i] \in Notes
<1>1. sk[a].queue \in Seq(Notes) /\ sk[a].sent \in Nat
  BY DEF Sinks
<1> QED BY <1>1

(* A place in the order is a natural number.                               *)
LEMMA RankType ==
  ASSUME NEW e \in Notes
  PROVE  Rank(e) \in Nat
BY DEF Notes, Rank

(* Another item in a queue.                                                *)
LEMMA QueuesGrow ==
  ASSUME NEW rec \in [Nth -> Records], NEW rec2 \in [Nth -> Records], RecordedMore(rec2, rec),
         NEW sk \in [Nth -> Sinks], NEW sk2 \in [Nth -> Sinks], NEW item \in Notes,
         Queued(sk2, sk, item), Genuine(rec2, item), Unrecorded(rec, item),
         QueuesOK(rec, sk)
  PROVE  QueuesOK(rec2, sk2)
<1> SUFFICES ASSUME NEW a \in Nth
             PROVE  /\ \A i \in 1 .. Len(sk2[a].queue) :
                         sk2[a].queue[i].attempt = a /\ Genuine(rec2, sk2[a].queue[i])
                    /\ \A i, j \in 1 .. Len(sk2[a].queue) :
                         i < j /\ sk2[a].queue[i].kind = sk2[a].queue[j].kind
                           => Rank(sk2[a].queue[i]) < Rank(sk2[a].queue[j])
  BY DEF QueuesOK
<1>1. PICK q \in Seq(Notes) : q = sk[a].queue
  BY DEF Sinks
<1>2. PICK q2 \in Seq(Notes) : q2 = sk2[a].queue
  BY DEF Sinks
<1>3. \A i \in 1 .. Len(q2) : \/ i <= Len(q) /\ q2[i] = q[i]
                              \/ i = Len(q) + 1 /\ q2[i] = item /\ a = item.attempt
  BY <1>1, <1>2 DEF Queued
<1>4. /\ \A i \in 1 .. Len(q) : q[i].attempt = a /\ Genuine(rec, q[i])
      /\ \A i, j \in 1 .. Len(q) : i < j /\ q[i].kind = q[j].kind => Rank(q[i]) < Rank(q[j])
  BY <1>1 DEF QueuesOK
<1>5. Len(q) \in Nat /\ Len(q2) \in Nat /\ \A i \in 1 .. Len(q) : q[i] \in Notes
  BY <1>1, <1>2
<1>6. \A i \in 1 .. Len(q) : Genuine(rec2, q[i])
  BY <1>4, <1>5, GenuineStays
<1>7. \A i \in 1 .. Len(q) : q[i].kind = item.kind /\ a = item.attempt => Rank(q[i]) < Rank(item)
  BY <1>4, <1>5, RanksAreBounded
<1>8. \A i \in 1 .. Len(q2) : q2[i].attempt = a /\ Genuine(rec2, q2[i])
  BY <1>3, <1>4, <1>5, <1>6
<1>9. ASSUME NEW i \in 1 .. Len(q2), NEW j \in 1 .. Len(q2), i < j, q2[i].kind = q2[j].kind
      PROVE  Rank(q2[i]) < Rank(q2[j])
  <2>1. CASE j <= Len(q)
    <3>1. q2[i] = q[i] /\ q2[j] = q[j] /\ i \in 1 .. Len(q) /\ j \in 1 .. Len(q)
      BY <1>3, <1>5, <1>9, <2>1
    <3> QED BY <1>4, <1>9, <3>1
  <2>2. CASE ~(j <= Len(q))
    <3>1. q2[i] = q[i] /\ q2[j] = item /\ i \in 1 .. Len(q) /\ a = item.attempt
      BY <1>3, <1>5, <1>9, <2>2
    <3> QED BY <1>7, <1>9, <3>1
  <2> QED BY <2>1, <2>2
<1> QED BY <1>2, <1>8, <1>9

(* What left a queue is older than what is put into it.                    *)
LEMMA FlownBeforeQueued ==
  ASSUME NEW rec \in [Nth -> Records], NEW rec2 \in [Nth -> Records], RecordedMore(rec2, rec),
         NEW sk \in [Nth -> Sinks], NEW sk2 \in [Nth -> Sinks], NEW item \in Notes,
         Queued(sk2, sk, item), Unrecorded(rec, item),
         NEW w \in Wires, FlownOK(rec, sk, w)
  PROVE  FlownOK(rec2, sk2, w)
<1> SUFFICES ASSUME NEW e \in Flown(w)
             PROVE  /\ Genuine(rec2, e)
                    /\ e.kind = "stage" => e.seq <= sk2[e.attempt].sent
                    /\ \A i \in 1 .. Len(sk2[e.attempt].queue) :
                         sk2[e.attempt].queue[i].kind = e.kind
                           => Rank(e) < Rank(sk2[e.attempt].queue[i])
  BY DEF FlownOK
<1>1. e \in Notes /\ Genuine(rec, e)
  BY FlownNotes DEF FlownOK
<1>2. PICK a \in Nth : a = e.attempt
  BY <1>1 DEF Notes
<1>3. Genuine(rec2, e)
  BY <1>1, GenuineStays
<1>4. e.kind = "stage" => e.seq <= sk2[a].sent
  BY <1>2 DEF FlownOK, Queued
<1>5. PICK q \in Seq(Notes) : q = sk[a].queue
  BY <1>2 DEF Sinks
<1>6. PICK q2 \in Seq(Notes) : q2 = sk2[a].queue
  BY <1>2 DEF Sinks
<1>7. \A i \in 1 .. Len(q2) : \/ i <= Len(q) /\ q2[i] = q[i]
                              \/ i = Len(q) + 1 /\ q2[i] = item /\ a = item.attempt
  BY <1>2, <1>5, <1>6 DEF Queued
<1>8. \A i \in 1 .. Len(q) : q[i].kind = e.kind => Rank(e) < Rank(q[i])
  BY <1>2, <1>5 DEF FlownOK
<1>9. a = item.attempt /\ item.kind = e.kind => Rank(e) < Rank(item)
  BY <1>1, <1>2, RanksAreBounded
<1>10. Len(q) \in Nat /\ Len(q2) \in Nat
  BY <1>5, <1>6
<1>11. \A i \in 1 .. Len(q2) : q2[i].kind = e.kind => Rank(e) < Rank(q2[i])
  BY <1>7, <1>8, <1>9, <1>10
<1> QED BY <1>2, <1>3, <1>4, <1>6, <1>11

(* What is put into a queue is newer than what a whole timeline shows.     *)
LEMMA AheadWhenQueued ==
  ASSUME NEW rec \in [Nth -> Records],
         NEW sk \in [Nth -> Sinks], NEW sk2 \in [Nth -> Sinks], NEW item \in Notes,
         Queued(sk2, sk, item), Unrecorded(rec, item),
         NEW w \in Wires, NEW lv \in [Nth -> Timelines],
         \A a \in Nth : ~lv[a].incomplete => lv[a].last <= Len(rec[a].events),
         AheadOK(sk, w, lv)
  PROVE  AheadOK(sk2, w, lv)
<1> SUFFICES ASSUME NEW a \in Nth, ~lv[a].incomplete
             PROVE  /\ \A e \in Flown(w) : e.kind = "step" /\ e.attempt = a => e.seq > lv[a].last
                    /\ \A i \in 1 .. Len(sk2[a].queue) :
                         sk2[a].queue[i].kind = "step" => sk2[a].queue[i].seq > lv[a].last
  BY DEF AheadOK
<1>1. /\ \A e \in Flown(w) : e.kind = "step" /\ e.attempt = a => e.seq > lv[a].last
      /\ \A i \in 1 .. Len(sk[a].queue) :
           sk[a].queue[i].kind = "step" => sk[a].queue[i].seq > lv[a].last
  BY DEF AheadOK
<1>5. PICK q \in Seq(Notes) : q = sk[a].queue
  BY DEF Sinks
<1>6. PICK q2 \in Seq(Notes) : q2 = sk2[a].queue
  BY DEF Sinks
<1>7. \A i \in 1 .. Len(q2) : \/ i <= Len(q) /\ q2[i] = q[i]
                              \/ i = Len(q) + 1 /\ q2[i] = item /\ a = item.attempt
  BY <1>5, <1>6 DEF Queued
<1>8. rec[a].events \in Seq(Nat) /\ lv[a].last \in Nat /\ item.seq \in Nat
  BY DEF Records, Timelines, Notes
<1>9. a = item.attempt /\ item.kind = "step" => item.seq > lv[a].last
  BY <1>8 DEF Unrecorded
<1>10. Len(q) \in Nat /\ Len(q2) \in Nat
  BY <1>5, <1>6
<1>11. \A i \in 1 .. Len(q2) : q2[i].kind = "step" => q2[i].seq > lv[a].last
  BY <1>1, <1>5, <1>7, <1>9, <1>10
<1> QED BY <1>1, <1>6, <1>11

(* A snapshot put into a queue is newer than the one that is shown.        *)
LEMMA ProgressWhenQueued ==
  ASSUME NEW rec \in [Nth -> Records], NEW rec2 \in [Nth -> Records], RecordedMore(rec2, rec),
         NEW sk \in [Nth -> Sinks], NEW sk2 \in [Nth -> Sinks], NEW item \in Notes,
         Queued(sk2, sk, item), Unrecorded(rec, item),
         NEW w \in Wires, NEW p \in [attempt : Nat, seq : Nat, stage : Nat],
         ProgressOK(rec, sk, w, p)
  PROVE  ProgressOK(rec2, sk2, w, p)
<1> SUFFICES ASSUME p.attempt \in Nth
             PROVE  /\ p.stage <= rec2[p.attempt].stage
                    /\ \A e \in Flown(w) :
                         e.kind = "stage" /\ e.attempt = p.attempt /\ e.seq > p.seq
                           => e.stage >= p.stage
                    /\ \A i \in 1 .. Len(sk2[p.attempt].queue) :
                         sk2[p.attempt].queue[i].kind = "stage"
                           => sk2[p.attempt].queue[i].stage >= p.stage
  BY DEF ProgressOK
<1>1. PICK a \in Nth : a = p.attempt
  OBVIOUS
<1>2. /\ p.stage <= rec[a].stage
      /\ \A e \in Flown(w) :
           e.kind = "stage" /\ e.attempt = p.attempt /\ e.seq > p.seq => e.stage >= p.stage
      /\ \A i \in 1 .. Len(sk[a].queue) :
           sk[a].queue[i].kind = "stage" => sk[a].queue[i].stage >= p.stage
  BY <1>1 DEF ProgressOK
<1>3. rec[a].stage \in Nat /\ rec2[a].stage \in Nat /\ p.stage \in Nat /\ item.stage \in Nat
  BY <1>1 DEF Records, Notes
<1>4. p.stage <= rec2[a].stage
  BY <1>1, <1>2, <1>3 DEF RecordedMore
<1>5. PICK q \in Seq(Notes) : q = sk[a].queue
  BY <1>1 DEF Sinks
<1>6. PICK q2 \in Seq(Notes) : q2 = sk2[a].queue
  BY <1>1 DEF Sinks
<1>7. \A i \in 1 .. Len(q2) : \/ i <= Len(q) /\ q2[i] = q[i]
                              \/ i = Len(q) + 1 /\ q2[i] = item /\ a = item.attempt
  BY <1>1, <1>5, <1>6 DEF Queued
<1>9. a = item.attempt /\ item.kind = "stage" => item.stage >= p.stage
  BY <1>2, <1>3 DEF Unrecorded
<1>10. Len(q) \in Nat /\ Len(q2) \in Nat
  BY <1>5, <1>6
<1>11. \A i \in 1 .. Len(q2) : q2[i].kind = "stage" => q2[i].stage >= p.stage
  BY <1>2, <1>5, <1>7, <1>9, <1>10
<1> QED BY <1>1, <1>2, <1>4, <1>6, <1>11

(* One item fewer in a queue, or none.                                     *)
LEMMA QueuesShrink ==
  ASSUME NEW rec \in [Nth -> Records],
         NEW sk \in [Nth -> Sinks], NEW sk2 \in [Nth -> Sinks], Taken(sk2, sk),
         NEW w \in Wires, NEW lv \in [Nth -> Timelines],
         NEW p \in [attempt : Nat, seq : Nat, stage : Nat],
         QueuesOK(rec, sk), FlownOK(rec, sk, w), AheadOK(sk, w, lv), ProgressOK(rec, sk, w, p)
  PROVE  QueuesOK(rec, sk2) /\ FlownOK(rec, sk2, w) /\ AheadOK(sk2, w, lv)
         /\ ProgressOK(rec, sk2, w, p)
<1>1. ASSUME NEW a \in Nth
      PROVE  /\ Len(sk2[a].queue) \in Nat /\ Len(sk[a].queue) \in Nat
             /\ \A i \in 1 .. Len(sk2[a].queue) : \E k \in {0, 1} :
                  i + k \in 1 .. Len(sk[a].queue) /\ sk2[a].queue[i] = sk[a].queue[i + k]
             /\ \A i, j \in 1 .. Len(sk2[a].queue) : i < j => \E k \in {0, 1} :
                  /\ i + k \in 1 .. Len(sk[a].queue) /\ sk2[a].queue[i] = sk[a].queue[i + k]
                  /\ j + k \in 1 .. Len(sk[a].queue) /\ sk2[a].queue[j] = sk[a].queue[j + k]
  <2>1. Len(sk2[a].queue) \in Nat /\ Len(sk[a].queue) \in Nat
    BY QueueFacts
  <2>2. PICK k \in {0, 1} : \A i \in 1 .. Len(sk2[a].queue) :
          i + k \in 1 .. Len(sk[a].queue) /\ sk2[a].queue[i] = sk[a].queue[i + k]
    <3>1. CASE sk2[a].queue = sk[a].queue
      <4>1. \A i \in 1 .. Len(sk2[a].queue) :
              i + 0 \in 1 .. Len(sk[a].queue) /\ sk2[a].queue[i] = sk[a].queue[i + 0]
        BY <2>1, <3>1
      <4> QED BY <4>1
    <3>2. CASE /\ Len(sk2[a].queue) = Len(sk[a].queue) - 1
               /\ \A i \in 1 .. Len(sk2[a].queue) : sk2[a].queue[i] = sk[a].queue[i + 1]
      <4>1. \A i \in 1 .. Len(sk2[a].queue) :
              i + 1 \in 1 .. Len(sk[a].queue) /\ sk2[a].queue[i] = sk[a].queue[i + 1]
        BY <2>1, <3>2
      <4> QED BY <4>1
    <3> QED BY <3>1, <3>2 DEF Taken
  <2> QED BY <2>1, <2>2
<1>6. ASSUME NEW a \in Nth, NEW i \in 1 .. Len(sk2[a].queue)
      PROVE  \E j \in 1 .. Len(sk[a].queue) : sk2[a].queue[i] = sk[a].queue[j]
  <2>1. PICK k \in {0, 1} : /\ i + k \in 1 .. Len(sk[a].queue)
                            /\ sk2[a].queue[i] = sk[a].queue[i + k]
    BY <1>1
  <2> QED BY <2>1
<1>2. QueuesOK(rec, sk2)
  <2> SUFFICES ASSUME NEW a \in Nth
               PROVE  /\ \A i \in 1 .. Len(sk2[a].queue) :
                           sk2[a].queue[i].attempt = a /\ Genuine(rec, sk2[a].queue[i])
                      /\ \A i, j \in 1 .. Len(sk2[a].queue) :
                           i < j /\ sk2[a].queue[i].kind = sk2[a].queue[j].kind
                             => Rank(sk2[a].queue[i]) < Rank(sk2[a].queue[j])
    BY DEF QueuesOK
  <2>1. /\ \A i \in 1 .. Len(sk[a].queue) :
             sk[a].queue[i].attempt = a /\ Genuine(rec, sk[a].queue[i])
        /\ \A i, j \in 1 .. Len(sk[a].queue) :
             i < j /\ sk[a].queue[i].kind = sk[a].queue[j].kind
               => Rank(sk[a].queue[i]) < Rank(sk[a].queue[j])
    BY DEF QueuesOK
  <2>2. \A i \in 1 .. Len(sk2[a].queue) :
          sk2[a].queue[i].attempt = a /\ Genuine(rec, sk2[a].queue[i])
    <3> TAKE i \in 1 .. Len(sk2[a].queue)
    <3>1. PICK j \in 1 .. Len(sk[a].queue) : sk2[a].queue[i] = sk[a].queue[j]
      BY <1>6
    <3> QED BY <2>1, <3>1
  <2>3. ASSUME NEW i \in 1 .. Len(sk2[a].queue), NEW j \in 1 .. Len(sk2[a].queue), i < j,
               sk2[a].queue[i].kind = sk2[a].queue[j].kind
        PROVE  Rank(sk2[a].queue[i]) < Rank(sk2[a].queue[j])
    <3>1. PICK k \in {0, 1} :
            /\ i + k \in 1 .. Len(sk[a].queue) /\ sk2[a].queue[i] = sk[a].queue[i + k]
            /\ j + k \in 1 .. Len(sk[a].queue) /\ sk2[a].queue[j] = sk[a].queue[j + k]
      BY <1>1, <2>3
    <3>2. i + k < j + k
      BY <1>1, <2>3
    <3> QED BY <2>1, <2>3, <3>1, <3>2
  <2> QED BY <2>2, <2>3
<1>3. FlownOK(rec, sk2, w)
  <2> SUFFICES ASSUME NEW e \in Flown(w)
               PROVE  /\ Genuine(rec, e)
                      /\ e.kind = "stage" => e.seq <= sk2[e.attempt].sent
                      /\ \A i \in 1 .. Len(sk2[e.attempt].queue) :
                           sk2[e.attempt].queue[i].kind = e.kind
                             => Rank(e) < Rank(sk2[e.attempt].queue[i])
    BY DEF FlownOK
  <2>1. PICK a \in Nth : a = e.attempt
    BY FlownNotes DEF Notes
  <2>2. /\ Genuine(rec, e)
        /\ e.kind = "stage" => e.seq <= sk[a].sent
        /\ \A i \in 1 .. Len(sk[a].queue) :
             sk[a].queue[i].kind = e.kind => Rank(e) < Rank(sk[a].queue[i])
    BY <2>1 DEF FlownOK
  <2>3. sk[a].sent <= sk2[a].sent /\ sk[a].sent \in Nat /\ sk2[a].sent \in Nat
    BY QueueFacts DEF Taken
  <2>4. e.seq \in Nat
    BY FlownNotes DEF Notes
  <2>5. e.kind = "stage" => e.seq <= sk2[a].sent
    BY <2>2, <2>3, <2>4
  <2>6. \A i \in 1 .. Len(sk2[a].queue) :
          sk2[a].queue[i].kind = e.kind => Rank(e) < Rank(sk2[a].queue[i])
    BY <1>6, <2>2
  <2> QED BY <2>1, <2>2, <2>5, <2>6
<1>4. AheadOK(sk2, w, lv)
  <2>1. ASSUME NEW a \in Nth, ~lv[a].incomplete, NEW i \in 1 .. Len(sk2[a].queue),
               sk2[a].queue[i].kind = "step"
        PROVE  sk2[a].queue[i].seq > lv[a].last
    <3>1. PICK j \in 1 .. Len(sk[a].queue) : sk2[a].queue[i] = sk[a].queue[j]
      BY <1>6
    <3>2. sk[a].queue[j].kind = "step" => sk[a].queue[j].seq > lv[a].last
      BY <2>1 DEF AheadOK
    <3> QED BY <2>1, <3>1, <3>2
  <2> QED BY <2>1 DEF AheadOK
<1>5. ProgressOK(rec, sk2, w, p)
  <2>1. ASSUME p.attempt \in Nth, NEW i \in 1 .. Len(sk2[p.attempt].queue),
               sk2[p.attempt].queue[i].kind = "stage"
        PROVE  sk2[p.attempt].queue[i].stage >= p.stage
    BY <1>6, <2>1 DEF ProgressOK
  <2> QED BY <2>1 DEF ProgressOK
<1> QED BY <1>2, <1>3, <1>4, <1>5

(* What is on its way and was before.                                      *)
LEMMA FewerFlown ==
  ASSUME NEW rec, NEW sk, NEW w, NEW w2, NEW lv, NEW p, Flown(w2) \subseteq Flown(w),
         FlownOK(rec, sk, w), OrderOK(w), AheadOK(sk, w, lv), ProgressOK(rec, sk, w, p)
  PROVE  FlownOK(rec, sk, w2) /\ OrderOK(w2) /\ AheadOK(sk, w2, lv) /\ ProgressOK(rec, sk, w2, p)
<1>1. FlownOK(rec, sk, w2)
  BY DEF FlownOK
<1>2. OrderOK(w2)
  BY DEF OrderOK
<1>3. AheadOK(sk, w2, lv)
  BY DEF AheadOK
<1>4. ProgressOK(rec, sk, w2, p)
  BY DEF ProgressOK
<1> QED BY <1>1, <1>2, <1>3, <1>4

(* One event more: the next of its attempt.                                *)
LEMMA OneMoreFlown ==
  ASSUME NEW rec, NEW sk, NEW w, NEW w2, NEW lv, NEW p, NEW e \in Notes,
         Flown(w) \in SUBSET Notes,
         Flown(w2) \subseteq Flown(w) \cup {e}, Genuine(rec, e),
         e.kind = "stage" => e.seq = sk[e.attempt].sent,
         \A i \in 1 .. Len(sk[e.attempt].queue) :
           sk[e.attempt].queue[i].kind = e.kind => Rank(e) < Rank(sk[e.attempt].queue[i]),
         \A f \in Flown(w) : f.kind = "stage" /\ f.kind = e.kind /\ f.attempt = e.attempt =>
           f.stage < e.stage /\ f.seq < e.seq,
         \A a \in Nth : ~lv[a].incomplete /\ e.kind = "step" /\ e.attempt = a =>
           e.seq > lv[a].last,
         e.kind = "stage" /\ e.attempt = p.attempt => e.stage >= p.stage,
         FlownOK(rec, sk, w), OrderOK(w), AheadOK(sk, w, lv), ProgressOK(rec, sk, w, p)
  PROVE  FlownOK(rec, sk, w2) /\ OrderOK(w2) /\ AheadOK(sk, w2, lv) /\ ProgressOK(rec, sk, w2, p)
<1>0. e.kind = "stage" => e.seq <= sk[e.attempt].sent
  BY DEF Notes
<1>1. FlownOK(rec, sk, w2)
  BY <1>0 DEF FlownOK
<1>2. OrderOK(w2)
  <2> SUFFICES ASSUME NEW f \in Flown(w2), NEW g \in Flown(w2), f.kind = "stage",
                      g.kind = "stage", f.attempt = g.attempt, f.seq < g.seq
               PROVE  f.stage < g.stage
    BY DEF OrderOK
  <2>1. CASE f \in Flown(w) /\ g \in Flown(w)
    BY <2>1 DEF OrderOK
  <2>2. CASE f \in Flown(w) /\ g = e
    BY <2>2
  <2>3. CASE f = e /\ g \in Flown(w)
    <3>1. g.seq < e.seq /\ g.seq \in Nat /\ e.seq \in Nat
      BY <2>3 DEF Notes
    <3> QED BY <2>3, <3>1
  <2>4. CASE f = e /\ g = e
    BY <2>4 DEF Notes
  <2> QED BY <2>1, <2>2, <2>3, <2>4
<1>3. AheadOK(sk, w2, lv)
  BY DEF AheadOK
<1>4. ProgressOK(rec, sk, w2, p)
  BY DEF ProgressOK
<1> QED BY <1>1, <1>2, <1>3, <1>4

(* The ways of an event.                                                   *)
LEMMA Ways ==
  ASSUME NEW w \in Wires, NEW e \in Notes, NEW w2 \in {Fanned(w, e), Dropped(w), Delayed(w, e)}
  PROVE  /\ w2 \in Wires
         /\ w2.open = w.open
         /\ \/ w2.late = w.late /\ w2.events = Append(w.events, e)
            \/ w2.late = w.late /\ w2.events = w.events
            \/ w2.late = w.late \cup {e} /\ w2.events = w.events
         /\ w2.late \subseteq w.late \cup {e}
<1>1. w.late \in SUBSET Notes /\ w.events \in Seq(Notes) /\ w.open \in BOOLEAN
  BY DEF Wires
<1>2. Append(w.events, e) \in Seq(Notes)
  BY <1>1
<1>3. CASE w2 = w
  BY <1>1, <1>3 DEF Wires
<1>4. CASE w2 = [w EXCEPT !.events = Append(@, e)]
  <2>1. w2 = [late |-> w.late, open |-> w.open, events |-> Append(w.events, e)]
    BY <1>4 DEF Wires
  <2> QED BY <1>1, <1>2, <2>1 DEF Wires
<1>5. CASE w2 = [w EXCEPT !.late = @ \cup {e}]
  <2>1. w2 = [late |-> w.late \cup {e}, open |-> w.open, events |-> w.events]
    BY <1>5 DEF Wires
  <2> QED BY <1>1, <2>1 DEF Wires
<1>6. w2 = w \/ w2 = [w EXCEPT !.events = Append(@, e)] \/ w2 = [w EXCEPT !.late = @ \cup {e}]
  BY DEF Fanned, Dropped, Delayed
<1> QED BY <1>3, <1>4, <1>5, <1>6

(* Nothing else gets on its way.                                           *)
LEMMA WaysFlown ==
  ASSUME NEW w \in Wires, NEW e \in Notes, NEW w2 \in {Fanned(w, e), Dropped(w), Delayed(w, e)}
  PROVE  Flown(w2) \subseteq Flown(w) \cup {e}
<1>1. PICK q \in Seq(Notes) : q = w.events
  BY DEF Wires
<1>2. /\ Len(q) \in Nat /\ Len(Append(q, e)) = Len(q) + 1
      /\ \A i \in 1 .. Len(q) : Append(q, e)[i] = q[i]
      /\ Append(q, e)[Len(q) + 1] = e
  BY <1>1
<1>3. w2.late \subseteq w.late \cup {e} /\ (w2.events = q \/ w2.events = Append(q, e))
  BY <1>1, Ways
<1>4. ASSUME NEW i \in 1 .. Len(w2.events)
      PROVE  w2.events[i] \in Flown(w) \cup {e}
  <2>1. CASE w2.events = q
    BY <1>1, <2>1 DEF Flown
  <2>2. CASE w2.events = Append(q, e)
    <3>1. i \in 1 .. Len(q) \/ i = Len(q) + 1
      BY <1>2, <2>2
    <3>2. w2.events[i] = e \/ (i \in 1 .. Len(q) /\ w2.events[i] = q[i])
      BY <1>2, <2>2, <3>1
    <3> QED BY <1>1, <3>2 DEF Flown
  <2> QED BY <1>3, <2>1, <2>2
<1> QED BY <1>3, <1>4 DEF Flown

(* An event that is not on its way yet is not sent twice.                  *)
LEMMA OnceMore ==
  ASSUME NEW w \in Wires, NEW e \in Notes, NEW w2 \in {Fanned(w, e), Dropped(w), Delayed(w, e)},
         OnceOK(w), \A f \in Flown(w) : ~SameStep(f, e)
  PROVE  OnceOK(w2)
<1>1. PICK q \in Seq(Notes) : q = w.events
  BY DEF Wires
<1>2. /\ Len(q) \in Nat /\ Len(Append(q, e)) = Len(q) + 1
      /\ \A i \in 1 .. Len(q) : Append(q, e)[i] = q[i]
      /\ Append(q, e)[Len(q) + 1] = e
  BY <1>1
<1>3. /\ \A i, j \in 1 .. Len(q) : i < j => ~SameStep(q[i], q[j])
      /\ \A f \in w.late : \A i \in 1 .. Len(q) : ~SameStep(f, q[i])
  BY <1>1 DEF OnceOK
<1>4. /\ \A i \in 1 .. Len(q) : ~SameStep(q[i], e) /\ ~SameStep(e, q[i])
      /\ \A f \in w.late : ~SameStep(f, e)
  BY <1>1 DEF Flown, SameStep
<1>5. CASE w2.late \subseteq w.late \cup {e} /\ w2.events = w.events
  BY <1>1, <1>3, <1>4, <1>5 DEF OnceOK
<1>6. CASE w2.late = w.late /\ w2.events = Append(w.events, e)
  <2>1. \A i \in 1 .. Len(w2.events) :
          (i \in 1 .. Len(q) /\ w2.events[i] = q[i]) \/ (i = Len(q) + 1 /\ w2.events[i] = e)
    BY <1>1, <1>2, <1>6
  <2>2. ASSUME NEW i \in 1 .. Len(w2.events), NEW j \in 1 .. Len(w2.events), i < j
        PROVE  ~SameStep(w2.events[i], w2.events[j])
    <3>1. i \in 1 .. Len(q) /\ w2.events[i] = q[i]
      BY <1>1, <1>2, <1>6, <2>1, <2>2
    <3> QED BY <1>3, <1>4, <2>1, <2>2, <3>1
  <2>3. \A f \in w2.late : \A i \in 1 .. Len(w2.events) : ~SameStep(f, w2.events[i])
    BY <1>3, <1>4, <1>6, <2>1
  <2> QED BY <2>2, <2>3 DEF OnceOK
<1> QED BY <1>5, <1>6, Ways

(* What applyActivity makes of a timeline.                                 *)
LEMMA MergedSteps ==
  ASSUME NEW r \in Timelines, NEW e \in Notes
  PROVE  /\ IsFiniteSet(DOMAIN r.steps) /\ DOMAIN r.steps \in SUBSET Nat
         /\ DOMAIN Merged(r, e).steps = Newest(DOMAIN r.steps \cup {e.step}, Kept)
         /\ \A s \in DOMAIN Merged(r, e).steps :
              /\ s \in DOMAIN r.steps \cup {e.step}
              /\ Merged(r, e).steps[s] = IF s = e.step THEN e.seq ELSE r.steps[s]
         /\ Merged(r, e).last = IF e.seq > r.last THEN e.seq ELSE r.last
         /\ Merged(r, e).incomplete = Incomplete(r, e)
         /\ Merged(r, e).omitted = r.omitted + Cardinality(
              (DOMAIN r.steps \cup {e.step}) \ Newest(DOMAIN r.steps \cup {e.step}, Kept))
         /\ Merged(r, e) \in Timelines
<1> DEFINE D == DOMAIN r.steps
           B == D \cup {e.step}
           m == [s \in B |-> IF s = e.step THEN e.seq ELSE r.steps[s]]
           shown == Newest(B, Kept)
<1>1. r.steps \in StepMaps /\ r.last \in Nat /\ r.incomplete \in BOOLEAN /\ r.omitted \in Nat
  BY DEF Timelines
<1>2. IsFiniteSet(D) /\ D \in SUBSET Nat /\ r.steps \in [D -> Nat]
  <2>1. PICK S \in SUBSET Nat : IsFiniteSet(S) /\ r.steps \in [S -> Nat]
    BY <1>1 DEF StepMaps
  <2>2. D = S
    BY <2>1
  <2> QED BY <2>1, <2>2
<1>3. e.step \in Nat /\ e.seq \in Nat
  BY DEF Notes
<1>4. IsFiniteSet(B) /\ B \in SUBSET Nat
  BY <1>2, <1>3, FS_AddElement
<1>5. shown \subseteq B
  BY DEF Newest
<1>6. IsFiniteSet(shown) /\ IsFiniteSet(B \ shown) /\ Cardinality(B \ shown) \in Nat
  <2>1. IsFiniteSet(shown) /\ IsFiniteSet(B \ shown)
    BY <1>4, <1>5, FS_Subset
  <2> QED BY <2>1, FS_CardinalityType
<1>7. \A s \in B : m[s] \in Nat
  BY <1>2, <1>3
<1>8. DOMAIN m = B
  OBVIOUS
<1>11. PICK b \in BOOLEAN : b = Incomplete(r, e)
  BY <1>1 DEF Incomplete
<1>9. Merged(r, e) = [steps      |-> [s \in shown |-> m[s]],
                      last       |-> IF e.seq > r.last THEN e.seq ELSE r.last,
                      incomplete |-> b,
                      omitted    |-> r.omitted + Cardinality(B \ shown)]
  BY <1>8, <1>11, Zenon DEF Merged
<1>10. \A s \in B : m[s] = IF s = e.step THEN e.seq ELSE r.steps[s]
  OBVIOUS
<1> HIDE DEF m, shown, B
<1>12. [s \in shown |-> m[s]] \in StepMaps
  <2>1. [s \in shown |-> m[s]] \in [shown -> Nat]
    BY <1>5, <1>7
  <2>2. shown \in {S \in SUBSET Nat : IsFiniteSet(S)}
    BY <1>4, <1>5, <1>6
  <2> QED BY <2>1, <2>2 DEF StepMaps
<1>13. Merged(r, e) \in Timelines
  BY <1>1, <1>3, <1>6, <1>9, <1>11, <1>12 DEF Timelines
<1>14. DOMAIN Merged(r, e).steps = shown
  BY <1>9
<1>15. \A s \in shown : s \in B /\ Merged(r, e).steps[s] = IF s = e.step THEN e.seq ELSE r.steps[s]
  BY <1>5, <1>9, <1>10
<1>16. /\ Merged(r, e).last = IF e.seq > r.last THEN e.seq ELSE r.last
       /\ Merged(r, e).omitted = r.omitted + Cardinality(B \ shown)
  BY <1>9
<1>21. Merged(r, e).incomplete = b
  BY <1>9
<1>17. Merged(r, e).incomplete = Incomplete(r, e)
  BY <1>11, <1>21, Zenon
<1>18. Merged(r, e).omitted = r.omitted + Cardinality(
         (DOMAIN r.steps \cup {e.step}) \ Newest(DOMAIN r.steps \cup {e.step}, Kept))
  BY <1>16, Zenon DEF shown, B
<1>19. DOMAIN Merged(r, e).steps = Newest(DOMAIN r.steps \cup {e.step}, Kept)
  BY <1>14, Zenon DEF shown, B
<1>20. \A s \in DOMAIN Merged(r, e).steps :
         /\ s \in DOMAIN r.steps \cup {e.step}
         /\ Merged(r, e).steps[s] = IF s = e.step THEN e.seq ELSE r.steps[s]
  BY <1>14, <1>15, Zenon DEF B
<1> QED BY <1>2, <1>13, <1>16, <1>17, <1>18, <1>19, <1>20, Zenon

(* What left the timeline is counted.                                      *)
LEMMA OmittedCounts ==
  ASSUME NEW F, IsFiniteSet(F), NEW D, D \subseteq F, NEW s, NEW shown, shown \subseteq D \cup {s},
         s \in F => s \in D,
         NEW k \in Nat, k + Cardinality(D) = Cardinality(F)
  PROVE  k + Cardinality((D \cup {s}) \ shown) + Cardinality(shown) = Cardinality(F \cup {s})
<1> DEFINE B == D \cup {s}
<1>1. IsFiniteSet(D)
  BY FS_Subset
<1>2. /\ IsFiniteSet(B)
      /\ Cardinality(B) = IF s \in D THEN Cardinality(D) ELSE Cardinality(D) + 1
  BY <1>1, FS_AddElement
<1>3. Cardinality(F \cup {s}) = IF s \in F THEN Cardinality(F) ELSE Cardinality(F) + 1
  BY FS_AddElement
<1>4. IsFiniteSet(shown)
  BY <1>2, FS_Subset
<1>5. IsFiniteSet(B \ shown)
  BY <1>2, FS_Subset
<1>6. (B \ shown) \cap shown = {} /\ B = (B \ shown) \cup shown
  OBVIOUS
<1>7. Cardinality(B) = Cardinality(B \ shown) + Cardinality(shown) - Cardinality((B \ shown) \cap shown)
  BY <1>4, <1>5, <1>6, FS_Union
<1>8. Cardinality((B \ shown) \cap shown) = 0
  BY <1>6, FS_EmptySet
<1>9. /\ Cardinality(D) \in Nat /\ Cardinality(F) \in Nat /\ Cardinality(B) \in Nat
      /\ Cardinality(B \ shown) \in Nat /\ Cardinality(shown) \in Nat
  BY <1>1, <1>2, <1>4, <1>5, FS_CardinalityType
<1> QED BY <1>2, <1>3, <1>7, <1>8, <1>9

(* A timeline that misses nothing and merges the next event.               *)
LEMMA MergedIsRecorded ==
  ASSUME NEW rec, RecordOK(rec), rec \in Records,
         NEW r \in Timelines, ~r.incomplete, StepsOK(rec.events, r),
         NEW e \in Notes, e.seq \in 1 .. Len(rec.events), rec.events[e.seq] = e.step,
         e.seq > r.last, ~Merged(r, e).incomplete
  PROVE  /\ StepsOK(rec.events, Merged(r, e))
         /\ Merged(r, e).last = e.seq
<1>0. PICK n \in Nat : n = r.last
  BY DEF Timelines
<1>1. PICK ev \in Seq(Nat) : ev = rec.events
  BY DEF Records
<1>2. Len(ev) \in Nat /\ n + 1 \in 1 .. Len(ev) /\ e.seq = n + 1 /\ e.step = ev[n + 1]
  <2>1. ~Incomplete(r, e)
    BY MergedSteps, Zenon
  <2>2. ~(e.seq > n + 1)
    BY <1>0, <2>1 DEF Incomplete
  <2>3. e.seq \in Nat
    BY DEF Notes
  <2>4. e.seq = n + 1
    BY <1>0, <2>2, <2>3
  <2>5. Len(ev) \in Nat
    BY <1>1
  <2> QED BY <1>1, <2>4, <2>5
<1>3. PICK s \in Nat : s = e.step
  BY DEF Notes
<1> DEFINE F == First(ev, n)
           D == DOMAIN r.steps
           M == Merged(r, e)
<1>4. F \in SUBSET Nat /\ IsFiniteSet(F)
  BY <1>2, FirstFacts
<1>5. D = Newest(F, Kept)
  BY <1>0, <1>1 DEF StepsOK
<1>6. First(ev, n + 1) = F \cup {s}
  BY <1>2, <1>3, FirstGrows
<1>7. s \in D \/ \A t \in F : s > t
  <2>1. n \in 0 .. Len(rec.events) - 1
    BY <1>1, <1>2
  <2> QED BY <1>1, <1>2, <1>3, <1>5, <2>1 DEF RecordOK, Recording
<1>8. D \subseteq F
  BY <1>5 DEF Newest
<1>9. Newest(D \cup {s}, Kept) = Newest(F \cup {s}, Kept)
  BY <1>4, <1>5, <1>7, NewestGrows, StreamConstants
<1>10. DOMAIN M.steps = Newest(D \cup {s}, Kept)
  BY <1>3, MergedSteps
<1>11. M.last = n + 1
  BY <1>0, <1>2, MergedSteps
<1>12. DOMAIN M.steps = Newest(First(ev, M.last), Kept)
  BY <1>6, <1>9, <1>10, <1>11
<1>13. ASSUME NEW x \in DOMAIN M.steps
       PROVE  /\ M.steps[x] \in 1 .. M.last
              /\ ev[M.steps[x]] = x
              /\ \A j \in 1 .. M.last : j > M.steps[x] => ev[j] # x
  <2>1. x \in D \cup {s} /\ M.steps[x] = IF x = s THEN n + 1 ELSE r.steps[x]
    BY <1>2, <1>3, MergedSteps
  <2>2. CASE x = s
    BY <1>2, <1>3, <1>11, <2>1, <2>2
  <2>3. CASE x # s
    <3>1. /\ r.steps[x] \in 1 .. n
          /\ ev[r.steps[x]] = x
          /\ \A j \in 1 .. n : j > r.steps[x] => ev[j] # x
      BY <1>0, <1>1, <2>1, <2>3 DEF StepsOK
    <3> QED BY <1>2, <1>3, <1>11, <2>1, <2>3, <3>1
  <2> QED BY <2>2, <2>3
<1>14. M.omitted + Cardinality(DOMAIN M.steps) = Cardinality(First(ev, M.last))
  <2>1. s \in F => s \in D
    BY <1>7
  <2>2. PICK k \in Nat : k = r.omitted
    BY DEF Timelines
  <2>3. k + Cardinality(D) = Cardinality(F)
    BY <1>0, <1>1, <2>2 DEF StepsOK
  <2> DEFINE W == Newest(D \cup {s}, Kept)
  <2>4. W \subseteq D \cup {s}
    BY DEF Newest
  <2> HIDE DEF F, D, W
  <2>7. D \subseteq F /\ IsFiniteSet(F)
    BY <1>4, <1>8
  <2>5. k + Cardinality((D \cup {s}) \ W) + Cardinality(W) = Cardinality(F \cup {s})
    BY <2>1, <2>2, <2>3, <2>4, <2>7, OmittedCounts, SMTT(30)
  <2> USE DEF F, D, W
  <2>6. M.omitted = k + Cardinality((D \cup {s}) \ Newest(D \cup {s}, Kept))
    BY <1>3, <2>2, MergedSteps
  <2> QED BY <1>6, <1>10, <1>11, <2>5, <2>6
<1> QED BY <1>1, <1>2, <1>11, <1>12, <1>13, <1>14 DEF StepsOK

(* A whole timeline stays whole when the attempt goes on.                  *)
LEMMA StepsStay ==
  ASSUME NEW ev \in Seq(Nat), NEW ev2 \in Seq(Nat), Len(ev) <= Len(ev2),
         \A i \in 1 .. Len(ev) : ev2[i] = ev[i],
         NEW r \in Timelines, StepsOK(ev, r)
  PROVE  StepsOK(ev2, r)
<1>1. PICK n \in Nat : n = r.last
  BY DEF Timelines
<1>2. Len(ev) \in Nat /\ Len(ev2) \in Nat /\ n <= Len(ev)
  BY <1>1 DEF StepsOK
<1>3. \A i \in 1 .. n : ev2[i] = ev[i]
  BY <1>2
<1>4. First(ev2, n) = First(ev, n)
  BY <1>3 DEF First
<1>5. ASSUME NEW s \in DOMAIN r.steps
      PROVE  /\ r.steps[s] \in 1 .. n
             /\ ev2[r.steps[s]] = s
             /\ \A j \in 1 .. n : j > r.steps[s] => ev2[j] # s
  BY <1>1, <1>3 DEF StepsOK
<1>6. n <= Len(ev2)
  BY <1>1, <1>2
<1> QED BY <1>1, <1>4, <1>5, <1>6 DEF StepsOK

(* A queue that has room takes an item, a full one drops it.               *)
LEMMA EnqueueFacts ==
  ASSUME NEW sk \in [Nth -> Sinks], NEW a \in Nth, NEW item \in Notes, item.attempt = a, NEW sk2,
         sk2 = IF Len(sk[a].queue) < SinkSize
               THEN [sk EXCEPT ![a].queue = Append(@, item)] ELSE sk
  PROVE  sk2 \in [Nth -> Sinks] /\ Queued(sk2, sk, item)
<1>1. PICK q \in Seq(Notes) : q = sk[a].queue
  BY DEF Sinks
<1>0. Append(q, item) \in Seq(Notes)
  BY <1>1
<1>2. PICK q2 \in Seq(Notes) : q2 = Append(q, item)
  BY <1>0
<1>3. /\ Len(q) \in Nat /\ Len(q2) = Len(q) + 1
      /\ \A i \in 1 .. Len(q) : q2[i] = q[i]
      /\ q2[Len(q) + 1] = item
  BY <1>1, <1>2
<1>4. \A b \in Nth : Len(sk[b].queue) \in Nat
  BY QueueFacts
<1>5. CASE sk2 = sk
  BY <1>4, <1>5 DEF Queued
<1>6. CASE sk2 = [sk EXCEPT ![a].queue = Append(@, item)]
  <2>1. sk2 = [sk EXCEPT ![a] = [queue |-> q2, sent |-> sk[a].sent]]
    <3>1. PICK r \in Sinks : r = sk[a]
      OBVIOUS
    <3>2. sk2 = [sk EXCEPT ![a] = [r EXCEPT !.queue = Append(@, item)]]
      BY <1>6, <3>1
    <3>4. q2 = Append(r.queue, item)
      BY <1>1, <1>2, <3>1
    <3>5. [r EXCEPT !.queue = Append(@, item)] = [r EXCEPT !.queue = q2]
      BY <3>4, Zenon
    <3>3. [r EXCEPT !.queue = Append(@, item)] = [queue |-> q2, sent |-> r.sent]
      BY <3>1, <3>5 DEF Sinks
    <3> QED BY <3>1, <3>2, <3>3, <3>4
  <2>2. [queue |-> q2, sent |-> sk[a].sent] \in Sinks
    BY <1>2 DEF Sinks
  <2>3. sk2 \in [Nth -> Sinks]
    BY <2>1, <2>2
  <2>4. ASSUME NEW b \in Nth
        PROVE  /\ sk2[b].sent = sk[b].sent
               /\ \A i \in 1 .. Len(sk2[b].queue) :
                    \/ i <= Len(sk[b].queue) /\ sk2[b].queue[i] = sk[b].queue[i]
                    \/ i = Len(sk[b].queue) + 1 /\ sk2[b].queue[i] = item /\ b = item.attempt
    <3>1. CASE b = a
      <4>1. sk2[b].queue = q2 /\ sk2[b].sent = sk[b].sent /\ sk[b].queue = q
        BY <1>1, <2>1, <3>1
      <4> QED BY <1>3, <3>1, <4>1
    <3>2. CASE b # a
      <4>1. sk2[b] = sk[b]
        BY <2>1, <3>2
      <4> QED BY <1>4, <4>1
    <3> QED BY <3>1, <3>2
  <2> QED BY <2>3, <2>4 DEF Queued
<1> QED BY <1>5, <1>6

(* What an attempt sends is queued.                                        *)
LEMMA SendStep ==
  ASSUME StreamInv, NEW a \in Nth, NEW item \in Notes, item.attempt = a,
         NEW rec2 \in [Nth -> Records], record' = rec2, RecordedMore(rec2, record),
         Genuine(rec2, item), Unrecorded(record, item), Enqueue(a, item),
         \A b \in Nth : RecordOK(rec2[b]),
         UNCHANGED <<attempts, wire, page>>
  PROVE  StreamInv'
<1>1. /\ StreamTypeOK
      /\ QueuesOK(record, sink) /\ FlownOK(record, sink, wire) /\ OrderOK(wire) /\ OnceOK(wire)
      /\ AheadOK(sink, wire, page.live) /\ ProgressOK(record, sink, wire, page.progress)
      /\ \A b \in Nth : ~page.live[b].incomplete => StepsOK(record[b].events, page.live[b])
  BY DEF StreamInv
<1>2. /\ record \in [Nth -> Records] /\ sink \in [Nth -> Sinks] /\ wire \in Wires
      /\ page.live \in [Nth -> Timelines]
      /\ page.progress \in [attempt : Nat, seq : Nat, stage : Nat]
  BY <1>1 DEF StreamTypeOK, Pages
<1>3. PICK sk2 : sk2 = sink'
  OBVIOUS
<1>4. sk2 \in [Nth -> Sinks] /\ Queued(sk2, sink, item)
  BY <1>2, <1>3, EnqueueFacts DEF Enqueue
<1>5. QueuesOK(rec2, sk2)
  BY <1>1, <1>2, <1>4, QueuesGrow
<1>6. FlownOK(rec2, sk2, wire)
  BY <1>1, <1>2, <1>4, FlownBeforeQueued
<1>7. AheadOK(sk2, wire, page.live)
  <2>1. \A b \in Nth : ~page.live[b].incomplete => page.live[b].last <= Len(record[b].events)
    BY <1>1 DEF StepsOK
  <2> QED BY <1>1, <1>2, <1>4, <2>1, AheadWhenQueued
<1>8. ProgressOK(rec2, sk2, wire, page.progress)
  BY <1>1, <1>2, <1>4, ProgressWhenQueued
<1>9. ASSUME NEW b \in Nth, ~page.live[b].incomplete
      PROVE  StepsOK(rec2[b].events, page.live[b])
  <2>1. record[b].events \in Seq(Nat) /\ rec2[b].events \in Seq(Nat) /\ page.live[b] \in Timelines
    BY <1>2 DEF Records
  <2>2. /\ Len(record[b].events) <= Len(rec2[b].events)
        /\ \A i \in 1 .. Len(record[b].events) : rec2[b].events[i] = record[b].events[i]
    BY DEF RecordedMore
  <2>3. StepsOK(record[b].events, page.live[b])
    BY <1>1, <1>9
  <2> QED BY <2>1, <2>2, <2>3, StepsStay
<1>10. StreamTypeOK'
  BY <1>1, <1>3, <1>4 DEF StreamTypeOK
<1>11. /\ attempts' = attempts /\ wire' = wire /\ page' = page /\ sink' = sk2
       /\ record' = rec2
  BY <1>3
<1>12. \A b \in Nth : ~page.live[b].incomplete => StepsOK(rec2[b].events, page.live[b])
  BY <1>9
<1> QED BY <1>1, <1>5, <1>6, <1>7, <1>8, <1>10, <1>11, <1>12 DEF StreamInv

(* A record with other events and other kept steps.                        *)
LEMMA RecordWith ==
  ASSUME NEW r \in Records, NEW ev, NEW held
  PROVE  [r EXCEPT !.events = ev, !.kept = held]
           = [events |-> ev, kept |-> held, stage |-> r.stage]
<1>1. [r EXCEPT !.events = ev] = [events |-> ev, kept |-> r.kept, stage |-> r.stage]
  BY DEF Records
<1>2. [[events |-> ev, kept |-> r.kept, stage |-> r.stage] EXCEPT !.kept = held]
        = [events |-> ev, kept |-> held, stage |-> r.stage]
  OBVIOUS
<1>3. [r EXCEPT !.events = ev, !.kept = held] = [[r EXCEPT !.events = ev] EXCEPT !.kept = held]
  OBVIOUS
<1> QED BY <1>1, <1>2, <1>3

(* A step of an attempt.                                                   *)
LEMMA SaveRecordStep ==
  ASSUME StreamInv, NEW a \in Nth, NEW s \in Nat, Save(a, s),
         \/ s \in record[a].kept
         \/ s = Cardinality(First(record[a].events, Len(record[a].events))) + 1,
         UNCHANGED <<attempts, wire, page>>
  PROVE  StreamInv'
<1>1. record \in [Nth -> Records] /\ RecordOK(record[a])
  BY DEF StreamInv, StreamTypeOK
<1>2. PICK ev \in Seq(Nat) : ev = record[a].events
  BY <1>1 DEF Records
<1>3. PICK held \in SUBSET Nat : held = record[a].kept
  BY <1>1 DEF Records
<1>4. PICK n \in 0 .. Kept :
        record' = [record EXCEPT ![a].events = Append(@, s), ![a].kept = Newest(held \cup {s}, n)]
  BY <1>3 DEF Save
<1> DEFINE E == First(ev, Len(ev))
           ev2 == Append(ev, s)
           kept2 == Newest(held \cup {s}, n)
           r2 == [events |-> ev2, kept |-> kept2, stage |-> record[a].stage]
<1>5. Len(ev) \in Nat
  BY <1>2
<1>6. E \in SUBSET Nat /\ IsFiniteSet(E) /\ Cardinality(E) \in Nat
  BY <1>2, <1>5, FirstFacts
<1>7. /\ ev2 \in Seq(Nat)
      /\ Len(ev2) = Len(ev) + 1
      /\ \A i \in 1 .. Len(ev) : ev2[i] = ev[i]
      /\ ev2[Len(ev) + 1] = s
      /\ \A k \in 0 .. Len(ev) : First(ev2, k) = First(ev, k)
      /\ First(ev2, Len(ev) + 1) = E \cup {s}
  BY <1>2, EventsGrow
<1>8. /\ held \subseteq Newest(E, Kept)
      /\ \A x \in held : \A y \in E : y > x => y \in held
      /\ E \subseteq 1 .. Cardinality(E)
      /\ \A k \in 0 .. Len(ev) - 1 :
           \/ ev[k + 1] \in Newest(First(ev, k), Kept)
           \/ \A t \in First(ev, k) : ev[k + 1] > t
  <2>1. Recording(ev, held)
    BY <1>1, <1>2, <1>3 DEF RecordOK
  <2> QED BY <2>1, Zenon DEF Recording
<1>9. s \in held \/ (s = Cardinality(E) + 1 /\ \A t \in E : s > t)
  BY <1>2, <1>3, <1>6, <1>8
<1>10. held \subseteq E
  BY <1>8 DEF Newest
<1>11. n \in Nat /\ n <= Kept
  BY <1>4, StreamConstants
<1>12. /\ kept2 \subseteq Newest(E \cup {s}, Kept)
       /\ \A x \in kept2 : \A y \in E \cup {s} : y > x => y \in kept2
  <2>1. s \in held \/ \A t \in E : s > t
    BY <1>9
  <2> HIDE DEF E
  <2> QED BY <1>6, <1>8, <1>10, <1>11, <2>1, KeptGrows
<1>13. E \cup {s} \subseteq 1 .. Cardinality(E \cup {s})
  <2>1. CASE s \in E
    BY <1>8, <2>1
  <2>2. CASE s \notin E
    <3>1. Cardinality(E \cup {s}) = Cardinality(E) + 1
      BY <1>6, <2>2, FS_AddElement
    <3>2. s = Cardinality(E) + 1
      BY <1>9, <1>10, <2>2
    <3> QED BY <1>6, <1>8, <3>1, <3>2
  <2> QED BY <2>1, <2>2
<1>14. ASSUME NEW k \in 0 .. Len(ev2) - 1
       PROVE  \/ ev2[k + 1] \in Newest(First(ev2, k), Kept)
              \/ \A t \in First(ev2, k) : ev2[k + 1] > t
  <2>1. CASE k < Len(ev)
    <3>1. k \in 0 .. Len(ev) - 1 /\ ev2[k + 1] = ev[k + 1] /\ First(ev2, k) = First(ev, k)
      BY <1>5, <1>7, <2>1
    <3> QED BY <1>8, <3>1
  <2>2. CASE k = Len(ev)
    <3>1. ev2[k + 1] = s /\ First(ev2, k) = E
      BY <1>5, <1>7, <2>2
    <3> QED BY <1>8, <1>9, <3>1
  <2> QED BY <1>5, <1>7, <2>1, <2>2
<1>15. kept2 \in SUBSET Nat
  BY <1>3 DEF Newest
<1> HIDE DEF E, ev2, kept2
<1>16. r2 \in Records
  BY <1>1, <1>7, <1>15 DEF Records
<1>17. RecordOK(r2)
  <2>1. First(ev2, Len(ev2)) = E \cup {s}
    BY <1>7
  <2> QED BY <1>12, <1>13, <1>14, <2>1 DEF RecordOK, Recording
<1>18. record' = [record EXCEPT ![a] = r2]
  <2>1. PICK r \in Records : r = record[a]
    BY <1>1
  <2>2. record' = [record EXCEPT ![a] = [r EXCEPT !.events = Append(@, s),
                                                  !.kept = Newest(held \cup {s}, n)]]
    BY <1>1, <1>4, <2>1
  <2>4. ev2 = Append(r.events, s) /\ kept2 = Newest(held \cup {s}, n) /\ r.stage = record[a].stage
    BY <1>2, <2>1 DEF ev2, kept2
  <2>5. [r EXCEPT !.events = Append(@, s), !.kept = Newest(held \cup {s}, n)]
          = [r EXCEPT !.events = ev2, !.kept = kept2]
    BY <2>4, Zenon
  <2>3. [r EXCEPT !.events = Append(@, s), !.kept = Newest(held \cup {s}, n)] = r2
    <3>1. [r EXCEPT !.events = ev2, !.kept = kept2]
            = [events |-> ev2, kept |-> kept2, stage |-> r.stage]
      BY <2>1, RecordWith
    <3> QED BY <2>4, <2>5, <3>1
  <2> QED BY <2>2, <2>3, <2>4
<1> HIDE DEF r2
<1>19. PICK rec2 \in [Nth -> Records] : rec2 = record'
  BY <1>1, <1>16, <1>18
<1>20. rec2[a] = r2 /\ \A b \in Nth : b # a => rec2[b] = record[b]
  BY <1>1, <1>18, <1>19
<1>21. \A b \in Nth : RecordOK(rec2[b])
  BY <1>17, <1>20 DEF StreamInv
<1>22. r2.events = ev2 /\ r2.stage = record[a].stage
  BY DEF r2
<1>23. RecordedMore(rec2, record)
  <2>1. ASSUME NEW b \in Nth
        PROVE  /\ Len(record[b].events) <= Len(rec2[b].events)
               /\ \A i \in 1 .. Len(record[b].events) : rec2[b].events[i] = record[b].events[i]
               /\ record[b].stage <= rec2[b].stage
    <3>1. record[b].stage \in Nat /\ Len(record[b].events) \in Nat
      BY <1>1 DEF Records
    <3>2. CASE b = a
      BY <1>2, <1>5, <1>7, <1>20, <1>22, <3>1, <3>2, SMTT(30)
    <3>3. CASE b # a
      BY <1>20, <3>1, <3>3
    <3> QED BY <3>2, <3>3
  <2> QED BY <2>1 DEF RecordedMore
<1>24. PICK item : item = StepEvent(a, s, Len(ev) + 1)
  OBVIOUS
<1>25. /\ item \in Notes /\ item.attempt = a /\ item.kind = "step" /\ item.seq = Len(ev) + 1
       /\ item.step = s /\ item.stage = 0
  BY <1>5, <1>24 DEF StepEvent, Notes
<1>26. Genuine(rec2, item)
  BY <1>5, <1>7, <1>20, <1>22, <1>25 DEF Genuine
<1>27. Unrecorded(record, item)
  BY <1>2, <1>5, <1>25 DEF Unrecorded
<1>28. Enqueue(a, item)
  BY <1>2, <1>24 DEF Save
<1> QED BY <1>1, <1>19, <1>21, <1>23, <1>25, <1>26, <1>27, <1>28, SendStep

(* An attempt begins a step.                                               *)
LEMMA BeginRecordStep ==
  ASSUME StreamInv, NEW a \in Nth, Begin(a)
  PROVE  StreamInv'
<1>1. record \in [Nth -> Records]
  BY DEF StreamInv, StreamTypeOK
<1>2. PICK ev \in Seq(Nat) : ev = record[a].events
  BY <1>1 DEF Records
<1>3. ToSet(ev) = First(ev, Len(ev))
  BY <1>2 DEF ToSet, First
<1>4. Len(ev) \in 0 .. Len(ev)
  BY <1>2
<1>5. PICK s \in Nat : s = Cardinality(First(ev, Len(ev))) + 1
  BY <1>2, <1>4, FirstFacts
<1>6. Save(a, s) /\ UNCHANGED <<attempts, wire, page>>
  BY <1>2, <1>3, <1>5, Zenon DEF Begin
<1> QED BY <1>2, <1>5, <1>6, SaveRecordStep

(* An attempt updates a step it keeps.                                     *)
LEMMA UpdateStep ==
  ASSUME StreamInv, NEW a \in Nth, NEW s \in record[a].kept, Update(a, s)
  PROVE  StreamInv'
<1>1. record \in [Nth -> Records]
  BY DEF StreamInv, StreamTypeOK
<1>2. s \in Nat
  BY <1>1 DEF Records
<1> QED BY <1>2, SaveRecordStep, Zenon DEF Update

(* A snapshot of an attempt.                                               *)
LEMMA ShowStep ==
  ASSUME StreamInv, NEW a \in Nth, Show(a)
  PROVE  StreamInv'
<1>1. record \in [Nth -> Records]
  BY DEF StreamInv, StreamTypeOK
<1>2. PICK n \in Nat : n = record[a].stage
  BY <1>1 DEF Records
<1> DEFINE r2 == [events |-> record[a].events, kept |-> record[a].kept, stage |-> n + 1]
<1>3. record' = [record EXCEPT ![a] = r2]
  <2>1. record' = [record EXCEPT ![a] = [record[a] EXCEPT !.stage = @ + 1]]
    BY <1>1 DEF Show
  <2>2. record[a] \in Records
    BY <1>1
  <2>3. [record[a] EXCEPT !.stage = @ + 1] = r2
    BY <1>2, <2>2 DEF Records
  <2> QED BY <2>1, <2>3
<1>4. r2 \in Records /\ r2.events = record[a].events /\ r2.kept = record[a].kept /\ r2.stage = n + 1
  BY <1>1, <1>2 DEF Records
<1> HIDE DEF r2
<1>5. PICK rec2 \in [Nth -> Records] : rec2 = record'
  BY <1>1, <1>3, <1>4
<1>6. rec2[a] = r2 /\ \A b \in Nth : b # a => rec2[b] = record[b]
  BY <1>1, <1>3, <1>5
<1>7. \A b \in Nth : rec2[b].events = record[b].events /\ rec2[b].kept = record[b].kept
  BY <1>4, <1>6
<1>8. \A b \in Nth : RecordOK(rec2[b])
  BY <1>7 DEF StreamInv, RecordOK
<1>9. RecordedMore(rec2, record)
  <2>1. \A b \in Nth : record[b].stage \in Nat /\ Len(record[b].events) \in Nat
    BY <1>1 DEF Records
  <2>2. \A b \in Nth : record[b].stage <= rec2[b].stage
    BY <1>2, <1>4, <1>6, <2>1
  <2> QED BY <1>7, <2>1, <2>2 DEF RecordedMore
<1>10. PICK item : item = StageEvent(a, n + 1)
  OBVIOUS
<1>11. /\ item \in Notes /\ item.attempt = a /\ item.kind = "stage" /\ item.stage = n + 1
  BY <1>2, <1>10 DEF StageEvent, Notes
<1>12. Genuine(rec2, item) /\ Unrecorded(record, item)
  BY <1>2, <1>4, <1>6, <1>11 DEF Genuine, Unrecorded
<1>13. Enqueue(a, item) /\ UNCHANGED <<attempts, wire, page>>
  BY <1>2, <1>10 DEF Show
<1> QED BY <1>5, <1>8, <1>9, <1>11, <1>12, <1>13, SendStep

(* What is on its way changes, and no more.                                *)
LEMMA TransitStep ==
  ASSUME StreamInv, NEW sk2 \in [Nth -> Sinks], NEW w2 \in Wires, sink' = sk2, wire' = w2,
         UNCHANGED <<attempts, record, page>>,
         QueuesOK(record, sk2), FlownOK(record, sk2, w2), OrderOK(w2), OnceOK(w2),
         AheadOK(sk2, w2, page.live), ProgressOK(record, sk2, w2, page.progress)
  PROVE  StreamInv'
<1>1. StreamTypeOK'
  BY DEF StreamInv, StreamTypeOK
<1>2. /\ \A a \in Nth : RecordOK(record[a])
      /\ \A a \in Nth : ~page.live[a].incomplete => StepsOK(record[a].events, page.live[a])
  BY DEF StreamInv
<1> QED BY <1>1, <1>2 DEF StreamInv

(* The oldest item leaves the queue.                                       *)
LEMMA HeadIsTaken ==
  ASSUME NEW sk \in [Nth -> Sinks], NEW a \in Nth, NEW count \in Nat, sk[a].sent <= count,
         NEW q \in Seq(Notes), q = sk[a].queue, q # <<>>, NEW sk2,
         sk2 = [sk EXCEPT ![a] = [queue |-> Tail(q), sent |-> count]]
  PROVE  /\ sk2 \in [Nth -> Sinks] /\ Taken(sk2, sk)
         /\ sk2[a].sent = count /\ sk2[a].queue = Tail(q)
<1>1. /\ Tail(q) \in Seq(Notes) /\ Len(Tail(q)) = Len(q) - 1
      /\ \A i \in 1 .. Len(Tail(q)) : Tail(q)[i] = q[i + 1]
  OBVIOUS
<1>2. PICK q2 \in Seq(Notes) : q2 = Tail(q)
  BY <1>1
<1>3. [queue |-> q2, sent |-> count] \in Sinks
  BY <1>2 DEF Sinks
<1>4. sk2 \in [Nth -> Sinks] /\ sk2[a] = [queue |-> q2, sent |-> count]
      /\ \A b \in Nth : b # a => sk2[b] = sk[b]
  BY <1>2, <1>3
<1>5. ASSUME NEW b \in Nth
      PROVE  /\ sk[b].sent <= sk2[b].sent
             /\ \/ sk2[b].queue = sk[b].queue
                \/ /\ Len(sk2[b].queue) = Len(sk[b].queue) - 1
                   /\ \A i \in 1 .. Len(sk2[b].queue) : sk2[b].queue[i] = sk[b].queue[i + 1]
  <2>1. CASE b = a
    BY <1>1, <1>2, <1>4, <2>1
  <2>2. CASE b # a
    BY <1>4, <2>2 DEF Sinks
  <2> QED BY <2>1, <2>2
<1> QED BY <1>2, <1>4, <1>5 DEF Taken

(* The oldest item of a queue is sent, lost or late.                       *)
LEMMA NotifyStep ==
  ASSUME StreamInv, NEW a \in Nth, Notify(a)
  PROVE  StreamInv'
<1>1. /\ QueuesOK(record, sink) /\ FlownOK(record, sink, wire) /\ OrderOK(wire) /\ OnceOK(wire)
      /\ AheadOK(sink, wire, page.live) /\ ProgressOK(record, sink, wire, page.progress)
  BY DEF StreamInv
<1>2. /\ record \in [Nth -> Records] /\ sink \in [Nth -> Sinks] /\ wire \in Wires
      /\ page.live \in [Nth -> Timelines]
      /\ page.progress \in [attempt : Nat, seq : Nat, stage : Nat]
  BY DEF StreamInv, StreamTypeOK, Pages
<1>3. PICK q \in Seq(Notes) : q = sink[a].queue
  BY <1>2 DEF Sinks
<1>4. q # <<>>
  BY <1>3 DEF Notify
<1>5. PICK head \in Notes : head = Head(q) /\ head = q[1] /\ 1 \in 1 .. Len(q)
  BY <1>3, <1>4
<1>6. PICK old \in Nat : old = sink[a].sent
  BY <1>2 DEF Sinks
<1>7. PICK count \in Nat : count = IF head.kind = "stage" THEN old + 1 ELSE old
  BY <1>6
<1>8. PICK event : event = IF head.kind = "stage" THEN [head EXCEPT !.seq = count] ELSE head
  OBVIOUS
<1>9. PICK sk2 : sk2 = [sink EXCEPT ![a] = [queue |-> Tail(q), sent |-> count]]
  OBVIOUS
<1>10. PICK w2 : w2 = wire'
  OBVIOUS
<1>11. sink' = sk2 /\ w2 \in {Fanned(wire, event), Dropped(wire), Delayed(wire, event)}
  <2>1. count = IF Head(sink[a].queue).kind = "stage" THEN sink[a].sent + 1 ELSE sink[a].sent
    BY <1>3, <1>5, <1>6, <1>7
  <2>2. event = IF Head(sink[a].queue).kind = "stage"
                THEN [Head(sink[a].queue) EXCEPT !.seq = count] ELSE Head(sink[a].queue)
    BY <1>3, <1>5, <1>8
  <2>3. /\ sink' = [sink EXCEPT ![a] = [queue |-> Tail(sink[a].queue), sent |-> count]]
        /\ wire' = Fanned(wire, event) \/ wire' = Dropped(wire) \/ wire' = Delayed(wire, event)
    BY <2>1, <2>2, Zenon DEF Notify
  <2> QED BY <1>3, <1>9, <1>10, <2>3
<1>12. UNCHANGED <<attempts, record, page>>
  BY DEF Notify
<1>13. head.attempt = a /\ Genuine(record, head)
  BY <1>1, <1>3, <1>5 DEF QueuesOK
<1>14. /\ event \in Notes /\ event.kind = head.kind /\ event.attempt = a
       /\ event.step = head.step /\ event.stage = head.stage
       /\ event.kind = "stage" => event.seq = old + 1 /\ count = old + 1
       /\ event.kind # "stage" => event = head /\ count = old
  <2>1. CASE head.kind = "stage"
    <3>1. event = [kind |-> head.kind, attempt |-> head.attempt, step |-> head.step,
                   seq |-> count, stage |-> head.stage]
      BY <1>8, <2>1 DEF Notes
    <3> QED BY <1>7, <1>13, <2>1, <3>1 DEF Notes
  <2>2. CASE head.kind # "stage"
    BY <1>7, <1>8, <1>13, <2>2
  <2> QED BY <2>1, <2>2
<1>15. Rank(event) = Rank(head) /\ Rank(head) \in Nat
  BY <1>14, RankType DEF Rank
<1>16. Genuine(record, event)
  BY <1>13, <1>14 DEF Genuine
<1>17. /\ sk2 \in [Nth -> Sinks] /\ Taken(sk2, sink)
       /\ sk2[a].sent = count /\ sk2[a].queue = Tail(q)
  <2>1. sink[a].sent <= count
    BY <1>6, <1>7
  <2> QED BY <1>2, <1>3, <1>4, <1>7, <1>9, <2>1, HeadIsTaken, ZenonT(40)
<1>18. /\ QueuesOK(record, sk2) /\ FlownOK(record, sk2, wire) /\ AheadOK(sk2, wire, page.live)
       /\ ProgressOK(record, sk2, wire, page.progress)
  BY <1>1, <1>2, <1>17, QueuesShrink
<1>19. \A i \in 1 .. Len(sk2[event.attempt].queue) :
         sk2[event.attempt].queue[i].kind = event.kind
           => Rank(event) < Rank(sk2[event.attempt].queue[i])
  <2>1. /\ Len(Tail(q)) = Len(q) - 1 /\ Len(q) \in Nat
        /\ \A i \in 1 .. Len(Tail(q)) : Tail(q)[i] = q[i + 1]
    BY <1>3, <1>4
  <2>2. ASSUME NEW i \in 1 .. Len(Tail(q)), Tail(q)[i].kind = head.kind
        PROVE  Rank(head) < Rank(Tail(q)[i])
    <3>1. i + 1 \in 1 .. Len(q) /\ Tail(q)[i] = q[i + 1] /\ 1 < i + 1
      BY <2>1
    <3>2. \A j \in 1 .. Len(q) : 1 < j /\ q[1].kind = q[j].kind => Rank(q[1]) < Rank(q[j])
      BY <1>1, <1>3, <1>5 DEF QueuesOK
    <3> QED BY <1>5, <2>2, <3>1, <3>2
  <2> QED BY <1>14, <1>15, <1>17, <2>2
<1>20. \A f \in Flown(wire) : f.kind = event.kind /\ f.attempt = a => Rank(f) < Rank(event)
  BY <1>1, <1>3, <1>5, <1>14, <1>15 DEF FlownOK
<1>21. \A f \in Flown(wire) :
         f.kind = "stage" /\ f.kind = event.kind /\ f.attempt = event.attempt =>
           f.stage < event.stage /\ f.seq < event.seq
  <2> SUFFICES ASSUME NEW f \in Flown(wire), f.kind = "stage", event.kind = "stage", f.attempt = a
               PROVE  f.stage < event.stage /\ f.seq < event.seq
    BY <1>14
  <2>1. f \in Notes
    BY <1>2, FlownNotes
  <2>2. f.stage < event.stage
    BY <1>20 DEF Rank
  <2>3. f.seq <= old
    BY <1>1, <1>6 DEF FlownOK
  <2>4. f.seq \in Nat
    BY <2>1 DEF Notes
  <2> QED BY <1>6, <1>14, <2>2, <2>3, <2>4
<1>22. \A b \in Nth : ~page.live[b].incomplete /\ event.kind = "step" /\ event.attempt = b =>
         event.seq > page.live[b].last
  BY <1>1, <1>3, <1>5, <1>14 DEF AheadOK
<1>23. event.kind = "stage" /\ event.attempt = page.progress.attempt =>
         event.stage >= page.progress.stage
  BY <1>1, <1>3, <1>5, <1>14 DEF ProgressOK
<1>24. \A f \in Flown(wire) : ~SameStep(f, event)
  <2>1. \A f \in Flown(wire) : f \in Notes
    BY <1>2, FlownNotes
  <2>2. event.seq \in Nat
    BY <1>14 DEF Notes
  <2> QED BY <1>14, <1>20, <2>1, <2>2 DEF SameStep, Rank, Notes
<1>25. w2 \in Wires /\ Flown(w2) \subseteq Flown(wire) \cup {event} /\ OnceOK(w2)
  BY <1>1, <1>2, <1>11, <1>14, <1>24, Ways, WaysFlown, OnceMore
<1>26. Flown(wire) \in SUBSET Notes
  BY <1>2, FlownNotes
<1>27. event.kind = "stage" => event.seq = sk2[event.attempt].sent
  BY <1>14, <1>17
<1>28. /\ FlownOK(record, sk2, w2) /\ OrderOK(w2) /\ AheadOK(sk2, w2, page.live)
       /\ ProgressOK(record, sk2, w2, page.progress)
  BY <1>1, <1>14, <1>16, <1>18, <1>19, <1>21, <1>22, <1>23, <1>25, <1>26, <1>27, OneMoreFlown
<1> QED BY <1>10, <1>11, <1>12, <1>17, <1>18, <1>25, <1>28, TransitStep

(* Fewer are on their way.                                                 *)
LEMMA FewerStep ==
  ASSUME StreamInv, NEW w2 \in Wires, wire' = w2, UNCHANGED <<attempts, record, sink, page>>,
         Flown(w2) \subseteq Flown(wire), OnceOK(w2)
  PROVE  StreamInv'
<1>1. /\ QueuesOK(record, sink) /\ FlownOK(record, sink, wire) /\ OrderOK(wire)
      /\ AheadOK(sink, wire, page.live) /\ ProgressOK(record, sink, wire, page.progress)
  BY DEF StreamInv
<1>2. sink \in [Nth -> Sinks] /\ sink' = sink
  BY DEF StreamInv, StreamTypeOK
<1>3. /\ FlownOK(record, sink, w2) /\ OrderOK(w2) /\ AheadOK(sink, w2, page.live)
      /\ ProgressOK(record, sink, w2, page.progress)
  BY <1>1, FewerFlown
<1> QED BY <1>1, <1>2, <1>3, TransitStep

(* A late event arrives, once.                                             *)
LEMMA NotifyLateStep ==
  ASSUME StreamInv, NEW event \in wire.late, NotifyLate(event)
  PROVE  StreamInv'
<1>1. FlownOK(record, sink, wire) /\ OnceOK(wire) /\ wire \in Wires
  BY DEF StreamInv, StreamTypeOK
<1>2. PICK w \in Wires : w = wire
  BY <1>1
<1>3. PICK w1 : w1 = [w EXCEPT !.late = @ \ {event}]
  OBVIOUS
<1>4. w1 = [late |-> w.late \ {event}, open |-> w.open, events |-> w.events]
  BY <1>2, <1>3 DEF Wires
<1>5. w1 \in Wires /\ w1.late = w.late \ {event} /\ w1.events = w.events
  BY <1>2, <1>4 DEF Wires
<1>6. Flown(w1) \subseteq Flown(wire) /\ event \in Flown(wire)
  BY <1>2, <1>5 DEF Flown
<1>7. OnceOK(w1)
  BY <1>1, <1>2, <1>5 DEF OnceOK
<1>8. event \in Notes
  BY <1>1 DEF Wires
<1>9. PICK w2 : w2 = Fanned(w1, event)
  OBVIOUS
<1>10. \A f \in Flown(w1) : ~SameStep(f, event)
  <2>1. \A i \in 1 .. Len(w1.events) : ~SameStep(w1.events[i], event)
    BY <1>1, <1>2, <1>5 DEF OnceOK, SameStep
  <2>2. ASSUME NEW f \in w1.late, SameStep(f, event)
        PROVE  FALSE
    <3>1. f \in Notes /\ f # event /\ f \in Flown(wire)
      BY <1>2, <1>5, <2>2 DEF Wires, Flown
    <3>2. Genuine(record, f) /\ Genuine(record, event)
      BY <1>1, <1>6, <3>1 DEF FlownOK
    <3>3. f.kind = event.kind /\ f.attempt = event.attempt /\ f.seq = event.seq
          /\ f.step = event.step /\ f.stage = event.stage
      BY <2>2, <3>2 DEF SameStep, Genuine
    <3>4. f = event
      BY <1>8, <3>1, <3>3 DEF Notes
    <3> QED BY <3>1, <3>4
  <2> QED BY <2>1, <2>2 DEF Flown
<1>11. w2 \in Wires /\ Flown(w2) \subseteq Flown(w1) \cup {event} /\ OnceOK(w2)
  BY <1>5, <1>7, <1>8, <1>9, <1>10, Ways, WaysFlown, OnceMore
<1>12. Flown(w2) \subseteq Flown(wire)
  BY <1>6, <1>11
<1>13. wire' = w2 /\ UNCHANGED <<attempts, record, sink, page>>
  BY <1>2, <1>3, <1>9 DEF NotifyLate
<1> QED BY <1>11, <1>12, <1>13, FewerStep

(* The page takes nothing in, or calls timelines incomplete.               *)
LEMMA NothingMergedStep ==
  ASSUME StreamInv, NEW w2 \in Wires, wire' = w2, NEW p2 \in Pages, page' = p2,
         UNCHANGED <<attempts, record, sink>>,
         Flown(w2) \subseteq Flown(wire), OnceOK(w2),
         p2.progress = page.progress,
         \A a \in Nth : p2.live[a] = page.live[a] \/ p2.live[a].incomplete
  PROVE  StreamInv'
<1>1. /\ QueuesOK(record, sink) /\ FlownOK(record, sink, wire) /\ OrderOK(wire)
      /\ AheadOK(sink, wire, page.live) /\ ProgressOK(record, sink, wire, page.progress)
      /\ \A a \in Nth : RecordOK(record[a])
      /\ \A a \in Nth : ~page.live[a].incomplete => StepsOK(record[a].events, page.live[a])
  BY DEF StreamInv
<1>2. /\ FlownOK(record, sink, w2) /\ OrderOK(w2) /\ AheadOK(sink, w2, page.live)
      /\ ProgressOK(record, sink, w2, page.progress)
  BY <1>1, FewerFlown
<1>3. \A a \in Nth : ~p2.live[a].incomplete => p2.live[a] = page.live[a]
  OBVIOUS
<1>4. AheadOK(sink, w2, p2.live)
  BY <1>2, <1>3 DEF AheadOK
<1>5. \A a \in Nth : ~p2.live[a].incomplete => StepsOK(record[a].events, p2.live[a])
  BY <1>1, <1>3
<1>6. ProgressOK(record, sink, w2, p2.progress)
  BY <1>2
<1>7. StreamTypeOK'
  BY DEF StreamInv, StreamTypeOK
<1> QED BY <1>1, <1>2, <1>4, <1>5, <1>6, <1>7 DEF StreamInv

(* The parts of a page.                                                    *)
LEMMA PageParts ==
  ASSUME NEW p \in Pages
  PROVE  /\ p.phase \in {"away", "live", "polling", "settled"} /\ p.asked \in Nat /\ p.live \in [Nth -> Timelines]
         /\ p.progress \in [attempt : Nat, seq : Nat, stage : Nat]
         /\ p = [phase |-> p.phase, asked |-> p.asked, live |-> p.live, progress |-> p.progress]
BY DEF Pages

(* A page of such parts.                                                   *)
LEMMA PageMade ==
  ASSUME NEW phase \in {"away", "live", "polling", "settled"}, NEW asked \in Nat,
         NEW live \in [Nth -> Timelines],
         NEW progress \in [attempt : Nat, seq : Nat, stage : Nat]
  PROVE  [phase |-> phase, asked |-> asked, live |-> live, progress |-> progress] \in Pages
BY DEF Pages

(* A subscription that begins or ends holds nothing.                       *)
LEMMA WireEmptied ==
  ASSUME NEW w \in Wires, NEW open \in BOOLEAN, OnceOK(w)
  PROVE  LET w2 == [w EXCEPT !.open = open, !.events = <<>>]
         IN  w2 \in Wires /\ Flown(w2) \subseteq Flown(w) /\ OnceOK(w2)
<1>1. [w EXCEPT !.open = open] = [late |-> w.late, open |-> open, events |-> w.events]
  BY DEF Wires
<1>2. PICK w2 : w2 = [w EXCEPT !.open = open, !.events = <<>>]
  OBVIOUS
<1>3. w2 = [late |-> w.late, open |-> open, events |-> <<>>]
  BY <1>1, <1>2
<1>4. w2 \in Wires /\ w2.late = w.late /\ w2.events = <<>>
  BY <1>3 DEF Wires
<1>5. Flown(w2) \subseteq Flown(w)
  BY <1>4 DEF Flown
<1>6. OnceOK(w2)
  BY <1>4 DEF OnceOK
<1> QED BY <1>2, <1>4, <1>5, <1>6

(* The page subscribes.                                                    *)
LEMMA FollowStep ==
  ASSUME StreamInv, Follow \/ Resubscribe \/ StatusChanges
  PROVE  StreamInv'
<1>1. wire \in Wires /\ page \in Pages /\ OnceOK(wire) /\ attempts \in Nat
  BY DEF StreamInv, StreamTypeOK
<1>2. PICK w2 : w2 = [wire EXCEPT !.open = TRUE, !.events = <<>>]
  OBVIOUS
<1>3. w2 \in Wires /\ Flown(w2) \subseteq Flown(wire) /\ OnceOK(w2)
  BY <1>1, <1>2, WireEmptied
<1>4. wire' = w2 /\ UNCHANGED <<attempts, record, sink>>
  BY <1>2 DEF Follow, Resubscribe, StatusChanges, Subscribed
<1>5. PICK n \in Nat : page' = [phase |-> "live", asked |-> n, live |-> page.live,
                                progress |-> page.progress]
  <2>1. CASE Follow
    BY <1>1, <2>1 DEF Follow, Pages
  <2>2. CASE Resubscribe
    BY <1>1, <2>2 DEF Resubscribe, Pages
  <2>3. CASE StatusChanges
    <3>1. PICK read \in page.asked .. attempts :
            page' = [page EXCEPT !.phase = "live", !.asked = read]
      BY <2>3 DEF StatusChanges
    <3>2. read \in Nat /\ page \in Pages
      BY <1>1 DEF Pages
    <3> QED BY <3>1, <3>2 DEF Pages
  <2> QED BY <2>1, <2>2, <2>3
<1>6. PICK p2 \in Pages : p2 = page'
  <2>1. page.live \in [Nth -> Timelines]
        /\ page.progress \in [attempt : Nat, seq : Nat, stage : Nat]
    BY <1>1, PageParts
  <2>2. page' \in Pages
    BY <1>5, <2>1, PageMade
  <2> QED BY <2>2
<1>7. p2.live = page.live /\ p2.progress = page.progress
  BY <1>5, <1>6
<1> QED BY <1>3, <1>4, <1>6, <1>7, NothingMergedStep

(* A stream that is cut off leaves the timelines as they are, but          *)
(* incomplete.                                                             *)
LEMMA CutOffPage ==
  ASSUME StreamInv, CutOff
  PROVE  /\ page' \in Pages
         /\ page'.progress = page.progress
         /\ \A a \in Nth : page'.live[a].steps = page.live[a].steps
         /\ \A a \in Nth : page'.live[a] = page.live[a] \/ page'.live[a].incomplete
<1>1. page \in Pages
  BY DEF StreamInv, StreamTypeOK
<1>2. PICK lv2 : lv2 = [a \in Nth |-> IF page.live[a] = NoRecord THEN NoRecord
                                      ELSE [page.live[a] EXCEPT !.incomplete = TRUE]]
  OBVIOUS
<1>3. page' = [page EXCEPT !.phase = "polling", !.live = lv2]
  BY <1>2 DEF CutOff
<1>4. page' = [phase |-> "polling", asked |-> page.asked, live |-> lv2,
               progress |-> page.progress]
  BY <1>1, <1>3 DEF Pages
<1>5. /\ lv2 \in [Nth -> Timelines]
      /\ \A a \in Nth : lv2[a].steps = page.live[a].steps
      /\ \A a \in Nth : lv2[a] = page.live[a] \/ lv2[a].incomplete
  <2>1. PICK lv \in [Nth -> Timelines] : lv = page.live
    BY <1>1, PageParts
  <2>2. ASSUME NEW a \in Nth
        PROVE  /\ lv2[a] \in Timelines /\ lv2[a].steps = lv[a].steps
               /\ lv2[a] = lv[a] \/ lv2[a].incomplete
    <3>1. PICK r \in Timelines : r = lv[a]
      BY <2>1
    <3>5. PICK yes \in BOOLEAN : yes = TRUE
      OBVIOUS
    <3>6. [r EXCEPT !.incomplete = yes]
            = [steps |-> r.steps, last |-> r.last, incomplete |-> yes, omitted |-> r.omitted]
      BY <3>1 DEF Timelines
    <3>2. [r EXCEPT !.incomplete = TRUE]
            = [steps |-> r.steps, last |-> r.last, incomplete |-> TRUE, omitted |-> r.omitted]
      BY <3>5, <3>6, Zenon
    <3>3. CASE r = NoRecord
      BY <1>2, <2>1, <3>1, <3>3
    <3>4. CASE r # NoRecord
      <4>1. lv2[a] = [steps |-> r.steps, last |-> r.last, incomplete |-> TRUE, omitted |-> r.omitted]
        BY <1>2, <2>1, <3>1, <3>2, <3>4
      <4> QED BY <3>1, <4>1 DEF Timelines
    <3> QED BY <3>3, <3>4
  <2>3. lv2 = [a \in Nth |-> lv2[a]]
    BY <1>2
  <2> QED BY <2>1, <2>2, <2>3
<1>6. page' \in Pages
  <2>1. page.asked \in Nat /\ page.progress \in [attempt : Nat, seq : Nat, stage : Nat]
    BY <1>1, PageParts
  <2> QED BY <1>4, <1>5, <2>1, PageMade
<1> QED BY <1>4, <1>5, <1>6

(* The stream is cut off.                                                  *)
LEMMA CutOffStep ==
  ASSUME StreamInv, CutOff
  PROVE  StreamInv'
<1>1. wire \in Wires /\ OnceOK(wire)
  BY DEF StreamInv, StreamTypeOK
<1>2. PICK w2 : w2 = [wire EXCEPT !.open = FALSE, !.events = <<>>]
  OBVIOUS
<1>3. w2 \in Wires /\ Flown(w2) \subseteq Flown(wire) /\ OnceOK(w2)
  BY <1>1, <1>2, WireEmptied
<1>4. wire' = w2 /\ UNCHANGED <<attempts, record, sink>>
  BY <1>2 DEF CutOff
<1>5. PICK p2 \in Pages : p2 = page'
  BY CutOffPage
<1>6. /\ p2.progress = page.progress
      /\ \A a \in Nth : p2.live[a] = page.live[a] \/ p2.live[a].incomplete
  BY <1>5, CutOffPage
<1> QED BY <1>3, <1>4, <1>5, <1>6, NothingMergedStep

(* Nothing recorded, nothing shown.                                        *)
StreamCleared(phase) ==
  /\ attempts = 0
  /\ record = [a \in Nth |-> Unclaimed]
  /\ sink = [a \in Nth |-> NoSink]
  /\ wire = Unwired
  /\ page = [NewPage EXCEPT !.phase = phase]

(* A run of which nothing is there yet, or no more.                        *)
LEMMA FreshState ==
  ASSUME NEW phase \in {"away", "live", "polling", "settled"}
  PROVE  StreamCleared(phase) => StreamInv
<1> SUFFICES ASSUME StreamCleared(phase) PROVE StreamInv
  OBVIOUS
<1> USE DEF StreamCleared
<1>1. Unclaimed \in Records /\ NoSink \in Sinks /\ Unwired \in Wires
  BY DEF Unclaimed, Records, NoSink, Sinks, Unwired, Wires
<1>2. NoRecord \in Timelines /\ NoRecord.incomplete = FALSE /\ NoRecord.last = 0
      /\ NoRecord.omitted = 0 /\ NoRecord.steps = <<>>
  <2>1. <<>> \in [{} -> Nat]
    OBVIOUS
  <2>2. {} \in {S \in SUBSET Nat : IsFiniteSet(S)}
    BY FS_EmptySet
  <2>3. <<>> \in StepMaps
    BY <2>1, <2>2 DEF StepMaps
  <2> QED BY <2>3 DEF NoRecord, Timelines
<1>3. page = [phase |-> phase, asked |-> 0, live |-> [a \in Nth |-> NoRecord],
              progress |-> [attempt |-> 0, seq |-> 0, stage |-> 0]]
  BY DEF NewPage
<1>4. page \in Pages
  <2>1. PICK lv \in [Nth -> Timelines] : lv = [a \in Nth |-> NoRecord]
    BY <1>2
  <2>2. PICK p \in [attempt : Nat, seq : Nat, stage : Nat] :
          p = [attempt |-> 0, seq |-> 0, stage |-> 0]
    OBVIOUS
  <2>3. 0 \in Nat
    OBVIOUS
  <2>4. [phase |-> phase, asked |-> 0, live |-> lv, progress |-> p] \in Pages
    BY <2>1, <2>2, <2>3, PageMade
  <2> QED BY <1>3, <2>1, <2>2, <2>4
<1>5. StreamTypeOK
  BY <1>1, <1>4, StreamConstants DEF StreamTypeOK
<1>6. \A a \in Nth : record[a].events = <<>> /\ record[a].kept = {} /\ sink[a].queue = <<>>
  BY DEF Unclaimed, NoSink
<1>7. First(<<>>, 0) = {} /\ Len(<<>>) = 0
  BY DEF First
<1>8. \A a \in Nth : RecordOK(record[a])
  BY <1>6, <1>7 DEF RecordOK, Recording
<1>9. wire.late = {} /\ wire.events = <<>>
  BY DEF Unwired
<1>10. Flown(wire) = {}
  BY <1>7, <1>9 DEF Flown
<1>11. OnceOK(wire)
  BY <1>9 DEF OnceOK
<1>12. QueuesOK(record, sink)
  BY <1>6, <1>7 DEF QueuesOK
<1>13. FlownOK(record, sink, wire) /\ OrderOK(wire)
  BY <1>10 DEF FlownOK, OrderOK
<1>14. AheadOK(sink, wire, page.live)
  BY <1>6, <1>7, <1>10 DEF AheadOK
<1>15. page.progress.attempt \notin Nth
  BY <1>3 DEF Nth
<1>16. ProgressOK(record, sink, wire, page.progress)
  BY <1>15 DEF ProgressOK
<1>17. \A a \in Nth : StepsOK(record[a].events, page.live[a])
  <2>1. Newest({}, Kept) = {}
    BY DEF Newest
  <2>2. Cardinality({}) = 0
    BY FS_EmptySet
  <2>3. StepsOK(<<>>, NoRecord)
    <3>1. DOMAIN NoRecord.steps = {}
      BY <1>2
    <3>2. NoRecord.last <= Len(<<>>) /\ First(<<>>, NoRecord.last) = {}
      BY <1>2, <1>7
    <3>3. NoRecord.omitted + Cardinality(DOMAIN NoRecord.steps)
            = Cardinality(First(<<>>, NoRecord.last))
      <4>1. NoRecord.omitted = 0
        BY <1>2
      <4>2. Cardinality(DOMAIN NoRecord.steps) = 0 /\ Cardinality(First(<<>>, NoRecord.last)) = 0
        BY <2>2, <3>1, <3>2
      <4> QED BY <4>1, <4>2
    <3>4. DOMAIN NoRecord.steps = Newest(First(<<>>, NoRecord.last), Kept)
      BY <2>1, <3>1, <3>2
    <3> QED BY <3>1, <3>2, <3>3, <3>4, Zenon DEF StepsOK
  <2>4. \A a \in Nth : page.live[a] = NoRecord
    BY <1>3
  <2> QED BY <1>6, <2>3, <2>4
<1> QED BY <1>5, <1>8, <1>11, <1>12, <1>13, <1>14, <1>16, <1>17 DEF StreamInv

(* The oldest event of the subscription leaves it, and no other is the     *)
(* same.                                                                   *)
LEMMA HeadDelivered ==
  ASSUME NEW w \in Wires, OnceOK(w), w.events # <<>>, NEW e, e = Head(w.events), NEW w2,
         w2 = [w EXCEPT !.events = Tail(@)]
  PROVE  /\ e \in Notes /\ e \in Flown(w)
         /\ w2 \in Wires /\ Flown(w2) \subseteq Flown(w) /\ OnceOK(w2)
         /\ \A f \in Flown(w2) : ~SameStep(f, e)
<1>1. PICK q \in Seq(Notes) : q = w.events
  BY DEF Wires
<1>2. w2 = [late |-> w.late, open |-> w.open, events |-> Tail(q)]
  BY <1>1 DEF Wires
<1>3. /\ Tail(q) \in Seq(Notes) /\ Len(Tail(q)) = Len(q) - 1 /\ Len(q) \in Nat
      /\ \A i \in 1 .. Len(Tail(q)) : Tail(q)[i] = q[i + 1]
      /\ 1 \in 1 .. Len(q) /\ e = q[1]
  BY <1>1
<1>4. PICK q2 \in Seq(Notes) : q2 = Tail(q)
  BY <1>3
<1>5. w2 \in Wires /\ w2.late = w.late /\ w2.events = q2
  <2>1. w2 = [late |-> w.late, open |-> w.open, events |-> q2]
    BY <1>2, <1>4
  <2>2. q2 \in Seq(Notes)
    BY <1>4
  <2>3. w.late \in SUBSET Notes /\ w.open \in BOOLEAN
    BY DEF Wires
  <2>4. w2.late = w.late /\ w2.events = q2
    BY <2>1
  <2>5. PICK late \in SUBSET Notes : late = w.late
    BY <2>3
  <2>6. PICK open \in BOOLEAN : open = w.open
    BY <2>3
  <2>7. [late |-> late, open |-> open, events |-> q2] \in Wires
    BY <2>2, <2>5, <2>6 DEF Wires
  <2>8. w2 = [late |-> late, open |-> open, events |-> q2]
    BY <2>1, <2>5, <2>6, Zenon
  <2> QED BY <2>4, <2>7, <2>8
<1>6. \A i \in 1 .. Len(q2) : i + 1 \in 1 .. Len(q) /\ 1 < i + 1 /\ q2[i] = q[i + 1]
  BY <1>3, <1>4
<1>7. e \in Notes /\ e \in Flown(w)
  BY <1>1, <1>3 DEF Flown
<1>8. Flown(w2) \subseteq Flown(w)
  BY <1>1, <1>5, <1>6 DEF Flown
<1>9. /\ \A i, j \in 1 .. Len(q) : i < j => ~SameStep(q[i], q[j])
      /\ \A f \in w.late : \A i \in 1 .. Len(q) : ~SameStep(f, q[i])
  BY <1>1 DEF OnceOK
<1>10. OnceOK(w2)
  <2>1. ASSUME NEW i \in 1 .. Len(q2), NEW j \in 1 .. Len(q2), i < j
        PROVE  ~SameStep(q2[i], q2[j])
    <3>1. i + 1 < j + 1
      BY <1>3, <1>4, <2>1
    <3> QED BY <1>6, <1>9, <3>1
  <2>2. \A f \in w.late : \A i \in 1 .. Len(q2) : ~SameStep(f, q2[i])
    BY <1>6, <1>9
  <2> QED BY <1>5, <2>1, <2>2 DEF OnceOK
<1>11. \A f \in Flown(w2) : ~SameStep(f, e)
  <2>1. \A f \in w.late : ~SameStep(f, e)
    BY <1>3, <1>9
  <2>2. ASSUME NEW i \in 1 .. Len(q2)
        PROVE  ~SameStep(q2[i], e)
    <3>1. ~SameStep(q[1], q[i + 1])
      BY <1>3, <1>6, <1>9
    <3> QED BY <1>3, <1>6, <3>1 DEF SameStep
  <2> QED BY <1>5, <2>1, <2>2 DEF Flown
<1> QED BY <1>5, <1>7, <1>8, <1>10, <1>11

(* What an event does to the page.                                         *)
LEMMA DeliverPage ==
  ASSUME page \in Pages, NEW e \in Notes, e = Head(wire.events), Deliver
  PROVE  \/ page' = page
         \/ /\ e.kind = "step" /\ ~Outlived(e.attempt)
            /\ ~(/\ e.step \in DOMAIN page.live[e.attempt].steps
                 /\ page.live[e.attempt].steps[e.step] >= e.seq)
            /\ page' = [phase |-> page.phase, asked |-> page.asked,
                        live |-> [page.live EXCEPT ![e.attempt] =
                                    Merged(page.live[e.attempt], e)],
                        progress |-> page.progress]
         \/ /\ e.kind = "stage"
            /\ ~(e.attempt < page.progress.attempt)
            /\ ~(e.attempt = page.progress.attempt /\ e.seq <= page.progress.seq)
            /\ page' = [phase |-> page.phase, asked |-> page.asked, live |-> page.live,
                        progress |-> [attempt |-> e.attempt, seq |-> e.seq, stage |-> e.stage]]
<1>1. page' \in {page, IF e.kind = "step" THEN ApplyActivity(e) ELSE ApplyProgress(e)}
  BY DEF Deliver, Unreadable
<1>2. CASE page' = page
  BY <1>2
<1>3. CASE e.kind = "step" /\ page' = ApplyActivity(e)
  <2>1. CASE \/ Outlived(e.attempt)
             \/ /\ e.step \in DOMAIN page.live[e.attempt].steps
                /\ page.live[e.attempt].steps[e.step] >= e.seq
    <3>1. ApplyActivity(e) = page
      BY <2>1, Zenon DEF ApplyActivity
    <3> QED BY <1>3, <3>1
  <2>2. CASE ~ \/ Outlived(e.attempt)
               \/ /\ e.step \in DOMAIN page.live[e.attempt].steps
                  /\ page.live[e.attempt].steps[e.step] >= e.seq
    <3>1. ApplyActivity(e) = [page EXCEPT !.live[e.attempt] = Merged(page.live[e.attempt], e)]
      BY <2>2, Zenon DEF ApplyActivity
    <3>2. page' = [phase |-> page.phase, asked |-> page.asked,
                   live |-> [page.live EXCEPT ![e.attempt] = Merged(page.live[e.attempt], e)],
                   progress |-> page.progress]
      BY <1>3, <3>1 DEF Pages
    <3> QED BY <1>3, <2>2, <3>2
  <2> QED BY <2>1, <2>2
<1>4. CASE e.kind # "step" /\ page' = ApplyProgress(e)
  <2>0. e.kind = "stage"
    BY <1>4 DEF Notes
  <2>1. CASE \/ e.attempt < page.progress.attempt
             \/ e.attempt = page.progress.attempt /\ e.seq <= page.progress.seq
    <3>1. ApplyProgress(e) = page
      BY <2>1, Zenon DEF ApplyProgress
    <3> QED BY <1>4, <3>1
  <2>2. CASE ~ \/ e.attempt < page.progress.attempt
               \/ e.attempt = page.progress.attempt /\ e.seq <= page.progress.seq
    <3>1. ApplyProgress(e) = [page EXCEPT !.progress = [attempt |-> e.attempt, seq |-> e.seq,
                                                        stage |-> e.stage]]
      BY <2>2, Zenon DEF ApplyProgress
    <3>2. page' = [phase |-> page.phase, asked |-> page.asked, live |-> page.live,
                   progress |-> [attempt |-> e.attempt, seq |-> e.seq, stage |-> e.stage]]
      BY <1>4, <3>1 DEF Pages
    <3> QED BY <2>0, <2>2, <3>2
  <2> QED BY <2>1, <2>2
<1> QED BY <1>1, <1>2, <1>3, <1>4

(* A merged step.                                                          *)
LEMMA MergeStep ==
  ASSUME StreamInv, NEW e \in Flown(wire), e \in Notes, e.kind = "step",
         NEW w2 \in Wires, wire' = w2, Flown(w2) \subseteq Flown(wire), OnceOK(w2),
         \A f \in Flown(w2) : ~SameStep(f, e),
         UNCHANGED <<attempts, record, sink>>,
         page' = [phase |-> page.phase, asked |-> page.asked,
                  live |-> [page.live EXCEPT ![e.attempt] = Merged(page.live[e.attempt], e)],
                  progress |-> page.progress]
  PROVE  StreamInv'
<1>1. /\ QueuesOK(record, sink) /\ FlownOK(record, sink, wire) /\ OrderOK(wire)
      /\ AheadOK(sink, wire, page.live) /\ ProgressOK(record, sink, wire, page.progress)
      /\ \A a \in Nth : RecordOK(record[a])
      /\ \A a \in Nth : ~page.live[a].incomplete => StepsOK(record[a].events, page.live[a])
  BY DEF StreamInv
<1>2. /\ record \in [Nth -> Records] /\ sink \in [Nth -> Sinks] /\ wire \in Wires /\ page \in Pages
  BY DEF StreamInv, StreamTypeOK
<1>3. /\ FlownOK(record, sink, w2) /\ OrderOK(w2) /\ AheadOK(sink, w2, page.live)
      /\ ProgressOK(record, sink, w2, page.progress)
  BY <1>1, FewerFlown
<1>4. PICK a \in Nth : a = e.attempt
  BY DEF Notes
<1>5. PICK lv \in [Nth -> Timelines] : lv = page.live
  BY <1>2, PageParts
<1>6. PICK m \in Timelines : m = Merged(lv[a], e)
  BY <1>4, <1>5, MergedSteps
<1>7. PICK lv2 \in [Nth -> Timelines] : lv2 = [lv EXCEPT ![a] = m]
  BY <1>4, <1>5, <1>6
<1>8. lv2[a] = m /\ \A b \in Nth : b # a => lv2[b] = lv[b]
  BY <1>4, <1>5, <1>7
<1>9. page' = [phase |-> page.phase, asked |-> page.asked, live |-> lv2, progress |-> page.progress]
  BY <1>4, <1>5, <1>6, <1>7
<1>10. page' \in Pages
  <2>1. /\ page.phase \in {"away", "live", "polling", "settled"} /\ page.asked \in Nat
        /\ page.progress \in [attempt : Nat, seq : Nat, stage : Nat]
    BY <1>2, PageParts
  <2> QED BY <1>7, <1>9, <2>1, PageMade
<1>11. page'.live = lv2 /\ page'.progress = page.progress
  BY <1>9
<1>12. e.seq \in 1 .. Len(record[a].events) /\ record[a].events[e.seq] = e.step
  BY <1>1, <1>4 DEF FlownOK, Genuine
<1>13. ASSUME ~m.incomplete
       PROVE  StepsOK(record[a].events, m) /\ m.last = e.seq
  <2>1. PICK rec \in Records : rec = record[a]
    BY <1>2, <1>4
  <2>2. PICK r \in Timelines : r = lv[a]
    BY <1>4, <1>5
  <2>3. ~r.incomplete
    <3>1. ~Incomplete(r, e)
      BY <1>6, <1>13, <2>2, MergedSteps, Zenon
    <3> QED BY <3>1, Zenon DEF Incomplete
  <2>4. StepsOK(rec.events, r) /\ RecordOK(rec)
    BY <1>1, <1>4, <1>5, <2>1, <2>2, <2>3
  <2>5. e.seq > r.last
    BY <1>1, <1>4, <1>5, <2>2, <2>3 DEF AheadOK
  <2>6. ~Merged(r, e).incomplete
    BY <1>6, <1>13, <2>2
  <2>7. e.seq \in 1 .. Len(rec.events) /\ rec.events[e.seq] = e.step
    BY <1>12, <2>1
  <2>8. StepsOK(rec.events, Merged(r, e)) /\ Merged(r, e).last = e.seq
    BY <2>1, <2>2, <2>3, <2>4, <2>5, <2>6, <2>7, MergedIsRecorded
  <2> QED BY <1>6, <2>1, <2>2, <2>8
<1>14. \A b \in Nth : ~lv2[b].incomplete => StepsOK(record[b].events, lv2[b])
  BY <1>1, <1>5, <1>8, <1>13
<1>15. AheadOK(sink, w2, lv2)
  <2> SUFFICES ASSUME NEW b \in Nth, ~lv2[b].incomplete
               PROVE  /\ \A f \in Flown(w2) :
                           f.kind = "step" /\ f.attempt = b => f.seq > lv2[b].last
                      /\ \A i \in 1 .. Len(sink[b].queue) :
                           sink[b].queue[i].kind = "step" => sink[b].queue[i].seq > lv2[b].last
    BY DEF AheadOK
  <2>1. CASE b # a
    BY <1>3, <1>5, <1>8, <2>1 DEF AheadOK
  <2>2. CASE b = a
    <3>1. ~m.incomplete /\ lv2[b].last = e.seq
      BY <1>8, <1>13, <2>2
    <3>2. ~lv[a].incomplete /\ e.seq = lv[a].last + 1 /\ lv[a].last \in Nat
      <4>1. ~Incomplete(lv[a], e)
        BY <1>4, <1>5, <1>6, <3>1, MergedSteps, Zenon
      <4>2. ~lv[a].incomplete /\ ~(e.seq > lv[a].last + 1)
        BY <4>1, Zenon DEF Incomplete
      <4>3. e.seq > lv[a].last
        BY <1>1, <1>4, <1>5, <4>2 DEF AheadOK
      <4>4. lv[a].last \in Nat /\ e.seq \in Nat
        BY <1>4, <1>5 DEF Timelines, Notes
      <4> QED BY <4>2, <4>3, <4>4
    <3>3. ASSUME NEW f \in Flown(w2), f.kind = "step", f.attempt = b
          PROVE  f.seq > lv2[b].last
      <4>1. f.seq > lv[a].last
        BY <1>3, <1>5, <2>2, <3>2, <3>3 DEF AheadOK
      <4>2. f.seq # e.seq
        BY <1>4, <2>2, <3>3 DEF SameStep
      <4>3. f.seq \in Nat
        BY FlownNotes DEF Notes
      <4> QED BY <3>1, <3>2, <4>1, <4>2, <4>3
    <3>4. ASSUME NEW i \in 1 .. Len(sink[b].queue), sink[b].queue[i].kind = "step"
          PROVE  sink[b].queue[i].seq > lv2[b].last
      <4>1. Rank(e) < Rank(sink[a].queue[i])
        BY <1>1, <1>4, <2>2, <3>4 DEF FlownOK
      <4>2. sink[a].queue[i].seq \in Nat
        BY <1>2, <2>2, QueueFacts DEF Notes
      <4>3. e.seq < sink[a].queue[i].seq
        BY <2>2, <3>4, <4>1 DEF Rank
      <4> QED BY <2>2, <3>1, <3>2, <4>2, <4>3
    <3> QED BY <3>3, <3>4
  <2> QED BY <2>1, <2>2
<1>16. StreamTypeOK'
  BY <1>10 DEF StreamInv, StreamTypeOK
<1> QED BY <1>1, <1>3, <1>11, <1>14, <1>15, <1>16 DEF StreamInv

(* A snapshot that is shown.                                               *)
LEMMA ProgressShown ==
  ASSUME StreamInv, NEW e \in Flown(wire), e \in Notes, e.kind = "stage",
         NEW w2 \in Wires, wire' = w2, Flown(w2) \subseteq Flown(wire), OnceOK(w2),
         UNCHANGED <<attempts, record, sink>>,
         page' = [phase |-> page.phase, asked |-> page.asked, live |-> page.live,
                  progress |-> [attempt |-> e.attempt, seq |-> e.seq, stage |-> e.stage]]
  PROVE  StreamInv'
<1>1. /\ QueuesOK(record, sink) /\ FlownOK(record, sink, wire) /\ OrderOK(wire)
      /\ AheadOK(sink, wire, page.live) /\ ProgressOK(record, sink, wire, page.progress)
      /\ \A a \in Nth : RecordOK(record[a])
      /\ \A a \in Nth : ~page.live[a].incomplete => StepsOK(record[a].events, page.live[a])
  BY DEF StreamInv
<1>2. /\ record \in [Nth -> Records] /\ sink \in [Nth -> Sinks] /\ wire \in Wires /\ page \in Pages
  BY DEF StreamInv, StreamTypeOK
<1>3. /\ FlownOK(record, sink, w2) /\ OrderOK(w2) /\ AheadOK(sink, w2, page.live)
  BY <1>1, FewerFlown
<1>4. PICK a \in Nth : a = e.attempt
  BY DEF Notes
<1>5. PICK p \in [attempt : Nat, seq : Nat, stage : Nat] :
        p = [attempt |-> e.attempt, seq |-> e.seq, stage |-> e.stage]
  BY DEF Notes, Nth
<1>6. page' \in Pages
  <2>1. /\ page.phase \in {"away", "live", "polling", "settled"} /\ page.asked \in Nat
        /\ page.live \in [Nth -> Timelines]
    BY <1>2, PageParts
  <2> QED BY <1>5, <2>1, PageMade
<1>7. page'.live = page.live /\ page'.progress = p
  BY <1>5
<1>8. p.attempt = a /\ p.seq = e.seq /\ p.stage = e.stage /\ e.stage \in Nat
  BY <1>4, <1>5 DEF Notes
<1>9. ProgressOK(record, sink, w2, p)
  <2>1. p.stage <= record[a].stage
    BY <1>1, <1>2, <1>4, <1>8 DEF FlownOK, Genuine
  <2>2. ASSUME NEW f \in Flown(w2), f.kind = "stage", f.attempt = a, f.seq > p.seq
        PROVE  f.stage >= p.stage
    <3>1. e.seq < f.seq
      BY <1>8, <2>2, FlownNotes DEF Notes
    <3>2. e.stage < f.stage
      BY <1>1, <1>4, <2>2, <3>1 DEF OrderOK
    <3>3. f.stage \in Nat
      BY FlownNotes DEF Notes
    <3> QED BY <1>8, <3>2, <3>3
  <2>3. ASSUME NEW i \in 1 .. Len(sink[a].queue), sink[a].queue[i].kind = "stage"
        PROVE  sink[a].queue[i].stage >= p.stage
    <3>1. Rank(e) < Rank(sink[a].queue[i])
      BY <1>1, <1>4, <2>3 DEF FlownOK
    <3>2. sink[a].queue[i].stage \in Nat
      BY <1>2, QueueFacts DEF Notes
    <3> QED BY <1>8, <2>3, <3>1, <3>2 DEF Rank
  <2> QED BY <1>8, <2>1, <2>2, <2>3 DEF ProgressOK
<1>10. StreamTypeOK'
  BY <1>6 DEF StreamInv, StreamTypeOK
<1> QED BY <1>1, <1>3, <1>7, <1>9, <1>10 DEF StreamInv

(* The page takes an event from its stream.                                *)
LEMMA DeliverStep ==
  ASSUME StreamInv, Deliver
  PROVE  StreamInv'
<1>1. wire \in Wires /\ page \in Pages /\ OnceOK(wire)
  BY DEF StreamInv, StreamTypeOK
<1>2. PICK e : e = Head(wire.events)
  OBVIOUS
<1>3. PICK w2 : w2 = [wire EXCEPT !.events = Tail(@)]
  OBVIOUS
<1>4. wire.events # <<>> /\ wire' = w2 /\ UNCHANGED <<attempts, record, sink>>
  BY <1>3 DEF Deliver
<1>5. /\ e \in Notes /\ e \in Flown(wire)
      /\ w2 \in Wires /\ Flown(w2) \subseteq Flown(wire) /\ OnceOK(w2)
      /\ \A f \in Flown(w2) : ~SameStep(f, e)
  BY <1>1, <1>2, <1>3, <1>4, HeadDelivered
<1>6. CASE page' = page
  BY <1>1, <1>4, <1>5, <1>6, NothingMergedStep
<1>7. ASSUME e.kind = "step",
             page' = [phase |-> page.phase, asked |-> page.asked,
                      live |-> [page.live EXCEPT ![e.attempt] = Merged(page.live[e.attempt], e)],
                      progress |-> page.progress]
      PROVE  StreamInv'
  BY <1>4, <1>5, <1>7, MergeStep
<1>8. ASSUME e.kind = "stage",
             page' = [phase |-> page.phase, asked |-> page.asked, live |-> page.live,
                      progress |-> [attempt |-> e.attempt, seq |-> e.seq, stage |-> e.stage]]
      PROVE  StreamInv'
  BY <1>4, <1>5, <1>8, ProgressShown
<1> QED BY <1>1, <1>2, <1>5, <1>6, <1>7, <1>8, DeliverPage

(* A run begins with nothing recorded.                                     *)
LEMMA StreamInitially == StreamInit => StreamInv
<1> SUFFICES ASSUME StreamInit PROVE StreamInv
  OBVIOUS
<1>1. PICK phase \in {"away", "live", "polling", "settled"} : phase = "away"
  OBVIOUS
<1>2. page = [NewPage EXCEPT !.phase = phase]
  BY <1>1 DEF StreamInit, NewPage
<1>3. StreamCleared(phase)
  BY <1>2 DEF StreamInit, StreamCleared
<1> QED BY <1>3, FreshState

(* A run that is over leaves nothing on its way.                           *)
LEMMA SettledIsFresh == StreamCleared("settled") => StreamInv
<1>1. PICK phase \in {"away", "live", "polling", "settled"} : phase = "settled"
  OBVIOUS
<1>2. StreamCleared(phase) => StreamInv
  BY <1>1, FreshState
<1> QED BY <1>1, <1>2

(* The answer is there.                                                    *)
LEMMA SettleStep ==
  ASSUME Settle
  PROVE  StreamInv'
<1>1. StreamCleared("settled")'
  BY DEF Settle, StreamCleared, NewPage
<1> QED BY <1>1, SettledIsFresh, PTL

(* Every step preserves the invariant.                                     *)
LEMMA StreamStep == StreamInv /\ [StreamNext]_streamVars => StreamInv'
<1> SUFFICES ASSUME StreamInv, [StreamNext]_streamVars PROVE StreamInv'
  OBVIOUS
<1>1. CASE Claim
  <2>1. attempts' \in 0 .. MaxAttempts
    BY <1>1, StreamConstants DEF Claim, StreamInv, StreamTypeOK
  <2> QED BY <1>1, <2>1 DEF Claim, StreamInv, StreamTypeOK
<1>2. ASSUME NEW a \in Nth, Begin(a) PROVE StreamInv'
  BY <1>2, BeginRecordStep
<1>3. ASSUME NEW a \in Nth, NEW s \in record[a].kept, Update(a, s) PROVE StreamInv'
  BY <1>3, UpdateStep
<1>4. ASSUME NEW a \in Nth, Show(a) PROVE StreamInv'
  BY <1>4, ShowStep
<1>5. ASSUME NEW a \in Nth, Notify(a) PROVE StreamInv'
  BY <1>5, NotifyStep
<1>6. ASSUME NEW event \in wire.late, NotifyLate(event) PROVE StreamInv'
  BY <1>6, NotifyLateStep
<1>7. CASE Follow \/ Resubscribe \/ StatusChanges
  BY <1>7, FollowStep
<1>8. CASE CutOff
  BY <1>8, CutOffStep
<1>9. CASE Settle
  BY <1>9, SettleStep
<1>10. CASE Deliver
  BY <1>10, DeliverStep
<1>11. CASE UNCHANGED streamVars
  BY <1>11 DEF streamVars, StreamInv, StreamTypeOK
<1> QED
  BY <1>1, <1>2, <1>3, <1>4, <1>5, <1>6, <1>7, <1>8, <1>9, <1>10, <1>11 DEF StreamNext, Over

(* A whole timeline is what the attempt had recorded.                      *)
LEMMA RecordedSteps == StreamInv => StepsAreRecorded
<1> SUFFICES ASSUME StreamInv, NEW a \in Nth, ~page.live[a].incomplete
             PROVE  /\ page.live[a].steps = Recorded(a, page.live[a].last)
                    /\ page.live[a].omitted + Cardinality(DOMAIN page.live[a].steps)
                         = Cardinality(ToSet(SubSeq(record[a].events, 1, page.live[a].last)))
  BY Zenon DEF StepsAreRecorded
<1>1. PICK ev \in Seq(Nat) : ev = record[a].events
  BY DEF StreamInv, StreamTypeOK, Records
<1>2. PICK r \in Timelines : r = page.live[a]
  BY PageParts DEF StreamInv, StreamTypeOK
<1>3. PICK n \in Nat : n = r.last
  BY <1>2 DEF Timelines
<1>4. /\ n <= Len(ev)
      /\ DOMAIN r.steps = Newest(First(ev, n), Kept)
      /\ \A s \in DOMAIN r.steps :
           /\ r.steps[s] \in 1 .. n
           /\ ev[r.steps[s]] = s
           /\ \A j \in 1 .. n : j > r.steps[s] => ev[j] # s
      /\ r.omitted + Cardinality(DOMAIN r.steps) = Cardinality(First(ev, n))
  BY <1>1, <1>2, <1>3 DEF StreamInv, StepsOK
<1> DEFINE events == SubSeq(record[a].events, 1, n)
<1>9. Recorded(a, n) = [s \in Newest(ToSet(events), Kept) |->
        CHOOSE i \in 1 .. n : events[i] = s /\ \A j \in i + 1 .. n : events[j] # s]
  BY Zenon DEF Recorded
<1>5. events = SubSeq(ev, 1, n)
  BY <1>1
<1> HIDE DEF events
<1>6. events \in Seq(Nat) /\ Len(events) = n /\ \A i \in 1 .. n : events[i] = ev[i]
  BY <1>1, <1>3, <1>4, <1>5
<1>7. ToSet(events) = First(ev, n)
  <2>1. DOMAIN events = 1 .. n
    BY <1>6
  <2>2. ToSet(events) = {events[i] : i \in 1 .. n}
    BY <2>1 DEF ToSet
  <2> QED BY <1>6, <2>2 DEF First
<1>8. r.steps = [s \in Newest(ToSet(events), Kept) |->
                   CHOOSE i \in 1 .. n : events[i] = s /\ \A j \in i + 1 .. n : events[j] # s]
  <2>1. ASSUME NEW s \in DOMAIN r.steps
        PROVE  r.steps[s] = CHOOSE i \in 1 .. n :
                              events[i] = s /\ \A j \in i + 1 .. n : events[j] # s
    <3>1. PICK k \in 1 .. n : k = r.steps[s]
      BY <1>4
    <3>2. events[k] = s /\ \A j \in 1 .. n : j > k => events[j] # s
      BY <1>4, <1>6, <3>1
    <3>3. \A j \in k + 1 .. n : events[j] # s
      BY <1>3, <3>1, <3>2
    <3>4. \A i \in 1 .. n : events[i] = s /\ (\A j \in i + 1 .. n : events[j] # s) => i = k
      <4> SUFFICES ASSUME NEW i \in 1 .. n, events[i] = s, \A j \in i + 1 .. n : events[j] # s
                   PROVE  i = k
        OBVIOUS
      <4>1. ~(i < k)
        BY <1>3, <3>1, <3>2
      <4>2. ~(i > k)
        BY <1>3, <3>1, <3>3
      <4> QED BY <1>3, <3>1, <4>1, <4>2
    <3> QED BY <3>1, <3>2, <3>3, <3>4
  <2>2. r.steps = [s \in DOMAIN r.steps |-> r.steps[s]]
    BY <1>2 DEF Timelines, StepMaps
  <2>3. DOMAIN r.steps = Newest(ToSet(events), Kept)
    BY <1>4, <1>7
  <2> QED BY <2>1, <2>2, <2>3
<1>10. r.steps = Recorded(a, n)
  BY <1>8, <1>9, Zenon
<1> QED BY <1>2, <1>3, <1>4, <1>7, <1>10 DEF events

(* A page that merges an event does not go back.                           *)
LEMMA DeliverAdvances ==
  ASSUME StreamInv, Deliver
  PROVE  PreviewAdvances
<1>1. wire \in Wires /\ page \in Pages /\ OnceOK(wire)
  BY DEF StreamInv, StreamTypeOK
<1>2. PICK e : e = Head(wire.events)
  OBVIOUS
<1>3. PICK w2 : w2 = [wire EXCEPT !.events = Tail(@)]
  OBVIOUS
<1>4. wire.events # <<>>
  BY DEF Deliver
<1>5. e \in Notes /\ e \in Flown(wire)
  BY <1>1, <1>2, <1>3, <1>4, HeadDelivered
<1>6. /\ page.live \in [Nth -> Timelines]
      /\ page.progress \in [attempt : Nat, seq : Nat, stage : Nat]
  BY <1>1, PageParts
<1>7. PICK lv \in [Nth -> Timelines] : lv = page.live
  BY <1>6
<1>8. \A a \in Nth : \A s \in DOMAIN lv[a].steps : lv[a].steps[s] \in Nat
  <2> TAKE a \in Nth
  <2>1. lv[a].steps \in StepMaps
    BY <1>7 DEF Timelines
  <2>2. PICK D \in SUBSET Nat : lv[a].steps \in [D -> Nat]
    BY <2>1 DEF StepMaps
  <2> QED BY <2>2
<1>9. CASE page' = page
  BY <1>6, <1>7, <1>8, <1>9 DEF PreviewAdvances
<1>10. ASSUME e.kind = "step", ~Outlived(e.attempt),
              ~(/\ e.step \in DOMAIN page.live[e.attempt].steps
                /\ page.live[e.attempt].steps[e.step] >= e.seq),
              page' = [phase |-> page.phase, asked |-> page.asked,
                       live |-> [page.live EXCEPT ![e.attempt] = Merged(page.live[e.attempt], e)],
                       progress |-> page.progress]
       PROVE  PreviewAdvances
  <2>1. PICK a \in Nth : a = e.attempt
    BY <1>5 DEF Notes
  <2>2. PICK m \in Timelines : m = Merged(lv[a], e)
    BY <1>5, <1>7, <2>1, MergedSteps
  <2>3. PICK lv2 : lv2 = [lv EXCEPT ![a] = m]
    OBVIOUS
  <2>4. lv2[a] = m /\ \A b \in Nth : b # a => lv2[b] = lv[b]
    BY <1>7, <2>1, <2>3
  <2>5. page'.live = lv2 /\ page'.progress = page.progress
    BY <1>7, <1>10, <2>1, <2>2, <2>3
  <2>6. \A b, c \in Nth : b < c /\ lv[c] # NoRecord => lv2[b].steps = lv[b].steps
    <3> SUFFICES ASSUME NEW b \in Nth, NEW c \in Nth, b < c, lv[c] # NoRecord
                 PROVE  lv2[b].steps = lv[b].steps
      OBVIOUS
    <3>1. b # a
      BY <1>7, <1>10, <2>1 DEF Outlived, Streamed
    <3> QED BY <2>4, <3>1
  <2>7. \A b \in Nth : \A s \in DOMAIN lv[b].steps \cap DOMAIN lv2[b].steps :
          lv[b].steps[s] <= lv2[b].steps[s]
    <3> TAKE b \in Nth
    <3>1. CASE b # a
      BY <1>8, <2>4, <3>1
    <3>2. CASE b = a
      <4> SUFFICES ASSUME NEW s \in DOMAIN lv[a].steps, s \in DOMAIN m.steps
                   PROVE  lv[a].steps[s] <= m.steps[s]
        BY <2>4, <3>2
      <4>1. m.steps[s] = IF s = e.step THEN e.seq ELSE lv[a].steps[s]
        <5>1. PICK r \in Timelines : r = lv[a]
          BY <1>7, <2>1
        <5>2. m = Merged(r, e)
          BY <2>2, <5>1
        <5> QED BY <1>5, <5>1, <5>2, MergedSteps, ZenonT(40)
      <4>2. lv[a].steps[s] \in Nat /\ e.seq \in Nat
        BY <1>5, <1>8, <2>1 DEF Notes
      <4>3. s = e.step => ~(lv[a].steps[s] >= e.seq)
        BY <1>7, <1>10, <2>1
      <4> QED BY <4>1, <4>2, <4>3
    <3> QED BY <3>1, <3>2
  <2> QED BY <1>6, <1>7, <2>5, <2>6, <2>7 DEF PreviewAdvances
<1>11. ASSUME e.kind = "stage", ~(e.attempt < page.progress.attempt),
              ~(e.attempt = page.progress.attempt /\ e.seq <= page.progress.seq),
              page' = [phase |-> page.phase, asked |-> page.asked, live |-> page.live,
                       progress |-> [attempt |-> e.attempt, seq |-> e.seq, stage |-> e.stage]]
       PROVE  PreviewAdvances
  <2>1. /\ page'.live = page.live /\ page'.progress.attempt = e.attempt
        /\ page'.progress.stage = e.stage
    BY <1>11
  <2>2. e.attempt \in Nth /\ e.attempt \in Nat /\ e.seq \in Nat /\ e.stage \in Nat
    BY <1>5 DEF Notes, Nth
  <2>3. page.progress.attempt <= e.attempt
    BY <1>6, <1>11, <2>2
  <2>4. page.progress.attempt = e.attempt => page.progress.stage <= e.stage
    <3>1. SUFFICES ASSUME page.progress.attempt = e.attempt
                   PROVE  page.progress.stage <= e.stage
      OBVIOUS
    <3>2. e.seq > page.progress.seq
      BY <1>6, <1>11, <2>2, <3>1
    <3>3. e.stage >= page.progress.stage
      BY <1>5, <1>11, <2>2, <3>1, <3>2 DEF StreamInv, ProgressOK
    <3> QED BY <1>6, <2>2, <3>3
  <2> QED BY <1>7, <1>8, <2>1, <2>3, <2>4 DEF PreviewAdvances
<1> QED BY <1>1, <1>2, <1>5, <1>9, <1>10, <1>11, DeliverPage

(* A page that merges nothing does not go back.                            *)
LEMMA QuietAdvances ==
  ASSUME page \in Pages, page'.progress = page.progress,
         \A a \in Nth : page'.live[a].steps = page.live[a].steps
  PROVE  PreviewAdvances
<1>1. page.progress \in [attempt : Nat, seq : Nat, stage : Nat]
  BY PageParts
<1>2. ASSUME NEW a \in Nth, NEW s \in DOMAIN page.live[a].steps
      PROVE  page.live[a].steps[s] <= page'.live[a].steps[s]
  <2>1. PICK f \in StepMaps : f = page.live[a].steps
    BY PageParts DEF Timelines
  <2>2. PICK D \in SUBSET Nat : f \in [D -> Nat]
    BY <2>1 DEF StepMaps
  <2>3. f[s] \in Nat
    BY <2>1, <2>2
  <2>4. page'.live[a].steps = f
    BY <2>1
  <2> QED BY <2>1, <2>3, <2>4
<1>3. \A a, b \in Nth : a < b /\ page.live[b] # NoRecord =>
        page'.live[a].steps = page.live[a].steps
  OBVIOUS
<1>4. page.progress.attempt <= page'.progress.attempt
      /\ page.progress.stage <= page'.progress.stage
  BY <1>1
<1> QED BY <1>2, <1>3, <1>4 DEF PreviewAdvances

(* No step takes the page back before the answer is there.                 *)
LEMMA StreamAdvances == StreamInv /\ [StreamNext]_streamVars => PreviewAdvances
<1> SUFFICES ASSUME StreamInv, [StreamNext]_streamVars PROVE PreviewAdvances
  OBVIOUS
<1>1. page \in Pages
  BY DEF StreamInv, StreamTypeOK
<1>2. CASE UNCHANGED page
  BY <1>1, <1>2, QuietAdvances
<1>3. CASE Follow \/ Resubscribe \/ StatusChanges
  <2>1. page'.live = page.live /\ page'.progress = page.progress
    BY <1>1, <1>3 DEF Follow, Resubscribe, StatusChanges, Pages
  <2> QED BY <1>1, <2>1, QuietAdvances
<1>4. CASE CutOff
  BY <1>1, <1>4, CutOffPage, QuietAdvances
<1>5. CASE Settle
  <2>1. page'.phase = "settled"
    BY <1>5 DEF Settle, NewPage
  <2> QED BY <2>1 DEF PreviewAdvances
<1>6. CASE Deliver
  BY <1>6, DeliverAdvances
<1>7. UNCHANGED page \/ Follow \/ Resubscribe \/ StatusChanges \/ CutOff \/ Settle \/ Deliver
  <2>1. CASE UNCHANGED streamVars
    BY <2>1 DEF streamVars
  <2>2. CASE StreamNext
    BY <2>2 DEF StreamNext, Claim, Begin, Update, Show, Notify, NotifyLate, Over, streamVars
  <2> QED BY <2>1, <2>2
<1> QED BY <1>2, <1>3, <1>4, <1>5, <1>6, <1>7

(* The invariant of the live progress: for any number of attempts, sizes   *)
(* of queues and streams, and whatever is dropped, late or cut off.        *)
THEOREM StreamInvariant == StreamSpec => []StreamInv
BY StreamInitially, StreamStep, PTL DEF StreamSpec

(* TimelineIsFaithful: a timeline that is not called incomplete is what    *)
(* the attempt recorded, and until the answer is there the page never      *)
(* goes back.                                                              *)
THEOREM TimelinesAreFaithful == StreamSpec => TimelineIsFaithful
<1>1. StreamInv /\ StreamInv' /\ [StreamNext]_streamVars
        => [StepsAreRecorded' /\ PreviewAdvances]_streamVars
  <2>1. StreamInv' => StepsAreRecorded'
    BY RecordedSteps, PTL
  <2> QED BY <2>1, StreamAdvances
<1> QED BY <1>1, StreamInvariant, PTL DEF StreamSpec, TimelineIsFaithful
=============================================================================
