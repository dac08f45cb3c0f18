----------------------------- MODULE BuildProofs -----------------------------
(***************************************************************************)
(* Proofs about what runs a build of a document: the worker process around *)
(* its lanes, the parser the worker asks, and the rows and files that the  *)
(* attempts leave behind; for any lanes, executors, drafts and documents,  *)
(* and for any number of attempts, retries and mishaps.                    *)
(***************************************************************************)
EXTENDS WorkerProcess, IndexArtifacts, ParserCheckpoints, FiniteSetTheorems, TLAPS

-----------------------------------------------------------------------------
(* The worker process.                                                     *)

(* No task runs before the supervisor does, none returns before the event  *)
(* is set, and main has no answer while the tasks are supervised.          *)
TasksFollow ==
  /\ process \in {"new", "starting", "killed"} =>
       \A t \in Background : doing[t] = "unborn"
  /\ process \in {"new", "starting", "supervising", "draining"} => exitCode = "none"
  /\ ~told => \A t \in Background : doing[t] # "returned"
  /\ process = "draining" => told

(* Once it gathers the tasks the answer is a failure, and one of them did  *)
(* not return.                                                             *)
GatheringFailed ==
  process = "gathering" =>
    /\ told /\ exitCode = "failure"
    /\ \E t \in Background : doing[t] \in {"raised", "cancelled"}

(* What main will answer is settled before it closes.                      *)
ClosingKnows ==
  process = "closing" =>
    /\ (\E t \in Background : doing[t] = "raised") => exitCode = "failure"
    /\ (\A t \in Background : doing[t] = "returned") => exitCode = "none"

WorkerInv == WorkerTypeOK /\ TasksFollow /\ GatheringFailed /\ ClosingKnows
             /\ WorkerEndsWhole

(* The steps of the tasks keep the invariant: none runs while the process  *)
(* is closing, and none raises once it drains or gathers.                  *)
LEMMA TaskStep ==
  ASSUME WorkerInv, NEW t \in Background,
         Pass(t) \/ PassOver(t) \/ LoopOver(t) \/ Breaks(t) \/ Unwound(t)
  PROVE  WorkerInv'
<1> USE DEF WorkerInv, WorkerTypeOK, Do, Ended
<1>1. WorkerTypeOK' /\ process' = process /\ told' = told /\ exitCode' = exitCode
      BY DEF Pass, PassOver, LoopOver, Breaks, Unwound
<1>2. \A u \in Background \ {t} : doing'[u] = doing[u]
      BY DEF Pass, PassOver, LoopOver, Breaks, Unwound
<1>3. /\ doing[t] \in {"waiting", "busy", "unwinding"}
      /\ process \notin {"new", "starting", "killed", "closing", "exited"}
      BY DEF Pass, PassOver, LoopOver, Breaks, Unwound, TasksFollow, WorkerEndsWhole, AllOver
<1>4. ~told => doing'[t] # "returned"
      BY DEF Pass, PassOver, LoopOver, Breaks, Unwound
<1>5. TasksFollow'
      BY <1>1, <1>2, <1>3, <1>4 DEF TasksFollow
<1>6. GatheringFailed'
      BY <1>1, <1>2, <1>3 DEF GatheringFailed
<1>7. ClosingKnows' /\ WorkerEndsWhole'
      BY <1>1, <1>3 DEF ClosingKnows, WorkerEndsWhole
<1> QED BY <1>1, <1>5, <1>6, <1>7

(* The steps of the process keep the invariant.                            *)
LEMMA ProcessStep ==
  ASSUME WorkerInv,
         \/ RemoveOldHeartbeat \/ StartFails \/ Start \/ Signal
         \/ WakeToDrain \/ WakeToCancel \/ Drained \/ Gathered \/ Close
         \/ Killed \/ Restart
  PROVE  WorkerInv'
<1> USE DEF WorkerInv, WorkerTypeOK, TasksFollow, GatheringFailed, ClosingKnows,
            WorkerEndsWhole, AllOver, Ended
<1>0. "janitor" \in Background
      BY DEF Background
<1>1. CASE RemoveOldHeartbeat
      BY <1>0, <1>1 DEF RemoveOldHeartbeat
<1>2. CASE StartFails
      BY <1>0, <1>2 DEF StartFails
<1>3. CASE Start
      BY <1>3 DEF Start
<1>4. CASE Signal
      BY <1>4 DEF Signal
<1>5. CASE WakeToDrain
      BY <1>5 DEF WakeToDrain
<1>6. CASE WakeToCancel
  <2>1. PICK t \in Background : doing[t] \in Ended
        BY <1>6 DEF WakeToCancel, OneOver
  <2>2. doing[t] \in {"raised", "cancelled"}
        BY <1>6, <2>1 DEF WakeToCancel
  <2> QED BY <1>6, <2>1, <2>2 DEF WakeToCancel
<1>7. CASE Drained
      BY <1>7, <1>0 DEF Drained
<1>8. CASE Gathered
      BY <1>8 DEF Gathered, Settled
<1>9. CASE Close
      BY <1>9 DEF Close
<1>10. CASE Killed
      BY <1>10 DEF Killed
<1>11. CASE Restart
      BY <1>11 DEF Restart, NewProcess
<1> QED BY <1>1, <1>2, <1>3, <1>4, <1>5, <1>6, <1>7, <1>8, <1>9, <1>10, <1>11

(* The invariant of the worker process, and with it how it ends: see       *)
(* WorkerEndsWhole.                                                        *)
THEOREM WorkerEnds == WorkerSpec => [](WorkerTypeOK /\ WorkerEndsWhole)
<1>1. WorkerInit => WorkerInv
      BY DEF WorkerInit, NewProcess, WorkerInv, WorkerTypeOK, TasksFollow,
             GatheringFailed, ClosingKnows, WorkerEndsWhole
<1>2. WorkerInv /\ [WorkerNext]_workerVars => WorkerInv'
  <2> SUFFICES ASSUME WorkerInv, [WorkerNext]_workerVars PROVE WorkerInv'
      OBVIOUS
  <2>1. CASE UNCHANGED workerVars
        BY <2>1 DEF workerVars, WorkerInv, WorkerTypeOK, TasksFollow, GatheringFailed,
                    ClosingKnows, WorkerEndsWhole, AllOver
  <2>2. CASE \E t \in Background :
               Pass(t) \/ PassOver(t) \/ LoopOver(t) \/ Breaks(t) \/ Unwound(t)
        BY <2>2, TaskStep
  <2> QED BY <2>1, <2>2, ProcessStep DEF WorkerNext
<1> QED BY <1>1, <1>2, PTL DEF WorkerSpec, WorkerInv

-----------------------------------------------------------------------------
(* The artifacts of a build.                                               *)

Units == UNION {UnitsOf[d] : d \in Drafts}

(* The steps of an attempt that has a draft.                               *)
Writing == {"plan", "put", "assets", "manifest", "embed", "relations",
            "questions", "lexical", "seal", "complete"}
Before == {"idle", "prepare", "sweep", "forget", "convert"}

Targets == [attempt : Nat, serving : {"candidate", "serving", "retired"},
            status : {"queued", "running", "failed", "completed", "cancelled"},
            more : BOOLEAN, retries : Nat]
Works == [token : Nat, step : Before \cup Writing, draft : Drafts \cup {Unset},
          due : SUBSET Units]

IsRows(r) ==
  /\ r = [plan |-> r.plan, assets |-> r.assets, manifest |-> r.manifest,
          chunks |-> r.chunks, relations |-> r.relations,
          questions |-> r.questions, lexical |-> r.lexical, sealed |-> r.sealed]
  /\ r.manifest \in Drafts \cup {Unset} /\ IsFiniteSet(r.assets)

(* Every record is of its kind, and a work that writes has a draft.        *)
ArtifactTypeOK ==
  /\ target \in Targets /\ IsRows(rows)
  /\ work \in [Attempters -> Works]
  /\ \A e \in Attempters : work[e].step \in Writing => work[e].draft \in Drafts

(* A lexical row rests on a stored chunk.                                  *)
LexicalRests == Keys(rows.lexical) \subseteq Keys(rows.chunks)

(* Until a manual retry starts them over, no two executors hold one token, *)
(* and while a continuation is due none holds that of the attempt.         *)
Held(e) == work[e].step # "idle"
TokensAreOwn ==
  target.retries = 0 =>
    /\ target.more => 1 <= target.attempt
    /\ \A e \in Attempters : Held(e) =>
         /\ 1 <= work[e].token /\ work[e].token <= target.attempt
         /\ target.more => work[e].token # target.attempt
    /\ \A e, f \in Attempters :
         Held(e) /\ Held(f) /\ work[e].token = work[f].token => e = f

(* Until then the rows are those that the holder of the last token wrote,  *)
(* at every step of it.                                                    *)
HolderRows(e) ==
  /\ work[e].step \in {"sweep", "forget", "convert", "plan", "put", "assets",
                       "manifest", "embed", "relations", "questions", "lexical"} =>
       rows.lexical = {}
  /\ work[e].step \in {"sweep", "forget", "convert", "plan", "put", "assets",
                       "manifest", "embed", "relations", "questions", "lexical",
                       "seal"} =>
       rows.sealed = Unset
  /\ work[e].step \in {"embed", "relations", "questions", "lexical", "seal",
                       "complete"} =>
       rows.manifest = work[e].draft
  /\ work[e].step \in {"seal", "complete"} => rows.lexical = UnitsAt(e)
  /\ work[e].step = "complete" => rows.sealed = UnitsAt(e)
RowsAreTheHolders ==
  target.retries = 0 /\ target.serving = "candidate" =>
    \A e \in Attempters : Current(e) => HolderRows(e)

ArtifactInv == /\ ArtifactTypeOK /\ LexicalRests
               /\ TokensAreOwn /\ RowsAreTheHolders /\ ReadyBuildsAreWhole

(* Initially there is nothing.                                             *)
LEMMA ArtifactsInitially == ArtifactInit => ArtifactInv
<1> SUFFICES ASSUME ArtifactInit PROVE ArtifactInv
    OBVIOUS
<1>1. IsFiniteSet({})
      BY FS_EmptySet
<1>2. ArtifactTypeOK /\ \A e \in Attempters : ~Held(e)
      BY <1>1 DEF ArtifactInit, ArtifactTypeOK, Targets, Works, IsRows, NoRows, Resting,
                 Before, Writing, Held
<1> QED BY <1>2 DEF ArtifactInit, ArtifactInv, LexicalRests, TokensAreOwn, RowsAreTheHolders,
                 ReadyBuildsAreWhole, NoRows, Keys, HolderRows, Resting

(* The assets of a draft are finitely many.                                *)
LEMMA AssetsAreFinite ==
  ASSUME NEW d \in Drafts
  PROVE  IsFiniteSet(AssetsOf(UnitsOf[d]))
<1> DEFINE shown == Visual(UnitsOf[d])
           f == [u \in shown |-> u.asset]
<1>1. IsFiniteSet(shown)
      BY ArtifactAssumption, FS_Subset DEF Visual
<1>2. f \in Surjection(shown, AssetsOf(UnitsOf[d]))
      BY DEF Surjection, AssetsOf
<1> QED BY <1>1, <1>2, FS_Surjection

(* A step of an executor that goes on with its token: it changes the rows  *)
(* only if they are its to change, and to what its next step expects.      *)
LEMMA GoesOn ==
  ASSUME ArtifactInv, NEW e \in Attempters, NEW w \in Works,
         Held(e), target' = target, work' = [work EXCEPT ![e] = w],
         w.token = work[e].token, w.step # "idle",
         w.step \in Writing => w.draft \in Drafts,
         rows' = rows \/ Accepted(e),
         IsRows(rows'), LexicalRests',
         target.retries = 0 /\ target.serving = "candidate" /\ Current(e) => HolderRows(e)'
  PROVE  ArtifactInv'
<1> USE DEF ArtifactInv
<1>1. ArtifactTypeOK'
      BY DEF ArtifactTypeOK
<1>2. \A f \in Attempters : /\ work'[f].token = work[f].token /\ Held(f)' = Held(f)
                            /\ f # e => work'[f] = work[f]
      BY DEF ArtifactTypeOK, Held
<1>3. TokensAreOwn'
      BY <1>2 DEF TokensAreOwn
<1>4. RowsAreTheHolders'
  <2> SUFFICES ASSUME target.retries = 0, target.serving = "candidate",
                      NEW f \in Attempters, Current(f)'
               PROVE  HolderRows(f)'
      BY DEF RowsAreTheHolders
  <2>1. Current(f)
        BY <1>2 DEF Current
  <2>2. CASE f = e
        BY <2>1, <2>2
  <2>3. CASE f # e /\ rows' = rows
    <3>1. HolderRows(f)
          BY <2>1 DEF RowsAreTheHolders
    <3> QED BY <1>2, <2>3, <3>1 DEF HolderRows, UnitsAt
  <2>4. CASE f # e /\ Accepted(e)
    <3>1. ~Held(f)
          BY <2>1, <2>4 DEF TokensAreOwn, Accepted, Current
    <3> QED BY <1>2, <2>4, <3>1 DEF HolderRows, Held
  <2> QED BY <2>2, <2>3, <2>4
<1>5. ReadyBuildsAreWhole'
      BY DEF ReadyBuildsAreWhole, Accepted
<1> QED BY <1>1, <1>3, <1>4, <1>5

(* A step after which an executor holds nothing, with the rows unchanged   *)
(* and the job no further than before.                                     *)
LEMMA GivesUp ==
  ASSUME ArtifactInv, NEW e \in Attempters, NEW t \in Targets,
         target' = t, work' = [work EXCEPT ![e] = Resting], rows' = rows,
         t.attempt = target.attempt, t.retries = target.retries,
         t.serving = target.serving,
         t.more /\ ~target.more => Current(e) /\ Held(e),
         t.status = "completed" => target.status = "completed"
  PROVE  ArtifactInv'
<1> USE DEF ArtifactInv
<1>0. Resting \in Works /\ Resting.step = "idle"
      BY DEF Resting, Works, Before
<1>1. ArtifactTypeOK'
      BY <1>0 DEF ArtifactTypeOK, Writing
<1>2. \A f \in Attempters : /\ f # e => work'[f] = work[f]
                            /\ ~Held(e)' /\ (Held(f)' => Held(f) /\ f # e)
      BY <1>0 DEF ArtifactTypeOK, Held
<1>3. TokensAreOwn'
      BY <1>2 DEF TokensAreOwn, Current
<1>4. RowsAreTheHolders'
  <2> SUFFICES ASSUME target.retries = 0, target.serving = "candidate",
                      NEW f \in Attempters, Current(f)'
               PROVE  HolderRows(f)'
      BY DEF RowsAreTheHolders
  <2>1. CASE ~Held(f)'
        BY <2>1 DEF HolderRows, Held
  <2>2. CASE Held(f)'
    <3>1. Current(f) /\ f # e
          BY <1>2, <2>2 DEF Current
    <3>2. HolderRows(f)
          BY <3>1 DEF RowsAreTheHolders
    <3> QED BY <1>2, <3>1, <3>2 DEF HolderRows, UnitsAt
  <2> QED BY <2>1, <2>2
<1>5. ReadyBuildsAreWhole'
      BY DEF ReadyBuildsAreWhole
<1>6. LexicalRests'
      BY DEF LexicalRests
<1> QED BY <1>1, <1>3, <1>4, <1>5, <1>6

(* A step of the job alone, which keeps its token or starts over.          *)
LEMMA JobMoves ==
  ASSUME ArtifactInv, NEW t \in Targets,
         target' = t, UNCHANGED <<rows, work>>,
         t.retries = 0 => target.retries = 0 /\ t.attempt = target.attempt,
         t.more => target.more,
         t.serving = "candidate" => target.serving = "candidate",
         t.status = "completed" => target.status = "completed",
         t.serving # "retired" => target.serving # "retired",
         t.status = "completed" => t.retries = target.retries
  PROVE  ArtifactInv'
<1> USE DEF ArtifactInv
<1>1. ArtifactTypeOK' /\ LexicalRests'
      BY DEF ArtifactTypeOK, LexicalRests
<1>2. TokensAreOwn'
      BY DEF TokensAreOwn, Held
<1>3. RowsAreTheHolders'
      BY DEF RowsAreTheHolders, HolderRows, Current, UnitsAt
<1>4. ReadyBuildsAreWhole'
      BY DEF ReadyBuildsAreWhole
<1> QED BY <1>1, <1>2, <1>3, <1>4

(* What an attempt that ends with an error leaves of the job.              *)
LEMMA RequeuedJob ==
  ASSUME target \in Targets
  PROVE  /\ Requeued \in Targets
         /\ Requeued.attempt = target.attempt /\ Requeued.retries = target.retries
         /\ Requeued.serving = target.serving
         /\ ~Requeued.more /\ Requeued.status # "completed"
  BY DEF Requeued, Targets

(* The steps of the job and of its retries, its withdrawal and its         *)
(* promotion.                                                              *)
LEMMA JobStep ==
  ASSUME ArtifactInv, LoseLease \/ RetryBuild \/ WithdrawBuild \/ PromoteBuild
  PROVE  ArtifactInv'
<1>0. target \in Targets
      BY DEF ArtifactInv, ArtifactTypeOK
<1>1. CASE LoseLease
      BY <1>0, <1>1, RequeuedJob, JobMoves DEF LoseLease
<1>2. CASE RetryBuild
  <2> DEFINE t == [target EXCEPT !.attempt = 0, !.status = "queued",
                                 !.more = FALSE, !.retries = @ + 1]
  <2>0. target.retries + 1 \in Nat /\ target.retries + 1 # 0
        BY <1>0 DEF Targets
  <2>1. t \in Targets /\ t.retries # 0 /\ ~t.more /\ t.serving = target.serving
        /\ t.status = "queued"
        BY <1>0, <2>0 DEF Targets
  <2>2. target' = t /\ UNCHANGED <<rows, work>>
        BY <1>2 DEF RetryBuild
  <2> HIDE DEF t
  <2> QED BY <2>1, <2>2, JobMoves
<1>3. CASE WithdrawBuild
  <2> DEFINE t == [target EXCEPT !.serving = "retired", !.status =
                     IF @ \in {"queued", "running"} THEN "cancelled" ELSE @]
  <2>1. t \in Targets /\ t.retries = target.retries /\ t.more = target.more
        /\ t.attempt = target.attempt /\ t.serving = "retired"
        /\ (t.status = "completed" => target.status = "completed")
        BY <1>0 DEF Targets
  <2>2. target' = t /\ UNCHANGED <<rows, work>>
        BY <1>3 DEF WithdrawBuild
  <2> HIDE DEF t
  <2> QED BY <2>1, <2>2, JobMoves
<1>4. CASE PromoteBuild
  <2> DEFINE t == [target EXCEPT !.serving = "serving"]
  <2>1. t \in Targets /\ t.retries = target.retries /\ t.more = target.more
        /\ t.attempt = target.attempt /\ t.serving = "serving"
        /\ t.status = target.status /\ target.serving = "candidate"
        BY <1>0, <1>4 DEF Targets, PromoteBuild
  <2>2. target' = t /\ UNCHANGED <<rows, work>>
        BY <1>4 DEF PromoteBuild
  <2> HIDE DEF t
  <2> QED BY <2>1, <2>2, JobMoves
<1> QED BY <1>1, <1>2, <1>3, <1>4

(* A claim: the executor holds a token no other holds, of an attempt of    *)
(* its own or of the continuation that was due.                            *)
LEMMA ClaimStep ==
  ASSUME ArtifactInv, NEW e \in Attempters, ClaimBuild(e)
  PROVE  ArtifactInv'
<1> USE DEF ArtifactInv
<1> DEFINE token == IF target.more THEN target.attempt ELSE target.attempt + 1
           t == [target EXCEPT !.attempt = token, !.status = "running", !.more = FALSE]
           w == [Resting EXCEPT !.token = token, !.step = "prepare"]
<1>0. /\ target' = t /\ work' = [work EXCEPT ![e] = w] /\ rows' = rows /\ ~Held(e)
      /\ target \in Targets /\ token \in Nat
      BY DEF ClaimBuild, Held, ArtifactTypeOK, Targets
<1>1. /\ t \in Targets /\ t.attempt = token /\ t.status = "running" /\ ~t.more
      /\ t.retries = target.retries /\ t.serving = target.serving
      BY <1>0 DEF Targets
<1>2. w \in Works /\ w.token = token /\ w.step = "prepare"
      BY <1>0 DEF Works, Resting, Before
<1>3. /\ target.more => token = target.attempt
      /\ ~target.more => token = target.attempt + 1
      OBVIOUS
<1> HIDE DEF t, w, token
<1>4. ArtifactTypeOK'
      BY <1>0, <1>1, <1>2 DEF ArtifactTypeOK, Writing
<1>5. LexicalRests' /\ ReadyBuildsAreWhole'
      BY <1>0, <1>1 DEF LexicalRests, ReadyBuildsAreWhole
<1>6. \A f \in Attempters : /\ f # e => work'[f] = work[f]
                            /\ f # e => (Held(f)' <=> Held(f))
      BY <1>0, <1>2 DEF ArtifactTypeOK, Held
<1>7. work'[e] = w
      BY <1>0 DEF ArtifactTypeOK
<1>8. target.retries = 0 =>
        \A f \in Attempters : Held(f) =>
          1 <= work[f].token /\ work[f].token <= target.attempt /\ work[f].token # token
      BY <1>0, <1>3 DEF TokensAreOwn, ArtifactTypeOK, Targets, Works
<1>9. target.retries = 0 => 1 <= token /\ target.attempt <= token
  <2>1. CASE ~target.more
        BY <2>1, <1>0, <1>3 DEF Targets
  <2>2. CASE target.more
        BY <2>2, <1>0, <1>3 DEF TokensAreOwn, Targets
  <2> QED BY <2>1, <2>2
<1>10. TokensAreOwn'
  <2> SUFFICES ASSUME target'.retries = 0
               PROVE  /\ ~target'.more
                      /\ \A f \in Attempters : Held(f)' =>
                           1 <= work'[f].token /\ work'[f].token <= target'.attempt
                      /\ \A f, g \in Attempters :
                           Held(f)' /\ Held(g)' /\ work'[f].token = work'[g].token => f = g
      BY <1>0, <1>1 DEF TokensAreOwn
  <2> QED BY <1>0, <1>1, <1>2, <1>6, <1>7, <1>8, <1>9 DEF TokensAreOwn, ArtifactTypeOK, Targets, Works
<1>11. RowsAreTheHolders'
  <2> SUFFICES ASSUME target.retries = 0, NEW f \in Attempters, Current(f)'
               PROVE  HolderRows(f)'
      BY <1>0, <1>1 DEF RowsAreTheHolders
  <2>1. CASE f = e
        BY <2>1, <1>2, <1>7 DEF HolderRows
  <2>2. CASE f # e
    <3>1. ~Held(f)
          BY <2>2, <1>0, <1>1, <1>6, <1>8 DEF Current
    <3> QED BY <2>2, <3>1, <1>6 DEF HolderRows, Held
  <2> QED BY <2>1, <2>2
<1> QED BY <1>4, <1>5, <1>10, <1>11

(* The first transaction of an attempt drops the rows of the earlier ones; *)
(* it takes another's token only after a manual retry.                     *)
LEMMA PrepareStep ==
  ASSUME ArtifactInv, NEW e \in Attempters, PrepareBuild(e)
  PROVE  ArtifactInv'
<1> USE DEF ArtifactInv
<1> DEFINE t == [target EXCEPT !.status = "running", !.attempt = work[e].token]
           w == [work[e] EXCEPT !.step = "sweep"]
<1>0. /\ target' = t /\ work' = [work EXCEPT ![e] = w] /\ rows' = PartialDiscarded
      /\ Preparable(e) /\ target \in Targets /\ work[e] \in Works /\ work[e].step = "prepare"
      BY DEF PrepareBuild, GoOn, AtStep, ArtifactTypeOK
<1>1. /\ t \in Targets /\ t.attempt = work[e].token /\ t.status = "running"
      /\ t.retries = target.retries /\ t.serving = target.serving /\ t.more = target.more
      BY <1>0 DEF Targets, Works
<1>2. w \in Works /\ w.token = work[e].token /\ w.step = "sweep"
      BY <1>0 DEF Works, Before
<1> HIDE DEF t, w
<1>3. IsRows(rows') /\ rows'.lexical = {} /\ rows'.sealed = Unset
      BY <1>0 DEF PartialDiscarded, NoRows, IsRows, ArtifactTypeOK
<1>4. ArtifactTypeOK'
      BY <1>0, <1>1, <1>2, <1>3 DEF ArtifactTypeOK, Writing
<1>5. LexicalRests' /\ ReadyBuildsAreWhole'
      BY <1>0, <1>1, <1>3 DEF LexicalRests, ReadyBuildsAreWhole, Keys
<1>6. \A f \in Attempters : /\ f # e => work'[f] = work[f]
                            /\ work'[f].token = work[f].token
                            /\ Held(f)' <=> Held(f)
      BY <1>0, <1>2 DEF ArtifactTypeOK, Held
<1>7. work'[e] = w /\ Held(e)
      BY <1>0 DEF ArtifactTypeOK, Held
<1>8. target.retries = 0 => Current(e)
      BY <1>0, <1>7 DEF TokensAreOwn, Preparable, Works, Targets
<1>9. TokensAreOwn'
      BY <1>0, <1>1, <1>6, <1>8 DEF TokensAreOwn, Current
<1>10. RowsAreTheHolders'
  <2> SUFFICES ASSUME target.retries = 0, NEW f \in Attempters, Current(f)'
               PROVE  HolderRows(f)'
      BY <1>0, <1>1 DEF RowsAreTheHolders
  <2>1. CASE f = e
        BY <2>1, <1>2, <1>3, <1>7 DEF HolderRows
  <2>2. CASE f # e
    <3>1. ~Held(f)
          BY <2>2, <1>0, <1>1, <1>6, <1>7 DEF Current, TokensAreOwn
    <3> QED BY <2>2, <3>1, <1>6 DEF HolderRows, Held
  <2> QED BY <2>1, <2>2
<1> QED BY <1>4, <1>5, <1>9, <1>10

(* The steps of an attempt that leave the rows as they are.                *)
LEMMA QuietSteps ==
  ASSUME ArtifactInv, NEW e \in Attempters,
         SweepAssets(e) \/ Convert(e) \/ PutAsset(e)
  PROVE  ArtifactInv'
<1> USE DEF ArtifactInv
<1>0. /\ work[e] \in Works /\ target' = target /\ rows' = rows
      /\ IsRows(rows') /\ LexicalRests'
      BY DEF SweepAssets, Convert, PutAsset, ArtifactTypeOK, LexicalRests
<1>1. target.retries = 0 /\ target.serving = "candidate" /\ Current(e) => HolderRows(e)
      BY DEF RowsAreTheHolders
<1>2. CASE SweepAssets(e)
  <2> DEFINE w == [work[e] EXCEPT !.step = "forget"]
  <2>1. w \in Works /\ w.token = work[e].token /\ w.step = "forget"
        BY <1>0 DEF Works, Before
  <2>2. work' = [work EXCEPT ![e] = w] /\ Held(e) /\ work[e].step = "sweep"
        BY <1>2 DEF SweepAssets, GoOn, AtStep, Held
  <2> HIDE DEF w
  <2>3. work'[e] = w
        BY <2>2 DEF ArtifactTypeOK
  <2>4. HolderRows(e) => HolderRows(e)'
        BY <1>0, <2>1, <2>2, <2>3 DEF HolderRows
  <2> QED BY <1>0, <1>1, <2>1, <2>2, <2>4, GoesOn DEF Writing
<1>3. CASE Convert(e)
  <2>1. PICK d \in Drafts :
          work' = [work EXCEPT ![e] = [work[e] EXCEPT !.draft = d, !.step = "plan"]]
        BY <1>3 DEF Convert
  <2> DEFINE w == [work[e] EXCEPT !.draft = d, !.step = "plan"]
  <2>2. w \in Works /\ w.token = work[e].token /\ w.step = "plan" /\ w.draft \in Drafts
        BY <1>0 DEF Works, Writing
  <2>3. work' = [work EXCEPT ![e] = w] /\ Held(e) /\ work[e].step = "convert"
        BY <1>3, <2>1 DEF Convert, AtStep, Held
  <2> HIDE DEF w
  <2>4. work'[e] = w
        BY <2>3 DEF ArtifactTypeOK
  <2>5. HolderRows(e) => HolderRows(e)'
        BY <1>0, <2>2, <2>3, <2>4 DEF HolderRows
  <2> QED BY <1>0, <1>1, <2>2, <2>3, <2>5, GoesOn
<1>4. CASE PutAsset(e)
  <2>0. work[e].step = "put" /\ work[e].draft \in Drafts /\ Held(e)
        BY <1>4 DEF PutAsset, AtStep, ArtifactTypeOK, Writing, Held
  <2>1. PICK w \in Works : /\ work' = [work EXCEPT ![e] = w]
                           /\ w.token = work[e].token /\ w.step \in {"put", "assets"}
                           /\ w.draft = work[e].draft
    <3>1. CASE work[e].due = {}
      <4>1. [work[e] EXCEPT !.step = "assets"] \in Works
            BY <1>0 DEF Works, Writing
      <4> QED BY <1>0, <1>4, <3>1, <4>1 DEF PutAsset, GoOn, Works
    <3>2. CASE work[e].due # {}
      <4>1. PICK u \in work[e].due :
              work' = [work EXCEPT ![e] = [work[e] EXCEPT !.due = @ \ {u}]]
            BY <1>4, <3>2 DEF PutAsset
      <4>2. [work[e] EXCEPT !.due = @ \ {u}] \in Works
            BY <1>0 DEF Works
      <4> QED BY <1>0, <2>0, <4>1, <4>2 DEF Works
    <3> QED BY <3>1, <3>2
  <2>2. work'[e] = w
        BY <2>1 DEF ArtifactTypeOK
  <2>3. HolderRows(e) => HolderRows(e)'
        BY <1>0, <2>0, <2>1, <2>2 DEF HolderRows
  <2> QED BY <1>0, <1>1, <2>0, <2>1, <2>3, GoesOn DEF Writing
<1> QED BY <1>2, <1>3, <1>4

(* The executor goes to its next step, or stays, with its token and draft. *)
Advances(e, steps) ==
  \E w \in Works : /\ work' = [work EXCEPT ![e] = w]
                   /\ w.token = work[e].token /\ w.draft = work[e].draft
                   /\ w.step \in steps

(* A step of an attempt that writes rows keeps the invariant when it       *)
(* leaves them as its next step expects.                                   *)
LEMMA WritesOn ==
  ASSUME ArtifactInv, NEW e \in Attempters, Held(e), Accepted(e),
         target' = target, NEW steps, Advances(e, steps),
         "idle" \notin steps,
         (steps \cap Writing # {}) => work[e].step \in Writing,
         IsRows(rows'), LexicalRests',
         HolderRows(e) => HolderRows(e)'
  PROVE  ArtifactInv'
<1>1. PICK w \in Works : /\ work' = [work EXCEPT ![e] = w]
                         /\ w.token = work[e].token /\ w.draft = work[e].draft
                         /\ w.step \in steps
      BY DEF Advances
<1>2. target.retries = 0 /\ target.serving = "candidate" /\ Current(e) => HolderRows(e)'
      BY DEF ArtifactInv, RowsAreTheHolders
<1>3. w.step \in Writing => w.draft \in Drafts
      BY <1>1 DEF ArtifactInv, ArtifactTypeOK
<1> QED BY <1>1, <1>2, <1>3, GoesOn

(* Going on with the next step, with or without something left to do.      *)
LEMMA Advance ==
  ASSUME ArtifactInv, NEW e \in Attempters, NEW step \in Before \cup Writing
  PROVE  /\ GoOn(e, step) => Advances(e, {step})
         /\ \A due \in SUBSET Units :
              work' = [work EXCEPT ![e].step = step, ![e].due = due] => Advances(e, {step})
<1>0. work[e] \in Works /\ work \in [Attempters -> Works]
      BY DEF ArtifactInv, ArtifactTypeOK
<1>1. ASSUME GoOn(e, step) PROVE Advances(e, {step})
  <2> DEFINE w == [work[e] EXCEPT !.step = step]
  <2>1. w \in Works /\ w.token = work[e].token /\ w.draft = work[e].draft /\ w.step = step
        BY <1>0 DEF Works
  <2>2. work' = [work EXCEPT ![e] = w]
        BY <1>1 DEF GoOn
  <2> QED BY <2>1, <2>2 DEF Advances
<1>2. ASSUME NEW due \in SUBSET Units,
             work' = [work EXCEPT ![e].step = step, ![e].due = due]
      PROVE  Advances(e, {step})
  <2> DEFINE w == [work[e] EXCEPT !.step = step, !.due = due]
  <2>1. w \in Works /\ w.token = work[e].token /\ w.draft = work[e].draft /\ w.step = step
        BY <1>0 DEF Works
  <2>2. work' = [work EXCEPT ![e] = w]
        BY <1>0, <1>2
  <2> QED BY <2>1, <2>2 DEF Advances
<1> QED BY <1>1, <1>2

(* Where the next step is, and what the rows must be for it.               *)
LEMMA AdvancedRows ==
  ASSUME ArtifactInv, NEW e \in Attempters, NEW steps, Advances(e, steps)
  PROVE  work'[e].step \in steps /\ work'[e].draft = work[e].draft
  BY DEF Advances, ArtifactInv, ArtifactTypeOK

(* The units an executor writes are units of a draft.                      *)
LEMMA UnitsAreUnits ==
  ASSUME ArtifactInv, NEW e \in Attempters, work[e].step \in Writing
  PROVE  /\ UnitsAt(e) \subseteq Units /\ Visual(UnitsAt(e)) \subseteq Units
         /\ IsFiniteSet(AssetsAt(e)) /\ work[e].draft \in Drafts
<1>1. work[e].draft \in Drafts
      BY DEF ArtifactInv, ArtifactTypeOK
<1>2. UnitsAt(e) \subseteq Units
      BY <1>1 DEF Units, UnitsAt
<1> QED BY <1>1, <1>2, AssetsAreFinite DEF Visual, AssetsAt, UnitsAt

(* The transactions before the manifest: they leave lexical rows alone.    *)
LEMMA EarlySteps ==
  ASSUME ArtifactInv, NEW e \in Attempters,
         ForgetAssets(e) \/ SavePlan(e) \/ UpsertAssets(e) \/ SaveManifest(e)
  PROVE  ArtifactInv'
<1>0. IsRows(rows) /\ LexicalRests
      BY DEF ArtifactInv, ArtifactTypeOK
<1>1. CASE ForgetAssets(e)
  <2>1. /\ rows' = [rows EXCEPT !.assets = {}, !.relations = {}] /\ target' = target
        /\ Accepted(e) /\ work[e].step = "forget" /\ GoOn(e, "convert")
        BY <1>1 DEF ForgetAssets, AtStep
  <2>2. Advances(e, {"convert"})
        BY <2>1, Advance DEF Before
  <2>3. IsRows(rows')
        BY <1>0, <2>1, FS_EmptySet DEF IsRows
  <2>4. rows'.lexical = rows.lexical /\ rows'.chunks = rows.chunks
        /\ rows'.sealed = rows.sealed
        BY <1>0, <2>1 DEF IsRows
  <2>5. LexicalRests' /\ (HolderRows(e) => HolderRows(e)')
        BY <1>0, <2>1, <2>2, <2>4, AdvancedRows DEF LexicalRests, HolderRows
  <2> QED BY <2>1, <2>2, <2>3, <2>5, WritesOn DEF Held, Writing
<1>2. CASE SavePlan(e)
  <2>0. work[e].step = "plan"
        BY <1>2 DEF SavePlan, AtStep
  <2>1. /\ rows' = [rows EXCEPT !.plan = work[e].draft] /\ target' = target
        /\ Accepted(e) /\ work[e].step = "plan"
        /\ work' = [work EXCEPT ![e].step = "put", ![e].due = Visual(UnitsAt(e))]
        BY <1>2 DEF SavePlan, AtStep
  <2>2. Advances(e, {"put"})
        BY <2>1, Advance, UnitsAreUnits DEF Writing
  <2>3. IsRows(rows')
        BY <1>0, <2>1 DEF IsRows
  <2>4. rows'.lexical = rows.lexical /\ rows'.chunks = rows.chunks
        /\ rows'.sealed = rows.sealed
        BY <1>0, <2>1 DEF IsRows
  <2>5. work'[e].step \in {"put"} /\ work'[e].draft = work[e].draft
        BY <2>2, AdvancedRows
  <2>6. LexicalRests' /\ (HolderRows(e) => HolderRows(e)')
        BY <1>0, <2>0, <2>4, <2>5 DEF LexicalRests, HolderRows
  <2> QED BY <2>0, <2>1, <2>2, <2>3, <2>6, WritesOn DEF Held, Writing
<1>3. CASE UpsertAssets(e)
  <2>1. /\ rows' = [rows EXCEPT !.assets = @ \cup AssetsAt(e)] /\ target' = target
        /\ Accepted(e) /\ work[e].step = "assets" /\ GoOn(e, "manifest")
        BY <1>3 DEF UpsertAssets, AtStep
  <2>2. Advances(e, {"manifest"})
        BY <2>1, Advance DEF Writing
  <2>3. IsFiniteSet(rows.assets \cup AssetsAt(e))
        BY <1>0, <2>1, UnitsAreUnits, FS_Union DEF IsRows, Writing
  <2>4. IsRows(rows')
        BY <1>0, <2>1, <2>3 DEF IsRows
  <2>5. rows'.lexical = rows.lexical /\ rows'.chunks = rows.chunks
        /\ rows'.sealed = rows.sealed
        BY <1>0, <2>1 DEF IsRows
  <2>6. LexicalRests' /\ (HolderRows(e) => HolderRows(e)')
        BY <1>0, <2>1, <2>2, <2>5, AdvancedRows DEF LexicalRests, HolderRows
  <2> QED BY <2>1, <2>2, <2>4, <2>6, WritesOn DEF Held, Writing
<1>4. CASE SaveManifest(e)
  <2>0. work[e].step = "manifest"
        BY <1>4 DEF SaveManifest, AtStep
  <2>1. /\ rows' = [rows EXCEPT !.manifest = work[e].draft] /\ target' = target
        /\ Accepted(e) /\ work[e].step = "manifest"
        /\ work' = [work EXCEPT ![e].step = "embed", ![e].due = UnitsAt(e)]
        BY <1>4 DEF SaveManifest, AtStep
  <2>2. Advances(e, {"embed"}) /\ work[e].draft \in Drafts
        BY <2>1, Advance, UnitsAreUnits DEF Writing
  <2>3. IsRows(rows')
        BY <1>0, <2>1, <2>2 DEF IsRows
  <2>4. rows'.lexical = rows.lexical /\ rows'.chunks = rows.chunks
        /\ rows'.sealed = rows.sealed /\ rows'.manifest = work[e].draft
        BY <1>0, <2>1 DEF IsRows
  <2>5. work'[e].step \in {"embed"} /\ work'[e].draft = work[e].draft
        BY <2>2, AdvancedRows
  <2>6. LexicalRests' /\ (HolderRows(e) => HolderRows(e)')
        BY <1>0, <2>0, <2>4, <2>5 DEF LexicalRests, HolderRows
  <2> QED BY <2>0, <2>1, <2>2, <2>3, <2>6, WritesOn DEF Held, Writing
<1> QED BY <1>1, <1>2, <1>3, <1>4

(* The chunks, relations and questions: the lexical rows stay, and still   *)
(* rest on the chunks.                                                     *)
LEMMA MiddleSteps ==
  ASSUME ArtifactInv, NEW e \in Attempters,
         UpsertBatch(e) \/ UpsertRelations(e) \/ UpsertQuestions(e)
  PROVE  ArtifactInv'
<1>0. IsRows(rows) /\ LexicalRests
      BY DEF ArtifactInv, ArtifactTypeOK
<1>1. ASSUME NEW r, rows' = r, r = rows \/ IsRows(r), r.lexical = rows.lexical,
             rows.chunks \subseteq r.chunks, r.sealed = rows.sealed,
             r.manifest = rows.manifest, target' = target, Accepted(e),
             work[e].step \in {"embed", "relations", "questions"},
             NEW step \in {"embed", "relations", "questions", "lexical"}, Advances(e, {step})
      PROVE  ArtifactInv'
  <2>1. work'[e].step \in {step} /\ work'[e].draft = work[e].draft
        BY <1>1, AdvancedRows
  <2>2. LexicalRests'
        BY <1>0, <1>1 DEF LexicalRests, Keys
  <2>3. HolderRows(e) => HolderRows(e)'
        BY <1>1, <2>1 DEF HolderRows
  <2>4. IsRows(rows')
        BY <1>0, <1>1
  <2> QED BY <1>1, <2>2, <2>3, <2>4, WritesOn DEF Held, Writing
<1>2. CASE UpsertBatch(e) /\ work[e].due = {}
      BY <1>0, <1>1, <1>2, Advance DEF UpsertBatch, AtStep, Writing
<1>3. CASE UpsertBatch(e) /\ work[e].due # {}
  <2>0. work[e].step = "embed" /\ Accepted(e) /\ target' = target
        BY <1>3 DEF UpsertBatch, AtStep
  <2>1. PICK u \in work[e].due :
          /\ rows' = [rows EXCEPT !.chunks = @ \cup {u}]
          /\ work' = [work EXCEPT ![e].due = @ \ {u}]
        BY <1>3 DEF UpsertBatch
  <2>2. Advances(e, {"embed"})
    <3> DEFINE w == [work[e] EXCEPT !.due = @ \ {u}]
    <3>1. work \in [Attempters -> Works]
          BY DEF ArtifactInv, ArtifactTypeOK
    <3>2. w \in Works /\ w.token = work[e].token /\ w.draft = work[e].draft
          /\ w.step = "embed"
          BY <2>0, <3>1 DEF Works
    <3>3. work' = [work EXCEPT ![e] = w]
          BY <2>1
    <3> QED BY <3>2, <3>3 DEF Advances
  <2>3. PICK r : r = [rows EXCEPT !.chunks = @ \cup {u}]
        OBVIOUS
  <2>4. /\ IsRows(r) /\ r.lexical = rows.lexical /\ rows.chunks \subseteq r.chunks
        /\ r.sealed = rows.sealed /\ r.manifest = rows.manifest
        BY <1>0, <2>3 DEF IsRows
  <2>5. rows' = r
        BY <2>1, <2>3
  <2> QED BY <1>1, <2>0, <2>2, <2>4, <2>5
<1>4. CASE UpsertRelations(e)
  <2>0. work[e].step = "relations" /\ Accepted(e) /\ target' = target
        BY <1>4 DEF UpsertRelations, AtStep
  <2>1. Advances(e, {"questions"})
        BY <1>4, Advance DEF UpsertRelations, Writing
  <2>2. PICK r : r = [rows EXCEPT !.relations = @ \cup Related(UnitsAt(e))]
        OBVIOUS
  <2>3. /\ IsRows(r) /\ r.lexical = rows.lexical /\ rows.chunks \subseteq r.chunks
        /\ r.sealed = rows.sealed /\ r.manifest = rows.manifest
        BY <1>0, <2>2 DEF IsRows
  <2>4. rows' = r
        BY <1>4, <2>2 DEF UpsertRelations
  <2> QED BY <1>1, <2>0, <2>1, <2>3, <2>4
<1>5. CASE UpsertQuestions(e)
  <2>0. work[e].step = "questions" /\ Accepted(e) /\ target' = target
        BY <1>5 DEF UpsertQuestions, AtStep
  <2>1. Advances(e, {"lexical"})
        BY <1>5, Advance DEF UpsertQuestions, Writing
  <2>2. PICK asked : rows' = [rows EXCEPT !.questions = asked]
        BY <1>5 DEF UpsertQuestions
  <2>3. PICK r : r = [rows EXCEPT !.questions = asked]
        OBVIOUS
  <2>4. /\ IsRows(r) /\ r.lexical = rows.lexical /\ rows.chunks \subseteq r.chunks
        /\ r.sealed = rows.sealed /\ r.manifest = rows.manifest
        BY <1>0, <2>3 DEF IsRows
  <2>5. rows' = r
        BY <2>2, <2>3
  <2> QED BY <1>1, <2>0, <2>1, <2>4, <2>5
<1> QED BY <1>2, <1>3, <1>4, <1>5

(* The lexical rows and their manifest: those of the draft, where nobody   *)
(* else wrote any.                                                         *)
LEMMA LexicalSteps ==
  ASSUME ArtifactInv, NEW e \in Attempters, UpsertLexical(e) \/ SealLexical(e)
  PROVE  ArtifactInv'
<1>0. IsRows(rows) /\ LexicalRests
      BY DEF ArtifactInv, ArtifactTypeOK
<1>1. CASE UpsertLexical(e)
  <2>0. /\ work[e].step = "lexical" /\ Accepted(e) /\ target' = target
        /\ Keys(UnitsAt(e)) \subseteq Keys(rows.chunks)
        /\ rows' = [rows EXCEPT !.lexical = @ \cup UnitsAt(e)]
        BY <1>1 DEF UpsertLexical, AtStep
  <2>1. Advances(e, {"seal"})
        BY <1>1, Advance DEF UpsertLexical, Writing
  <2>2. work'[e].step \in {"seal"} /\ work'[e].draft = work[e].draft
        BY <2>1, AdvancedRows
  <2>3. /\ IsRows(rows') /\ rows'.lexical = rows.lexical \cup UnitsAt(e)
        /\ rows'.chunks = rows.chunks /\ rows'.sealed = rows.sealed
        /\ rows'.manifest = rows.manifest
        BY <1>0, <2>0 DEF IsRows
  <2>4. LexicalRests'
        BY <1>0, <2>0, <2>3 DEF LexicalRests, Keys
  <2>5. HolderRows(e) => HolderRows(e)'
        BY <2>0, <2>2, <2>3 DEF HolderRows, UnitsAt
  <2> QED BY <2>0, <2>1, <2>3, <2>4, <2>5, WritesOn DEF Held, Writing
<1>2. CASE SealLexical(e)
  <2>0. /\ work[e].step = "seal" /\ Accepted(e) /\ target' = target
        /\ rows' = [rows EXCEPT !.sealed = UnitsAt(e)]
        BY <1>2 DEF SealLexical, AtStep
  <2>1. Advances(e, {"complete"})
        BY <1>2, Advance DEF SealLexical, Writing
  <2>2. work'[e].step \in {"complete"} /\ work'[e].draft = work[e].draft
        BY <2>1, AdvancedRows
  <2>3. /\ IsRows(rows') /\ rows'.lexical = rows.lexical
        /\ rows'.chunks = rows.chunks /\ rows'.sealed = UnitsAt(e)
        /\ rows'.manifest = rows.manifest
        BY <1>0, <2>0 DEF IsRows
  <2>4. LexicalRests'
        BY <1>0, <2>3 DEF LexicalRests
  <2>5. HolderRows(e) => HolderRows(e)'
        BY <2>0, <2>2, <2>3 DEF HolderRows, UnitsAt
  <2> QED BY <2>0, <2>1, <2>3, <2>4, <2>5, WritesOn DEF Held, Writing
<1> QED BY <1>1, <1>2

(* A build is completed on what the manifest plans and what is stored.     *)
LEMMA CompleteStep ==
  ASSUME ArtifactInv, NEW e \in Attempters, CompleteBuild(e)
  PROVE  ArtifactInv'
<1> USE DEF ArtifactInv
<1> DEFINE t == [target EXCEPT !.status = "completed"]
<1>0. /\ work[e].step = "complete" /\ Accepted(e) /\ AllVerified(e) /\ rows' = rows
      /\ target' = t /\ work' = [work EXCEPT ![e] = Resting] /\ target \in Targets
      BY DEF CompleteBuild, AtStep, Over, ArtifactTypeOK
<1>1. /\ t \in Targets /\ t.attempt = target.attempt /\ t.retries = target.retries
      /\ t.serving = target.serving /\ t.more = target.more /\ t.status = "completed"
      BY <1>0 DEF Targets
<1> HIDE DEF t
<1>2. PICK d \in Drafts : rows.manifest = d
      BY <1>0 DEF AllVerified, Planned, ArtifactTypeOK, IsRows
<1>3. rows.assets = AssetsOf(UnitsOf[d])
      BY <1>0, <1>2, FS_Subset DEF AllVerified, Planned, ArtifactTypeOK, IsRows
<1>4. rows.chunks = UnitsOf[d] /\ rows.relations = Related(UnitsOf[d])
      BY <1>0, <1>2 DEF AllVerified, Planned
<1>5. /\ rows.questions \subseteq UnitsOf[d] /\ rows.sealed # Unset
      /\ Keys(rows.lexical) \subseteq Keys(UnitsOf[d])
      BY <1>0, <1>4 DEF AllVerified, LexicalRests
<1>6. target.retries = 0 => rows.lexical = UnitsOf[d] /\ rows.sealed = UnitsOf[d]
      BY <1>0, <1>2 DEF RowsAreTheHolders, HolderRows, Accepted, UnitsAt
<1>7. ReadyBuildsAreWhole'
      BY <1>0, <1>1, <1>2, <1>3, <1>4, <1>5, <1>6 DEF ReadyBuildsAreWhole
<1>8. Resting \in Works /\ Resting.step = "idle"
      BY DEF Resting, Works, Before
<1>9. ArtifactTypeOK' /\ LexicalRests'
      BY <1>0, <1>1, <1>8 DEF ArtifactTypeOK, LexicalRests, Writing
<1>10. \A f \in Attempters : /\ f # e => work'[f] = work[f]
                             /\ (Held(f)' => Held(f) /\ f # e)
      BY <1>0, <1>8 DEF ArtifactTypeOK, Held
<1>11. TokensAreOwn'
      BY <1>0, <1>1, <1>10 DEF TokensAreOwn
<1>12. RowsAreTheHolders'
  <2> SUFFICES ASSUME target.retries = 0, NEW f \in Attempters, Current(f)'
               PROVE  HolderRows(f)'
      BY <1>0, <1>1 DEF RowsAreTheHolders
  <2>1. ~Held(f)'
        BY <1>0, <1>1, <1>10 DEF TokensAreOwn, Accepted, Current, Held
  <2> QED BY <2>1 DEF HolderRows, Held
<1> QED BY <1>7, <1>9, <1>11, <1>12

(* The attempts that end otherwise: refused, with an error, or to be       *)
(* continued.                                                              *)
LEMMA EndSteps ==
  ASSUME ArtifactInv, NEW e \in Attempters,
         Refused(e) \/ FailBuild(e) \/ YieldBuild(e)
  PROVE  ArtifactInv'
<1>0. target \in Targets
      BY DEF ArtifactInv, ArtifactTypeOK
<1>1. ASSUME UNCHANGED <<target, rows>>, Over(e) PROVE ArtifactInv'
  <2>1. /\ target' = target /\ rows' = rows /\ work' = [work EXCEPT ![e] = Resting]
        BY <1>1 DEF Over
  <2> QED BY <1>0, <2>1, GivesUp
<1>2. CASE FailBuild(e)
  <2>1. CASE Current(e) /\ Unfinished
        BY <1>0, <1>2, <2>1, RequeuedJob, GivesUp DEF FailBuild, Fails, Over
  <2>2. CASE ~(Current(e) /\ Unfinished)
        BY <1>1, <1>2, <2>2 DEF FailBuild, Fails
  <2> QED BY <2>1, <2>2
<1>3. CASE YieldBuild(e)
  <2> DEFINE t == [target EXCEPT !.status = "queued", !.more = TRUE]
  <2>1. /\ t \in Targets /\ t.attempt = target.attempt /\ t.retries = target.retries
        /\ t.serving = target.serving /\ t.status = "queued"
        BY <1>0 DEF Targets
  <2>2. /\ target' = t /\ work' = [work EXCEPT ![e] = Resting] /\ rows' = rows
        /\ Current(e) /\ Held(e)
        BY <1>3 DEF YieldBuild, Over, Accepted, AtStep, Held
  <2> HIDE DEF t
  <2> QED BY <2>1, <2>2, GivesUp
<1>4. CASE Refused(e)
      BY <1>1, <1>4 DEF Refused
<1> QED BY <1>2, <1>3, <1>4

(* Maintenance takes the rows of a retired target only.                    *)
LEMMA CleaningSteps ==
  ASSUME ArtifactInv, ListRetired \/ CleanRetired
  PROVE  ArtifactInv'
<1> USE DEF ArtifactInv
<1>1. CASE rows' = rows
      BY <1>1 DEF ListRetired, CleanRetired, ArtifactTypeOK, LexicalRests, TokensAreOwn,
                  Held, RowsAreTheHolders, HolderRows, Current, UnitsAt, ReadyBuildsAreWhole
<1>2. CASE rows' # rows
  <2>1. /\ target.serving = "retired" /\ UNCHANGED <<target, work>>
        /\ rows' = [NoRows EXCEPT !.sealed = rows.sealed]
        BY <1>2 DEF ListRetired, CleanRetired
  <2>2. IsRows(rows') /\ rows'.lexical = {}
        BY <2>1, FS_EmptySet DEF NoRows, IsRows
  <2>3. ArtifactTypeOK' /\ LexicalRests'
        BY <2>1, <2>2 DEF ArtifactTypeOK, LexicalRests, Keys
  <2> QED BY <2>1, <2>3 DEF TokensAreOwn, Held, RowsAreTheHolders, ReadyBuildsAreWhole
<1> QED BY <1>1, <1>2

(* Every step of the artifacts keeps the invariant.                        *)
LEMMA ArtifactStep == ArtifactInv /\ [ArtifactNext]_artifactVars => ArtifactInv'
<1> SUFFICES ASSUME ArtifactInv, [ArtifactNext]_artifactVars PROVE ArtifactInv'
    OBVIOUS
<1>1. CASE UNCHANGED artifactVars
      BY <1>1 DEF artifactVars, ArtifactInv, ArtifactTypeOK, LexicalRests, TokensAreOwn,
                  Held, RowsAreTheHolders, HolderRows, Current, UnitsAt, ReadyBuildsAreWhole
<1>2. CASE \E e \in Attempters : \/ ClaimBuild(e) \/ AttemptStep(e)
                                 \/ Refused(e) \/ FailBuild(e)
  <2>1. PICK e \in Attempters : \/ ClaimBuild(e) \/ AttemptStep(e)
                                \/ Refused(e) \/ FailBuild(e)
        BY <1>2
  <2> QED BY <2>1, ClaimStep, PrepareStep, QuietSteps, EarlySteps, MiddleSteps,
             LexicalSteps, CompleteStep, EndSteps DEF AttemptStep
<1>3. CASE LoseLease \/ RetryBuild \/ WithdrawBuild \/ PromoteBuild
      BY <1>3, JobStep
<1>4. CASE ListRetired \/ CleanRetired
      BY <1>4, CleaningSteps
<1> QED BY <1>1, <1>2, <1>3, <1>4 DEF ArtifactNext

(* The invariant of the artifacts of a build, for any drafts and any       *)
(* number of executors, attempts and retries.                              *)
THEOREM ArtifactInvariant == ArtifactSpec => []ArtifactInv
  BY ArtifactsInitially, ArtifactStep, PTL DEF ArtifactSpec

(* A completed build that is or may be served is whole: see                *)
(* ReadyBuildsAreWhole.                                                    *)
THEOREM BuildsAreWhole == ArtifactSpec => []ReadyBuildsAreWhole
  BY ArtifactInvariant, PTL DEF ArtifactInv

-----------------------------------------------------------------------------
(* The parser.                                                             *)

(* A plan holds pages of its document in their places, and when none is    *)
(* missing their usage keeps the limit.                                    *)
OwnPlan(d, plan) ==
  /\ plan = [s \in Segments(d) |-> plan[s]]
  /\ \A s \in Segments(d) :
       \/ plan[s] = Missing
       \/ /\ plan[s] = <<plan[s][1]>>
          /\ plan[s][1].doc = d /\ plan[s][1].seg = s
  /\ d \notin Plain /\ PendingOf(plan) = {} => Usage(plan) <= Budget

IsCall(t) == t = [doc |-> t.doc, step |-> t.step, plan |-> t.plan, pages |-> t.pages]

(* A thread works for a document that is checkpointed, on its own pages:   *)
(* those it stores are of the first segment its plan misses.               *)
ThreadIsSound(t) ==
  /\ IsCall(t) /\ t.step \in {"load", "lay out", "store", "record"}
  /\ t.doc \in Docs \ Plain
  /\ t.step # "load" => OwnPlan(t.doc, t.plan)
  /\ t.step \in {"store", "record"} =>
       /\ t.pages = <<t.pages[1]>>
       /\ t.pages[1].doc = t.doc /\ t.pages[1].seg = FirstPending(t.plan)
  /\ t.step = "record" => WithinBudget(t)

CallIsSound ==
  /\ IsCall(call)
  /\ call.step \in {"none", "start", "probe", "probing", "load", "lay out", "convert",
                    "converting", "store", "record", "assemble", "yield", "publish",
                    "discard"}
  /\ call.step # "none" => call.doc \in Docs
  /\ call.step \in {"probe", "probing", "load", "lay out", "store", "record",
                    "assemble", "yield"} => call.doc \notin Plain
  /\ InThread => ThreadIsSound(call)
  /\ call.step \in {"convert", "converting"} /\ call.doc \notin Plain =>
       OwnPlan(call.doc, call.plan)
  /\ call.step \in {"assemble", "publish"} =>
       OwnPlan(call.doc, call.plan) /\ PendingOf(call.plan) = {}

FoldersAreSound ==
  /\ folder = [d \in Docs |-> folder[d]]
  /\ \A d \in Docs :
       /\ folder[d] = [made |-> folder[d].made, manifest |-> folder[d].manifest,
                       files |-> folder[d].files]
       /\ folder[d].manifest # NoPlan => OwnPlan(d, folder[d].manifest)

(* The child has nothing to answer unless a call waits, and then at most   *)
(* the request of that call.                                               *)
ChildAnswersTheCall ==
  /\ child = [up |-> child.up, killed |-> child.killed, asked |-> child.asked,
              pipe |-> child.pipe]
  /\ \/ child.asked = <<>> /\ child.pipe = <<>>
     \/ Waiting /\ child.asked = <<Wanted>> /\ child.pipe = <<>>
     \/ /\ Waiting /\ child.asked = <<>> /\ child.pipe = <<child.pipe[1]>>
        /\ child.pipe[1].doc = call.doc /\ child.pipe[1].seg = Wanted.seg

JobsAreRecords ==
  /\ job = [d \in Docs |-> job[d]]
  /\ \A d \in Docs : job[d] = [tries |-> job[d].tries, resumed |-> job[d].resumed,
                                outcome |-> job[d].outcome, text |-> job[d].text]

ParserInv == /\ CallIsSound /\ FoldersAreSound /\ ChildAnswersTheCall /\ JobsAreRecords
             /\ \A t \in late : ThreadIsSound(t)
             /\ DocumentsAreWhole

(* A plan that was just laid out misses every segment, and there is one.   *)
LEMMA AllPendingIsOwn == ASSUME NEW d \in Docs PROVE OwnPlan(d, AllPending(d))
<1>1. 1 \in Segments(d)
      BY ParserAssumption DEF Segments
<1>2. 1 \in PendingOf(AllPending(d))
      BY <1>1 DEF PendingOf, AllPending, Missing
<1> QED BY <1>2 DEF OwnPlan, AllPending, Missing

(* The plan with the pages that were just stored is the document's own.    *)
LEMMA WithSegmentIsOwn ==
  ASSUME NEW t, ThreadIsSound(t), t.step \in {"store", "record"}, WithinBudget(t)
  PROVE  OwnPlan(t.doc, WithSegment(t))
<1> DEFINE k == FirstPending(t.plan)
           new == [t.plan EXCEPT ![k] = t.pages]
<1>0. /\ OwnPlan(t.doc, t.plan) /\ t.pages = <<t.pages[1]>>
      /\ t.pages[1].doc = t.doc /\ t.pages[1].seg = k
      BY DEF ThreadIsSound
<1> HIDE DEF k
<1>1. /\ new = [s \in Segments(t.doc) |-> new[s]]
      /\ \A s \in Segments(t.doc) : new[s] = IF s = k THEN t.pages ELSE t.plan[s]
      BY <1>0 DEF OwnPlan
<1>2. \A s \in Segments(t.doc) :
        \/ new[s] = Missing
        \/ /\ new[s] = <<new[s][1]>>
           /\ new[s][1].doc = t.doc /\ new[s][1].seg = s
  <2> SUFFICES ASSUME NEW s \in Segments(t.doc)
               PROVE  \/ new[s] = Missing
                      \/ /\ new[s] = <<new[s][1]>>
                         /\ new[s][1].doc = t.doc /\ new[s][1].seg = s
      OBVIOUS
  <2> HIDE DEF new
  <2>1. CASE s = k
    <3>1. new[s] = t.pages
          BY <1>1, <2>1
    <3> QED BY <1>0, <2>1, <3>1
  <2>2. CASE s # k
    <3>1. new[s] = t.plan[s]
          BY <1>1, <2>2
    <3> QED BY <1>0, <3>1 DEF OwnPlan
  <2> QED BY <2>1, <2>2
<1>3. WithSegment(t) = new
      BY DEF WithSegment, k
<1>4. Usage(new) <= Budget
      BY <1>3 DEF WithinBudget
<1> QED BY <1>1, <1>2, <1>3, <1>4 DEF OwnPlan

(* A thread that loaded the manifest, or laid out a new one, is sound.     *)
LEMMA LoadedIsSound ==
  ASSUME FoldersAreSound, NEW t, IsCall(t), t.doc \in Docs \ Plain
  PROVE  ThreadIsSound(Loaded(t)) /\ Loaded(t).doc = t.doc /\ Loaded(t).step = "lay out"
<1>1. PICK plan : /\ plan = IF folder[t.doc].manifest # NoPlan
                            THEN folder[t.doc].manifest ELSE AllPending(t.doc)
                  /\ OwnPlan(t.doc, plan)
      BY AllPendingIsOwn DEF FoldersAreSound
<1>2. Loaded(t) = [t EXCEPT !.step = "lay out", !.plan = plan]
      BY <1>1 DEF Loaded
<1>3. PICK u : u = [t EXCEPT !.step = "lay out", !.plan = plan]
      OBVIOUS
<1>4. u.doc = t.doc /\ u.step = "lay out" /\ u.plan = plan /\ IsCall(u)
      BY <1>3 DEF IsCall
<1>5. ThreadIsSound(u)
      BY <1>1, <1>4 DEF ThreadIsSound
<1> QED BY <1>2, <1>3, <1>4, <1>5

(* What a thread does to the directory of its document keeps the folders   *)
(* sound.                                                                  *)
LEMMA FolderChanges ==
  ASSUME FoldersAreSound, NEW d \in Docs, NEW new,
         folder' = [folder EXCEPT ![d] = new],
         new = [made |-> new.made, manifest |-> new.manifest, files |-> new.files],
         new.manifest # NoPlan => OwnPlan(d, new.manifest)
  PROVE  FoldersAreSound'
  BY DEF FoldersAreSound

(* Opening a directory leaves its manifest alone.                          *)
LEMMA OpenedIsSound ==
  ASSUME FoldersAreSound, NEW d \in Docs, folder' = [folder EXCEPT ![d] = Opened(d)]
  PROVE  FoldersAreSound'
<1>1. PICK new : new = Opened(d)
      OBVIOUS
<1>2. /\ new = [made |-> new.made, manifest |-> new.manifest, files |-> new.files]
      /\ new.manifest = folder[d].manifest
  <2>1. PICK old : /\ old = folder[d]
                   /\ old = [made |-> old.made, manifest |-> old.manifest, files |-> old.files]
        BY DEF FoldersAreSound
  <2>2. PICK found : found = IF old.files = NoPlan THEN AllPending(d) ELSE old.files
        OBVIOUS
  <2>3. new = [old EXCEPT !.made = TRUE, !.files = found]
        BY <1>1, <2>1, <2>2 DEF Opened
  <2> QED BY <2>1, <2>3
<1>3. new.manifest # NoPlan => OwnPlan(d, new.manifest)
      BY <1>2 DEF FoldersAreSound
<1>4. folder' = [folder EXCEPT ![d] = new]
      BY <1>1
<1> QED BY <1>2, <1>3, <1>4, FolderChanges

(* So does a write of a sound thread.                                      *)
LEMMA WrittenIsSound ==
  ASSUME FoldersAreSound, NEW t, ThreadIsSound(t), Writes(t),
         folder' = [folder EXCEPT ![t.doc] = Written(t)]
  PROVE  FoldersAreSound'
<1>0. t.doc \in Docs
      BY DEF ThreadIsSound
<1>1. PICK new : new = Written(t)
      OBVIOUS
<1>2. /\ new = [made |-> new.made, manifest |-> new.manifest, files |-> new.files]
      /\ new.manifest # NoPlan => OwnPlan(t.doc, new.manifest)
  <2>0. PICK old : /\ old = folder[t.doc] /\ (old.manifest # NoPlan => OwnPlan(t.doc, old.manifest))
                   /\ old = [made |-> old.made, manifest |-> old.manifest, files |-> old.files]
        BY <1>0 DEF FoldersAreSound
  <2>1. CASE t.step = "lay out"
    <3>1. new = [old EXCEPT !.manifest = t.plan]
          BY <1>1, <2>0, <2>1 DEF Written
    <3>2. OwnPlan(t.doc, t.plan)
          BY <2>1 DEF ThreadIsSound
    <3> QED BY <2>0, <3>1, <3>2
  <2>2. CASE t.step = "store"
    <3>1. PICK found : new = [old EXCEPT !.files = found]
      <4>1. new = [old EXCEPT !.files[FirstPending(t.plan)] = t.pages]
            BY <1>1, <2>0, <2>2 DEF Written
      <4> QED BY <4>1
    <3> QED BY <2>0, <3>1
  <2>3. CASE t.step = "record"
    <3>1. new = [old EXCEPT !.manifest = WithSegment(t)]
          BY <1>1, <2>0, <2>3 DEF Written
    <3>2. OwnPlan(t.doc, WithSegment(t))
          BY <2>3, WithSegmentIsOwn DEF ThreadIsSound
    <3> QED BY <2>0, <3>1, <3>2
  <2> QED BY <2>1, <2>2, <2>3 DEF Writes
<1>3. folder' = [folder EXCEPT ![t.doc] = new]
      BY <1>1
<1> QED BY <1>0, <1>2, <1>3, FolderChanges

(* A call that is over, and a job whose error is settled.                  *)
LEMMA NoCallIsSound == ASSUME call' = NoCall PROVE CallIsSound' /\ ~Waiting'
  BY DEF NoCall, CallIsSound, IsCall, InThread, Waiting

(* The settled job of a document is not indexed.                           *)
LEMMA SettledJobs ==
  ASSUME JobsAreRecords, DocumentsAreWhole, NEW d, NEW retryable \in BOOLEAN,
         Settle(d, retryable)
  PROVE  JobsAreRecords' /\ DocumentsAreWhole' /\ call' = NoCall
<1>1. PICK o : o \in {"open", "failed"} /\ job' = [job EXCEPT ![d].outcome = o]
      BY DEF Settle
<1>2. JobsAreRecords' /\ call' = NoCall
      BY <1>1, ZenonT(40) DEF JobsAreRecords, Settle
<1>3. \A e \in Docs : /\ job'[e].outcome = "indexed" => job[e].outcome = "indexed"
                      /\ job'[e].text = job[e].text
      BY <1>1 DEF JobsAreRecords
<1>4. DocumentsAreWhole'
      BY <1>3 DEF DocumentsAreWhole
<1> QED BY <1>2, <1>4

ChildIsRecord == child = [up |-> child.up, killed |-> child.killed,
                          asked |-> child.asked, pipe |-> child.pipe]
ChildIsSilent == ChildIsRecord /\ child.asked = <<>> /\ child.pipe = <<>>

(* While no call waits the child has nothing to answer, a new child has    *)
(* nothing, and a silent child stays silent for any call.                  *)
LEMMA Silence ==
  /\ ChildAnswersTheCall /\ ~Waiting => ChildIsSilent
  /\ ChildAnswersTheCall /\ ~Waiting /\ child' = child => ChildIsSilent'
  /\ child' = NoChild => ChildIsSilent'
  /\ ChildIsSilent' => ChildAnswersTheCall'
  BY DEF ChildAnswersTheCall, ChildIsSilent, ChildIsRecord, NoChild

(* A step that ends the call with its job settled.                         *)
LEMMA CallSettles ==
  ASSUME ParserInv, NEW r \in BOOLEAN, Settle(call.doc, r),
         ChildIsSilent', folder' = folder, \A t \in late' : ThreadIsSound(t)
  PROVE  ParserInv'
<1>1. JobsAreRecords' /\ DocumentsAreWhole' /\ call' = NoCall
      BY SettledJobs DEF ParserInv
<1>2. FoldersAreSound'
      BY DEF ParserInv, FoldersAreSound
<1> QED BY <1>1, <1>2, Silence, NoCallIsSound DEF ParserInv

(* The calls that end with an error: that of the child, of a write, of the *)
(* indexing after it, a cancellation, the death of the worker.             *)
LEMMA ErrorSteps ==
  ASSUME ParserInv,
         ReceiveEof \/ ReceiveError \/ WriteFails \/ IndexingFails \/ Cancel \/ WorkerDies
  PROVE  ParserInv'
<1>0. /\ CallIsSound /\ ChildAnswersTheCall /\ \A t \in late : ThreadIsSound(t)
      /\ JobsAreRecords /\ DocumentsAreWhole /\ FoldersAreSound
      BY DEF ParserInv
<1>1. CASE ReceiveEof
  <2>1. /\ Settle(call.doc, ~child.killed) /\ child' = NoChild /\ UNCHANGED <<folder, late>>
        BY <1>1 DEF ReceiveEof, Reset
  <2>2. PICK r \in BOOLEAN : r = ~child.killed
        OBVIOUS
  <2>3. Settle(call.doc, r)
        BY <2>1, <2>2, Zenon
  <2> QED BY <1>0, <2>1, <2>3, Silence, CallSettles
<1>2. CASE ReceiveError
  <2>1. /\ Settle(call.doc, Head(child.pipe).kind = "crashed") /\ UNCHANGED <<folder, late>>
        /\ child.pipe # <<>>
        /\ child' \in {NoChild, [child EXCEPT !.pipe = Tail(@)]}
        BY <1>2 DEF ReceiveError, Reset
  <2>2. PICK r \in BOOLEAN : r = (Head(child.pipe).kind = "crashed")
        OBVIOUS
  <2>3. Settle(call.doc, r)
        BY <2>1, <2>2, Zenon
  <2>4. child.asked = <<>> /\ child.pipe = <<child.pipe[1]>> /\ ChildIsRecord
        BY <1>0, <2>1 DEF ChildAnswersTheCall, ChildIsRecord
  <2>5. PICK p : child.pipe = <<p>>
        BY <2>4
  <2>6. Tail(child.pipe) = <<>>
        BY <2>5
  <2>7. CASE child' = [child EXCEPT !.pipe = Tail(@)]
    <3>1. ChildIsSilent'
          BY <2>4, <2>6, <2>7 DEF ChildIsSilent, ChildIsRecord
    <3> QED BY <1>0, <2>1, <2>3, <3>1, CallSettles
  <2>8. CASE child' = NoChild
        BY <1>0, <2>1, <2>3, <2>8, Silence, CallSettles
  <2> QED BY <2>1, <2>7, <2>8
<1>3. CASE WriteFails
  <2>1. /\ UNCHANGED <<folder, late>> /\ child' = child
        /\ Settle(call.doc, FALSE) \/ Settle(call.doc, TRUE)
        /\ ~Waiting
        BY <1>3 DEF WriteFails, Writes, Waiting
  <2> QED BY <1>0, <2>1, Silence, CallSettles
<1>4. CASE IndexingFails
  <2>1. /\ UNCHANGED <<folder, late>> /\ child' = child /\ Settle(call.doc, TRUE) /\ ~Waiting
        BY <1>4 DEF IndexingFails, Waiting
  <2> QED BY <1>0, <2>1, Silence, CallSettles
<1>5. CASE Cancel
  <2>1. folder' = folder /\ Settle(call.doc, TRUE)
        BY <1>5 DEF Cancel
  <2>2. IF Waiting THEN child' = NoChild ELSE child' = child
        BY <1>5 DEF Cancel, Reset
  <2>3. ChildIsSilent'
        BY <1>0, <2>2, Silence
  <2>4. \A t \in late' : ThreadIsSound(t)
        BY <1>0, <1>5 DEF Cancel, CallIsSound
  <2> QED BY <2>1, <2>3, <2>4, CallSettles
<1>6. CASE WorkerDies
  <2>1. folder' = folder /\ child' = NoChild /\ late' = {}
        BY <1>6 DEF WorkerDies, Reset
  <2>2. CASE Undecided(call.doc)
    <3>1. Settle(call.doc, TRUE)
          BY <1>6, <2>2 DEF WorkerDies
    <3> QED BY <1>0, <2>1, <3>1, Silence, CallSettles
  <2>3. CASE ~Undecided(call.doc)
    <3>1. call' = NoCall /\ job' = job
          BY <1>6, <2>3 DEF WorkerDies
    <3>2. JobsAreRecords' /\ DocumentsAreWhole' /\ FoldersAreSound'
          BY <1>0, <2>1, <3>1 DEF JobsAreRecords, DocumentsAreWhole, FoldersAreSound
    <3> QED BY <2>1, <3>1, <3>2, Silence, NoCallIsSound DEF ParserInv
  <2> QED BY <2>2, <2>3
<1> QED BY <1>1, <1>2, <1>3, <1>4, <1>5, <1>6

(* The child works, refuses or dies: only what it has for the call changes.*)
LEMMA ChildSteps ==
  ASSUME ParserInv, ChildConverts \/ ChildRefuses \/ ChildDies
  PROVE  ParserInv'
<1>0. /\ CallIsSound /\ ChildAnswersTheCall /\ \A t \in late : ThreadIsSound(t)
      /\ JobsAreRecords /\ DocumentsAreWhole /\ FoldersAreSound
      BY DEF ParserInv
<1>1. UNCHANGED <<folder, call, late, job>>
      BY DEF ChildConverts, ChildRefuses, ChildDies
<1>2. /\ CallIsSound' /\ JobsAreRecords' /\ DocumentsAreWhole' /\ FoldersAreSound'
      /\ \A t \in late' : ThreadIsSound(t)
  <2>1. CallIsSound'
        BY <1>0, <1>1 DEF CallIsSound, InThread
  <2>2. JobsAreRecords' /\ DocumentsAreWhole'
        BY <1>0, <1>1 DEF JobsAreRecords, DocumentsAreWhole
  <2>3. FoldersAreSound'
        BY <1>0, <1>1 DEF FoldersAreSound
  <2> QED BY <1>0, <1>1, <2>1, <2>2, <2>3
<1>3. ASSUME NEW answer, child.asked # <<>>,
             child' = [child EXCEPT !.asked = Tail(@), !.pipe = Append(@, answer)],
             answer.doc = Head(child.asked).doc, answer.seg = Head(child.asked).seg
      PROVE  ChildAnswersTheCall'
  <2>1. Waiting /\ child.asked = <<Wanted>> /\ child.pipe = <<>> /\ ChildIsRecord
        BY <1>0, <1>3 DEF ChildAnswersTheCall, ChildIsRecord
  <2>2. PICK w : w = Wanted /\ w = Wanted'
        BY <1>1 DEF Wanted
  <2>3. child.asked = <<w>>
        BY <2>1, <2>2
  <2>4. Tail(child.asked) = <<>> /\ Head(child.asked) = w /\ Append(child.pipe, answer) = <<answer>>
        BY <2>1, <2>3
  <2>5. /\ child' = [up |-> child'.up, killed |-> child'.killed, asked |-> child'.asked,
                     pipe |-> child'.pipe]
        /\ child'.asked = <<>> /\ child'.pipe = <<answer>>
        BY <1>3, <2>1, <2>4 DEF ChildIsRecord
  <2>6. Waiting' /\ call'.doc = call.doc
        BY <1>1, <2>1 DEF Waiting
  <2>7. w.doc = call.doc
        BY <2>2 DEF Wanted, Asked
  <2> QED BY <1>3, <2>2, <2>4, <2>5, <2>6, <2>7 DEF ChildAnswersTheCall
<1>4. CASE ChildConverts
  <2>1. PICK answer \in Answers(Head(child.asked)) :
          child' = [child EXCEPT !.asked = Tail(@), !.pipe = Append(@, answer)]
        BY <1>4 DEF ChildConverts
  <2>2. answer.doc = Head(child.asked).doc /\ answer.seg = Head(child.asked).seg
        BY DEF Answers
  <2>3. child.asked # <<>>
        BY <1>4 DEF ChildConverts
  <2> QED BY <1>2, <1>3, <2>1, <2>2, <2>3 DEF ParserInv
<1>5. CASE ChildRefuses
  <2>1. PICK kind : child' = [child EXCEPT !.asked = Tail(@), !.pipe = Append(@,
                   [kind |-> kind, doc |-> Head(child.asked).doc,
                    seg |-> Head(child.asked).seg,
                    take |-> CHOOSE t \in Takes : TRUE])]
        BY <1>5 DEF ChildRefuses
  <2>2. PICK answer : answer = [kind |-> kind, doc |-> Head(child.asked).doc,
                    seg |-> Head(child.asked).seg,
                    take |-> CHOOSE t \in Takes : TRUE]
        OBVIOUS
  <2>3. answer.doc = Head(child.asked).doc /\ answer.seg = Head(child.asked).seg
        BY <2>2
  <2>4. child.asked # <<>>
        BY <1>5 DEF ChildRefuses
  <2>5. child' = [child EXCEPT !.asked = Tail(@), !.pipe = Append(@, answer)]
        BY <2>1, <2>2
  <2> QED BY <1>2, <1>3, <2>3, <2>4, <2>5 DEF ParserInv
<1>6. CASE ChildDies
  <2>1. PICK killed : child' = [NoChild EXCEPT !.killed = killed]
        BY <1>6 DEF ChildDies
  <2>2. ChildIsSilent'
        BY <2>1 DEF NoChild, ChildIsSilent, ChildIsRecord
  <2> QED BY <1>2, <2>2, Silence DEF ParserInv
<1> QED BY <1>4, <1>5, <1>6

(* A step of the call alone, while nothing was asked of the child.         *)
LEMMA CallMoves ==
  ASSUME ParserInv, CallIsSound', ~Waiting, UNCHANGED <<child, late, job>>, FoldersAreSound'
  PROVE  ParserInv'
<1>1. JobsAreRecords' /\ DocumentsAreWhole'
      BY DEF ParserInv, JobsAreRecords, DocumentsAreWhole
<1> QED BY <1>1, Silence DEF ParserInv

(* Another call, or another step of it: what its record must be.           *)
LEMMA CallBecomes ==
  ASSUME NEW c, call' = c, IsCall(c),
         c.step \in {"none", "start", "probe", "probing", "load", "lay out", "convert",
                    "converting", "store", "record", "assemble", "yield", "publish",
                    "discard"},
         c.step # "none" => c.doc \in Docs,
         c.step \in {"probe", "probing", "load", "lay out", "store", "record",
                    "assemble", "yield"} => c.doc \notin Plain,
         c.step \in {"load", "lay out", "store", "record"} => ThreadIsSound(c),
         c.step \in {"convert", "converting"} /\ c.doc \notin Plain => OwnPlan(c.doc, c.plan),
         c.step \in {"assemble", "publish"} =>
           OwnPlan(c.doc, c.plan) /\ PendingOf(c.plan) = {}
  PROVE  CallIsSound'
  BY DEF CallIsSound, InThread

(* The record of one job changes.                                          *)
LEMMA JobChanges ==
  ASSUME JobsAreRecords, NEW d \in Docs, NEW r, job' = [job EXCEPT ![d] = r],
         r = [tries |-> r.tries, resumed |-> r.resumed, outcome |-> r.outcome,
              text |-> r.text]
  PROVE  JobsAreRecords' /\ job'[d] = r /\ \A e \in Docs \ {d} : job'[e] = job[e]
<1>1. job' = [e \in Docs |-> IF e = d THEN r ELSE job[e]]
      BY DEF JobsAreRecords
<1>2. job'[d] = r /\ \A e \in Docs \ {d} : job'[e] = job[e]
      BY <1>1
<1>3. \A e \in Docs : job'[e] = [tries |-> job'[e].tries, resumed |-> job'[e].resumed,
                                 outcome |-> job'[e].outcome, text |-> job'[e].text]
      BY <1>2 DEF JobsAreRecords
<1>4. job' = [e \in Docs |-> job'[e]]
      BY <1>1
<1> QED BY <1>2, <1>3, <1>4 DEF JobsAreRecords

(* A call begins and finds out where its document stands.                  *)
LEMMA BeginStep == ASSUME ParserInv, NEW d \in Docs, Begin(d) PROVE ParserInv'
<1>0. call.step = "none" /\ ~Waiting /\ UNCHANGED <<folder, child, late>>
      BY DEF Begin, Waiting
<1>1. PICK c : c = [NoCall EXCEPT !.doc = d, !.step = "start"]
      OBVIOUS
<1>2. IsCall(c) /\ c.step = "start" /\ c.doc = d
      BY <1>1 DEF NoCall, IsCall
<1>3. call' = c
      BY <1>1 DEF Begin
<1>4. CallIsSound'
      BY <1>2, <1>3, CallBecomes
<1>5. PICK n : job' = [job EXCEPT ![d].resumed = FALSE, ![d].tries = n]
      BY DEF Begin
<1>6. JobsAreRecords' /\ \A e \in Docs : /\ job'[e].outcome = job[e].outcome
                                         /\ job'[e].text = job[e].text
  <2>1. PICK r : r = [job[d] EXCEPT !.resumed = FALSE, !.tries = n]
        OBVIOUS
  <2>2. JobsAreRecords
        BY DEF ParserInv
  <2>3. job' = [job EXCEPT ![d] = r]
        BY <1>5, <2>1, <2>2 DEF JobsAreRecords
  <2>4. /\ r = [tries |-> r.tries, resumed |-> r.resumed, outcome |-> r.outcome, text |-> r.text]
        /\ r.outcome = job[d].outcome /\ r.text = job[d].text
    <3>1. PICK old : /\ old = job[d]
                     /\ old = [tries |-> old.tries, resumed |-> old.resumed,
                               outcome |-> old.outcome, text |-> old.text]
          BY <2>2 DEF JobsAreRecords
    <3>2. r = [old EXCEPT !.resumed = FALSE, !.tries = n]
          BY <2>1, <3>1
    <3> QED BY <3>1, <3>2
  <2>5. JobsAreRecords' /\ job'[d] = r /\ \A e \in Docs \ {d} : job'[e] = job[e]
        BY <2>2, <2>3, <2>4, JobChanges
  <2> QED BY <2>4, <2>5
<1>7. DocumentsAreWhole'
      BY <1>6 DEF ParserInv, DocumentsAreWhole
<1>8. FoldersAreSound'
      BY <1>0 DEF ParserInv, FoldersAreSound
<1> QED BY <1>0, <1>4, <1>6, <1>7, <1>8, Silence DEF ParserInv

(* parse starts with the probe, with the manifest or with a conversion.    *)
LEMMA ParseStep == ASSUME ParserInv, Parse PROVE ParserInv'
<1>0. call.step = "start" /\ ~Waiting /\ UNCHANGED <<folder, child, late, job>> /\ IsCall(call)
      /\ call.doc \in Docs
      BY DEF Parse, Waiting, ParserInv, CallIsSound
<1>1. PICK step : /\ call' = [call EXCEPT !.step = step]
                  /\ step \in {"convert", "load", "probe"}
                  /\ step = "convert" <=> call.doc \in Plain
      BY DEF Parse
<1>2. PICK c : c = [call EXCEPT !.step = step]
      OBVIOUS
<1>3. IsCall(c) /\ c.step = step /\ c.doc = call.doc
      BY <1>0, <1>2 DEF IsCall
<1>4. step = "load" => ThreadIsSound(c)
      BY <1>0, <1>1, <1>3 DEF ThreadIsSound
<1>5. CallIsSound'
  <2>1. call' = c
        BY <1>1, <1>2
  <2> QED BY <1>0, <1>1, <1>3, <1>4, <2>1, CallBecomes
<1>6. FoldersAreSound'
      BY <1>0 DEF ParserInv, FoldersAreSound
<1> QED BY <1>0, <1>5, <1>6, CallMoves

(* The call asks a silent child, an old one or a new.                      *)
LEMMA AskStep == ASSUME ParserInv, Ask PROVE ParserInv'
<1>0. /\ call.step \in {"probe", "convert"} /\ ~Waiting /\ UNCHANGED <<folder, late, job>>
      /\ IsCall(call) /\ call.doc \in Docs /\ CallIsSound
      BY DEF Ask, Waiting, ParserInv, CallIsSound
<1>1. PICK step : /\ call' = [call EXCEPT !.step = step]
                  /\ step \in {"probing", "converting"}
                  /\ step = "probing" <=> call.step = "probe"
  <2>1. PICK s : s = IF call.step = "probe" THEN "probing" ELSE "converting"
        OBVIOUS
  <2>2. call' = [call EXCEPT !.step = s]
        BY <2>1 DEF Ask
  <2> QED BY <2>1, <2>2
<1>2. PICK c : c = [call EXCEPT !.step = step]
      OBVIOUS
<1>3. IsCall(c) /\ c.step = step /\ c.doc = call.doc /\ c.plan = call.plan /\ call' = c
      BY <1>0, <1>1, <1>2 DEF IsCall
<1>4. CallIsSound'
  <2>1. c.step = "probing" => c.doc \notin Plain
        BY <1>0, <1>1, <1>3 DEF CallIsSound
  <2>2. c.step = "converting" /\ c.doc \notin Plain => OwnPlan(c.doc, c.plan)
        BY <1>0, <1>1, <1>3 DEF CallIsSound
  <2> QED BY <1>0, <1>1, <1>3, <2>1, <2>2, CallBecomes
<1>5. Waiting'
      BY <1>1, <1>3 DEF Waiting
<1>6. PICK w : w = Wanted /\ w = Wanted'
      BY <1>0, <1>1, <1>3 DEF Wanted
<1>7. ChildIsSilent
      BY <1>0, Silence DEF ParserInv
<1>8. PICK l : l = Live
      OBVIOUS
<1>9. /\ l = [up |-> l.up, killed |-> l.killed, asked |-> l.asked, pipe |-> l.pipe]
      /\ l.asked = <<>> /\ l.pipe = <<>>
  <2>1. CASE child.up
        BY <1>7, <1>8, <2>1 DEF Live, ChildIsSilent, ChildIsRecord
  <2>2. CASE ~child.up
        BY <1>8, <2>2 DEF Live, NoChild
  <2> QED BY <2>1, <2>2
<1>10. child' = [l EXCEPT !.asked = <<w>>]
  <2>1. child' = [l EXCEPT !.asked = Append(@, w)]
        BY <1>6, <1>8 DEF Ask
  <2> QED BY <1>9, <2>1
<1>11. ChildAnswersTheCall'
      BY <1>5, <1>6, <1>9, <1>10 DEF ChildAnswersTheCall
<1>12. JobsAreRecords' /\ DocumentsAreWhole'
      BY <1>0 DEF ParserInv, JobsAreRecords, DocumentsAreWhole
<1>13. FoldersAreSound'
      BY <1>0 DEF ParserInv, FoldersAreSound
<1> QED BY <1>0, <1>4, <1>11, <1>12, <1>13 DEF ParserInv

(* The answer is that to the request of the call: the pages are of its     *)
(* document and of the first segment its plan misses.                      *)
LEMMA ReceiveStep == ASSUME ParserInv, Receive PROVE ParserInv'
<1>0. /\ Waiting /\ child.pipe # <<>> /\ child' = [child EXCEPT !.pipe = Tail(@)]
      /\ UNCHANGED <<folder, late, job>> /\ IsCall(call) /\ call.doc \in Docs
      /\ CallIsSound /\ ChildAnswersTheCall
      BY DEF Receive, ParserInv, CallIsSound, Waiting
<1>1. PICK answer : /\ child.pipe = <<answer>> /\ child.asked = <<>> /\ ChildIsRecord
                    /\ answer.doc = call.doc /\ answer.seg = Wanted.seg
  <2>1. /\ child.pipe = <<child.pipe[1]>> /\ child.asked = <<>>
        /\ child.pipe[1].doc = call.doc /\ child.pipe[1].seg = Wanted.seg
        BY <1>0 DEF ChildAnswersTheCall
  <2>2. ChildIsRecord
        BY <1>0 DEF ChildAnswersTheCall, ChildIsRecord
  <2>3. PICK a : a = child.pipe[1]
        OBVIOUS
  <2> QED BY <2>1, <2>2, <2>3
<1>2. Tail(child.pipe) = <<>> /\ Head(child.pipe) = answer
      BY <1>1
<1>3. ChildIsSilent'
      BY <1>0, <1>1, <1>2 DEF ChildIsSilent, ChildIsRecord
<1>4. PICK p : p = Received(answer)
      OBVIOUS
<1>5. p.doc = call.doc /\ p.seg = Wanted.seg
      BY <1>1, <1>4 DEF Received
<1>6. CallIsSound'
  <2>1. CASE call.step = "probing"
    <3>0. PICK c : c = [call EXCEPT !.step = "load"]
          OBVIOUS
    <3>1. call' = c /\ call.doc \notin Plain
          BY <1>0, <2>1, <3>0 DEF Receive, CallIsSound
    <3>2. IsCall(c) /\ c.step = "load" /\ c.doc = call.doc
          BY <1>0, <3>0 DEF IsCall
    <3>3. ThreadIsSound(c)
          BY <1>0, <3>1, <3>2 DEF ThreadIsSound
    <3> QED BY <1>0, <3>1, <3>2, <3>3, CallBecomes
  <2>2. CASE call.step = "converting" /\ call.doc \in Plain
    <3>1. PICK c : /\ c = [call EXCEPT !.step = "publish", !.plan = <<<<p>>>>]
                   /\ call' = c
          BY <1>2, <1>4, <2>2 DEF Receive
    <3>2. IsCall(c) /\ c.step = "publish" /\ c.doc = call.doc /\ c.plan = <<<<p>>>>
          BY <1>0, <3>1 DEF IsCall
    <3>3. p.seg = 1
          BY <1>5, <2>2 DEF Wanted, Asked
    <3>4. Segments(call.doc) = {1} /\ Segments(call.doc) = 1 .. 1
          BY <2>2, ParserAssumption DEF Segments
    <3>5. PICK plan : plan = <<<<p>>>>
          OBVIOUS
    <3>6. plan = [s \in 1 .. 1 |-> plan[s]] /\ plan[1] = <<p>> /\ DOMAIN plan = 1 .. 1
          BY <3>5
    <3>7. PendingOf(plan) = {}
          BY <3>6 DEF PendingOf, Missing
    <3>8. OwnPlan(call.doc, plan)
          BY <1>5, <2>2, <3>3, <3>4, <3>6 DEF OwnPlan
    <3> QED BY <1>0, <3>1, <3>2, <3>5, <3>7, <3>8, CallBecomes
  <2>3. CASE call.step = "converting" /\ call.doc \notin Plain
    <3>1. PICK c : /\ c = [call EXCEPT !.step = "store", !.pages = <<p>>]
                   /\ call' = c
          BY <1>2, <1>4, <2>3 DEF Receive
    <3>2. /\ IsCall(c) /\ c.step = "store" /\ c.doc = call.doc /\ c.plan = call.plan
          /\ c.pages = <<p>>
          BY <1>0, <3>1 DEF IsCall
    <3>3. p.seg = FirstPending(call.plan)
          BY <1>5, <2>3 DEF Wanted, Asked
    <3>4. OwnPlan(call.doc, call.plan)
          BY <1>0, <2>3 DEF CallIsSound
    <3>5. ThreadIsSound(c)
          BY <1>0, <1>5, <2>3, <3>2, <3>3, <3>4 DEF ThreadIsSound
    <3> QED BY <1>0, <2>3, <3>1, <3>2, <3>5, CallBecomes
  <2> QED BY <1>0, <2>1, <2>2, <2>3 DEF Waiting
<1>7. JobsAreRecords' /\ DocumentsAreWhole'
      BY <1>0 DEF ParserInv, JobsAreRecords, DocumentsAreWhole
<1>8. FoldersAreSound'
      BY <1>0 DEF ParserInv, FoldersAreSound
<1> QED BY <1>0, <1>3, <1>6, <1>7, <1>8, Silence DEF ParserInv

(* The call loads the manifest, or lays out a new one.                     *)
LEMMA LoadStep == ASSUME ParserInv, Load PROVE ParserInv'
<1>0. /\ call.step = "load" /\ ~Waiting /\ UNCHANGED <<child, late, job>>
      /\ folder' = [folder EXCEPT ![call.doc] = Opened(call.doc)]
      /\ IsCall(call) /\ call.doc \in Docs \ Plain /\ FoldersAreSound
      BY DEF Load, Waiting, ParserInv, CallIsSound
<1>1. PICK c : c = Loaded(call)
      OBVIOUS
<1>2. ThreadIsSound(c) /\ c.doc = call.doc /\ c.step = "lay out"
      BY <1>0, <1>1, LoadedIsSound
<1>3. call' = c
      BY <1>1 DEF Load
<1>4. CallIsSound'
      BY <1>0, <1>2, <1>3, CallBecomes DEF ThreadIsSound
<1>5. FoldersAreSound'
      BY <1>0, OpenedIsSound
<1> QED BY <1>0, <1>4, <1>5, CallMoves

(* A call that wrote goes on with the plan it wrote; one whose plan misses *)
(* nothing puts the whole together.                                        *)
LEMMA WriteStep == ASSUME ParserInv, Write PROVE ParserInv'
<1>0. /\ Writes(call) /\ folder' = [folder EXCEPT ![call.doc] = Written(call)]
      /\ UNCHANGED <<child, late, job>> /\ FoldersAreSound
      /\ IsCall(call) /\ CallIsSound
      BY DEF Write, ParserInv, CallIsSound
<1>1. call.step \in {"lay out", "store", "record"} /\ ~Waiting
      BY <1>0 DEF Writes, Waiting
<1>2. ThreadIsSound(call) /\ call.doc \in Docs \ Plain
      BY <1>0, <1>1 DEF CallIsSound, InThread, ThreadIsSound
<1>3. FoldersAreSound'
      BY <1>0, <1>2, WrittenIsSound
<1>4. CallIsSound'
  <2>1. CASE call.step = "lay out"
    <3>1. PICK step : /\ step = Onward(call.plan)
                      /\ step \in {"assemble", "convert"}
                      /\ step = "assemble" => PendingOf(call.plan) = {}
          BY DEF Onward
    <3>2. PICK c : c = [call EXCEPT !.step = step]
          OBVIOUS
    <3>3. call' = c
          BY <2>1, <3>1, <3>2 DEF Write
    <3>4. IsCall(c) /\ c.step = step /\ c.doc = call.doc /\ c.plan = call.plan
          BY <1>0, <3>2 DEF IsCall
    <3>5. OwnPlan(c.doc, c.plan)
          BY <1>2, <2>1, <3>4 DEF ThreadIsSound
    <3> QED BY <1>2, <3>1, <3>3, <3>4, <3>5, CallBecomes
  <2>2. CASE call.step = "store"
    <3>1. PICK c : c = [call EXCEPT !.step = "record"]
          OBVIOUS
    <3>2. call' = c
          BY <2>2, <3>1 DEF Write
    <3>3. /\ IsCall(c) /\ c.step = "record" /\ c.doc = call.doc /\ c.plan = call.plan
          /\ c.pages = call.pages
          BY <1>0, <3>1 DEF IsCall
    <3>4. WithinBudget(c)
          BY <1>0, <2>2, <3>3 DEF Writes, WithinBudget, WithSegment
    <3>5. ThreadIsSound(c)
          BY <1>2, <2>2, <3>3, <3>4 DEF ThreadIsSound
    <3> QED BY <1>2, <3>2, <3>3, <3>5, CallBecomes
  <2>3. CASE call.step = "record"
    <3>1. PICK plan : plan = WithSegment(call)
          OBVIOUS
    <3>2. PICK step : /\ step \in {"assemble", "yield"}
                      /\ step = IF Onward(plan) = "assemble" THEN "assemble" ELSE "yield"
          OBVIOUS
    <3>3. step = "assemble" => PendingOf(plan) = {}
          BY <3>2 DEF Onward
    <3>4. PICK c : c = [call EXCEPT !.plan = plan, !.pages = Missing, !.step = step]
          OBVIOUS
    <3>5. call' = c
          BY <2>3, <3>1, <3>2, <3>4 DEF Write
    <3>6. IsCall(c) /\ c.step = step /\ c.doc = call.doc /\ c.plan = plan
          BY <1>0, <3>4 DEF IsCall
    <3>7. OwnPlan(call.doc, plan)
          BY <1>2, <2>3, <3>1, WithSegmentIsOwn DEF ThreadIsSound
    <3> QED BY <1>2, <3>2, <3>3, <3>5, <3>6, <3>7, CallBecomes
  <2> QED BY <1>1, <2>1, <2>2, <2>3
<1> QED BY <1>0, <1>1, <1>3, <1>4, CallMoves

(* The whole is put together, or the error of a file that is not what the  *)
(* manifest recorded is settled.                                           *)
LEMMA AssembleStep == ASSUME ParserInv, Assemble PROVE ParserInv'
<1>0. /\ call.step = "assemble" /\ ~Waiting /\ UNCHANGED <<folder, child, late>>
      /\ IsCall(call) /\ CallIsSound /\ \A t \in late : ThreadIsSound(t)
      /\ ChildAnswersTheCall
      BY DEF Assemble, Waiting, ParserInv, CallIsSound
<1>1. CASE Readable(call)
  <2>1. PICK c : c = [call EXCEPT !.step = "publish"]
        OBVIOUS
  <2>2. call' = c /\ job' = job
        BY <1>1, <2>1 DEF Assemble
  <2>3. IsCall(c) /\ c.step = "publish" /\ c.doc = call.doc /\ c.plan = call.plan
        BY <1>0, <2>1 DEF IsCall
  <2>4. /\ OwnPlan(call.doc, call.plan) /\ PendingOf(call.plan) = {}
        /\ call.doc \in Docs
        BY <1>0 DEF CallIsSound
  <2>5. CallIsSound'
        BY <2>2, <2>3, <2>4, CallBecomes
  <2>6. FoldersAreSound'
        BY <1>0 DEF ParserInv, FoldersAreSound
  <2> QED BY <1>0, <2>2, <2>5, <2>6, CallMoves
<1>2. CASE ~Readable(call)
  <2>1. Settle(call.doc, TRUE)
        BY <1>2 DEF Assemble
  <2>2. ChildIsSilent'
        BY <1>0, Silence
  <2> QED BY <1>0, <2>1, <2>2, CallSettles
<1> QED BY <1>1, <1>2

(* A thread that outlived its call writes what the call would have.        *)
LEMMA LateThreadStep ==
  ASSUME ParserInv, NEW t \in late, LateStep(t)
  PROVE  ParserInv'
<1>0. /\ ThreadIsSound(t) /\ IsCall(t) /\ t.doc \in Docs \ Plain /\ FoldersAreSound
      /\ \A u \in late : ThreadIsSound(u)
      BY DEF ParserInv, ThreadIsSound
<1>1. UNCHANGED <<child, call, job>>
      BY DEF LateStep
<1>2. CallIsSound' /\ JobsAreRecords' /\ DocumentsAreWhole' /\ ChildAnswersTheCall'
  <2>1. CallIsSound'
        BY <1>1 DEF ParserInv, CallIsSound, InThread
  <2>2. JobsAreRecords' /\ DocumentsAreWhole'
        BY <1>1 DEF ParserInv, JobsAreRecords, DocumentsAreWhole
  <2>3. PICK w : w = Wanted /\ w = Wanted'
        BY <1>1 DEF Wanted
  <2>4. ChildAnswersTheCall'
        BY <1>1, <2>3 DEF ParserInv, ChildAnswersTheCall, Waiting
  <2> QED BY <2>1, <2>2, <2>4
<1>3. CASE t.step = "load"
  <2>1. /\ folder' = [folder EXCEPT ![t.doc] = Opened(t.doc)]
        /\ late' = (late \ {t}) \cup {Loaded(t)}
        BY <1>3 DEF LateStep
  <2>2. FoldersAreSound'
        BY <1>0, <2>1, OpenedIsSound
  <2>3. ThreadIsSound(Loaded(t))
        BY <1>0, LoadedIsSound
  <2>4. \A u \in late' : ThreadIsSound(u)
        BY <1>0, <2>1, <2>3
  <2> QED BY <1>2, <2>2, <2>4 DEF ParserInv
<1>4. CASE t.step # "load"
  <2>1. FoldersAreSound'
    <3>1. CASE Writes(t) /\ folder[t.doc].made
          BY <1>0, <1>4, <3>1, WrittenIsSound DEF LateStep
    <3>2. CASE ~(Writes(t) /\ folder[t.doc].made)
          BY <1>0, <1>4, <3>2 DEF LateStep, FoldersAreSound
    <3> QED BY <3>1, <3>2
  <2>2. PICK c : c = [t EXCEPT !.step = "record"]
        OBVIOUS
  <2>3. ASSUME t.step = "store", Writes(t) PROVE ThreadIsSound(c)
    <3>1. /\ IsCall(c) /\ c.step = "record" /\ c.doc = t.doc /\ c.plan = t.plan
          /\ c.pages = t.pages
          BY <1>0, <2>2 DEF IsCall
    <3>2. WithinBudget(c)
          BY <2>3, <3>1 DEF Writes, WithinBudget, WithSegment
    <3> QED BY <1>0, <2>3, <3>1, <3>2 DEF ThreadIsSound
  <2>4. \/ late' = late \ {t}
        \/ late' = (late \ {t}) \cup {c} /\ ThreadIsSound(c)
        BY <1>4, <2>2, <2>3 DEF LateStep
  <2>5. \A u \in late' : ThreadIsSound(u)
        BY <1>0, <2>4
  <2> QED BY <1>2, <2>1, <2>5 DEF ParserInv
<1> QED BY <1>3, <1>4

(* The folder that is dropped is sound.                                    *)
LEMMA DroppedIsSound ==
  ASSUME FoldersAreSound, NEW d \in Docs, folder' = [folder EXCEPT ![d] = NoFolder]
  PROVE  FoldersAreSound'
<1>1. /\ NoFolder = [made |-> NoFolder.made, manifest |-> NoFolder.manifest,
                     files |-> NoFolder.files]
      /\ NoFolder.manifest = NoPlan
      BY DEF NoFolder
<1> QED BY <1>1, FolderChanges

(* What the pipeline does with a document: it yields, publishes and drops  *)
(* the checkpoint, or its write is refused.                                *)
LEMMA PipelineSteps ==
  ASSUME ParserInv, Yield \/ Publish \/ DropFolder \/ Revoked
  PROVE  ParserInv'
<1>0. /\ call.step \in {"start", "yield", "publish", "discard"} /\ ~Waiting
      /\ UNCHANGED <<child, late>> /\ IsCall(call) /\ CallIsSound /\ call.doc \in Docs
      /\ \A t \in late : ThreadIsSound(t)
      /\ ChildAnswersTheCall
      /\ FoldersAreSound /\ JobsAreRecords /\ DocumentsAreWhole
      BY DEF Yield, Publish, DropFolder, Revoked, Waiting, ParserInv, CallIsSound
<1>1. ChildAnswersTheCall' /\ \A t \in late' : ThreadIsSound(t)
      BY <1>0, Silence
<1>2. PICK old : /\ old = job[call.doc]
                 /\ old = [tries |-> old.tries, resumed |-> old.resumed,
                           outcome |-> old.outcome, text |-> old.text]
      BY <1>0 DEF JobsAreRecords
<1>3. CASE Yield
  <2>1. PICK r : r = [old EXCEPT !.resumed = TRUE]
        OBVIOUS
  <2>2. job' = [job EXCEPT ![call.doc] = r] /\ call' = NoCall /\ folder' = folder
        BY <1>2, <1>3, <2>1 DEF Yield
  <2>3. /\ r = [tries |-> r.tries, resumed |-> r.resumed, outcome |-> r.outcome, text |-> r.text]
        /\ r.outcome = old.outcome /\ r.text = old.text
        BY <1>2, <2>1
  <2>4. JobsAreRecords' /\ job'[call.doc] = r
        /\ \A e \in Docs \ {call.doc} : job'[e] = job[e]
        BY <1>0, <2>2, <2>3, JobChanges
  <2>5. DocumentsAreWhole'
        BY <1>0, <1>2, <2>3, <2>4 DEF DocumentsAreWhole
  <2>6. FoldersAreSound'
        BY <1>0, <2>2 DEF FoldersAreSound
  <2> QED BY <1>1, <2>2, <2>4, <2>5, <2>6, NoCallIsSound DEF ParserInv
<1>4. CASE Publish
  <2>0. /\ call.step = "publish" /\ OwnPlan(call.doc, call.plan) /\ PendingOf(call.plan) = {}
        /\ folder' = folder
        BY <1>0, <1>4 DEF Publish, CallIsSound
  <2>1. PICK r : r = [old EXCEPT !.outcome = "indexed", !.text = call.plan]
        OBVIOUS
  <2>2. job' = [job EXCEPT ![call.doc] = r]
        BY <1>0, <1>2, <1>4, <2>1 DEF Publish, JobsAreRecords
  <2>3. /\ r = [tries |-> r.tries, resumed |-> r.resumed, outcome |-> r.outcome, text |-> r.text]
        /\ r.text = call.plan
        BY <1>2, <2>1
  <2>4. JobsAreRecords' /\ job'[call.doc] = r
        /\ \A e \in Docs \ {call.doc} : job'[e] = job[e]
        BY <1>0, <2>2, <2>3, JobChanges
  <2>5. DOMAIN call.plan = Segments(call.doc)
        BY <2>0 DEF OwnPlan
  <2>6. \A s \in Segments(call.doc) :
          /\ call.plan[s] # Missing
          /\ call.plan[s][1].doc = call.doc /\ call.plan[s][1].seg = s
        BY <2>0, <2>5 DEF OwnPlan, PendingOf
  <2>7. call.doc \notin Plain => Usage(call.plan) <= Budget
        BY <2>0 DEF OwnPlan
  <2>8. DocumentsAreWhole'
    <3> SUFFICES ASSUME NEW d \in Docs, job'[d].outcome = "indexed"
                 PROVE  /\ DOMAIN job'[d].text = Segments(d)
                        /\ \A s \in Segments(d) :
                             /\ job'[d].text[s] # Missing
                             /\ job'[d].text[s][1].doc = d /\ job'[d].text[s][1].seg = s
                        /\ d \notin Plain => Usage(job'[d].text) <= Budget
        BY DEF DocumentsAreWhole
    <3>1. CASE d = call.doc
      <4>1. job'[d].text = call.plan
            BY <2>3, <2>4, <3>1
      <4> QED BY <2>5, <2>6, <2>7, <3>1, <4>1
    <3>2. CASE d # call.doc
      <4>1. job'[d] = job[d]
            BY <2>4, <3>2
      <4> QED BY <1>0, <4>1 DEF DocumentsAreWhole
    <3> QED BY <3>1, <3>2
  <2>9. PICK c : c = [call EXCEPT !.step = "discard"]
        OBVIOUS
  <2>10. IsCall(c) /\ c.step = "discard" /\ c.doc = call.doc /\ call' = c
        BY <1>0, <1>4, <2>9 DEF IsCall, Publish
  <2>11. CallIsSound'
        BY <1>0, <2>10, CallBecomes
  <2>12. FoldersAreSound'
        BY <1>0, <2>0 DEF FoldersAreSound
  <2> QED BY <1>1, <2>4, <2>8, <2>11, <2>12 DEF ParserInv
<1>5. CASE DropFolder
  <2>1. /\ folder' = [folder EXCEPT ![call.doc] = NoFolder] /\ call' = NoCall /\ job' = job
        BY <1>5 DEF DropFolder
  <2>2. JobsAreRecords' /\ DocumentsAreWhole'
        BY <1>0, <2>1 DEF JobsAreRecords, DocumentsAreWhole
  <2> QED BY <1>0, <1>1, <2>1, <2>2, DroppedIsSound, NoCallIsSound DEF ParserInv
<1>6. CASE Revoked
  <2>1. /\ folder' = [folder EXCEPT ![call.doc] = NoFolder] /\ call' = NoCall
        BY <1>6 DEF Revoked
  <2>2. PICK o \in {"open", "failed"} : job' = [job EXCEPT ![call.doc].outcome = o]
        BY <1>6 DEF Revoked
  <2>3. PICK r : r = [old EXCEPT !.outcome = o]
        OBVIOUS
  <2>4. job' = [job EXCEPT ![call.doc] = r]
        BY <1>2, <2>2, <2>3
  <2>5. /\ r = [tries |-> r.tries, resumed |-> r.resumed, outcome |-> r.outcome, text |-> r.text]
        /\ r.outcome = o
        BY <1>2, <2>3
  <2>6. JobsAreRecords' /\ job'[call.doc] = r
        /\ \A e \in Docs \ {call.doc} : job'[e] = job[e]
        BY <1>0, <2>4, <2>5, JobChanges
  <2>7. DocumentsAreWhole'
        BY <1>0, <2>5, <2>6 DEF DocumentsAreWhole
  <2> QED BY <1>0, <1>1, <2>1, <2>6, <2>7, DroppedIsSound, NoCallIsSound DEF ParserInv
<1> QED BY <1>3, <1>4, <1>5, <1>6

(* Initially nothing was asked, written or indexed.                        *)
LEMMA ParserInitially == ParserInit => ParserInv
<1> SUFFICES ASSUME ParserInit PROVE ParserInv
    OBVIOUS
<1>1. CallIsSound
      BY DEF ParserInit, NoCall, CallIsSound, IsCall, InThread
<1>2. FoldersAreSound
      BY DEF ParserInit, FoldersAreSound, NoFolder
<1>3. ChildAnswersTheCall
      BY DEF ParserInit, ChildAnswersTheCall, NoChild
<1>4. JobsAreRecords /\ DocumentsAreWhole /\ late = {}
      BY DEF ParserInit, JobsAreRecords, DocumentsAreWhole
<1> QED BY <1>1, <1>2, <1>3, <1>4 DEF ParserInv

(* Every step of the parser keeps the invariant.                           *)
LEMMA ParserStep == ParserInv /\ [ParserNext]_parserVars => ParserInv'
<1> SUFFICES ASSUME ParserInv, [ParserNext]_parserVars PROVE ParserInv'
    OBVIOUS
<1>1. CASE UNCHANGED parserVars
  <2>1. UNCHANGED <<folder, child, call, late, job>>
        BY <1>1 DEF parserVars
  <2>2. CallIsSound'
        BY <2>1 DEF ParserInv, CallIsSound, InThread
  <2>3. JobsAreRecords' /\ DocumentsAreWhole'
        BY <2>1 DEF ParserInv, JobsAreRecords, DocumentsAreWhole
  <2>4. FoldersAreSound'
        BY <2>1 DEF ParserInv, FoldersAreSound
  <2>5. PICK w : w = Wanted /\ w = Wanted'
        BY <2>1 DEF Wanted
  <2>6. ChildAnswersTheCall'
        BY <2>1, <2>5 DEF ParserInv, ChildAnswersTheCall, Waiting
  <2> QED BY <2>1, <2>2, <2>3, <2>4, <2>6 DEF ParserInv
<1>2. CASE WorkerStep
      BY <1>2, BeginStep, ParseStep, AskStep, ReceiveStep, ErrorSteps, LoadStep, WriteStep,
         AssembleStep, PipelineSteps DEF WorkerStep
<1>3. CASE ChildConverts \/ ChildRefuses \/ ChildDies
      BY <1>3, ChildSteps
<1>4. CASE \E t \in late : LateStep(t)
      BY <1>4, LateThreadStep
<1>5. CASE IndexingFails \/ Revoked \/ Cancel \/ WorkerDies
      BY <1>5, ErrorSteps, PipelineSteps
<1> QED BY <1>1, <1>2, <1>3, <1>4, <1>5 DEF ParserNext

(* The invariant of the parser and its checkpoints, for any documents,     *)
(* segments and limits.                                                    *)
THEOREM ParserInvariant == ParserSpec => []ParserInv
  BY ParserInitially, ParserStep, PTL DEF ParserSpec

(* A document that is indexed consists of its own pages, each segment in   *)
(* its place and within the limit: see DocumentsAreWhole.                  *)
THEOREM IndexedIsWhole == ParserSpec => []DocumentsAreWhole
  BY ParserInvariant, PTL DEF ParserInv
=============================================================================
