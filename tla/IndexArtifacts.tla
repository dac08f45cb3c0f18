--------------------------- MODULE IndexArtifacts ---------------------------
(* What an attempt to index a document version leaves behind: its chunks,  *)
(* assets, relations, questions and lexical rows, the manifests that are   *)
(* checked when the build is completed, and the asset files.   An attempt  *)
(* is a chain of transactions and file operations; the transactions are    *)
(* refused once the job is no longer the work's, the file operations       *)
(* are not.                                                                *)
EXTENDS Naturals, FiniteSets

CONSTANTS
  Attempters,   \* executors of the job
  Drafts,       \* what a run of parser, models and planner may come up with
  UnitsOf,      \* per draft: its units, by key, text and asset
  TryLimit,     \* the attempts of a job
  RetryLimit,   \* bound: manual retries
  Unset         \* no row

ASSUME ArtifactAssumption ==
  /\ \A d \in Drafts : IsFiniteSet(UnitsOf[d])
  /\ \A d \in Drafts : \A u, v \in UnitsOf[d] : u.key = v.key => u = v
  /\ TryLimit \in Nat \ {0} /\ RetryLimit \in Nat

VARIABLES
  target,     \* the job and its target: attempt, status, serving, whether a
             \* continuation of the attempt is due, retries
  rows,      \* the derived rows of the target
  files,     \* the keys of the asset files of the target
  work,      \* per executor: the token it holds, its step and its draft
  cleaning   \* the maintenance pass: the assets it listed, or Unset

artifactVars == <<target, rows, files, work, cleaning>>
-----------------------------------------------------------------------------
NoRows == [plan |-> Unset, assets |-> {}, manifest |-> Unset,
           chunks |-> {}, relations |-> {}, questions |-> Unset,
           lexical |-> {}, sealed |-> Unset]
Resting == [token |-> 0, step |-> "idle", draft |-> Unset, due |-> {}]

(* A unit is a piece of text, or shows the asset it names; a relation ties *)
(* a piece of text to a unit that shows an asset.                          *)
Visual(units) == {u \in units : u.asset # Unset}
AssetsOf(units) == {u.asset : u \in Visual(units)}
Related(units)  == {[chunk |-> u.key, visual |-> v.key, asset |-> v.asset] :
                      u \in units \ Visual(units), v \in Visual(units)}
Keys(units)     == {u.key : u \in units}

ArtifactInit ==
  /\ target = [attempt |-> 0, status |-> "queued", serving |-> "candidate",
              more |-> FALSE, retries |-> 0]
  /\ rows = NoRows
  /\ files = {}
  /\ work = [e \in Attempters |-> Resting]
  /\ cleaning = Unset

-----------------------------------------------------------------------------
(* The job.                                                                *)

(* A continuation goes on with the token of its attempt.                   *)
ClaimBuild(e) ==
  /\ work[e].step = "idle"
  /\ target.status = "queued" /\ (target.more \/ target.attempt < TryLimit)
  /\ LET token == IF target.more THEN target.attempt ELSE target.attempt + 1 IN
       /\ target' = [target EXCEPT !.attempt = token, !.status = "running",
                                 !.more = FALSE]
       /\ work' = [work EXCEPT ![e] =
                        [Resting EXCEPT !.token = token, !.step = "prepare"]]
  /\ UNCHANGED <<rows, files, cleaning>>

(* The reconciler takes a job whose heartbeat stopped, or the attempt has  *)
(* settled an error of its own.                                            *)
Requeued == [target EXCEPT !.more = FALSE, !.status =
               IF target.attempt < TryLimit THEN "queued" ELSE "failed"]

LoseLease ==
  /\ target.status = "running"
  /\ target' = Requeued
  /\ UNCHANGED <<rows, files, work, cleaning>>

(* The manual retry of a failed job counts the attempts from the start.    *)
RetryBuild ==
  /\ target.status = "failed" /\ target.serving = "candidate"
  /\ target.retries < RetryLimit
  /\ target' = [target EXCEPT !.attempt = 0, !.status = "queued",
                            !.more = FALSE, !.retries = @ + 1]
  /\ UNCHANGED <<rows, files, work, cleaning>>

(* The document is deleted, or a newer version takes over.                 *)
WithdrawBuild ==
  /\ target.serving # "retired"
  /\ target' = [target EXCEPT !.serving = "retired", !.status =
                 IF @ \in {"queued", "running"} THEN "cancelled" ELSE @]
  /\ UNCHANGED <<rows, files, work, cleaning>>

PromoteBuild ==
  /\ target.status = "completed" /\ target.serving = "candidate"
  /\ target' = [target EXCEPT !.serving = "serving"]
  /\ UNCHANGED <<rows, files, work, cleaning>>
-----------------------------------------------------------------------------
(* An attempt.                                                             *)

Current(e) == work[e].token = target.attempt
Accepted(e) == /\ Current(e)
               /\ target.status = "running" /\ target.serving = "candidate"

(* The attempt ends: with an error, which it settles if the job still      *)
(* carries its token, or because a write of its was refused.               *)
Unfinished == /\ target.status \notin {"completed", "cancelled"}
             /\ target.serving = "candidate"
Over(e)  == work' = [work EXCEPT ![e] = Resting]
Fails(e) == /\ Over(e)
            /\ target' = IF Current(e) /\ Unfinished THEN Requeued ELSE target
            /\ UNCHANGED <<rows, files, cleaning>>

GoOn(e, step) == work' = [work EXCEPT ![e].step = step]

AtStep(e, step) == work[e].step = step
UnitsAt(e)  == UnitsOf[work[e].draft]
AssetsAt(e) == AssetsOf(UnitsAt(e))

(* The first transaction of an attempt also takes a job that is queued or  *)
(* has failed in the meantime, and one whose attempts were started over.   *)
Preparable(e) ==
  /\ Unfinished
  /\ \/ Current(e)
     \/ work[e].token = 1 /\ target.attempt = 0 /\ target.status = "queued"

Refused(e) ==
  /\ \/ AtStep(e, "prepare") /\ ~Preparable(e)
     \/ /\ work[e].step \notin {"idle", "prepare", "sweep", "convert", "put"}
        /\ ~Accepted(e)
  /\ Over(e) /\ UNCHANGED <<target, rows, files, cleaning>>

(* Anything may fail: a provider, a limit, the disk.                       *)
FailBuild(e) == ~AtStep(e, "idle") /\ Fails(e)

(* The rows of an earlier attempt are dropped, except those of the assets. *)
ChunksDiscarded ==                                                  \* mutant
  [rows EXCEPT !.chunks = {}, !.relations = {}, !.lexical = {}, !.sealed = Unset]
PartialDiscarded == [NoRows EXCEPT !.assets = rows.assets]

PrepareBuild(e) ==
  /\ AtStep(e, "prepare") /\ Preparable(e)
  /\ target' = [target EXCEPT !.status = "running", !.attempt = work[e].token]
  /\ rows' = PartialDiscarded
  /\ GoOn(e, "sweep")
  /\ UNCHANGED <<files, cleaning>>

(* The asset files go first, outside the transaction, then their rows.     *)
SweepAssets(e) ==
  /\ AtStep(e, "sweep")
  /\ files' = {}
  /\ GoOn(e, "forget")
  /\ UNCHANGED <<target, rows, cleaning>>

(* Relations go with their assets; a chunk that shows one is in the way.   *)
ForgetAssets(e) ==
  /\ AtStep(e, "forget") /\ Accepted(e)
  /\ Visual(rows.chunks) = {}
  /\ rows' = [rows EXCEPT !.assets = {}, !.relations = {}]
  /\ GoOn(e, "convert")
  /\ UNCHANGED <<target, files, cleaning>>

(* Parsing and analysing: what comes out is settled here.                  *)
Convert(e) ==
  /\ AtStep(e, "convert")
  /\ \E d \in Drafts :
       work' = [work EXCEPT ![e].draft = d, ![e].step = "plan"]
  /\ UNCHANGED <<target, rows, files, cleaning>>

(* A document of many segments is parsed over several claims.              *)
YieldBuild(e) ==
  /\ AtStep(e, "convert") /\ Accepted(e)
  /\ target' = [target EXCEPT !.status = "queued", !.more = TRUE]
  /\ Over(e)
  /\ UNCHANGED <<rows, files, cleaning>>

(* The plan and the manifest are inserted: a row that is there already     *)
(* fails the attempt.                                                      *)
SavePlan(e) ==
  /\ AtStep(e, "plan") /\ Accepted(e) /\ rows.plan = Unset
  /\ rows' = [rows EXCEPT !.plan = work[e].draft]
  /\ work' = [work EXCEPT ![e].step = "put",
                                ![e].due = Visual(UnitsAt(e))]
  /\ UNCHANGED <<target, files, cleaning>>

PutAsset(e) ==
  /\ AtStep(e, "put")
  /\ IF work[e].due = {}
     THEN GoOn(e, "assets") /\ UNCHANGED files
     ELSE \E u \in work[e].due :
            /\ files' = files \cup AssetsOf({u})
            /\ work' = [work EXCEPT ![e].due = @ \ {u}]
  /\ UNCHANGED <<target, rows, cleaning>>

UpsertAssets(e) ==
  /\ AtStep(e, "assets") /\ Accepted(e)
  /\ rows' = [rows EXCEPT !.assets = @ \cup AssetsAt(e)]
  /\ GoOn(e, "manifest")
  /\ UNCHANGED <<target, files, cleaning>>

SaveManifest(e) ==
  /\ AtStep(e, "manifest") /\ Accepted(e) /\ rows.manifest = Unset
  /\ rows' = [rows EXCEPT !.manifest = work[e].draft]
  /\ work' = [work EXCEPT ![e].step = "embed", ![e].due = UnitsAt(e)]
  /\ UNCHANGED <<target, files, cleaning>>

(* A stored row of the same key must have the same text.                   *)
Agrees(stored, units) ==
  \A u \in units, s \in stored : s.key = u.key => s = u

(* A batch of chunks with their vectors is written at a time.              *)
UpsertBatch(e) ==
  /\ AtStep(e, "embed") /\ Accepted(e)
  /\ IF work[e].due = {}
     THEN GoOn(e, "relations") /\ UNCHANGED rows
     ELSE \E u \in work[e].due :
            /\ Agrees(rows.chunks, {u})
            /\ AssetsOf({u}) \subseteq rows.assets
            /\ rows' = [rows EXCEPT !.chunks = @ \cup {u}]
            /\ work' = [work EXCEPT ![e].due = @ \ {u}]
  /\ UNCHANGED <<target, files, cleaning>>

UpsertRelations(e) ==
  /\ AtStep(e, "relations") /\ Accepted(e)
  /\ Keys(UnitsAt(e)) \subseteq Keys(rows.chunks)
  /\ AssetsAt(e) \subseteq rows.assets
  /\ rows' = [rows EXCEPT !.relations = @ \cup Related(UnitsAt(e))]
  /\ GoOn(e, "questions")
  /\ UNCHANGED <<target, files, cleaning>>

(* All stored chunks must have been processed; the questions kept are      *)
(* supported by their text, and replace the earlier ones.                  *)
UpsertQuestions(e) ==
  /\ AtStep(e, "questions") /\ Accepted(e)
  /\ Keys(rows.chunks) = Keys(UnitsAt(e))
  /\ \E asked \in SUBSET UnitsAt(e) :
       /\ asked \subseteq rows.chunks
       /\ rows' = [rows EXCEPT !.questions = asked]
  /\ GoOn(e, "lexical")
  /\ UNCHANGED <<target, files, cleaning>>

UpsertLexical(e) ==
  /\ AtStep(e, "lexical") /\ Accepted(e)
  /\ Keys(UnitsAt(e)) \subseteq Keys(rows.chunks)
  /\ Agrees(rows.lexical, UnitsAt(e))
  /\ rows' = [rows EXCEPT !.lexical = @ \cup UnitsAt(e)]
  /\ GoOn(e, "seal")
  /\ UNCHANGED <<target, files, cleaning>>

SealLexical(e) ==
  /\ AtStep(e, "seal") /\ Accepted(e)
  /\ rows.lexical = UnitsAt(e) /\ rows.sealed \in {Unset, UnitsAt(e)}
  /\ rows' = [rows EXCEPT !.sealed = UnitsAt(e)]
  /\ GoOn(e, "complete")
  /\ UNCHANGED <<target, files, cleaning>>

(* The stored rows are compared with the manifest that is stored: the      *)
(* chunks and relations one by one, the assets by their number and by the  *)
(* chunks that show them.                                                  *)
CountsAgree(e) ==                                                   \* mutant
  /\ rows.manifest # Unset
  /\ Cardinality(rows.chunks) = Cardinality(UnitsOf[rows.manifest])
  /\ Cardinality(AssetsOf(UnitsOf[rows.manifest])) = Cardinality(rows.assets)
Planned(e) ==
  /\ rows.manifest # Unset
  /\ LET units == UnitsOf[rows.manifest] IN
       /\ Cardinality(units) = Cardinality(UnitsAt(e))
       /\ Cardinality(AssetsOf(units)) = Cardinality(rows.assets)
       /\ rows.chunks = units /\ AssetsOf(units) \subseteq rows.assets
       /\ rows.relations = Related(units)
AllVerified(e) ==
  /\ Planned(e) /\ rows.sealed # Unset
  /\ rows.questions # Unset /\ rows.questions \subseteq rows.chunks

CompleteBuild(e) ==
  /\ AtStep(e, "complete") /\ Accepted(e) /\ AllVerified(e)
  /\ target' = [target EXCEPT !.status = "completed"]
  /\ Over(e)
  /\ UNCHANGED <<rows, files, cleaning>>

AttemptStep(e) ==
  \/ PrepareBuild(e) \/ SweepAssets(e) \/ ForgetAssets(e) \/ Convert(e)
  \/ YieldBuild(e)
  \/ SavePlan(e) \/ PutAsset(e) \/ UpsertAssets(e) \/ SaveManifest(e)
  \/ UpsertBatch(e) \/ UpsertRelations(e) \/ UpsertQuestions(e)
  \/ UpsertLexical(e) \/ SealLexical(e) \/ CompleteBuild(e)
-----------------------------------------------------------------------------
(* Maintenance: a retired target with rows is listed, the files of its     *)
(* listed assets are deleted, and if that worked its rows are, provided    *)
(* the target is retired still.                                            *)
ListRetired ==
  /\ cleaning = Unset
  /\ target.serving = "retired" /\ rows # NoRows
  /\ cleaning' = rows.assets
  /\ UNCHANGED <<target, rows, files, work>>

CleanRetired ==
  /\ cleaning # Unset
  /\ \/ /\ files' = files \ cleaning
        /\ rows' = IF target.serving = "retired"
                   THEN [NoRows EXCEPT !.sealed = rows.sealed] ELSE rows
     \/ /\ \E left \in SUBSET cleaning : files' = files \ left
        /\ UNCHANGED rows
  /\ cleaning' = Unset
  /\ UNCHANGED <<target, work>>
-----------------------------------------------------------------------------
ArtifactNext ==
  \/ \E e \in Attempters : \/ ClaimBuild(e) \/ AttemptStep(e)
                           \/ Refused(e) \/ FailBuild(e)
  \/ LoseLease \/ RetryBuild \/ WithdrawBuild \/ PromoteBuild
  \/ ListRetired \/ CleanRetired

ArtifactSpec == ArtifactInit /\ [][ArtifactNext]_artifactVars
-----------------------------------------------------------------------------
(* A completed build that is or may be served is whole and of one piece:   *)
(* its chunks, assets and relations are exactly those of one draft and its *)
(* questions rest on them, although attempts were cut off in between,      *)
(* other executors went on with an old token, and a manual retry may have  *)
(* given two of them the same one.  The lexical rows are of the same draft *)
(* where no manual retry did: their text is never compared with the        *)
(* chunks', and two executors of one token may come up with the same keys  *)
(* and other texts.                                                        *)
ReadyBuildsAreWhole ==
  target.status = "completed" /\ target.serving # "retired" =>
    \E d \in Drafts :
      /\ rows.manifest = d
      /\ rows.chunks = UnitsOf[d] /\ rows.assets = AssetsOf(UnitsOf[d])
      /\ rows.relations = Related(UnitsOf[d])
      /\ rows.questions \subseteq UnitsOf[d]
      /\ rows.sealed # Unset /\ Keys(rows.lexical) \subseteq Keys(UnitsOf[d])
      /\ target.retries = 0 => rows.lexical = UnitsOf[d] /\ rows.sealed = UnitsOf[d]

(* The row an attempt is about to write is in the way of another's.        *)
Blocked(e) ==
  /\ Accepted(e)
  /\ \/ AtStep(e, "forget") /\ Visual(rows.chunks) # {}
     \/ AtStep(e, "plan") /\ rows.plan # Unset
     \/ AtStep(e, "manifest") /\ rows.manifest # Unset
     \/ AtStep(e, "embed") /\ ~Agrees(rows.chunks, work[e].due)
     \/ AtStep(e, "lexical") /\ ~Agrees(rows.lexical, UnitsAt(e))
     \/ AtStep(e, "seal") /\ rows.lexical # UnitsAt(e)
     \/ AtStep(e, "seal") /\ rows.sealed \notin {Unset, UnitsAt(e)}
     \/ AtStep(e, "complete") /\ ~AllVerified(e)

(* An attempt never fails on what an earlier one left behind: the only     *)
(* rows that are in its way are those of another executor to which a       *)
(* manual retry gave the same token.                                       *)
RetriesStartClean ==
  \A e \in Attempters : Blocked(e) => target.retries > 0

(* The files of a served build are there.   A late executor that sweeps    *)
(* the files before its write is refused takes them away.                  *)
ServedAssetsHaveFiles ==
  target.serving = "serving" => rows.assets \subseteq files
=============================================================================
