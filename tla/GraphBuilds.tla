---------------------------- MODULE GraphBuilds ----------------------------
(***************************************************************************)
(* The Graphiti graph of one knowledge base: its configuration row, the    *)
(* immutable builds (generations) below it, the episode mapping and work   *)
(* lease of every build, the external graph of every build, and the        *)
(* workers that fill them while chunks are promoted, excluded, withdrawn   *)
(* and purged under them.                                                  *)
(*                                                                         *)
(* An action on rows is one transaction: those that rotate, publish or     *)
(* fail a build serialise on the locked configuration row, those that map  *)
(* episodes on the locked build row.  Calls of the external graph are      *)
(* steps of their own.  A lease token is a uuid that one work item holds;  *)
(* a worker runs one item at a time, so the pair of worker and build       *)
(* stands for it, and the expiry column for whether it has passed.         *)
(***************************************************************************)
EXTENDS Naturals, FiniteSets

CONSTANTS Chunks,       \* text and table chunks of the knowledge base
          Workers,      \* worker processes
          BatchSize,    \* GRAPH_EPISODE_BATCH_SIZE
          NoChunk,      \* null
          MaxBuilds,    \* bound: builds ever created
          MaxEvents     \* bound: events (see Event)

ASSUME GraphConstants == /\ BatchSize \in Nat \ {0}
                         /\ MaxBuilds \in Nat /\ MaxEvents \in Nat
                         /\ NoChunk \notin Chunks
                         /\ "none" \notin Workers /\ IsFiniteSet(Chunks)

Builds  == 1 .. MaxBuilds
NoBuild == 0        \* a build_id without a row, or null

ConfigStatuses == {"disabled", "building", "ready", "failed"}
BuildStatuses  == {"none", "building", "ready", "failed", "superseded"}
ChunkStates    == {"unindexed", "serving", "excluded", "withdrawn", "purged"}
EpisodeStates  == {"absent", "partial", "complete"}
WorkSteps == {"idle", "preflight", "load", "ingest", "extract",
              "save", "probe", "publish", "fail", "release"}

VARIABLES
  kb,       \* KnowledgeBase.deleted_at is null
  chunk,    \* what became of every chunk
  config,   \* KnowledgeBaseGraphConfig
  builds,   \* GraphitiGraphBuild: status and frozen input
  mapped,   \* GraphitiEpisodeChunk: the mapped chunks of every build
  lease,    \* GraphitiGraphWorkLease: owner, expiry and index_chunk_id
  graph,    \* the external graph of every build: its Episodic nodes
  doomed,   \* retired builds whose delete_graph is still to come
  work,     \* per worker: the item in process_work_item
  events    \* how many events there were

rowVars == <<config, builds, mapped, lease>>
vars == <<kb, chunk, rowVars, graph, doomed, work, events>>

NoLease == [owner |-> "none", fresh |-> FALSE, chunk |-> NoChunk]
Idle    == [step |-> "idle", build |-> NoBuild,
            batch |-> {}, pending |-> {}, todo |-> {}]
NoRow   == [status |-> "none", chunks |-> {}]

(* current: extractor_version is GRAPH_EXTRACTOR_VERSION.  A build has the *)
(* extractor, the Chat profile and the schema profile of the configuration *)
(* that created it, and these change in no row but by a rotation.          *)
Disabled == [status |-> "disabled", build |-> NoBuild, active |-> NoBuild,
             current |-> TRUE, preflight |-> FALSE]

(* The row that the first read of the configuration creates.               *)
GraphInit ==
  /\ kb = "live"
  /\ chunk \in [Chunks -> {"unindexed", "serving"}]
  /\ events = 0
  /\ config = Disabled
  /\ builds = [b \in Builds |-> NoRow]
  /\ mapped = [b \in Builds |-> {}]
  /\ lease  = [b \in Builds |-> NoLease]
  /\ graph  = [b \in Builds |-> [c \in Chunks |-> "absent"]]
  /\ doomed = {}
  /\ work   = [w \in Workers |-> Idle]

-----------------------------------------------------------------------------
(* Generations.                                                            *)

(* _eligible_chunk_statement: what a build would be made of now.           *)
Eligible == IF kb = "live" THEN {c \in Chunks : chunk[c] = "serving"} ELSE {}

Existing == {b \in Builds : builds[b].status # "none"}
Unused   == Builds \ Existing
NextBuild    == CHOOSE b \in Unused : \A o \in Unused : b <= o    \* uuid4()

(* _matches_frozen_input.                                                  *)
Unchanged(b) == builds[b].chunks = Eligible

(* _supersede_build for the builds of S.                                   *)
Superseded(bs, S) ==
  [b \in Builds |-> IF b \in S /\ bs[b].status \notin {"none", "superseded"}
                    THEN [bs[b] EXCEPT !.status = "superseded"] ELSE bs[b]]

(* The last build still open, which _ensure_graphiti_build closes.         *)
NoneOpen == {}                                                  \* mutant
LatestOpen == {b \in Existing : /\ builds[b].status = "building"
                                /\ \A o \in Existing :
                                     builds[o].status = "building" => o <= b}

(* The build that a rotation leaves behind.                                *)
AnyLeftBehind == {config.build}                                 \* mutant
LeftBehind == IF config.status = "failed" THEN {config.build} ELSE {}

(* A rotation of the configuration `row`: a new generation with the input  *)
(* chunks; the failed or open one before it is superseded.  The READY one  *)
(* stays active.                                                           *)
Rotate(row, closed, chunks) ==
  /\ Unused # {}
  /\ config' = [row EXCEPT !.status = "building", !.build = NextBuild]
  /\ builds' = [Superseded(builds, closed \cup LatestOpen)
                 EXCEPT ![NextBuild] = [status |-> "building",
                                        chunks |-> chunks]]

(* The row for the deployed extractor, with no preflight yet.              *)
Renewed == [config EXCEPT !.current = TRUE, !.preflight = FALSE]

(* The builds a transaction hands to _recycle_graphiti_graphs.             *)
ClosedAlready == {b \in Existing : builds[b].status # "building"} \* mutant
Retired == {b \in Builds : /\ builds[b].status # "superseded"
                           /\ builds'[b].status = "superseded"}

-----------------------------------------------------------------------------
(* The API: GraphConfigurationService.configure and retry.                 *)

ApiFrame == UNCHANGED <<kb, chunk, mapped, graph, work, events>>

RetireAll == [b \in Builds |-> IF builds[b].status \in {"building", "ready"}
                               THEN [builds[b] EXCEPT !.status = "superseded"]
                               ELSE builds[b]]

(* A repeated disabling only repeats the deletions.                        *)
Disable ==
  /\ config.status # "disabled"
  /\ config' = Disabled
  /\ builds' = RetireAll
  /\ doomed' = doomed \cup Existing
  /\ UNCHANGED lease /\ ApiFrame

(* Other profiles or force rotate like an outdated or disabled row; a      *)
(* repeated request changes nothing.                                       *)
Configure(changed) ==
  /\ changed \/ ~config.current \/ config.status = "disabled"
  /\ Rotate(Renewed, LeftBehind, Eligible)
  /\ doomed' = doomed \cup Retired
  /\ UNCHANGED lease /\ ApiFrame

(* A retry of a build that is still open answers with it as it is; one of  *)
(* a READY build is refused.                                               *)
ResumableAsItIs == config.status = "failed" /\ config.current
                   /\ builds[config.build].status = "failed"   \* mutant
Resumable == config.status = "failed" /\ config.current
             /\ builds[config.build].status = "failed"
             /\ Unchanged(config.build)

RetryInPlace ==
  /\ Resumable
  /\ lease'  = [lease EXCEPT ![config.build] = NoLease]
  /\ config' = [config EXCEPT !.status = "building"]
  /\ builds' = [builds EXCEPT ![config.build].status = "building"]
  /\ UNCHANGED doomed /\ ApiFrame

RetryRotates(force) ==
  /\ config.status # "disabled"
  /\ \/ force \/ ~config.current
     \/ config.status = "failed" /\ ~Resumable
  /\ Rotate(Renewed, LeftBehind, Eligible)
  /\ doomed' = doomed \cup Retired
  /\ UNCHANGED lease /\ ApiFrame

(* _recycle_graphiti_graphs: one deletion.  It may never come: a call that *)
(* raises, or whose process is gone, is not repeated.                      *)
DeleteGraph(b) ==
  /\ b \in doomed
  /\ doomed' = doomed \ {b}
  /\ graph'  = [graph EXCEPT ![b] = [c \in Chunks |-> "absent"]]
  /\ UNCHANGED <<kb, chunk, rowVars, work, events>>

-----------------------------------------------------------------------------
(* What the rest of the system does to the chunks.                         *)

(* Bound: changes of the content, deployments, crashes and stalls.         *)
Event == events < MaxEvents /\ events' = events + 1

ContentFrame == UNCHANGED <<mapped, lease, graph, doomed, work>> /\ Event

(* CandidatePromotionService.promote: the chunks of a new version replace  *)
(* those of the old one, and the graph is invalidated in the transaction.  *)
(* The builds it retires are not handed to _recycle_graphiti_graphs.       *)
Promote(gone, new) ==
  /\ kb = "live"
  /\ new # {} /\ \A c \in new : chunk[c] = "unindexed"
  /\ gone \subseteq Eligible
  /\ chunk' = [c \in Chunks |-> IF c \in new THEN "serving"
                                ELSE IF c \in gone THEN "withdrawn"
                                ELSE chunk[c]]
  /\ UNCHANGED kb /\ ContentFrame
  /\ IF config.status = "disabled"
     THEN UNCHANGED <<config, builds>>
     ELSE Rotate(Renewed, LeftBehind, Eligible')

(* The user excludes a served chunk.                                       *)
Exclude(c) ==
  /\ c \in Eligible
  /\ chunk' = [chunk EXCEPT ![c] = "excluded"]
  /\ UNCHANGED <<kb, config, builds>> /\ ContentFrame

(* A document is deleted, or the janitor compensates its lost file.        *)
Withdraw(gone) ==
  /\ gone # {} /\ gone \subseteq Eligible
  /\ chunk' = [c \in Chunks |-> IF c \in gone THEN "withdrawn" ELSE chunk[c]]
  /\ UNCHANGED <<kb, config, builds>> /\ ContentFrame

DeleteKnowledgeBase ==
  /\ kb = "live"
  /\ kb' = "deleted"
  /\ chunk' = [c \in Chunks |-> IF chunk[c] = "serving" THEN "withdrawn"
                                ELSE chunk[c]]
  /\ UNCHANGED <<config, builds>> /\ ContentFrame

(* Maintenance deletes a withdrawn chunk; its mappings and the leases that *)
(* name it go with it (ON DELETE CASCADE).                                 *)
Purge(c) ==
  /\ chunk[c] = "withdrawn"
  /\ chunk'  = [chunk EXCEPT ![c] = "purged"]
  /\ mapped' = [b \in Builds |-> mapped[b] \ {c}]
  /\ lease'  = [b \in Builds |-> IF lease[b].chunk = c THEN NoLease
                                 ELSE lease[b]]
  /\ UNCHANGED <<kb, config, builds, graph, doomed, work>> /\ Event

-----------------------------------------------------------------------------
(* The workers.                                                            *)

WorkerFrame == UNCHANGED <<kb, chunk, events>>

Owns(w) == /\ work[w].build \in Builds
           /\ lease[work[w].build].owner = w /\ lease[work[w].build].fresh

Step(w, s)  == work' = [work EXCEPT ![w].step = s]
LeaveBuild(w, s) ==
  work' = [work EXCEPT ![w] = [Idle EXCEPT !.step = s]]         \* mutant
Leave(w, s) == work' = [work EXCEPT ![w] = [Idle EXCEPT !.step = s,
                                            !.build = work[w].build]]

Missing(b) == Eligible \ mapped[b]

(* next_work_item finds a configuration of a deleted knowledge base.       *)
ClaimRetires ==
  /\ config.status = "building" /\ kb = "deleted"
  /\ config' = [config EXCEPT !.status = "disabled", !.active = NoBuild]
  /\ builds' = RetireAll
  /\ doomed' = doomed \cup Existing
  /\ UNCHANGED <<mapped, lease, graph, work>> /\ WorkerFrame

ClaimableOnceCleaned == config.status = "building" /\ kb = "live"
                        /\ lease[config.build].owner = "none"  \* mutant
Claimable == config.status = "building" /\ kb = "live"
             /\ ~lease[config.build].fresh

(* next_work_item: the row was configured for another extractor.           *)
ClaimRefuses ==
  /\ Claimable /\ ~config.current
  /\ config' = [config EXCEPT !.status = "failed"]
  /\ lease'  = [lease EXCEPT ![config.build] = NoLease]
  /\ UNCHANGED <<builds, mapped, graph, doomed, work>> /\ WorkerFrame

(* next_work_item: the step of the item's kind and the chunk it names.     *)
Items(b) == IF ~config.preflight THEN {<<"preflight", NoChunk>>}
            ELSE IF Missing(b) = {} THEN {<<"probe", NoChunk>>}
            ELSE {"load"} \X Missing(b)

Claim(w) ==
  /\ work[w].step = "idle"
  /\ Claimable /\ config.current
  /\ \E item \in Items(config.build) :
       /\ lease' = [lease EXCEPT ![config.build] =
                      [owner |-> w, fresh |-> TRUE, chunk |-> item[2]]]
       /\ work'  = [work EXCEPT ![w] =
                      [Idle EXCEPT !.step = item[1], !.build = config.build,
                                   !.batch = {item[2]} \ {NoChunk}]]
  /\ UNCHANGED <<config, builds, mapped, graph, doomed>> /\ WorkerFrame

(* PREFLIGHT: probe, then save_preflight_success.                          *)
Preflight(w) ==
  /\ work[w].step = "preflight"
  /\ IF /\ Owns(w)
        /\ config.build = work[w].build /\ config.status = "building"
     THEN config' = [config EXCEPT !.preflight = TRUE]
     ELSE UNCHANGED config
  /\ Leave(w, "release")
  /\ UNCHANGED <<builds, mapped, lease, graph, doomed>> /\ WorkerFrame

(* CHUNK: missing_graph_chunks, or the named chunk when none is missing;   *)
(* add_episodes_bulk: the episodes of the batch without a completion       *)
(* marker ...                                                              *)
LoadBatch(w) ==
  /\ work[w].step = "load"
  /\ LET b       == work[w].build
         missing == Missing(b)
         size    == IF Cardinality(missing) < BatchSize
                    THEN Cardinality(missing) ELSE BatchSize
     IN \E batch \in IF missing = {} THEN {work[w].batch}
                     ELSE {s \in SUBSET missing : Cardinality(s) = size} :
          LET pending == {c \in batch : graph[b][c] # "complete"} IN
          work' = [work EXCEPT ![w].step = IF pending = {} THEN "save"
                                           ELSE "ingest",
                               ![w].batch = batch, ![w].pending = pending,
                               ![w].todo = pending]
  /\ UNCHANGED <<rowVars, graph, doomed>> /\ WorkerFrame

SetEpisodes(w, chunks, state) ==
  graph' = [graph EXCEPT ![work[w].build] =
              [c \in Chunks |-> IF c \in chunks THEN state
                               ELSE graph[work[w].build][c]]]

(* ... are one by one removed if present and saved anew, ...               *)
Ingest(w) ==
  /\ work[w].step = "ingest"
  /\ \E c \in work[w].todo :
       IF graph[work[w].build][c] = "absent"
       THEN /\ SetEpisodes(w, {c}, "partial")
            /\ work' = [work EXCEPT ![w].todo = @ \ {c},
                          ![w].step = IF work[w].todo = {c} THEN "extract"
                                      ELSE "ingest"]
       ELSE SetEpisodes(w, {c}, "absent") /\ UNCHANGED work
  /\ UNCHANGED <<rowVars, doomed>> /\ WorkerFrame

(* ... extracted by the model in one call, which saves them once more, and *)
(* marked complete.                                                        *)
Extract(w) ==
  /\ work[w].step = "extract"
  /\ SetEpisodes(w, work[w].pending, "complete")
  /\ Step(w, "save")
  /\ UNCHANGED <<rowVars, doomed>> /\ WorkerFrame

Mappable(c) == chunk[c] \in {"serving", "withdrawn"}

(* persist_batch: all mappings of the batch or, if one is rejected, none.  *)
SavableUnleased(w) == /\ builds[work[w].build].status = "building"
                      /\ \A c \in work[w].batch : Mappable(c)  \* mutant
SavableClosed(w) == /\ Owns(w)
                    /\ \A c \in work[w].batch : Mappable(c)    \* mutant
Savable(w) == /\ Owns(w)
              /\ builds[work[w].build].status = "building"
              /\ \A c \in work[w].batch : Mappable(c)

SaveBatch(w) ==
  /\ work[w].step = "save"
  /\ IF Savable(w)
     THEN mapped' = [mapped EXCEPT ![work[w].build] = @ \cup work[w].batch]
     ELSE UNCHANGED mapped
  /\ Leave(w, "release")
  /\ UNCHANGED <<config, builds, lease, graph, doomed>> /\ WorkerFrame

(* FINALIZE: the ready probe counts the episodes of the external graph and *)
(* looks up that of the chunk mapped first.                                *)
Episodes(b) == {c \in Chunks : graph[b][c] # "absent"}
Expected(b) == Cardinality(builds[b].chunks)

ProbePasses(b, first) == /\ Expected(b) = 0 \/ first # NoChunk
                         /\ Cardinality(Episodes(b)) = Expected(b)
                         /\ {first} \subseteq Episodes(b) \cup {NoChunk}

ReadyProbe(w) ==
  /\ work[w].step = "probe"
  /\ \E first \in IF mapped[work[w].build] = {} THEN {NoChunk}
                  ELSE mapped[work[w].build] :
       Step(w, IF ProbePasses(work[w].build, first) THEN "publish"
               ELSE "fail")
  /\ UNCHANGED <<rowVars, graph, doomed>> /\ WorkerFrame

(* finalize_graphiti_if_complete.                                          *)
Finalizable(w) == /\ Owns(w)
                  /\ config.build = work[w].build
                  /\ config.status = "building"
                  /\ builds[work[w].build].status = "building"
Filled(b)      == Cardinality(mapped[b]) >= Expected(b)
Matches(b)     == Unchanged(b) /\ Cardinality(mapped[b]) = Expected(b)

FinalizeStops(w) ==
  /\ work[w].step = "publish"
  /\ ~Finalizable(w) \/ ~Filled(work[w].build)
  /\ Leave(w, "release")
  /\ UNCHANGED <<rowVars, graph, doomed>> /\ WorkerFrame

(* The input changed: the next generation keeps the preflight of this one. *)
FinalizeRotates(w) ==
  /\ work[w].step = "publish"
  /\ Finalizable(w) /\ Filled(work[w].build) /\ ~Matches(work[w].build)
  /\ Rotate(config, {work[w].build}, Eligible)
  /\ doomed' = doomed \cup Retired
  /\ Leave(w, "release")
  /\ UNCHANGED <<mapped, lease, graph>> /\ WorkerFrame

Publish(w) ==
  /\ work[w].step = "publish"
  /\ Finalizable(w) /\ Filled(work[w].build) /\ Matches(work[w].build)
  /\ builds' = [Superseded(builds, {config.active})
                 EXCEPT ![work[w].build].status = "ready"]
  /\ config' = [config EXCEPT !.status = "ready", !.active = work[w].build]
  /\ doomed' = doomed \cup Retired
  /\ Leave(w, "release")
  /\ UNCHANGED <<mapped, lease, graph>> /\ WorkerFrame

(* A call of the external graph or of a model raises.                      *)
Raise(w) ==
  /\ work[w].step \in {"preflight", "load", "ingest", "extract", "probe"}
  /\ Leave(w, "fail")
  /\ UNCHANGED <<rowVars, graph, doomed>> /\ WorkerFrame

(* mark_failed.                                                            *)
MarkFailed(w) ==
  /\ work[w].step = "fail"
  /\ LET b == work[w].build IN
       IF Owns(w)
       THEN /\ config' = IF config.build = b /\ config.status = "building"
                         THEN [config EXCEPT !.status = "failed"] ELSE config
            /\ builds' = IF builds[b].status = "building"
                         THEN [builds EXCEPT ![b].status = "failed"]
                         ELSE builds
       ELSE UNCHANGED <<config, builds>>
  /\ Leave(w, "release")
  /\ UNCHANGED <<mapped, lease, graph, doomed>> /\ WorkerFrame

(* release_graph_work: the row with this token, expired or not.            *)
Release(w) ==
  /\ work[w].step = "release"
  /\ lease' = IF lease[work[w].build].owner = w
              THEN [lease EXCEPT ![work[w].build] = NoLease] ELSE lease
  /\ work'  = [work EXCEPT ![w] = Idle]
  /\ UNCHANGED <<config, builds, mapped, graph, doomed>> /\ WorkerFrame

-----------------------------------------------------------------------------
(* Time and failures.                                                      *)

Abandoned(b) == /\ lease[b].owner \in Workers
                /\ work[lease[b].owner].build # b

(* The owner is gone and sends no heartbeat.                               *)
Expire(b) ==
  /\ lease[b].fresh /\ Abandoned(b)
  /\ lease' = [lease EXCEPT ![b].fresh = FALSE]
  /\ UNCHANGED <<config, builds, mapped, graph, doomed, work>> /\ WorkerFrame

(* The heartbeats of a living owner fail until its lease expires; it goes  *)
(* on with its work.                                                       *)
Stall(b) ==
  /\ lease[b].fresh /\ ~Abandoned(b)
  /\ Event
  /\ lease' = [lease EXCEPT ![b].fresh = FALSE]
  /\ UNCHANGED <<kb, chunk, config, builds, mapped, graph, doomed, work>>

(* reconcile_graph_work_leases.                                            *)
Reconcile(b) ==
  /\ lease[b].owner # "none" /\ ~lease[b].fresh
  /\ lease' = [lease EXCEPT ![b] = NoLease]
  /\ UNCHANGED <<config, builds, mapped, graph, doomed, work>> /\ WorkerFrame

(* A worker's process is killed and starts again.                          *)
Crash(w) ==
  /\ work[w].step # "idle"
  /\ Event
  /\ work' = [work EXCEPT ![w] = Idle]
  /\ UNCHANGED <<kb, chunk, rowVars, graph, doomed>>

(* A new version of the code is deployed to stopped processes.             *)
Upgrade ==
  /\ config.status # "disabled" /\ config.current
  /\ \A w \in Workers : work[w].step = "idle"
  /\ config' = [config EXCEPT !.current = FALSE]
  /\ Event
  /\ UNCHANGED <<kb, chunk, builds, mapped, lease, graph, doomed, work>>

-----------------------------------------------------------------------------
Process(w) ==
  \/ Preflight(w) \/ LoadBatch(w) \/ Ingest(w)
  \/ Extract(w) \/ SaveBatch(w) \/ ReadyProbe(w)
  \/ FinalizeStops(w) \/ FinalizeRotates(w) \/ Publish(w)
  \/ Raise(w) \/ MarkFailed(w) \/ Release(w)

GraphNext ==
  \/ Disable
  \/ RetryInPlace
  \/ \E yes \in BOOLEAN : Configure(yes) \/ RetryRotates(yes)
  \/ \E b \in Builds : DeleteGraph(b)
  \/ \E gone, new \in SUBSET Chunks : Promote(gone, new)
  \/ \E gone \in SUBSET Chunks : Withdraw(gone)
  \/ \E c \in Chunks : Exclude(c) \/ Purge(c)
  \/ DeleteKnowledgeBase
  \/ ClaimRetires \/ ClaimRefuses
  \/ \E w \in Workers : Claim(w) \/ Process(w) \/ Crash(w)
  \/ \E b \in Builds : Expire(b) \/ Stall(b) \/ Reconcile(b)
  \/ Upgrade

GraphSafety == GraphInit /\ [][GraphNext]_vars

(* The consumer loop of a running worker goes on with its item and, while  *)
(* no document waits, claims the next one; a dead owner's lease expires.   *)
GraphSpec == /\ GraphSafety
             /\ \A w \in Workers : WF_vars(Process(w)) /\ WF_vars(Claim(w))
             /\ \A b \in Builds : WF_vars(Expire(b))
             /\ WF_vars(ClaimRetires) /\ WF_vars(ClaimRefuses)

-----------------------------------------------------------------------------
(* Properties.                                                             *)

Leases == [owner : Workers \cup {"none"}, fresh : BOOLEAN,
           chunk : Chunks \cup {NoChunk}]

(* Every variable keeps its type, a worker at work names an existing       *)
(* build, and a configuration that is not disabled names one too.          *)
GraphTypeOK ==
  /\ kb \in {"live", "deleted"}
  /\ chunk \in [Chunks -> ChunkStates]
  /\ events \in 0 .. MaxEvents
  /\ config \in [status : ConfigStatuses, build : Builds \cup {NoBuild},
                 active : Builds \cup {NoBuild},
                 current : BOOLEAN, preflight : BOOLEAN]
  /\ builds \in [Builds -> [status : BuildStatuses, chunks : SUBSET Chunks]]
  /\ mapped \in [Builds -> SUBSET Chunks]
  /\ lease \in [Builds -> Leases]
  /\ graph \in [Builds -> [Chunks -> EpisodeStates]]
  /\ doomed \in SUBSET Builds
  /\ work \in [Workers -> [step : WorkSteps, build : Builds \cup {NoBuild},
                           batch : SUBSET Chunks, pending : SUBSET Chunks,
                           todo : SUBSET Chunks]]
  /\ \A w \in Workers : work[w].step # "idle" => work[w].build \in Existing
  /\ config.status # "disabled" => config.build \in Existing

(* At most one generation is being built, it is the one the configuration  *)
(* names, and a configuration that says "building" has one: a rotation in  *)
(* the API, in promotion or in a worker's finalization never leaves a      *)
(* second build that workers would fill.                                   *)
OneOpenBuild ==
  /\ \A b \in Builds : builds[b].status = "building" => b = config.build
  /\ config.status = "building" => builds[config.build].status = "building"

(* The generation that answers questions is READY, and its mapping is      *)
(* exactly the input frozen when it was created, but for chunks that       *)
(* maintenance has purged since.                                           *)
ActiveBuildIsWhole ==
  config.active # NoBuild =>
    LET b == config.active IN
    /\ builds[b].status = "ready"
    /\ mapped[b] \subseteq builds[b].chunks
    /\ \A c \in builds[b].chunks : c \in mapped[b] \/ chunk[c] = "purged"

(* The external graph of the generation that answers questions is neither  *)
(* deleted nor about to be, and holds an episode for every mapped chunk.   *)
ServedGraphSurvives ==
  config.active # NoBuild =>
    /\ config.active \notin doomed
    /\ mapped[config.active] \subseteq Episodes(config.active)

(* A generation is published only over an older one and only if what it    *)
(* was built from is, at that moment, what is being served: a promotion,   *)
(* exclusion or deletion during the build is never published over.         *)
PublicationIsCurrent ==
  [][config'.active \notin {config.active, NoBuild} =>
       /\ config'.active > config.active
       /\ builds[config'.active].chunks = Eligible]_vars

(* A worker without a live lease on its build - expired, taken over, or    *)
(* dropped by a retry or a purge - changes no row of the configuration,    *)
(* the builds or the mapping, whatever it was in the middle of.            *)
LateWorkersChangeNothing ==
  [][\A w \in Workers :
       work[w].step # "idle" /\ ~Owns(w) /\ work'[w] # work[w] =>
         UNCHANGED <<config, builds, mapped>>]_vars

(* A generation once READY or superseded takes no further mapping and is   *)
(* never reopened; superseded, it stays so.                                *)
ClosedBuildsStayClosed ==
  [][\A b \in Builds :
       /\ builds[b].status \in {"ready", "superseded"} =>
            mapped'[b] \subseteq mapped[b]
       /\ builds[b].status = "superseded" => builds'[b] = builds[b]
       /\ builds[b].status = "ready" =>
            builds'[b].status \in {"ready", "superseded"}]_vars

(* A failed generation is resumed in place only when nothing it was frozen *)
(* from has changed (architecture.md:789).                                 *)
OnlyUnchangedBuildsResume ==
  [][\A b \in Builds :
       builds[b].status = "failed" /\ builds'[b].status = "building" =>
         Unchanged(b)]_vars

Undecided(b) == /\ config.build = b /\ config.status = "building"
                /\ kb = "live" /\ Unchanged(b)

Outdated(b) == /\ config.build = b /\ config.status = "building"
               /\ kb = "live" /\ ~Unchanged(b)

(* A generation whose input does not change under it is eventually         *)
(* published, failed or replaced: crashes, expired leases and rejected     *)
(* batches never leave it open for ever.                                   *)
UndisturbedBuildsAreDecided ==
  \A b \in Builds : Undecided(b) ~> ~Undecided(b)

(* A generation whose input has changed does not stay open: it is replaced *)
(* by one of the new input (architecture.md:789), or fails, so that a      *)
(* retry replaces it.  (The last one that MaxBuilds admits cannot be.)     *)
ChangedBuildsAreReplaced ==
  \A b \in Builds \ {MaxBuilds} : Outdated(b) ~> ~Outdated(b)

=============================================================================
