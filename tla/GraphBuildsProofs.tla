------------------------- MODULE GraphBuildsProofs -------------------------
(***************************************************************************)
(* Proofs about GraphBuilds, for any chunks, workers, batch size, number   *)
(* of builds and of events.                                                *)
(***************************************************************************)
EXTENDS GraphBuilds, FiniteSetTheorems, WellFoundedInduction, TLAPS

(* The parts of the type invariant.                                        *)
Configs == [status : ConfigStatuses, build : Builds \cup {NoBuild},
            active : Builds \cup {NoBuild},
            current : BOOLEAN, preflight : BOOLEAN]
Works   == [step : WorkSteps, build : Builds \cup {NoBuild},
            batch : SUBSET Chunks, pending : SUBSET Chunks,
            todo : SUBSET Chunks]

ContentTypes == /\ kb \in {"live", "deleted"} /\ chunk \in [Chunks -> ChunkStates]
                /\ events \in 0 .. MaxEvents
RowTypes == /\ config \in Configs
            /\ builds \in [Builds -> [status : BuildStatuses, chunks : SUBSET Chunks]]
            /\ mapped \in [Builds -> SUBSET Chunks]
LeaseTypes == lease \in [Builds -> Leases]
GraphTypes == /\ graph \in [Builds -> [Chunks -> EpisodeStates]]
              /\ doomed \in SUBSET Builds
WorkTypes  == work \in [Workers -> Works]

(* Where a configuration points to, and a worker at work.                  *)
Pointers == /\ config.status # "disabled" => config.build \in Existing
            /\ \A w \in Workers : work[w].step # "idle" => work[w].build \in Existing

(* The configuration names an unfinished generation.                       *)
Filling == config.status \in {"building", "failed"}

(* Generations are numbered without a gap; the unfinished one has not been *)
(* published; the active one is READY and not newer than the last.         *)
Generations ==
  /\ \A b \in Existing : \A a \in Builds : a <= b => a \in Existing
  /\ \A b \in Builds \ Existing : mapped[b] = {}
  /\ config.status = "disabled" => config.active = NoBuild
  /\ Filling => builds[config.build].status \in {"building", "failed"}
  /\ \A b \in Builds : builds[b].status = "building" => Filling
  /\ config.active # NoBuild => /\ builds[config.active].status = "ready"
                                /\ config.active <= config.build

(* What is eligible only shrinks while a generation is unfinished, so that *)
(* nothing outside its frozen input is mapped or about to be.              *)
Inputs ==
  Filling =>
    /\ Eligible \subseteq builds[config.build].chunks
    /\ mapped[config.build] \subseteq builds[config.build].chunks
    /\ \A w \in Workers :
         work[w].step # "idle" /\ work[w].build = config.build =>
           work[w].batch \subseteq builds[config.build].chunks

GraphInv == /\ ContentTypes /\ RowTypes /\ LeaseTypes /\ GraphTypes /\ WorkTypes
            /\ Pointers /\ Generations /\ Inputs
            /\ OneOpenBuild /\ ActiveBuildIsWhole

(* The invariant implies what the runs check.                              *)
LEMMA InvImplies ==
  GraphInv => GraphTypeOK /\ OneOpenBuild /\ ActiveBuildIsWhole
  BY DEF GraphInv, ContentTypes, RowTypes, LeaseTypes, GraphTypes, WorkTypes,
         Configs, Works, Pointers, GraphTypeOK

(* Initially the graph is disabled and there is no generation.             *)
LEMMA InitInv == GraphInit => GraphInv
  BY GraphConstants
     DEF GraphInit, Disabled, NoRow, NoLease, Idle, GraphInv, ContentTypes,
         RowTypes, LeaseTypes, GraphTypes, WorkTypes, Configs, Works, Leases,
         Pointers, Generations, Inputs, Filling, Existing, Builds, NoBuild,
         ConfigStatuses, BuildStatuses, ChunkStates, EpisodeStates, WorkSteps,
         OneOpenBuild, ActiveBuildIsWhole

-----------------------------------------------------------------------------
(* Generations.                                                            *)

(* A set of naturals that is not empty has a least member.                 *)
LEMMA LeastNatural ==
  ASSUME NEW T, T \subseteq Nat, T # {}
  PROVE  \E x \in T : \A y \in T : x <= y
<1>1. PICK x \in T : \A y \in T : ~ (<<y, x>> \in OpToRel(<, Nat))
      BY WFMin, NatLessThanWellFounded
<1>2. ASSUME NEW y \in T PROVE ~ (y < x)
      BY <1>1, Zenon DEF OpToRel
<1> QED
    BY <1>2

(* The build that a rotation creates is the first unused one.              *)
LEMMA FirstUnused ==
  ASSUME Unused # {}
  PROVE  NextBuild \in Unused /\ \A o \in Unused : NextBuild <= o
<1>1. PICK T : T = Unused
      OBVIOUS
<1>2. T \subseteq Nat /\ T # {}
      BY <1>1, GraphConstants DEF Unused, Builds
<1>3. \E b \in Unused : \A o \in Unused : b <= o
      BY <1>1, <1>2, LeastNatural
<1> QED
    BY <1>3 DEF NextBuild

(* What a rotation does: generation n is new, open and the newest; nothing *)
(* else is open, and a READY generation that is not closed on purpose      *)
(* stays as it is.                                                         *)
NewGeneration(row, closed, chunks, n) ==
  /\ n \in Builds \ Existing
  /\ \A b \in Existing : b < n
  /\ \A b \in Builds : b < n => b \in Existing
  /\ config' = [row EXCEPT !.status = "building", !.build = n]
  /\ builds' \in [Builds -> [status : BuildStatuses, chunks : SUBSET Chunks]]
  /\ builds'[n] = [status |-> "building", chunks |-> chunks]
  /\ \A b \in Builds \ {n} :
       /\ builds'[b].status # "building"
       /\ builds'[b].status \in {builds[b].status, "superseded"}
       /\ builds[b].status \in {"none", "superseded"} => builds'[b] = builds[b]
       /\ builds[b].status = "ready" /\ b \notin closed => builds'[b] = builds[b]

(* Rotate creates such a generation.                                       *)
LEMMA RotateCreates ==
  ASSUME GraphInv, NEW row, NEW closed, NEW chunks \in SUBSET Chunks,
         Rotate(row, closed, chunks)
  PROVE  \E n \in Builds : NewGeneration(row, closed, chunks, n)
<1>1. PICK n : n = NextBuild
      OBVIOUS
<1>2. n \in Unused /\ \A o \in Unused : n <= o
      BY <1>1, FirstUnused DEF Rotate
<1>3. Builds \subseteq Nat /\ Unused = Builds \ Existing
      BY GraphConstants DEF Builds, Unused
<1>4. builds \in [Builds -> [status : BuildStatuses, chunks : SUBSET Chunks]]
      BY DEF GraphInv, RowTypes
<1>5. n \in Builds \ Existing
      BY <1>2, <1>3
<1>6. \A b \in Builds : b < n => b \in Existing
      BY <1>2, <1>3
<1>7. \A b \in Existing : b < n
      BY <1>3, <1>5 DEF GraphInv, Generations, Existing
<1>8. PICK S : S = closed \cup LatestOpen
      OBVIOUS
<1>9. builds' = [Superseded(builds, S) EXCEPT ![n] = [status |-> "building", chunks |-> chunks]]
      BY <1>1, <1>8 DEF Rotate
<1>10. \A b \in Builds : builds[b].status = "building" => b \in S
      BY <1>3, <1>4, <1>8 DEF GraphInv, OneOpenBuild, LatestOpen, Existing
<1>11. \A b \in Builds : builds[b].status # "building" /\ b \notin closed => b \notin S
      BY <1>8 DEF LatestOpen
<1>12. /\ builds' \in [Builds -> [status : BuildStatuses, chunks : SUBSET Chunks]]
       /\ builds'[n] = [status |-> "building", chunks |-> chunks]
      BY <1>4, <1>5, <1>9 DEF Superseded, BuildStatuses
<1>13. \A b \in Builds \ {n} : builds'[b] = Superseded(builds, S)[b]
      BY <1>9 DEF Superseded
<1>14. \A b \in Builds \ {n} :
         /\ builds'[b].status # "building"
         /\ builds'[b].status \in {builds[b].status, "superseded"}
         /\ builds[b].status \in {"none", "superseded"} => builds'[b] = builds[b]
         /\ builds[b].status = "ready" /\ b \notin closed => builds'[b] = builds[b]
      BY <1>4, <1>10, <1>11, <1>13 DEF Superseded
<1>15. config' = [row EXCEPT !.status = "building", !.build = n]
      BY <1>1 DEF Rotate
<1> QED
    BY <1>5, <1>6, <1>7, <1>12, <1>14, <1>15 DEF NewGeneration

(* A rotation keeps the invariant of the rows if the active generation is  *)
(* not closed and what is eligible after it is the new frozen input.       *)
LEMMA RotateStep ==
  ASSUME GraphInv, NEW row \in Configs, row.active = config.active,
         NEW closed, config.active \notin closed, NEW chunks \in SUBSET Chunks,
         Rotate(row, closed, chunks), mapped' = mapped, Eligible' \subseteq chunks,
         \A w \in Workers : work'[w].build = work[w].build,
         \A w \in Workers : work[w].step = "idle" => work'[w].step = "idle",
         \A c \in Chunks : chunk[c] = "purged" => chunk'[c] = "purged"
  PROVE  /\ RowTypes' /\ Pointers' /\ Generations' /\ Inputs'
         /\ OneOpenBuild' /\ ActiveBuildIsWhole'
<1>1. PICK n \in Builds : NewGeneration(row, closed, chunks, n)
      BY RotateCreates
<1>2. Builds \subseteq Nat /\ NoBuild \notin Builds
      BY GraphConstants DEF Builds, NoBuild
<1> USE DEF GraphInv, NewGeneration
<1>3. RowTypes'
      BY <1>1 DEF RowTypes, Configs, ConfigStatuses
<1>4. /\ config'.build = n /\ config'.status = "building"
      /\ config'.active = config.active
      BY <1>1 DEF Configs
<1>5. Existing' = Existing \cup {n} /\ n \notin Existing
      BY <1>1, <1>3 DEF RowTypes, Existing
<1>6. Pointers'
  <2>1. ASSUME NEW w \in Workers, work'[w].step # "idle" PROVE work[w].build \in Existing
    <3>1. work[w].step # "idle"
          BY <2>1
    <3> QED
        BY <3>1 DEF Pointers
  <2>2. \A w \in Workers : work'[w].step # "idle" => work'[w].build \in Existing
        BY <2>1
  <2> QED
      BY <1>4, <1>5, <2>2 DEF Pointers
<1>7. OneOpenBuild'
      BY <1>1, <1>4 DEF OneOpenBuild
<1>8. config.active # NoBuild =>
        /\ config.active \in Existing /\ config.active <= n
        /\ builds'[config.active] = builds[config.active]
      BY <1>1, <1>2 DEF Generations, RowTypes, Configs, Existing
<1>9. Generations'
  <2>1. \A b \in Existing' : \A a \in Builds : a <= b => a \in Existing'
        BY <1>1, <1>2, <1>5 DEF Generations, Existing
  <2>2. \A b \in Builds \ Existing' : mapped'[b] = {}
        BY <1>5 DEF Generations
  <2>3. builds'[n].status = "building"
        BY <1>1
  <2>4. config'.active # NoBuild => /\ builds'[config'.active].status = "ready"
                                    /\ config'.active <= config'.build
    <3>1. config.active # NoBuild => builds[config.active].status = "ready"
          BY DEF Generations
    <3> QED
        BY <1>4, <1>8, <3>1
  <2>5. Filling'
        BY <1>4 DEF Filling
  <2> QED
      BY <1>4, <2>1, <2>2, <2>3, <2>4, <2>5 DEF Generations
<1>10. mapped[n] = {} /\ \A w \in Workers : work'[w].step # "idle" => work'[w].build # n
  <2>1. mapped[n] = {}
        BY <1>5 DEF Generations
  <2>2. ASSUME NEW w \in Workers, work'[w].step # "idle" PROVE work'[w].build # n
    <3>1. work[w].step # "idle" /\ work'[w].build = work[w].build
          BY <2>2
    <3> QED
        BY <1>5, <3>1 DEF Pointers
  <2> QED
      BY <2>1, <2>2
<1>11. Inputs'
      BY <1>1, <1>4, <1>10 DEF Inputs
<1>12. ActiveBuildIsWhole'
      BY <1>4, <1>8 DEF ActiveBuildIsWhole, RowTypes, Configs
<1> QED
    BY <1>3, <1>6, <1>7, <1>9, <1>11, <1>12

-----------------------------------------------------------------------------
(* Rows that stay, while workers go on.                                    *)

(* What a worker has in hand is an existing build and, of the unfinished   *)
(* one, chunks of its input.                                               *)
Sound(item) == \/ item.step = "idle"
               \/ /\ item.build \in Existing
                  /\ Filling /\ item.build = config.build =>
                       item.batch \subseteq builds[config.build].chunks

(* The invariant says so of every worker.                                  *)
LEMMA WorkersAreSound ==
  ASSUME GraphInv, NEW w \in Workers
  PROVE  Sound(work[w])
  BY DEF GraphInv, Pointers, Inputs, Sound

(* The invariant of the rows survives a step that only worker, content or  *)
(* the configuration's status takes part in.                               *)
LEMMA RowsStay ==
  ASSUME GraphInv, UNCHANGED <<builds, mapped>>,
         config' \in Configs, config'.build = config.build,
         config'.active = config.active, Filling' <=> Filling,
         config'.status \in {config.status, "failed"},
         Eligible' \subseteq Eligible,
         \A c \in Chunks : chunk[c] = "purged" => chunk'[c] = "purged",
         \A w \in Workers : Sound(work'[w])
  PROVE  /\ RowTypes' /\ Pointers' /\ Generations' /\ Inputs'
         /\ OneOpenBuild' /\ ActiveBuildIsWhole'
<1>1. Existing' = Existing
      BY DEF Existing
<1>2. config.status = "disabled" => config'.status = "disabled"
      BY DEF Filling
<1>3. config'.status = "disabled" => config.status = "disabled"
      OBVIOUS
<1>4. RowTypes' /\ Generations' /\ OneOpenBuild'
      BY <1>1, <1>2, <1>3 DEF GraphInv, RowTypes, Generations, OneOpenBuild
<1>5. ActiveBuildIsWhole'
      BY DEF GraphInv, ActiveBuildIsWhole, RowTypes, Configs
<1>6. Pointers'
      BY <1>1, <1>2 DEF GraphInv, Pointers, Sound
<1>7. Inputs'
      BY <1>1 DEF GraphInv, Inputs, Sound
<1> QED
    BY <1>4, <1>5, <1>6, <1>7

(* One worker takes up something sound.                                    *)
LEMMA WorkChanges ==
  ASSUME GraphInv, NEW w \in Workers, NEW item \in Works, Sound(item),
         work' = [work EXCEPT ![w] = item]
  PROVE  WorkTypes' /\ \A v \in Workers : Sound(work'[v])
<1>1. WorkTypes'
      BY DEF GraphInv, WorkTypes
<1>2. ASSUME NEW v \in Workers PROVE Sound(work'[v])
      BY WorkersAreSound DEF GraphInv, WorkTypes
<1> QED
    BY <1>1, <1>2

(* Leave keeps the build and drops the chunks.                             *)
LEMMA Leaving ==
  ASSUME GraphInv, NEW w \in Workers, NEW s \in WorkSteps, Leave(w, s),
         work[w].step # "idle"
  PROVE  WorkTypes' /\ \A v \in Workers : Sound(work'[v])
<1>1. PICK item : item = [Idle EXCEPT !.step = s, !.build = work[w].build]
      OBVIOUS
<1>2. item \in Works
      BY <1>1 DEF GraphInv, WorkTypes, Works, Idle
<1>3. item.build = work[w].build /\ item.batch = {}
      BY <1>1 DEF Idle
<1>4. Sound(item)
      BY <1>3, WorkersAreSound DEF Sound
<1> QED
    BY <1>1, <1>2, <1>4, WorkChanges DEF Leave

(* The bound of events.                                                    *)
LEMMA CountedEvent ==
  ASSUME GraphInv, Event
  PROVE  events' \in 0 .. MaxEvents
  BY GraphConstants DEF Event, GraphInv, ContentTypes

(* Episodes that are written are typed.                                    *)
LEMMA EpisodesTyped ==
  ASSUME GraphInv, NEW w \in Workers, NEW chunks, NEW state \in EpisodeStates,
         SetEpisodes(w, chunks, state)
  PROVE  graph' \in [Builds -> [Chunks -> EpisodeStates]]
  BY DEF SetEpisodes, GraphInv, GraphTypes

(* A loaded batch is of missing chunks, or the one named in the claim.     *)
LEMMA BatchesLoaded ==
  ASSUME GraphInv, NEW w \in Workers, LoadBatch(w)
  PROVE  \E batch \in SUBSET Chunks :
           /\ batch \subseteq Missing(work[w].build) \/ batch = work[w].batch
           /\ \E s \in WorkSteps, pending \in SUBSET Chunks :
                work' = [work EXCEPT ![w].step = s, ![w].batch = batch,
                                     ![w].pending = pending, ![w].todo = pending]
<1>1. PICK missing : missing = Missing(work[w].build)
      OBVIOUS
<1>2. PICK size : LET b == work[w].build IN
        \E batch \in IF missing = {} THEN {work[w].batch}
                     ELSE {s \in SUBSET missing : Cardinality(s) = size} :
          LET pending == {c \in batch : graph[b][c] # "complete"} IN
          work' = [work EXCEPT ![w].step = IF pending = {} THEN "save" ELSE "ingest",
                               ![w].batch = batch, ![w].pending = pending,
                               ![w].todo = pending]
      BY <1>1 DEF LoadBatch
<1>3. PICK batch : /\ batch \subseteq missing \/ batch = work[w].batch
                   /\ LET pending == {c \in batch : graph[work[w].build][c] # "complete"} IN
                      work' = [work EXCEPT ![w].step = IF pending = {} THEN "save" ELSE "ingest",
                                           ![w].batch = batch, ![w].pending = pending,
                                           ![w].todo = pending]
      BY <1>2
<1>4. missing \subseteq Chunks /\ work[w].batch \subseteq Chunks
      BY <1>1 DEF Missing, Eligible, GraphInv, WorkTypes, Works
<1> QED
    BY <1>1, <1>3, <1>4 DEF WorkSteps

(* Steps within a work item, and its end.                                  *)
LEMMA ItemStep ==
  ASSUME GraphInv, NEW w \in Workers,
         \/ LoadBatch(w) \/ Ingest(w) \/ Extract(w) \/ ReadyProbe(w)
         \/ FinalizeStops(w) \/ Raise(w) \/ Release(w) \/ Crash(w)
  PROVE  GraphInv'
<1>1. /\ UNCHANGED <<config, builds, mapped, kb, chunk>>
      /\ work[w].step # "idle"
      BY DEF LoadBatch, Ingest, Extract, ReadyProbe, FinalizeStops, Raise,
             Release, Crash, WorkerFrame, rowVars
<1>2. Eligible' = Eligible
      BY <1>1 DEF Eligible
<1>3. ContentTypes'
  <2>1. CASE Crash(w)
        BY <1>1, <2>1, CountedEvent DEF Crash, GraphInv, ContentTypes
  <2>2. CASE UNCHANGED events
        BY <1>1, <2>2 DEF GraphInv, ContentTypes
  <2> QED
      BY <2>1, <2>2 DEF LoadBatch, Ingest, Extract, ReadyProbe, FinalizeStops, Raise,
         Release, WorkerFrame
<1>4. GraphTypes'
  <2>1. CASE Ingest(w)
        BY <2>1, EpisodesTyped DEF Ingest, EpisodeStates, GraphInv, GraphTypes
  <2>2. CASE Extract(w)
        BY <2>2, EpisodesTyped DEF Extract, EpisodeStates, GraphInv, GraphTypes
  <2>3. CASE UNCHANGED <<graph, doomed>>
        BY <2>3 DEF GraphInv, GraphTypes
  <2> QED
      BY <2>1, <2>2, <2>3 DEF LoadBatch, ReadyProbe, FinalizeStops, Raise, Release, Crash
<1>7. config' \in Configs /\ (Filling' <=> Filling)
      BY <1>1 DEF GraphInv, RowTypes, Filling
<1>6. LeaseTypes'
  <2>1. CASE Release(w)
        BY <2>1 DEF Release, GraphInv, LeaseTypes, Leases, NoLease
  <2>2. CASE UNCHANGED lease
        BY <2>2 DEF GraphInv, LeaseTypes
  <2> QED
      BY <2>1, <2>2 DEF LoadBatch, Ingest, Extract, ReadyProbe, FinalizeStops, Raise,
         Crash, rowVars
<1>5. WorkTypes' /\ \A v \in Workers : Sound(work'[v])
  <2>1. CASE LoadBatch(w)
    <3>1. PICK batch \in SUBSET Chunks :
            /\ batch \subseteq Missing(work[w].build) \/ batch = work[w].batch
            /\ \E s \in WorkSteps, pending \in SUBSET Chunks :
                 work' = [work EXCEPT ![w].step = s, ![w].batch = batch,
                                      ![w].pending = pending, ![w].todo = pending]
          BY <2>1, BatchesLoaded
    <3>2. PICK s \in WorkSteps, pending \in SUBSET Chunks :
            work' = [work EXCEPT ![w].step = s, ![w].batch = batch,
                                 ![w].pending = pending, ![w].todo = pending]
          BY <3>1
    <3>3. PICK item : item = [work[w] EXCEPT !.step = s, !.batch = batch,
                                             !.pending = pending, !.todo = pending]
          OBVIOUS
    <3>4. item \in Works /\ work' = [work EXCEPT ![w] = item]
          BY <3>2, <3>3 DEF GraphInv, WorkTypes, Works
    <3>5. item.build = work[w].build /\ item.batch = batch
          BY <3>3 DEF GraphInv, WorkTypes, Works
    <3>6. Sound(item)
          BY <1>1, <3>1, <3>5, WorkersAreSound DEF Sound, Missing, GraphInv, Inputs
    <3> QED
        BY <3>4, <3>6, WorkChanges
  <2>2. CASE UNCHANGED work
        BY <2>2, WorkersAreSound DEF GraphInv, WorkTypes
  <2>3. CASE Ingest(w) /\ ~ UNCHANGED work
    <3>1. PICK c \in work[w].todo :
            work' = [work EXCEPT ![w].todo = @ \ {c},
                       ![w].step = IF work[w].todo = {c} THEN "extract" ELSE "ingest"]
          BY <2>3 DEF Ingest
    <3>2. PICK item : item = [work[w] EXCEPT !.todo = @ \ {c},
                       !.step = IF work[w].todo = {c} THEN "extract" ELSE "ingest"]
          OBVIOUS
    <3>3. item \in Works /\ work' = [work EXCEPT ![w] = item]
          BY <3>1, <3>2 DEF GraphInv, WorkTypes, Works, WorkSteps
    <3>4. item.build = work[w].build /\ item.batch = work[w].batch
          BY <3>2 DEF GraphInv, WorkTypes, Works
    <3> QED
        BY <1>1, <3>3, <3>4, WorkChanges, WorkersAreSound DEF Sound
  <2>6. CASE Extract(w) \/ ReadyProbe(w)
    <3>1. PICK s \in WorkSteps : Step(w, s)
          BY <2>6 DEF Extract, ReadyProbe, WorkSteps
    <3>2. PICK item : item = [work[w] EXCEPT !.step = s]
          OBVIOUS
    <3>3. item \in Works /\ work' = [work EXCEPT ![w] = item]
          BY <3>1, <3>2 DEF Step, GraphInv, WorkTypes, Works
    <3>4. item.build = work[w].build /\ item.batch = work[w].batch
          BY <3>2 DEF GraphInv, WorkTypes, Works
    <3> QED
        BY <1>1, <3>3, <3>4, WorkChanges, WorkersAreSound DEF Sound
  <2>4. CASE FinalizeStops(w) \/ Raise(w)
        BY <1>1, <2>4, Leaving DEF FinalizeStops, Raise, WorkSteps
  <2>5. CASE Release(w) \/ Crash(w)
        BY <1>1, <2>5, WorkChanges DEF Release, Crash, Sound, Idle, Works, WorkSteps
  <2> QED
      BY <2>1, <2>2, <2>3, <2>4, <2>5, <2>6
<1> QED
    BY <1>1, <1>2, <1>3, <1>4, <1>5, <1>6, <1>7, RowsStay DEF GraphInv

(* A claim, and its refusal for another extractor.                         *)
LEMMA ClaimStep ==
  ASSUME GraphInv, ClaimRefuses \/ \E w \in Workers : Claim(w)
  PROVE  GraphInv'
<1>1. /\ UNCHANGED <<builds, mapped, graph, doomed, kb, chunk, events>>
      /\ config.status = "building"
      BY DEF Claim, ClaimRefuses, WorkerFrame, Claimable
<1>2. Eligible' = Eligible /\ ContentTypes' /\ GraphTypes'
      BY <1>1 DEF Eligible, GraphInv, ContentTypes, GraphTypes
<1>3. CASE ClaimRefuses
  <2>1. config' = [config EXCEPT !.status = "failed"] /\ UNCHANGED work
        BY <1>3 DEF ClaimRefuses
  <2>2. config' \in Configs /\ config'.build = config.build
        /\ config'.active = config.active /\ config'.status = "failed"
        BY <2>1 DEF GraphInv, RowTypes, Configs, ConfigStatuses
  <2>3. LeaseTypes'
        BY <1>3 DEF ClaimRefuses, GraphInv, LeaseTypes, Leases, NoLease
  <2>4. WorkTypes' /\ (Filling' <=> Filling) /\ \A w \in Workers : Sound(work'[w])
        BY <1>1, <2>1, <2>2, WorkersAreSound DEF GraphInv, WorkTypes, Filling
  <2> QED
      BY <1>1, <1>2, <2>2, <2>3, <2>4, RowsStay DEF GraphInv
<1>4. ASSUME NEW w \in Workers, Claim(w) PROVE GraphInv'
  <2>1. PICK i \in Items(config.build) :
          /\ lease' = [lease EXCEPT ![config.build] =
                         [owner |-> w, fresh |-> TRUE, chunk |-> i[2]]]
          /\ work'  = [work EXCEPT ![w] =
                         [Idle EXCEPT !.step = i[1], !.build = config.build,
                                      !.batch = {i[2]} \ {NoChunk}]]
          /\ UNCHANGED config
        BY <1>4 DEF Claim
  <2>2. Missing(config.build) \subseteq Eligible /\ Eligible \subseteq Chunks
        BY DEF Missing, Eligible
  <2>3. /\ i[1] \in {"preflight", "load", "probe"}
        /\ i[2] \in Eligible \cup {NoChunk}
        BY <2>2 DEF Items
  <2>4. PICK item : item = [Idle EXCEPT !.step = i[1], !.build = config.build,
                                        !.batch = {i[2]} \ {NoChunk}]
        OBVIOUS
  <2>5. item \in Works
        BY <2>2, <2>3, <2>4 DEF GraphInv, RowTypes, Configs, Works, Idle, WorkSteps
  <2>6. item.build = config.build /\ item.batch \subseteq Eligible
        BY <2>3, <2>4 DEF Idle
  <2>7. Sound(item)
        BY <1>1, <2>6 DEF Sound, GraphInv, Pointers, Inputs
  <2>8. WorkTypes' /\ \A v \in Workers : Sound(work'[v])
        BY <2>1, <2>4, <2>5, <2>7, WorkChanges
  <2>9. LeaseTypes'
        BY <2>1, <2>2, <2>3 DEF GraphInv, LeaseTypes, Leases
  <2>10. config' \in Configs /\ (Filling' <=> Filling)
        BY <2>1 DEF GraphInv, RowTypes, Filling
  <2> QED
      BY <1>1, <1>2, <2>1, <2>8, <2>9, <2>10, RowsStay DEF GraphInv
<1> QED
    BY <1>3, <1>4

(* The answer of the preflight.                                            *)
LEMMA PreflightStep ==
  ASSUME GraphInv, NEW w \in Workers, Preflight(w)
  PROVE  GraphInv'
<1>1. /\ UNCHANGED <<builds, mapped, lease, graph, doomed, kb, chunk, events>>
      /\ config' \in {config, [config EXCEPT !.preflight = TRUE]}
      BY DEF Preflight, WorkerFrame
<1>2. /\ Eligible' = Eligible /\ ContentTypes' /\ GraphTypes' /\ LeaseTypes'
      BY <1>1 DEF Eligible, GraphInv, ContentTypes, GraphTypes, LeaseTypes
<1>3. /\ config' \in Configs /\ config'.build = config.build
      /\ config'.active = config.active /\ config'.status = config.status
      BY <1>1 DEF GraphInv, RowTypes, Configs
<1>4. Filling' <=> Filling
      BY <1>3 DEF Filling
<1>5. WorkTypes' /\ \A v \in Workers : Sound(work'[v])
      BY Leaving DEF Preflight, WorkSteps
<1> QED
    BY <1>1, <1>2, <1>3, <1>4, <1>5, RowsStay DEF GraphInv

(* The mapping of a batch.                                                 *)
LEMMA SaveBatchStep ==
  ASSUME GraphInv, NEW w \in Workers, SaveBatch(w)
  PROVE  GraphInv'
<1>1. /\ UNCHANGED <<config, builds, lease, graph, doomed, kb, chunk, events>>
      /\ work[w].step = "save" /\ Leave(w, "release")
      BY DEF SaveBatch, WorkerFrame
<1>2. /\ Eligible' = Eligible /\ ContentTypes' /\ GraphTypes' /\ LeaseTypes'
      /\ config' \in Configs /\ (Filling' <=> Filling)
      BY <1>1 DEF Eligible, GraphInv, ContentTypes, GraphTypes, LeaseTypes, RowTypes, Filling
<1>3. WorkTypes' /\ \A v \in Workers : Sound(work'[v])
      BY <1>1, Leaving DEF WorkSteps
<1>4. CASE UNCHANGED mapped
      BY <1>1, <1>2, <1>3, <1>4, RowsStay DEF GraphInv
<1>5. CASE Savable(w)
  <2>1. PICK b : b = work[w].build
        OBVIOUS
  <2>2. b \in Builds /\ builds[b].status = "building" /\ b = config.build /\ Filling
        BY <1>1, <1>5, <2>1 DEF Savable, GraphInv, Pointers, Existing, OneOpenBuild, Generations
  <2>3. work[w].batch \subseteq builds[b].chunks /\ mapped[b] \subseteq builds[b].chunks
        BY <1>1, <2>1, <2>2 DEF GraphInv, Inputs
  <2>4. work[w].batch \subseteq Chunks
        BY DEF GraphInv, WorkTypes, Works
  <2>5. mapped' = [mapped EXCEPT ![b] = @ \cup work[w].batch]
        BY <1>5, <2>1 DEF SaveBatch
  <2>6. mapped' \in [Builds -> SUBSET Chunks]
        BY <2>4, <2>5 DEF GraphInv, RowTypes
  <2>7. Existing' = Existing
        BY <1>1 DEF Existing
  <2>8. RowTypes' /\ OneOpenBuild' /\ Pointers'
        BY <1>1, <1>3, <2>6, <2>7 DEF GraphInv, RowTypes, OneOpenBuild, Pointers, Sound
  <2>9. \A x \in Builds : x # b => mapped'[x] = mapped[x]
        BY <2>5 DEF GraphInv, RowTypes
  <2>10. Generations'
        BY <1>1, <1>2, <2>2, <2>7, <2>9 DEF GraphInv, Generations, Existing
  <2>11. mapped'[b] \subseteq builds[b].chunks
        BY <2>2, <2>3, <2>5 DEF GraphInv, RowTypes
  <2>12. Inputs'
        BY <1>1, <1>2, <1>3, <2>2, <2>11 DEF GraphInv, Inputs, Sound
  <2>13. ActiveBuildIsWhole'
    <3>1. config.active # NoBuild => config.active \in Builds /\ config.active # b
          BY <2>2 DEF GraphInv, Generations, RowTypes, Configs
    <3> QED
        BY <1>1, <2>9, <3>1 DEF GraphInv, ActiveBuildIsWhole
  <2> QED
      BY <1>2, <1>3, <2>8, <2>10, <2>12, <2>13 DEF GraphInv
<1> QED
    BY <1>4, <1>5 DEF SaveBatch

-----------------------------------------------------------------------------
(* Generations that change status.                                         *)

(* Rows whose builds keep their input and are neither created nor deleted: *)
(* what the new statuses have to satisfy.                                  *)
LEMMA StatusStep ==
  ASSUME GraphInv, mapped' = mapped, Eligible' \subseteq Eligible,
         \A c \in Chunks : chunk[c] = "purged" => chunk'[c] = "purged",
         \A w \in Workers : Sound(work'[w]),
         builds' \in [Builds -> [status : BuildStatuses, chunks : SUBSET Chunks]],
         \A b \in Builds : builds'[b].chunks = builds[b].chunks,
         \A b \in Builds : builds'[b].status = "none" <=> builds[b].status = "none",
         config' \in Configs,
         config'.status # "disabled" =>
           config.status # "disabled" /\ config'.build = config.build,
         config'.status = "disabled" => config'.active = NoBuild,
         Filling' => Filling /\ builds'[config'.build].status \in {"building", "failed"},
         \A b \in Builds : builds'[b].status = "building" => Filling' /\ b = config'.build,
         config'.status = "building" => builds'[config'.build].status = "building",
         config'.active # NoBuild => builds'[config'.active].status = "ready"
                                     /\ config'.active <= config'.build,
         ActiveBuildIsWhole'
  PROVE  /\ RowTypes' /\ Pointers' /\ Generations' /\ Inputs'
         /\ OneOpenBuild' /\ ActiveBuildIsWhole'
<1>1. Existing' = Existing
      BY DEF Existing
<1>2. RowTypes'
      BY DEF GraphInv, RowTypes
<1>3. Generations' /\ OneOpenBuild'
      BY <1>1 DEF GraphInv, Generations, OneOpenBuild
<1>4. Pointers'
      BY <1>1 DEF GraphInv, Pointers, Sound
<1>5. Inputs'
  <2>1. SUFFICES ASSUME Filling' PROVE Inputs'
        BY DEF Inputs
  <2>2. /\ Filling /\ config'.build = config.build /\ config.build \in Builds
        BY <2>1 DEF GraphInv, Pointers, Existing, Filling
  <2>3. \A w \in Workers : work'[w].step # "idle" /\ work'[w].build = config.build =>
          work'[w].batch \subseteq builds[config.build].chunks
    <3>1. TAKE w \in Workers
    <3>2. Sound(work'[w])
          OBVIOUS
    <3> QED
        BY <2>2, <3>2 DEF Sound
  <2> QED
      BY <2>2, <2>3 DEF GraphInv, Inputs
<1> QED
    BY <1>2, <1>3, <1>4, <1>5

(* A build fails.                                                          *)
LEMMA MarkFailedStep ==
  ASSUME GraphInv, NEW w \in Workers, MarkFailed(w)
  PROVE  GraphInv'
<1>1. /\ UNCHANGED <<mapped, lease, graph, doomed, kb, chunk, events>>
      /\ work[w].step = "fail" /\ Leave(w, "release")
      BY DEF MarkFailed, WorkerFrame
<1>2. /\ Eligible' = Eligible /\ ContentTypes' /\ GraphTypes' /\ LeaseTypes'
      BY <1>1 DEF Eligible, GraphInv, ContentTypes, GraphTypes, LeaseTypes
<1>3. WorkTypes' /\ \A v \in Workers : Sound(work'[v])
      BY <1>1, Leaving DEF WorkSteps
<1>4. PICK b : b = work[w].build
      OBVIOUS
<1>5. b \in Existing /\ b \in Builds
      BY <1>1, <1>4 DEF GraphInv, Pointers, Existing
<1>6. CASE UNCHANGED <<config, builds>>
  <2>1. config' \in Configs /\ (Filling' <=> Filling)
        BY <1>6 DEF GraphInv, RowTypes, Filling
  <2> QED
      BY <1>1, <1>2, <1>3, <1>6, <2>1, RowsStay DEF GraphInv
<1>7. CASE /\ config' = IF config.build = b /\ config.status = "building"
                        THEN [config EXCEPT !.status = "failed"] ELSE config
           /\ builds' = IF builds[b].status = "building"
                        THEN [builds EXCEPT ![b].status = "failed"] ELSE builds
  <2>1. /\ config' \in Configs /\ config'.build = config.build
        /\ config'.active = config.active /\ (Filling' <=> Filling)
        /\ config'.status = "disabled" <=> config.status = "disabled"
        /\ config'.status = "building" => config.build # b /\ config.status = "building"
        BY <1>7 DEF GraphInv, RowTypes, Configs, ConfigStatuses, Filling
  <2>2. builds \in [Builds -> [status : BuildStatuses, chunks : SUBSET Chunks]]
        BY DEF GraphInv, RowTypes
  <2>3. builds' \in [Builds -> [status : BuildStatuses, chunks : SUBSET Chunks]]
        BY <1>5, <1>7, <2>2 DEF BuildStatuses
  <2>4. \A x \in Builds \ {b} : builds'[x] = builds[x]
        BY <1>7, <2>2
  <2>5. /\ builds'[b].chunks = builds[b].chunks
        /\ builds'[b].status = IF builds[b].status = "building" THEN "failed"
                               ELSE builds[b].status
        BY <1>5, <1>7, <2>2
  <2>6. \A x \in Builds :
          /\ builds'[x].chunks = builds[x].chunks
          /\ builds'[x].status = "none" <=> builds[x].status = "none"
          /\ builds'[x].status = "building" => builds[x].status = "building"
        BY <2>4, <2>5
  <2>7. Filling => /\ config.build \in Builds
                   /\ builds[config.build].status \in {"building", "failed"}
        BY DEF GraphInv, Pointers, Generations, Existing, Filling
  <2>8. Filling' => builds'[config'.build].status \in {"building", "failed"}
        BY <2>1, <2>4, <2>5, <2>7
  <2>9. config'.status = "building" => builds'[config'.build].status = "building"
    <3>1. config.status = "building" =>
            config.build \in Builds /\ builds[config.build].status = "building"
          BY <2>7 DEF GraphInv, OneOpenBuild, Filling
    <3> QED
        BY <2>1, <2>4, <3>1
  <2>10. config.active # NoBuild => /\ config.active \in Builds
                                    /\ builds[config.active].status = "ready"
                                    /\ config.active <= config.build
        BY DEF GraphInv, RowTypes, Configs, Generations
  <2>11. config.active # NoBuild => builds'[config.active] = builds[config.active]
    <3>1. builds[b].status # "building" => builds' = builds
          BY <1>7
    <3>2. config.active # NoBuild /\ config.active = b => builds[b].status = "ready"
          BY <2>10
    <3> QED
        BY <2>4, <2>10, <3>1, <3>2
  <2>12. ActiveBuildIsWhole'
        BY <1>1, <2>1, <2>10, <2>11 DEF GraphInv, ActiveBuildIsWhole
  <2>13. config.status = "disabled" => config.active = NoBuild
        BY DEF GraphInv, Generations
  <2>14. \A x \in Builds : builds'[x].status = "building" => Filling' /\ x = config'.build
    <3>1. \A x \in Builds : builds[x].status = "building" => Filling /\ x = config.build
          BY DEF GraphInv, Generations, OneOpenBuild
    <3> QED
        BY <2>1, <2>6, <3>1
  <2>15. config'.active # NoBuild => /\ builds'[config'.active].status = "ready"
                                     /\ config'.active <= config'.build
        BY <2>1, <2>10, <2>11
  <2>16. /\ RowTypes' /\ Pointers' /\ Generations' /\ Inputs'
         /\ OneOpenBuild' /\ ActiveBuildIsWhole'
        BY <1>1, <1>2, <1>3, <2>1, <2>3, <2>6, <2>8, <2>9, <2>12, <2>13, <2>14, <2>15,
           StatusStep
  <2> QED
      BY <1>2, <1>3, <2>16 DEF GraphInv
<1> QED
    BY <1>4, <1>6, <1>7 DEF MarkFailed

(* What no transaction on the rows of the generations touches.             *)
LEMMA RowsOnly ==
  ASSUME GraphInv, UNCHANGED <<kb, chunk, graph>>,
         doomed' \subseteq doomed \cup Builds, events' = events
  PROVE  /\ Eligible' = Eligible /\ ContentTypes' /\ GraphTypes'
         /\ \A c \in Chunks : chunk[c] = "purged" => chunk'[c] = "purged"
  BY DEF GraphInv, ContentTypes, GraphTypes, Eligible

(* The generation of an owner that may finalize.                           *)
LEMMA FinalizableBuild ==
  ASSUME GraphInv, NEW w \in Workers, Finalizable(w)
  PROVE  /\ work[w].build \in Builds /\ work[w].build = config.build
         /\ config.status = "building"
         /\ builds[work[w].build].status = "building"
         /\ config.active # work[w].build
  BY GraphConstants DEF Finalizable, Owns, GraphInv, Generations, NoBuild, Builds

(* The input changed: a new generation.                                    *)
LEMMA FinalizeRotatesStep ==
  ASSUME GraphInv, NEW w \in Workers, FinalizeRotates(w)
  PROVE  GraphInv'
<1>1. /\ UNCHANGED <<mapped, lease, graph, kb, chunk, events>>
      /\ work[w].step = "publish" /\ Leave(w, "release")
      /\ doomed' = doomed \cup Retired /\ Retired \subseteq Builds
      BY DEF FinalizeRotates, WorkerFrame, Retired
<1>2. /\ Eligible' = Eligible /\ ContentTypes' /\ GraphTypes'
      /\ \A c \in Chunks : chunk[c] = "purged" => chunk'[c] = "purged"
      BY <1>1, RowsOnly
<1>3. LeaseTypes' /\ WorkTypes'
      BY <1>1, Leaving DEF WorkSteps, GraphInv, LeaseTypes
<1>4. \A v \in Workers : work'[v].build = work[v].build
      BY <1>1 DEF Leave, Idle, GraphInv, WorkTypes
<1>5. \A v \in Workers : work[v].step = "idle" => work'[v].step = "idle"
      BY <1>1 DEF Leave, GraphInv, WorkTypes
<1>6. Rotate(config, {work[w].build}, Eligible) /\ config.active # work[w].build
      BY FinalizableBuild DEF FinalizeRotates
<1>7. config \in Configs /\ Eligible \in SUBSET Chunks
      BY DEF GraphInv, RowTypes, Eligible
<1>8. /\ RowTypes' /\ Pointers' /\ Generations' /\ Inputs'
      /\ OneOpenBuild' /\ ActiveBuildIsWhole'
      BY <1>1, <1>2, <1>4, <1>5, <1>6, <1>7, RotateStep
<1> QED
    BY <1>2, <1>3, <1>8 DEF GraphInv

(* A matching generation has every chunk of its input mapped.              *)
LEMMA MatchingIsWhole ==
  ASSUME GraphInv, NEW w \in Workers, Finalizable(w), Matches(work[w].build)
  PROVE  mapped[work[w].build] = builds[work[w].build].chunks
<1>1. PICK b : b = work[w].build
      OBVIOUS
<1>2. b \in Builds /\ b = config.build /\ config.status = "building"
      BY <1>1, FinalizableBuild
<1>3. mapped[b] \subseteq builds[b].chunks /\ builds[b].chunks \subseteq Chunks
      BY <1>2 DEF GraphInv, Inputs, Filling, RowTypes
<1>4. IsFiniteSet(builds[b].chunks)
      BY <1>3, FS_Subset, GraphConstants
<1>5. Cardinality(mapped[b]) = Cardinality(builds[b].chunks)
      BY <1>1 DEF Matches, Expected
<1> QED
    BY <1>1, <1>3, <1>4, <1>5, FS_Subset

(* A generation is published.                                              *)
LEMMA PublishStep ==
  ASSUME GraphInv, NEW w \in Workers, Publish(w)
  PROVE  GraphInv'
<1>1. /\ UNCHANGED <<mapped, lease, graph, kb, chunk, events>>
      /\ work[w].step = "publish" /\ Leave(w, "release")
      /\ doomed' = doomed \cup Retired /\ Retired \subseteq Builds
      BY DEF Publish, WorkerFrame, Retired
<1>2. /\ Eligible' = Eligible /\ ContentTypes' /\ GraphTypes'
      /\ \A c \in Chunks : chunk[c] = "purged" => chunk'[c] = "purged"
      BY <1>1, RowsOnly
<1>3. LeaseTypes' /\ WorkTypes' /\ \A v \in Workers : Sound(work'[v])
      BY <1>1, Leaving DEF WorkSteps, GraphInv, LeaseTypes
<1>4. PICK b : b = work[w].build
      OBVIOUS
<1>5. /\ b \in Builds /\ b = config.build /\ config.status = "building"
      /\ builds[b].status = "building" /\ config.active # b
      BY <1>4, FinalizableBuild DEF Publish
<1>6. mapped[b] = builds[b].chunks
      BY <1>4, MatchingIsWhole DEF Publish
<1>7. builds \in [Builds -> [status : BuildStatuses, chunks : SUBSET Chunks]]
      BY DEF GraphInv, RowTypes
<1>8. PICK old : old = Superseded(builds, {config.active})
      OBVIOUS
<1>9. /\ old \in [Builds -> [status : BuildStatuses, chunks : SUBSET Chunks]]
      /\ \A x \in Builds : /\ old[x].chunks = builds[x].chunks
                           /\ x # config.active => old[x] = builds[x]
                           /\ old[x].status # builds[x].status =>
                                builds[x].status # "none" /\ old[x].status = "superseded"
      BY <1>7, <1>8 DEF Superseded, BuildStatuses
<1>10. builds' = [old EXCEPT ![b].status = "ready"]
      BY <1>4, <1>8 DEF Publish
<1>11. /\ builds' \in [Builds -> [status : BuildStatuses, chunks : SUBSET Chunks]]
       /\ builds'[b].status = "ready" /\ builds'[b].chunks = builds[b].chunks
       /\ \A x \in Builds \ {b} : builds'[x] = old[x]
      BY <1>5, <1>9, <1>10 DEF BuildStatuses
<1>12. \A x \in Builds :
         /\ builds'[x].chunks = builds[x].chunks
         /\ builds'[x].status = "none" <=> builds[x].status = "none"
      BY <1>5, <1>9, <1>11
<1>13. \A x \in Builds : builds'[x].status # "building"
      BY <1>5, <1>9, <1>11 DEF GraphInv, OneOpenBuild
<1>14. /\ config' \in Configs /\ config'.build = b /\ config'.active = b
       /\ config'.status = "ready"
      BY <1>4, <1>5 DEF Publish, GraphInv, RowTypes, Configs, ConfigStatuses
<1>15. ~Filling' /\ b \in Nat
      BY <1>5, <1>14, GraphConstants DEF Filling, Builds
<1>16. ActiveBuildIsWhole'
      BY <1>1, <1>6, <1>11, <1>14 DEF ActiveBuildIsWhole
<1>17. /\ RowTypes' /\ Pointers' /\ Generations' /\ Inputs'
       /\ OneOpenBuild' /\ ActiveBuildIsWhole'
      BY <1>1, <1>2, <1>3, <1>5, <1>11, <1>12, <1>13, <1>14, <1>15, <1>16, StatusStep
<1> QED
    BY <1>2, <1>3, <1>17 DEF GraphInv

(* The graph is disabled, by its owner or with its knowledge base.         *)
LEMMA RetireStep ==
  ASSUME GraphInv, Disable \/ ClaimRetires
  PROVE  GraphInv'
<1>1. /\ UNCHANGED <<mapped, lease, graph, work, kb, chunk, events>>
      /\ doomed' = doomed \cup Existing /\ Existing \subseteq Builds
      /\ builds' = RetireAll
      BY DEF Disable, ClaimRetires, ApiFrame, WorkerFrame, Existing
<1>2. /\ Eligible' = Eligible /\ ContentTypes' /\ GraphTypes'
      /\ \A c \in Chunks : chunk[c] = "purged" => chunk'[c] = "purged"
      BY <1>1, RowsOnly
<1>3. /\ LeaseTypes' /\ WorkTypes' /\ \A w \in Workers : Sound(work'[w])
      BY <1>1, WorkersAreSound DEF GraphInv, LeaseTypes, WorkTypes
<1>4. builds \in [Builds -> [status : BuildStatuses, chunks : SUBSET Chunks]]
      BY DEF GraphInv, RowTypes
<1>5. /\ builds' \in [Builds -> [status : BuildStatuses, chunks : SUBSET Chunks]]
      /\ \A b \in Builds :
           /\ builds'[b].chunks = builds[b].chunks
           /\ builds'[b].status = "none" <=> builds[b].status = "none"
           /\ builds'[b].status # "building"
      BY <1>1, <1>4 DEF RetireAll, BuildStatuses
<1>6. /\ config' \in Configs /\ config'.status = "disabled"
      /\ config'.active = NoBuild
  <2>1. CASE Disable
        BY <2>1 DEF Disable, Disabled, Configs, ConfigStatuses
  <2>2. CASE ClaimRetires
        BY <2>2 DEF ClaimRetires, GraphInv, RowTypes, Configs, ConfigStatuses
  <2> QED
      BY <2>1, <2>2
<1>7. ~Filling'
      BY <1>6 DEF Filling
<1>8. ActiveBuildIsWhole'
      BY <1>6 DEF ActiveBuildIsWhole
<1>9. /\ RowTypes' /\ Pointers' /\ Generations' /\ Inputs'
      /\ OneOpenBuild' /\ ActiveBuildIsWhole'
      BY <1>1, <1>2, <1>3, <1>5, <1>6, <1>7, <1>8, StatusStep
<1> QED
    BY <1>2, <1>3, <1>9 DEF GraphInv

(* A failed generation is opened again.                                    *)
LEMMA RetryInPlaceStep ==
  ASSUME GraphInv, RetryInPlace
  PROVE  GraphInv'
<1>1. /\ UNCHANGED <<mapped, graph, work, kb, chunk, events, doomed>>
      /\ lease'  = [lease EXCEPT ![config.build] = NoLease]
      /\ config.status = "failed" /\ builds[config.build].status = "failed"
      BY DEF RetryInPlace, Resumable, ApiFrame
<1>2. /\ Eligible' = Eligible /\ ContentTypes' /\ GraphTypes'
      /\ \A c \in Chunks : chunk[c] = "purged" => chunk'[c] = "purged"
      BY <1>1, RowsOnly
<1>3. /\ LeaseTypes' /\ WorkTypes' /\ \A w \in Workers : Sound(work'[w])
      BY <1>1, WorkersAreSound DEF GraphInv, LeaseTypes, WorkTypes, Leases, NoLease
<1>4. builds \in [Builds -> [status : BuildStatuses, chunks : SUBSET Chunks]]
      BY DEF GraphInv, RowTypes
<1>5. PICK b \in Builds : b = config.build
      BY <1>1 DEF GraphInv, Pointers, Existing
<1>6. builds' = [builds EXCEPT ![b].status = "building"]
      BY <1>5 DEF RetryInPlace
<1>7. /\ builds' \in [Builds -> [status : BuildStatuses, chunks : SUBSET Chunks]]
      /\ builds'[b].status = "building" /\ builds'[b].chunks = builds[b].chunks
      /\ \A x \in Builds \ {b} : builds'[x] = builds[x]
      BY <1>4, <1>6 DEF BuildStatuses
<1>8. \A x \in Builds :
        /\ builds'[x].chunks = builds[x].chunks
        /\ builds'[x].status = "none" <=> builds[x].status = "none"
      BY <1>1, <1>5, <1>7
<1>9. /\ config' \in Configs /\ config'.status = "building"
      /\ config'.build = b /\ config'.active = config.active
      BY <1>5 DEF RetryInPlace, GraphInv, RowTypes, Configs, ConfigStatuses
<1>10. Filling /\ Filling'
      BY <1>1, <1>9 DEF Filling
<1>11. \A x \in Builds : builds'[x].status = "building" => x = config'.build
      BY <1>5, <1>7, <1>9 DEF GraphInv, OneOpenBuild
<1>12. config.active # NoBuild => /\ config.active \in Builds
                                  /\ builds[config.active].status = "ready"
                                  /\ config.active <= config.build
      BY DEF GraphInv, RowTypes, Configs, Generations
<1>13. config.active # NoBuild => builds'[config.active] = builds[config.active]
      BY <1>1, <1>5, <1>7, <1>12
<1>14. ActiveBuildIsWhole'
      BY <1>1, <1>9, <1>12, <1>13 DEF GraphInv, ActiveBuildIsWhole
<1>15. config'.active # NoBuild => /\ builds'[config'.active].status = "ready"
                                   /\ config'.active <= config'.build
      BY <1>5, <1>9, <1>12, <1>13
<1>16. /\ RowTypes' /\ Pointers' /\ Generations' /\ Inputs'
       /\ OneOpenBuild' /\ ActiveBuildIsWhole'
      BY <1>1, <1>2, <1>3, <1>5, <1>7, <1>8, <1>9, <1>10, <1>11, <1>14, <1>15, StatusStep
<1> QED
    BY <1>2, <1>3, <1>16 DEF GraphInv

-----------------------------------------------------------------------------
(* Rotations asked for by the API and by promotion.                        *)

(* The active generation is not the failed one that a rotation closes.     *)
LEMMA LeftBehindIsNotActive ==
  ASSUME GraphInv
  PROVE  config.active \notin LeftBehind /\ Renewed \in Configs
         /\ Renewed.active = config.active
<1>1. Renewed \in Configs /\ Renewed.active = config.active
      BY DEF Renewed, GraphInv, RowTypes, Configs
<1>2. config.active \notin LeftBehind
  <2>1. SUFFICES ASSUME config.status = "failed" PROVE config.active # config.build
        BY DEF LeftBehind
  <2>2. builds[config.build].status \in {"building", "failed"}
        BY <2>1 DEF GraphInv, Generations, Filling
  <2>3. config.build \in Builds /\ NoBuild \notin Builds
        BY <2>1, GraphConstants DEF GraphInv, Pointers, Existing, Builds, NoBuild
  <2> QED
      BY <2>2, <2>3 DEF GraphInv, Generations
<1> QED
    BY <1>1, <1>2

(* The graph is configured, or retried with a new generation.              *)
LEMMA ApiRotatesStep ==
  ASSUME GraphInv, \E yes \in BOOLEAN : Configure(yes) \/ RetryRotates(yes)
  PROVE  GraphInv'
<1>1. /\ UNCHANGED <<mapped, lease, graph, work, kb, chunk, events>>
      /\ Rotate(Renewed, LeftBehind, Eligible)
      /\ doomed' = doomed \cup Retired /\ Retired \subseteq Builds
      BY DEF Configure, RetryRotates, ApiFrame, Retired
<1>2. /\ Eligible' = Eligible /\ ContentTypes' /\ GraphTypes'
      /\ \A c \in Chunks : chunk[c] = "purged" => chunk'[c] = "purged"
      BY <1>1, RowsOnly
<1>3. LeaseTypes' /\ WorkTypes'
      BY <1>1 DEF GraphInv, LeaseTypes, WorkTypes
<1>4. Eligible \in SUBSET Chunks
      BY DEF Eligible
<1>5. /\ RowTypes' /\ Pointers' /\ Generations' /\ Inputs'
      /\ OneOpenBuild' /\ ActiveBuildIsWhole'
      BY <1>1, <1>2, <1>4, LeftBehindIsNotActive, RotateStep
<1> QED
    BY <1>2, <1>3, <1>5 DEF GraphInv

(* A new version is promoted.                                              *)
LEMMA PromoteStep ==
  ASSUME GraphInv, NEW gone, NEW new, Promote(gone, new)
  PROVE  GraphInv'
<1>1. /\ UNCHANGED <<kb, mapped, lease, graph, doomed, work>>
      /\ events' \in 0 .. MaxEvents
      BY CountedEvent DEF Promote, ContentFrame
<1>2. chunk' = [c \in Chunks |-> IF c \in new THEN "serving"
                                 ELSE IF c \in gone THEN "withdrawn" ELSE chunk[c]]
      BY DEF Promote
<1>3. chunk' \in [Chunks -> ChunkStates]
      BY <1>2 DEF ChunkStates, GraphInv, ContentTypes
<1>4. \A c \in Chunks : chunk[c] = "purged" => chunk'[c] = "purged"
      BY <1>2 DEF Promote, Eligible
<1>5. ContentTypes' /\ GraphTypes' /\ LeaseTypes' /\ WorkTypes'
      BY <1>1, <1>3 DEF GraphInv, ContentTypes, GraphTypes, LeaseTypes, WorkTypes
<1>6. CASE config.status = "disabled" /\ UNCHANGED <<config, builds>>
  <2>1. config' \in Configs /\ ~Filling /\ ~Filling' /\ config.active = NoBuild
        BY <1>6 DEF GraphInv, RowTypes, Filling, Generations
  <2>2. Existing' = Existing
        BY <1>6 DEF Existing
  <2>3. RowTypes' /\ Pointers' /\ Generations' /\ OneOpenBuild'
        BY <1>1, <1>6, <2>1, <2>2 DEF GraphInv, RowTypes, Pointers, Generations, OneOpenBuild
  <2>4. Inputs' /\ ActiveBuildIsWhole'
        BY <1>6, <2>1 DEF Inputs, ActiveBuildIsWhole
  <2> QED
      BY <1>5, <2>3, <2>4 DEF GraphInv
<1>7. CASE Rotate(Renewed, LeftBehind, Eligible')
  <2>1. Eligible' \in SUBSET Chunks
        BY DEF Eligible
  <2>2. PICK chunks \in SUBSET Chunks : chunks = Eligible'
        BY <2>1
  <2>3. /\ RowTypes' /\ Pointers' /\ Generations' /\ Inputs'
        /\ OneOpenBuild' /\ ActiveBuildIsWhole'
        BY <1>1, <1>4, <1>7, <2>2, LeftBehindIsNotActive, RotateStep
  <2> QED
      BY <1>5, <2>3 DEF GraphInv
<1> QED
    BY <1>6, <1>7 DEF Promote

-----------------------------------------------------------------------------
(* The content, the external graph, leases and time.                       *)

(* Chunks cease to be served.                                              *)
LEMMA ContentStep ==
  ASSUME GraphInv,
         \/ \E c \in Chunks : Exclude(c)
         \/ \E gone \in SUBSET Chunks : Withdraw(gone)
         \/ DeleteKnowledgeBase
  PROVE  GraphInv'
<1>1. /\ UNCHANGED <<config, builds, mapped, lease, graph, doomed, work>>
      /\ events' \in 0 .. MaxEvents
      BY CountedEvent DEF Exclude, Withdraw, DeleteKnowledgeBase, ContentFrame
<1>2. kb' \in {kb, "deleted"} /\ chunk' \in [Chunks -> ChunkStates]
      BY DEF Exclude, Withdraw, DeleteKnowledgeBase, GraphInv, ContentTypes, ChunkStates
<1>3. \A c \in Chunks : /\ chunk[c] = "purged" => chunk'[c] = "purged"
                        /\ chunk'[c] = "serving" => chunk[c] = "serving"
  <2>1. chunk \in [Chunks -> ChunkStates]
        BY DEF GraphInv, ContentTypes
  <2>2. CASE \E c \in Chunks : Exclude(c)
        BY <2>1, <2>2 DEF Exclude, Eligible
  <2>3. CASE \E gone \in SUBSET Chunks : Withdraw(gone)
        BY <2>1, <2>3 DEF Withdraw, Eligible
  <2>4. CASE DeleteKnowledgeBase
        BY <2>1, <2>4 DEF DeleteKnowledgeBase
  <2> QED
      BY <2>2, <2>3, <2>4
<1>4. Eligible' \subseteq Eligible
      BY <1>2, <1>3 DEF Eligible
<1>5. ContentTypes' /\ GraphTypes' /\ LeaseTypes' /\ WorkTypes'
      BY <1>1, <1>2 DEF GraphInv, ContentTypes, GraphTypes, LeaseTypes, WorkTypes
<1>6. /\ config' \in Configs /\ (Filling' <=> Filling)
      /\ \A w \in Workers : Sound(work'[w])
      BY <1>1, WorkersAreSound DEF GraphInv, RowTypes, Filling
<1> QED
    BY <1>1, <1>3, <1>4, <1>5, <1>6, RowsStay DEF GraphInv

(* Maintenance purges a withdrawn chunk.                                   *)
LEMMA PurgeStep ==
  ASSUME GraphInv, NEW c \in Chunks, Purge(c)
  PROVE  GraphInv'
<1>1. /\ UNCHANGED <<kb, config, builds, graph, doomed, work>>
      /\ events' \in 0 .. MaxEvents
      /\ chunk[c] = "withdrawn"
      /\ chunk'  = [chunk EXCEPT ![c] = "purged"]
      BY CountedEvent DEF Purge
<1>2. /\ chunk' \in [Chunks -> ChunkStates] /\ chunk'[c] = "purged"
      /\ \A d \in Chunks \ {c} : chunk'[d] = chunk[d]
      BY <1>1 DEF GraphInv, ContentTypes, ChunkStates
<1>3. Eligible' = Eligible
      BY <1>1, <1>2 DEF Eligible
<1>4. /\ mapped' \in [Builds -> SUBSET Chunks]
      /\ \A b \in Builds : mapped'[b] = mapped[b] \ {c}
      BY DEF Purge, GraphInv, RowTypes
<1>5. LeaseTypes'
      BY DEF Purge, GraphInv, LeaseTypes, Leases, NoLease
<1>6. ContentTypes' /\ GraphTypes' /\ WorkTypes'
      BY <1>1, <1>2 DEF GraphInv, ContentTypes, GraphTypes, WorkTypes
<1>7. Existing' = Existing /\ (Filling' <=> Filling)
      BY <1>1 DEF Existing, Filling
<1>8. RowTypes' /\ Pointers' /\ OneOpenBuild'
      BY <1>1, <1>4, <1>7 DEF GraphInv, RowTypes, Pointers, OneOpenBuild
<1>9. Generations'
      BY <1>1, <1>4, <1>7 DEF GraphInv, Generations
<1>10. Filling => config.build \in Builds
      BY DEF GraphInv, Pointers, Existing, Filling
<1>11. Inputs'
      BY <1>1, <1>3, <1>4, <1>7, <1>10 DEF GraphInv, Inputs
<1>12. ActiveBuildIsWhole'
  <2>1. SUFFICES ASSUME config.active # NoBuild PROVE ActiveBuildIsWhole'
        BY <1>1 DEF ActiveBuildIsWhole
  <2>2. config.active \in Builds
        BY <2>1 DEF GraphInv, RowTypes, Configs
  <2>3. builds[config.active].chunks \subseteq Chunks
        BY <2>2 DEF GraphInv, RowTypes
  <2> QED
      BY <1>1, <1>2, <1>4, <2>1, <2>2, <2>3 DEF GraphInv, ActiveBuildIsWhole
<1> QED
    BY <1>5, <1>6, <1>8, <1>9, <1>11, <1>12 DEF GraphInv

(* An external graph is deleted, a lease expires or is reconciled, or the  *)
(* code is upgraded.                                                       *)
LEMMA OutsideStep ==
  ASSUME GraphInv,
         \/ \E b \in Builds : DeleteGraph(b) \/ Expire(b) \/ Stall(b) \/ Reconcile(b)
         \/ Upgrade
  PROVE  GraphInv'
<1>1. UNCHANGED <<kb, chunk, builds, mapped, work>>
      BY DEF DeleteGraph, Expire, Stall, Reconcile, Upgrade, rowVars, WorkerFrame
<1>2. events' \in 0 .. MaxEvents
      BY CountedEvent DEF DeleteGraph, Expire, Stall, Reconcile, Upgrade, rowVars,
         WorkerFrame, GraphInv, ContentTypes
<1>3. Eligible' = Eligible /\ ContentTypes' /\ WorkTypes'
      BY <1>1, <1>2 DEF Eligible, GraphInv, ContentTypes, WorkTypes
<1>4. \A c \in Chunks : chunk[c] = "purged" => chunk'[c] = "purged"
      BY <1>1
<1>5. \A w \in Workers : Sound(work'[w])
      BY <1>1, WorkersAreSound
<1>6. /\ config' \in Configs /\ config'.status = config.status
      /\ config'.build = config.build /\ config'.active = config.active
  <2>1. CASE Upgrade
        BY <2>1 DEF Upgrade, GraphInv, RowTypes, Configs
  <2>2. CASE UNCHANGED config
        BY <2>2 DEF GraphInv, RowTypes
  <2> QED
      BY <2>1, <2>2 DEF DeleteGraph, Expire, Stall, Reconcile, rowVars
<1>7. Filling' <=> Filling
      BY <1>6 DEF Filling
<1>8. LeaseTypes'
  <2>1. CASE \E b \in Builds : Expire(b) \/ Stall(b) \/ Reconcile(b)
    <3>1. PICK b \in Builds : lease' \in {[lease EXCEPT ![b].fresh = FALSE],
                                         [lease EXCEPT ![b] = NoLease]}
          BY <2>1 DEF Expire, Stall, Reconcile
    <3>2. NoLease \in Leases /\ lease \in [Builds -> Leases]
          BY DEF NoLease, Leases, GraphInv, LeaseTypes
    <3>3. [lease EXCEPT ![b].fresh = FALSE] \in [Builds -> Leases]
          BY <3>2 DEF Leases
    <3>4. [lease EXCEPT ![b] = NoLease] \in [Builds -> Leases]
          BY <3>2
    <3> QED
        BY <3>1, <3>3, <3>4 DEF LeaseTypes
  <2>2. CASE UNCHANGED lease
        BY <2>2 DEF GraphInv, LeaseTypes
  <2> QED
      BY <2>1, <2>2 DEF DeleteGraph, Upgrade, rowVars
<1>9. GraphTypes'
  <2>1. CASE \E b \in Builds : DeleteGraph(b)
        BY <2>1 DEF DeleteGraph, GraphInv, GraphTypes, EpisodeStates
  <2>2. CASE UNCHANGED <<graph, doomed>>
        BY <2>2 DEF GraphInv, GraphTypes
  <2> QED
      BY <2>1, <2>2 DEF Expire, Stall, Reconcile, Upgrade
<1> QED
    BY <1>1, <1>3, <1>4, <1>5, <1>6, <1>7, <1>8, <1>9, RowsStay DEF GraphInv

-----------------------------------------------------------------------------
(* Every step of the system keeps the invariant.                           *)
LEMMA StepInv == GraphInv /\ [GraphNext]_vars => GraphInv'
<1> SUFFICES ASSUME GraphInv, [GraphNext]_vars PROVE GraphInv'
    OBVIOUS
<1>1. CASE Disable \/ ClaimRetires
      BY <1>1, RetireStep
<1>2. CASE RetryInPlace
      BY <1>2, RetryInPlaceStep
<1>3. CASE \E yes \in BOOLEAN : Configure(yes) \/ RetryRotates(yes)
      BY <1>3, ApiRotatesStep
<1>4. CASE \E gone, new \in SUBSET Chunks : Promote(gone, new)
      BY <1>4, PromoteStep
<1>5. CASE \/ \E c \in Chunks : Exclude(c)
           \/ \E gone \in SUBSET Chunks : Withdraw(gone)
           \/ DeleteKnowledgeBase
      BY <1>5, ContentStep
<1>6. CASE \E c \in Chunks : Purge(c)
      BY <1>6, PurgeStep
<1>7. CASE ClaimRefuses \/ \E w \in Workers : Claim(w)
      BY <1>7, ClaimStep
<1>8. ASSUME NEW w \in Workers, Process(w) \/ Crash(w) PROVE GraphInv'
      BY <1>8, PreflightStep, ItemStep, SaveBatchStep, MarkFailedStep,
         FinalizeRotatesStep, PublishStep DEF Process
<1>9. CASE \/ \E b \in Builds : DeleteGraph(b) \/ Expire(b) \/ Stall(b) \/ Reconcile(b)
           \/ Upgrade
      BY <1>9, OutsideStep
<1>10. CASE UNCHANGED vars
  <2>1. UNCHANGED <<kb, chunk, config, builds, mapped, lease, graph, doomed, work, events>>
        BY <1>10 DEF vars, rowVars
  <2>2. ContentTypes' /\ GraphTypes' /\ LeaseTypes' /\ WorkTypes' /\ RowTypes'
        BY <2>1 DEF GraphInv, ContentTypes, GraphTypes, LeaseTypes, WorkTypes, RowTypes
  <2>3. Eligible' = Eligible /\ config' \in Configs /\ (Filling' <=> Filling)
        BY <2>1 DEF Eligible, GraphInv, RowTypes, Filling
  <2>4. \A w \in Workers : Sound(work'[w])
        BY <2>1, WorkersAreSound
  <2> QED
      BY <2>1, <2>2, <2>3, <2>4, RowsStay DEF GraphInv
<1> QED
    BY <1>1, <1>2, <1>3, <1>4, <1>5, <1>6, <1>7, <1>8, <1>9, <1>10 DEF GraphNext

(* The invariant holds in every state of the system.                       *)
THEOREM Invariant == GraphSafety => []GraphInv
  BY InitInv, StepInv, PTL DEF GraphSafety

(* Every variable keeps its type, and what is at work or configured names  *)
(* an existing generation.                                                 *)
THEOREM GraphTyped == GraphSafety => []GraphTypeOK
  BY Invariant, InvImplies, PTL

(* Whatever rotates the configuration - the API, promotion or a worker -   *)
(* there is never a second generation that workers would fill.             *)
THEOREM OneIsOpen == GraphSafety => []OneOpenBuild
  BY Invariant, InvImplies, PTL

(* The generation that answers questions has its whole frozen input        *)
(* mapped, and nothing else, but for what maintenance purged.              *)
THEOREM ActiveIsWhole == GraphSafety => []ActiveBuildIsWhole
  BY Invariant, InvImplies, PTL

-----------------------------------------------------------------------------
(* What a step may do to the generations.                                  *)

ClosedKept(b) ==
  /\ builds[b].status \in {"ready", "superseded"} => mapped'[b] \subseteq mapped[b]
  /\ builds[b].status = "superseded" => builds'[b] = builds[b]
  /\ builds[b].status = "ready" => builds'[b].status \in {"ready", "superseded"}
Resumed(b) == builds[b].status = "failed" /\ builds'[b].status = "building"
Published  == config'.active \notin {config.active, NoBuild}

(* A rotation publishes and resumes nothing.                               *)
LEMMA RotationKeeps ==
  ASSUME GraphInv, NEW row \in Configs, row.active = config.active, NEW closed,
         NEW chunks \in SUBSET Chunks, Rotate(row, closed, chunks), mapped' = mapped
  PROVE  ~Published /\ \A b \in Builds : ClosedKept(b) /\ ~Resumed(b)
<1>1. PICK n \in Builds : NewGeneration(row, closed, chunks, n)
      BY RotateCreates
<1>2. config'.active = config.active
      BY <1>1 DEF NewGeneration, Configs
<1>3. builds[n].status = "none"
      BY <1>1 DEF NewGeneration, Existing
<1>4. ASSUME NEW b \in Builds PROVE ClosedKept(b) /\ ~Resumed(b)
  <2>1. CASE b = n
        BY <1>3, <2>1 DEF ClosedKept, Resumed
  <2>2. CASE b # n
        BY <1>1, <2>2 DEF NewGeneration, ClosedKept, Resumed
  <2> QED
      BY <2>1, <2>2
<1> QED
    BY <1>2, <1>4 DEF Published

(* Only a retry in place resumes a generation, only a worker that          *)
(* finalizes publishes one, and none touches a closed one.                 *)
LEMMA GenerationSteps ==
  ASSUME GraphInv, [GraphNext]_vars
  PROVE  /\ \A b \in Builds : ClosedKept(b)
         /\ \A b \in Builds : Resumed(b) => RetryInPlace /\ b = config.build
         /\ Published => \E w \in Workers : Publish(w)
<1>0. builds \in [Builds -> [status : BuildStatuses, chunks : SUBSET Chunks]]
      BY DEF GraphInv, RowTypes
<1>1. ASSUME \E yes \in BOOLEAN : Configure(yes) \/ RetryRotates(yes)
      PROVE  ~Published /\ \A b \in Builds : ClosedKept(b) /\ ~Resumed(b)
  <2>1. mapped' = mapped /\ Rotate(Renewed, LeftBehind, Eligible)
        BY <1>1 DEF Configure, RetryRotates, ApiFrame
  <2>2. Eligible \in SUBSET Chunks
        BY DEF Eligible
  <2> QED
      BY <2>1, <2>2, LeftBehindIsNotActive, RotationKeeps
<1>2. ASSUME \/ UNCHANGED <<builds, mapped>> /\ config'.active = config.active
             \/ \E c \in Chunks : Purge(c)
      PROVE  ~Published /\ \A b \in Builds : ClosedKept(b) /\ ~Resumed(b)
  <2>1. /\ builds' = builds /\ config'.active = config.active
        /\ \A b \in Builds : mapped'[b] \subseteq mapped[b]
        BY <1>2 DEF Purge, GraphInv, RowTypes
  <2> QED
      BY <2>1 DEF ClosedKept, Resumed, Published
<1>3. ASSUME NEW gone, NEW new, Promote(gone, new)
      PROVE  ~Published /\ \A b \in Builds : ClosedKept(b) /\ ~Resumed(b)
  <2>1. mapped' = mapped
        BY <1>3 DEF Promote, ContentFrame
  <2>2. CASE UNCHANGED <<config, builds>>
        BY <1>2, <2>1, <2>2
  <2>3. CASE Rotate(Renewed, LeftBehind, Eligible')
    <3>1. PICK chunks \in SUBSET Chunks : chunks = Eligible'
          BY DEF Eligible
    <3> QED
        BY <2>1, <2>3, <3>1, LeftBehindIsNotActive, RotationKeeps
  <2> QED
      BY <1>3, <2>2, <2>3 DEF Promote
<1>4. ASSUME Disable \/ ClaimRetires
      PROVE  ~Published /\ \A b \in Builds : ClosedKept(b) /\ ~Resumed(b)
  <2>1. mapped' = mapped /\ builds' = RetireAll
        BY <1>4 DEF Disable, ClaimRetires, ApiFrame
  <2>2. config'.active = NoBuild
    <3>1. config \in Configs
          BY DEF GraphInv, RowTypes
    <3>2. CASE Disable
          BY <3>2 DEF Disable, Disabled
    <3>3. CASE ClaimRetires
          BY <3>1, <3>3 DEF ClaimRetires, Configs
    <3> QED
        BY <1>4, <3>2, <3>3
  <2> QED
      BY <1>0, <2>1, <2>2 DEF RetireAll, ClosedKept, Resumed, Published
<1>5. ASSUME RetryInPlace
      PROVE  ~Published /\ \A b \in Builds : ClosedKept(b) /\ (Resumed(b) => b = config.build)
  <2>1. /\ mapped' = mapped /\ builds[config.build].status = "failed"
        /\ builds' = [builds EXCEPT ![config.build].status = "building"]
        /\ config' = [config EXCEPT !.status = "building"]
        BY <1>5 DEF RetryInPlace, Resumable, ApiFrame
  <2>2. config'.active = config.active
        BY <2>1 DEF GraphInv, RowTypes, Configs
  <2> QED
      BY <1>0, <2>1, <2>2 DEF ClosedKept, Resumed, Published
<1>6. ASSUME NEW w \in Workers, FinalizeRotates(w)
      PROVE  ~Published /\ \A b \in Builds : ClosedKept(b) /\ ~Resumed(b)
  <2>1. mapped' = mapped /\ Rotate(config, {work[w].build}, Eligible)
        BY <1>6 DEF FinalizeRotates
  <2>2. config \in Configs /\ Eligible \in SUBSET Chunks
        BY DEF GraphInv, RowTypes, Eligible
  <2> QED
      BY <2>1, <2>2, RotationKeeps
<1>7. ASSUME NEW w \in Workers, Publish(w)
      PROVE  \A b \in Builds : ClosedKept(b) /\ ~Resumed(b)
  <2>1. PICK old : old = Superseded(builds, {config.active})
        OBVIOUS
  <2>2. /\ mapped' = mapped /\ builds' = [old EXCEPT ![work[w].build].status = "ready"]
        /\ builds[work[w].build].status = "building"
        BY <1>7, <2>1, FinalizableBuild DEF Publish
  <2>3. /\ old \in [Builds -> [status : BuildStatuses, chunks : SUBSET Chunks]]
        /\ \A b \in Builds : \/ old[b] = builds[b]
                             \/ /\ builds[b].status # "superseded"
                                /\ old[b].status = "superseded"
        BY <1>0, <2>1 DEF Superseded, BuildStatuses
  <2>4. ASSUME NEW b \in Builds PROVE ClosedKept(b) /\ ~Resumed(b)
    <3>1. CASE b = work[w].build
          BY <2>2, <2>3, <3>1 DEF ClosedKept, Resumed
    <3>2. CASE b # work[w].build
      <4>1. builds'[b] = old[b]
            BY <2>2, <2>3, <3>2
      <4> QED
          BY <2>2, <2>3, <4>1 DEF ClosedKept, Resumed
    <3> QED
        BY <3>1, <3>2
  <2> QED
      BY <2>4
<1>8. ASSUME NEW w \in Workers, MarkFailed(w)
      PROVE  ~Published /\ \A b \in Builds : ClosedKept(b) /\ ~Resumed(b)
  <2>1. mapped' = mapped /\ config'.active = config.active
        BY <1>8 DEF MarkFailed, GraphInv, RowTypes, Configs
  <2>2. \A b \in Builds : \/ builds'[b] = builds[b]
                          \/ /\ builds[b].status = "building"
                             /\ builds'[b].status = "failed"
        BY <1>0, <1>8 DEF MarkFailed
  <2> QED
      BY <2>1, <2>2 DEF ClosedKept, Resumed, Published
<1>9. ASSUME NEW w \in Workers, SaveBatch(w)
      PROVE  ~Published /\ \A b \in Builds : ClosedKept(b) /\ ~Resumed(b)
  <2>1. UNCHANGED <<config, builds>>
        BY <1>9 DEF SaveBatch
  <2>2. \A b \in Builds : mapped'[b] = mapped[b] \/ builds[b].status = "building"
        BY <1>9 DEF SaveBatch, Savable, GraphInv, RowTypes
  <2> QED
      BY <2>1, <2>2 DEF ClosedKept, Resumed, Published
<1>10. ASSUME \E w \in Workers : \/ LoadBatch(w) \/ Ingest(w) \/ Extract(w) \/ ReadyProbe(w)
                                 \/ FinalizeStops(w) \/ Raise(w) \/ Release(w) \/ Crash(w)
       PROVE  UNCHANGED <<builds, mapped>> /\ config'.active = config.active
       BY <1>10 DEF LoadBatch, Ingest, Extract, ReadyProbe, FinalizeStops, Raise, Release,
          Crash, rowVars
<1>11. ASSUME \/ \E w \in Workers : Claim(w) \/ Preflight(w)
              \/ ClaimRefuses \/ Upgrade
       PROVE  UNCHANGED <<builds, mapped>> /\ config'.active = config.active
       BY <1>11 DEF Claim, Preflight, ClaimRefuses, Upgrade, GraphInv, RowTypes, Configs
<1>12. ASSUME \/ \E c \in Chunks : Exclude(c)
              \/ \E gone \in SUBSET Chunks : Withdraw(gone)
              \/ DeleteKnowledgeBase
              \/ \E b \in Builds : DeleteGraph(b) \/ Expire(b) \/ Stall(b) \/ Reconcile(b)
              \/ UNCHANGED vars
       PROVE  UNCHANGED <<builds, mapped>> /\ config'.active = config.active
       BY <1>12 DEF Exclude, Withdraw, DeleteKnowledgeBase, ContentFrame, DeleteGraph,
          Expire, Stall, Reconcile, vars, rowVars
<1> QED
    BY <1>1, <1>2, <1>3, <1>4, <1>5, <1>6, <1>7, <1>8, <1>9, <1>10, <1>11, <1>12
       DEF GraphNext, Process

(* A generation once READY or superseded takes no further mapping and is   *)
(* never reopened, however late the worker that would.                     *)
THEOREM ClosedStayClosed == GraphSafety => ClosedBuildsStayClosed
<1>1. GraphInv /\ [GraphNext]_vars =>
        [\A b \in Builds :
           /\ builds[b].status \in {"ready", "superseded"} =>
                mapped'[b] \subseteq mapped[b]
           /\ builds[b].status = "superseded" => builds'[b] = builds[b]
           /\ builds[b].status = "ready" =>
                builds'[b].status \in {"ready", "superseded"}]_vars
      BY GenerationSteps DEF ClosedKept
<1> QED
    BY <1>1, Invariant, PTL DEF GraphSafety, ClosedBuildsStayClosed

(* A failed generation is resumed only while its input is unchanged.       *)
THEOREM UnchangedResume == GraphSafety => OnlyUnchangedBuildsResume
<1>1. GraphInv /\ [GraphNext]_vars =>
        [\A b \in Builds :
           builds[b].status = "failed" /\ builds'[b].status = "building" =>
             Unchanged(b)]_vars
      BY GenerationSteps DEF Resumed, RetryInPlace, Resumable
<1> QED
    BY <1>1, Invariant, PTL DEF GraphSafety, OnlyUnchangedBuildsResume

(* What is published is newer than what it replaces, and was built from    *)
(* exactly what is served at that moment.                                  *)
THEOREM PublicationCurrent == GraphSafety => PublicationIsCurrent
<1>1. ASSUME GraphInv, NEW w \in Workers, Publish(w)
      PROVE  /\ config'.active > config.active
             /\ builds[config'.active].chunks = Eligible
  <2>1. /\ config'.active = work[w].build /\ work[w].build \in Builds
        /\ work[w].build = config.build /\ config.active # work[w].build
        BY <1>1, FinalizableBuild DEF Publish, GraphInv, RowTypes, Configs
  <2>2. Unchanged(work[w].build)
        BY <1>1 DEF Publish, Matches
  <2>3. config.active \in Nat /\ work[w].build \in Nat /\ work[w].build > 0
        BY <1>1, <2>1, GraphConstants DEF GraphInv, RowTypes, Configs, Builds, NoBuild
  <2>4. config.active = 0 \/ config.active <= config.build
        BY <1>1 DEF GraphInv, Generations, NoBuild
  <2> QED
      BY <2>1, <2>2, <2>3, <2>4 DEF Unchanged
<1>2. GraphInv /\ [GraphNext]_vars =>
        [config'.active \notin {config.active, NoBuild} =>
           /\ config'.active > config.active
           /\ builds[config'.active].chunks = Eligible]_vars
      BY <1>1, GenerationSteps DEF Published
<1> QED
    BY <1>2, Invariant, PTL DEF GraphSafety, PublicationIsCurrent

(* A step that is not a worker's leaves the workers alone; a worker's      *)
(* leaves the others alone, and without a live lease it leaves the         *)
(* configuration, the builds and the mapping alone too.                    *)
LEMMA LateSteps ==
  ASSUME GraphInv, [GraphNext]_vars, NEW w \in Workers,
         work[w].step # "idle", ~Owns(w), work'[w] # work[w]
  PROVE  UNCHANGED <<config, builds, mapped>>
<1>1. work \in [Workers -> Works]
      BY DEF GraphInv, WorkTypes
<1>2. \/ \E v \in Workers : Claim(v) \/ Process(v) \/ Crash(v)
      \/ UNCHANGED work
      BY DEF GraphNext, Disable, RetryInPlace, Configure, RetryRotates, ApiFrame,
         DeleteGraph, Promote, Withdraw, Exclude, Purge, DeleteKnowledgeBase,
         ContentFrame, ClaimRetires, ClaimRefuses, Expire, Stall, Reconcile, Upgrade, vars
<1>3. PICK v \in Workers : Claim(v) \/ Process(v) \/ Crash(v)
      BY <1>2
<1>4. \E item \in {work'[v]} : work' = [work EXCEPT ![v] = item]
  <2>1. CASE Claim(v) \/ Release(v) \/ Crash(v)
        BY <1>1, <2>1 DEF Claim, Release, Crash
  <2>2. CASE \/ Preflight(v) \/ SaveBatch(v) \/ FinalizeStops(v) \/ FinalizeRotates(v)
             \/ Publish(v) \/ Raise(v) \/ MarkFailed(v)
        BY <1>1, <2>2 DEF Preflight, SaveBatch, FinalizeStops, FinalizeRotates, Publish,
           Raise, MarkFailed, Leave
  <2>3. CASE Ingest(v) \/ Extract(v) \/ ReadyProbe(v)
        BY <1>1, <2>3 DEF Ingest, Extract, ReadyProbe, Step
  <2>4. CASE LoadBatch(v)
    <3>1. PICK batch \in SUBSET Chunks :
            \E s \in WorkSteps, pending \in SUBSET Chunks :
              work' = [work EXCEPT ![v].step = s, ![v].batch = batch,
                                   ![v].pending = pending, ![v].todo = pending]
          BY <2>4, BatchesLoaded
    <3> QED
        BY <1>1, <3>1
  <2> QED
      BY <1>3, <2>1, <2>2, <2>3, <2>4 DEF Process
<1>5. v = w
      BY <1>1, <1>4
<1>6. ~Claim(v)
      BY <1>5 DEF Claim
<1>7. CASE \/ LoadBatch(w) \/ Ingest(w) \/ Extract(w) \/ ReadyProbe(w)
           \/ FinalizeStops(w) \/ Raise(w) \/ Release(w) \/ Crash(w)
      BY <1>7 DEF LoadBatch, Ingest, Extract, ReadyProbe, FinalizeStops, Raise, Release,
         Crash, rowVars
<1>8. CASE Preflight(w) \/ SaveBatch(w) \/ MarkFailed(w)
      BY <1>8 DEF Preflight, SaveBatch, Savable, MarkFailed
<1>9. CASE FinalizeRotates(w) \/ Publish(w)
      BY <1>9 DEF FinalizeRotates, Publish, Finalizable
<1> QED
    BY <1>3, <1>5, <1>6, <1>7, <1>8, <1>9 DEF Process

(* A worker whose lease expired, was taken over or was dropped changes no  *)
(* row of the configuration, the builds or the mapping.                    *)
THEOREM LateWorkersHarmless == GraphSafety => LateWorkersChangeNothing
<1>1. GraphInv /\ [GraphNext]_vars =>
        [\A w \in Workers :
           work[w].step # "idle" /\ ~Owns(w) /\ work'[w] # work[w] =>
             UNCHANGED <<config, builds, mapped>>]_vars
      BY LateSteps
<1> QED
    BY <1>1, Invariant, PTL DEF GraphSafety, LateWorkersChangeNothing

-----------------------------------------------------------------------------
(* The external graphs, while one worker at a time is at work.             *)

(* At most one worker is at work.                                          *)
LoneWorker == \A v, w \in Workers :
  work[v].step # "idle" /\ work[w].step # "idle" => v = w

(* A generation that is served, open or could be resumed.                  *)
Alive(b) == \/ builds[b].status \in {"building", "ready"}
            \/ builds[b].status = "failed" /\ b = config.build

(* Its external graph is not deleted, and has what is mapped of it.        *)
GraphsAreKept ==
  /\ doomed \subseteq Existing
  /\ \A b \in Builds : Alive(b) => b \notin doomed /\ mapped[b] \subseteq Episodes(b)

(* What a worker has yet to write is not mapped; what it has written, of a *)
(* generation that is alive, is in the external graph.                     *)
ItemKept(item) ==
  /\ item.step \in {"load", "ingest", "extract"} => item.batch \cap mapped[item.build] = {}
  /\ item.step \in {"ingest", "extract"} =>
       /\ item.todo \subseteq item.pending /\ item.pending \subseteq item.batch
       /\ Alive(item.build) => item.batch \ item.pending \subseteq Episodes(item.build)
  /\ item.step = "save" /\ Alive(item.build) => item.batch \subseteq Episodes(item.build)
BatchesAreKept == \A w \in Workers : ItemKept(work[w])

(* It implies that the graph that answers questions survives.              *)
LEMMA KeptServes == GraphInv /\ GraphsAreKept => ServedGraphSurvives
  BY DEF GraphInv, GraphsAreKept, ServedGraphSurvives, Alive, Generations, RowTypes, Configs

-----------------------------------------------------------------------------
(* What comes alive in a step is a new generation with nothing mapped, and *)
(* nothing that stays alive is handed over to be deleted.                  *)
LifeGoesOn ==
  /\ \A b \in Builds : Alive(b)' =>
       /\ Alive(b) \/ (b \notin Existing /\ mapped'[b] = {})
       /\ b \in doomed' => b \in doomed
  /\ Existing \subseteq Existing' /\ doomed' \subseteq doomed \cup Existing'

(* A rotation.                                                             *)
LEMMA RotationLives ==
  ASSUME GraphInv, NEW row \in Configs, NEW closed, NEW chunks \in SUBSET Chunks,
         Rotate(row, closed, chunks), mapped' = mapped,
         doomed' = doomed \/ doomed' = doomed \cup Retired
  PROVE  LifeGoesOn
<1>1. PICK n \in Builds : NewGeneration(row, closed, chunks, n)
      BY RotateCreates
<1>2. builds[n].status = "none" /\ mapped[n] = {} /\ n \notin Existing
      BY <1>1 DEF NewGeneration, Existing, GraphInv, Generations
<1>3. config'.build = n
      BY <1>1 DEF NewGeneration, Configs
<1>4. \A b \in Builds \ {n} : Alive(b)' => Alive(b)
      BY <1>1, <1>3 DEF NewGeneration, Alive
<1>5. Existing \subseteq Existing'
      BY <1>1, <1>2 DEF NewGeneration, Existing
<1>6. \A b \in Retired : b \in Existing' /\ ~Alive(b)'
      BY DEF Retired, Existing, Alive
<1> QED
    BY <1>2, <1>4, <1>5, <1>6 DEF LifeGoesOn

(* Any step.                                                               *)
LEMMA LifeSteps ==
  ASSUME GraphInv, [GraphNext]_vars
  PROVE  LifeGoesOn
<1>0. /\ builds \in [Builds -> [status : BuildStatuses, chunks : SUBSET Chunks]]
      /\ config \in Configs /\ Eligible \in SUBSET Chunks /\ Eligible' \in SUBSET Chunks
      /\ NoBuild \notin Builds
      BY DEF GraphInv, RowTypes, Eligible, NoBuild, Builds
<1>1. ASSUME /\ \A b \in Builds : \/ builds'[b].status = builds[b].status
                                  \/ Alive(b) /\ builds'[b].status # "none"
             /\ config'.build = config.build /\ doomed' \subseteq doomed
      PROVE  LifeGoesOn
      BY <1>1 DEF LifeGoesOn, Alive, Existing
<1>2. ASSUME \E yes \in BOOLEAN : Configure(yes) \/ RetryRotates(yes) PROVE LifeGoesOn
  <2>1. /\ Rotate(Renewed, LeftBehind, Eligible)
        /\ mapped' = mapped /\ doomed' = doomed \cup Retired
        BY <1>2 DEF Configure, RetryRotates, ApiFrame
  <2>2. Renewed \in Configs
        BY <1>0 DEF Renewed, Configs
  <2> QED
      BY <1>0, <2>1, <2>2, RotationLives
<1>3. ASSUME NEW gone, NEW new, Promote(gone, new) PROVE LifeGoesOn
  <2>1. mapped' = mapped /\ doomed' = doomed
        BY <1>3 DEF Promote, ContentFrame
  <2>2. Renewed \in Configs
        BY <1>0 DEF Renewed, Configs
  <2>3. PICK chunks \in SUBSET Chunks : chunks = Eligible'
        BY <1>0
  <2>4. \/ UNCHANGED <<config, builds>>
        \/ Rotate(Renewed, LeftBehind, chunks)
        BY <1>3, <2>3 DEF Promote
  <2> QED
      BY <1>1, <2>1, <2>2, <2>4, RotationLives
<1>4. ASSUME NEW w \in Workers, FinalizeRotates(w) PROVE LifeGoesOn
  <2>1. /\ Rotate(config, {work[w].build}, Eligible)
        /\ mapped' = mapped /\ doomed' = doomed \cup Retired
        BY <1>4 DEF FinalizeRotates
  <2> QED
      BY <1>0, <2>1, RotationLives
<1>5. ASSUME Disable \/ ClaimRetires PROVE LifeGoesOn
  <2>1. builds' = RetireAll /\ doomed' = doomed \cup Existing
        BY <1>5 DEF Disable, ClaimRetires
  <2>2. /\ Existing' = Existing
        /\ \A b \in Builds : /\ builds'[b].status \notin {"building", "ready"}
                             /\ builds'[b].status = "failed" => builds[b].status = "failed"
        BY <1>0, <2>1 DEF RetireAll, Existing
  <2>3. config'.build = NoBuild \/ (config'.build = config.build /\ config.status = "building")
    <3>1. CASE Disable
          BY <3>1 DEF Disable, Disabled
    <3>2. CASE ClaimRetires
          BY <1>0, <3>2 DEF ClaimRetires, Configs
    <3> QED
        BY <1>5, <3>1, <3>2
  <2>4. config.status = "building" => builds[config.build].status = "building"
        BY DEF GraphInv, OneOpenBuild
  <2>5. \A b \in Builds : ~Alive(b)'
        BY <1>0, <2>2, <2>3, <2>4 DEF Alive
  <2> QED
      BY <2>1, <2>2, <2>5 DEF LifeGoesOn
<1>6. ASSUME RetryInPlace PROVE LifeGoesOn
  <2>1. /\ builds[config.build].status = "failed" /\ doomed' = doomed
        /\ builds' = [builds EXCEPT ![config.build].status = "building"]
        /\ config' = [config EXCEPT !.status = "building"]
        BY <1>6 DEF RetryInPlace, Resumable
  <2> QED
      BY <1>0, <1>1, <2>1 DEF Configs, Alive
<1>7. ASSUME NEW w \in Workers, Publish(w) PROVE LifeGoesOn
  <2>1. PICK old : old = Superseded(builds, {config.active})
        OBVIOUS
  <2>2. /\ builds' = [old EXCEPT ![work[w].build].status = "ready"]
        /\ builds[work[w].build].status = "building" /\ work[w].build \in Builds
        /\ config'.build = config.build /\ doomed' = doomed \cup Retired
        BY <1>0, <1>7, <2>1, FinalizableBuild DEF Publish, Configs
  <2>3. /\ old \in [Builds -> [status : BuildStatuses, chunks : SUBSET Chunks]]
        /\ \A b \in Builds : \/ old[b] = builds[b]
                             \/ old[b].status = "superseded"
        BY <1>0, <2>1 DEF Superseded, BuildStatuses
  <2>4. \A b \in Builds \ {work[w].build} :
          builds'[b].status \in {builds[b].status, "superseded"}
        BY <2>2, <2>3
  <2>5. builds'[work[w].build].status = "ready"
        BY <2>2, <2>3
  <2>6. \A b \in Builds : Alive(b)' => Alive(b) /\ b \notin Retired
        BY <2>2, <2>4, <2>5 DEF Alive, Retired
  <2>7. Existing \subseteq Existing' /\ Retired \subseteq Existing'
        BY <2>4, <2>5 DEF Existing, Retired
  <2> QED
      BY <2>2, <2>6, <2>7 DEF LifeGoesOn
<1>8. ASSUME NEW w \in Workers, MarkFailed(w) PROVE LifeGoesOn
  <2>1. doomed' = doomed /\ config'.build = config.build
        BY <1>0, <1>8 DEF MarkFailed, Configs
  <2>2. \A b \in Builds : \/ builds'[b] = builds[b]
                          \/ builds[b].status = "building" /\ builds'[b].status = "failed"
        BY <1>0, <1>8 DEF MarkFailed
  <2> QED
      BY <1>1, <2>1, <2>2 DEF Alive
<1>9. ASSUME \/ \E w \in Workers : \/ LoadBatch(w) \/ Ingest(w) \/ Extract(w) \/ ReadyProbe(w)
                                   \/ FinalizeStops(w) \/ Raise(w) \/ Release(w) \/ Crash(w)
                                   \/ Claim(w) \/ Preflight(w) \/ SaveBatch(w)
             \/ ClaimRefuses \/ Upgrade
      PROVE  LifeGoesOn
  <2>1. builds' = builds /\ doomed' = doomed /\ config'.build = config.build
        BY <1>0, <1>9 DEF LoadBatch, Ingest, Extract, ReadyProbe, FinalizeStops, Raise, Release,
           Crash, Claim, Preflight, SaveBatch, ClaimRefuses, Upgrade, rowVars, Configs
  <2> QED
      BY <1>1, <2>1
<1>10. ASSUME \/ \E c \in Chunks : Exclude(c) \/ Purge(c)
              \/ \E gone \in SUBSET Chunks : Withdraw(gone)
              \/ DeleteKnowledgeBase
              \/ \E b \in Builds : DeleteGraph(b) \/ Expire(b) \/ Stall(b) \/ Reconcile(b)
              \/ UNCHANGED vars
       PROVE  LifeGoesOn
  <2>1. builds' = builds /\ config' = config /\ doomed' \subseteq doomed
        BY <1>10 DEF Exclude, Purge, Withdraw, DeleteKnowledgeBase, ContentFrame, DeleteGraph,
           Expire, Stall, Reconcile, vars, rowVars
  <2> QED
      BY <1>1, <2>1
<1> QED
    BY <1>2, <1>3, <1>4, <1>5, <1>6, <1>7, <1>8, <1>9, <1>10 DEF GraphNext, Process

-----------------------------------------------------------------------------
(* The external graphs and the batches.                                    *)

KeptInv == GraphsAreKept /\ BatchesAreKept

(* A generation that a worker names comes alive only by being so.          *)
LEMMA ItemsLive ==
  ASSUME GraphInv, LifeGoesOn, NEW w \in Workers, work[w].step # "idle"
  PROVE  /\ work[w].build \in Builds
         /\ Alive(work[w].build)' /\ UNCHANGED work[w].build => Alive(work[w].build)
<1>1. work[w].build \in Existing
      BY DEF GraphInv, Pointers
<1> QED
    BY <1>1 DEF LifeGoesOn, Existing

(* The graphs are kept where no episode and nothing alive is lost.         *)
LEMMA GraphsStay ==
  ASSUME GraphInv, LifeGoesOn, GraphsAreKept,
         \A b \in Builds : Alive(b) => \/ mapped'[b] \subseteq mapped[b]
                                       \/ mapped'[b] \subseteq Episodes(b)',
         \A b \in Builds : Alive(b) => mapped[b] \cap Episodes(b) \subseteq Episodes(b)'
  PROVE  GraphsAreKept'
<1>1. doomed' \subseteq Existing'
      BY DEF LifeGoesOn, GraphsAreKept
<1>2. ASSUME NEW b \in Builds, Alive(b)' PROVE b \notin doomed' /\ mapped'[b] \subseteq Episodes(b)'
  <2>1. CASE Alive(b)
        BY <1>2, <2>1 DEF LifeGoesOn, GraphsAreKept
  <2>2. CASE b \notin Existing /\ mapped'[b] = {}
        BY <1>2, <2>2 DEF LifeGoesOn, GraphsAreKept
  <2> QED
      BY <1>2, <2>1, <2>2 DEF LifeGoesOn
<1> QED
    BY <1>1, <1>2 DEF GraphsAreKept

(* What a worker goes on with is kept where no chunk is mapped and the     *)
(* graphs stay.                                                            *)
LEMMA ItemStays ==
  ASSUME GraphInv, LifeGoesOn, KeptInv, NEW w \in Workers, work'[w] = work[w],
         \A b \in Builds : mapped'[b] \subseteq mapped[b],
         \A b \in Builds : Alive(b) => graph'[b] = graph[b]
  PROVE  ItemKept(work[w])'
<1>1. CASE work[w].step = "idle"
      BY <1>1 DEF ItemKept
<1>2. CASE work[w].step # "idle"
  <2>1. PICK i : i = work[w]
        OBVIOUS
  <2>2. /\ i.build \in Builds /\ work'[w] = i
        /\ Alive(i.build)' => Alive(i.build)
        BY <1>2, <2>1, ItemsLive
  <2>3. Alive(i.build)' => Episodes(i.build)' = Episodes(i.build)
        BY <2>2 DEF Episodes
  <2>4. mapped'[i.build] \subseteq mapped[i.build]
        BY <2>2
  <2>5. ItemKept(i)
        BY <2>1 DEF KeptInv, BatchesAreKept
  <2>6. ItemKept(i)'
        BY <2>2, <2>3, <2>4, <2>5 DEF ItemKept
  <2> QED
      BY <2>2, <2>6 DEF ItemKept
<1> QED
    BY <1>1, <1>2

(* What happens beside the workers.                                        *)
LEMMA BesideWork ==
  ASSUME GraphInv, LifeGoesOn, KeptInv, UNCHANGED work,
         \A b \in Builds : mapped'[b] \subseteq mapped[b],
         \A b \in Builds : Alive(b) => graph'[b] = graph[b]
  PROVE  KeptInv'
<1>1. \A b \in Builds : Alive(b) => Episodes(b)' = Episodes(b)
      BY DEF Episodes
<1>2. GraphsAreKept'
      BY <1>1, GraphsStay DEF KeptInv
<1>3. \A w \in Workers : ItemKept(work[w])'
      BY ItemStays
<1> QED
    BY <1>2, <1>3 DEF KeptInv, BatchesAreKept

(* The one worker at work goes on to item.                                 *)
LEMMA WorkGoesOn ==
  ASSUME GraphInv, LifeGoesOn, KeptInv, NEW w \in Workers, NEW item,
         \A v \in Workers : v # w => work[v].step = "idle",
         work' = [work EXCEPT ![w] = item], ItemKept(item)', GraphsAreKept'
  PROVE  KeptInv'
<1>1. work \in [Workers -> Works]
      BY DEF GraphInv, WorkTypes
<1>2. ASSUME NEW v \in Workers PROVE ItemKept(work[v])'
  <2>1. CASE v = w
    <3>1. work'[v] = item
          BY <1>1, <2>1
    <3> QED
        BY <3>1 DEF ItemKept
  <2>2. CASE v # w
        BY <1>1, <2>2 DEF ItemKept
  <2> QED
      BY <2>1, <2>2
<1> QED
    BY <1>2 DEF KeptInv, BatchesAreKept

(* A worker that leaves, ends, dies or only looks has nothing in hand.     *)
LEMMA WorkEnds ==
  ASSUME GraphInv, LifeGoesOn, KeptInv, NEW w \in Workers,
         \A v \in Workers : v # w => work[v].step = "idle",
         \/ Preflight(w) \/ FinalizeStops(w) \/ FinalizeRotates(w) \/ Publish(w)
         \/ Raise(w) \/ MarkFailed(w) \/ Release(w) \/ Crash(w) \/ ReadyProbe(w)
  PROVE  KeptInv'
<1>1. UNCHANGED <<mapped, graph>>
      BY DEF Preflight, FinalizeStops, FinalizeRotates, Publish, Raise, MarkFailed, Release,
             Crash, ReadyProbe, rowVars
<1>2. GraphsAreKept'
      BY <1>1, GraphsStay DEF KeptInv, Episodes
<1>3. PICK item : /\ work' = [work EXCEPT ![w] = item]
                  /\ item.step \notin {"load", "ingest", "extract", "save"}
  <2>1. CASE Release(w) \/ Crash(w)
    <3>1. work' = [work EXCEPT ![w] = Idle]
          BY <2>1 DEF Release, Crash
    <3>2. Idle.step \notin {"load", "ingest", "extract", "save"}
          BY DEF Idle
    <3> QED
        BY <3>1, <3>2
  <2>2. CASE ReadyProbe(w)
    <3>1. PICK s \in {"publish", "fail"} : Step(w, s)
          BY <2>2 DEF ReadyProbe
    <3>2. PICK item : item = [work[w] EXCEPT !.step = s]
          OBVIOUS
    <3>3. work' = [work EXCEPT ![w] = item] /\ item.step = s
          BY <3>1, <3>2 DEF Step, GraphInv, WorkTypes, Works
    <3> QED
        BY <3>3
  <2>3. CASE ~(Release(w) \/ Crash(w) \/ ReadyProbe(w))
    <3>1. PICK s \in {"release", "fail"} : Leave(w, s)
          BY <2>3 DEF Preflight, FinalizeStops, FinalizeRotates, Publish, Raise, MarkFailed
    <3>2. PICK item : item = [Idle EXCEPT !.step = s, !.build = work[w].build]
          OBVIOUS
    <3>3. work' = [work EXCEPT ![w] = item] /\ item.step = s
          BY <3>1, <3>2 DEF Leave, Idle
    <3> QED
        BY <3>3
  <2> QED
      BY <2>1, <2>2, <2>3
<1>4. ItemKept(item)'
      BY <1>3 DEF ItemKept
<1> QED
    BY <1>2, <1>3, <1>4, WorkGoesOn

(* A claimed chunk is missing in the mapping.                              *)
LEMMA WorkStarts ==
  ASSUME GraphInv, LifeGoesOn, KeptInv, NEW w \in Workers, Claim(w)
  PROVE  KeptInv'
<1>1. UNCHANGED <<mapped, graph>>
      BY DEF Claim
<1>2. GraphsAreKept'
      BY <1>1, GraphsStay DEF KeptInv, Episodes
<1>3. PICK i \in Items(config.build) :
        work' = [work EXCEPT ![w] = [Idle EXCEPT !.step = i[1], !.build = config.build,
                                                 !.batch = {i[2]} \ {NoChunk}]]
      BY DEF Claim
<1>4. PICK item : item = [Idle EXCEPT !.step = i[1], !.build = config.build,
                                      !.batch = {i[2]} \ {NoChunk}]
      OBVIOUS
<1>5. item.step = i[1] /\ item.build = config.build /\ item.batch = {i[2]} \ {NoChunk}
      BY <1>4 DEF Idle
<1>6. /\ i[1] \in {"preflight", "load", "probe"}
      /\ i[1] = "load" => i[2] \notin mapped[config.build]
      BY <1>3 DEF Items, Missing
<1>7. ItemKept(item)'
      BY <1>1, <1>5, <1>6 DEF ItemKept
<1>8. ASSUME NEW v \in Workers PROVE ItemKept(work[v])'
  <2>1. work \in [Workers -> Works] /\ work' = [work EXCEPT ![w] = item]
        BY <1>3, <1>4 DEF GraphInv, WorkTypes
  <2>2. CASE v = w
        BY <1>7, <2>1, <2>2 DEF ItemKept
  <2>3. CASE v # w
        BY <1>1, <2>1, <2>3, ItemStays
  <2> QED
      BY <2>2, <2>3
<1> QED
    BY <1>2, <1>8 DEF KeptInv, BatchesAreKept

(* A batch is of missing chunks; those without a marker are pending.       *)
LEMMA WorkLoads ==
  ASSUME GraphInv, LifeGoesOn, KeptInv, NEW w \in Workers,
         \A v \in Workers : v # w => work[v].step = "idle", LoadBatch(w)
  PROVE  KeptInv'
<1>1. UNCHANGED <<mapped, graph>> /\ work[w].step = "load"
      BY DEF LoadBatch, rowVars
<1>2. GraphsAreKept'
      BY <1>1, GraphsStay DEF KeptInv, Episodes
<1>3. PICK b, missing : b = work[w].build /\ missing = Missing(b)
      OBVIOUS
<1>4. PICK size : LET d == work[w].build IN
        \E batch \in IF missing = {} THEN {work[w].batch}
                     ELSE {s \in SUBSET missing : Cardinality(s) = size} :
          LET pending == {c \in batch : graph[d][c] # "complete"} IN
          work' = [work EXCEPT ![w].step = IF pending = {} THEN "save" ELSE "ingest",
                               ![w].batch = batch, ![w].pending = pending,
                               ![w].todo = pending]
      BY <1>3 DEF LoadBatch
<1>5. PICK batch : /\ batch \subseteq missing \/ batch = work[w].batch
                   /\ LET pending == {c \in batch : graph[work[w].build][c] # "complete"} IN
                      work' = [work EXCEPT ![w].step = IF pending = {} THEN "save" ELSE "ingest",
                                           ![w].batch = batch, ![w].pending = pending,
                                           ![w].todo = pending]
      BY <1>4
<1>6. PICK pending : pending = {c \in batch : graph[b][c] # "complete"}
      OBVIOUS
<1>7. PICK s : s = IF pending = {} THEN "save" ELSE "ingest"
      OBVIOUS
<1>8. work' = [work EXCEPT ![w].step = s, ![w].batch = batch, ![w].pending = pending,
                           ![w].todo = pending]
      BY <1>3, <1>5, <1>6, <1>7, ZenonT(40)
<1>9. PICK item : item = [work[w] EXCEPT !.step = s, !.batch = batch, !.pending = pending,
                                         !.todo = pending]
      OBVIOUS
<1>10. /\ work' = [work EXCEPT ![w] = item]
       /\ item.step = s /\ item.batch = batch /\ item.pending = pending /\ item.todo = pending
       /\ item.build = b
      BY <1>3, <1>8, <1>9 DEF GraphInv, WorkTypes, Works
<1>11. batch \cap mapped[b] = {} /\ batch \subseteq Chunks
  <2>1. work[w].batch \cap mapped[b] = {} /\ work[w].batch \subseteq Chunks
        BY <1>1, <1>3 DEF KeptInv, BatchesAreKept, ItemKept, GraphInv, WorkTypes, Works
  <2>2. missing \cap mapped[b] = {} /\ missing \subseteq Chunks
        BY <1>3 DEF Missing, Eligible
  <2> QED
      BY <1>5, <2>1, <2>2
<1>12. batch \ pending \subseteq Episodes(b)
      BY <1>6, <1>11 DEF Episodes
<1>13. Episodes(b)' = Episodes(b)
      BY <1>1 DEF Episodes
<1>14. ItemKept(item)'
      BY <1>1, <1>6, <1>7, <1>10, <1>11, <1>12, <1>13 DEF ItemKept
<1> QED
    BY <1>2, <1>10, <1>14, WorkGoesOn

(* What is written of an episode puts it into the graph of the worker's    *)
(* build.                                                                  *)
LEMMA EpisodesAdded ==
  ASSUME GraphInv, NEW w \in Workers, NEW d \in Builds, work[w].build = d,
         NEW S \in SUBSET Chunks, NEW state \in {"partial", "complete"},
         SetEpisodes(w, S, state)
  PROVE  /\ \A b \in Builds : b # d => Episodes(b)' = Episodes(b)
         /\ \A b \in {d} : Episodes(b)' = Episodes(b) \cup S
<1>1. graph \in [Builds -> [Chunks -> EpisodeStates]]
      BY DEF GraphInv, GraphTypes
<1>2. graph' = [graph EXCEPT ![d] = [c \in Chunks |-> IF c \in S THEN state ELSE graph[d][c]]]
      BY DEF SetEpisodes
<1>3. \A b \in Builds : b # d => graph'[b] = graph[b]
      BY <1>1, <1>2
<1>4. \A c \in Chunks : graph'[d][c] = IF c \in S THEN state ELSE graph[d][c]
      BY <1>1, <1>2
<1> QED
    BY <1>3, <1>4 DEF Episodes

(* What is removed is no longer there.                                     *)
LEMMA EpisodesRemoved ==
  ASSUME GraphInv, NEW w \in Workers, NEW d \in Builds, work[w].build = d,
         NEW S \in SUBSET Chunks, SetEpisodes(w, S, "absent")
  PROVE  /\ \A b \in Builds : b # d => Episodes(b)' = Episodes(b)
         /\ \A b \in {d} : Episodes(b)' = Episodes(b) \ S
<1>1. graph \in [Builds -> [Chunks -> EpisodeStates]]
      BY DEF GraphInv, GraphTypes
<1>2. graph' = [graph EXCEPT ![d] = [c \in Chunks |-> IF c \in S THEN "absent" ELSE graph[d][c]]]
      BY DEF SetEpisodes
<1>3. \A b \in Builds : b # d => graph'[b] = graph[b]
      BY <1>1, <1>2
<1>4. \A c \in Chunks : graph'[d][c] = IF c \in S THEN "absent" ELSE graph[d][c]
      BY <1>1, <1>2
<1> QED
    BY <1>3, <1>4 DEF Episodes

(* An episode is removed only to be saved anew, and is not mapped yet.     *)
LEMMA WorkIngests ==
  ASSUME GraphInv, LifeGoesOn, KeptInv, NEW w \in Workers,
         \A v \in Workers : v # w => work[v].step = "idle", Ingest(w) \/ Extract(w)
  PROVE  KeptInv'
<1>1. mapped' = mapped /\ work[w].step \in {"ingest", "extract"}
      BY DEF Ingest, Extract, rowVars
<1>2. PICK i : i = work[w]
      OBVIOUS
<1>3. /\ i \in Works /\ i.build \in Builds
      /\ Alive(i.build)' => Alive(i.build)
      /\ i.batch \cap mapped[i.build] = {} /\ i.todo \subseteq i.pending
      /\ i.pending \subseteq i.batch
      /\ Alive(i.build) => i.batch \ i.pending \subseteq Episodes(i.build)
      /\ i.batch \subseteq Chunks
  <2>1. i \in Works /\ i.build \in Builds /\ i.batch \subseteq Chunks
        BY <1>1, <1>2, ItemsLive DEF GraphInv, WorkTypes, Works
  <2>2. Alive(i.build)' => Alive(i.build)
    <3>1. i.build \in Existing
          BY <1>1, <1>2 DEF GraphInv, Pointers
    <3> QED
        BY <2>1, <3>1 DEF LifeGoesOn
  <2>3. ItemKept(i)
        BY <1>2 DEF KeptInv, BatchesAreKept
  <2> QED
      BY <1>1, <1>2, <2>1, <2>2, <2>3 DEF ItemKept
<1>4. PICK b : b = i.build
      OBVIOUS
<1>5. ASSUME NEW c \in i.todo, graph[b][c] = "absent", SetEpisodes(w, {c}, "partial"),
             work' = [work EXCEPT ![w].todo = @ \ {c},
                        ![w].step = IF i.todo = {c} THEN "extract" ELSE "ingest"]
      PROVE  KeptInv'
  <2>1. /\ \A d \in Builds : d # b => Episodes(d)' = Episodes(d)
        /\ \A d \in {b} : Episodes(d)' = Episodes(d) \cup {c}
    <3>1. {c} \in SUBSET Chunks /\ work[w].build = b /\ b \in Builds
          BY <1>2, <1>3, <1>4
    <3>2. PICK S : S = {c}
          OBVIOUS
    <3>3. S \in SUBSET Chunks /\ SetEpisodes(w, S, "partial")
          BY <3>1, <3>2, <1>5
    <3>4. /\ \A d \in Builds : d # b => Episodes(d)' = Episodes(d)
          /\ \A d \in {b} : Episodes(d)' = Episodes(d) \cup S
          BY <3>1, <3>3, EpisodesAdded
    <3> QED
        BY <3>2, <3>4
  <2>2. GraphsAreKept'
        BY <1>1, <2>1, GraphsStay DEF KeptInv
  <2>3. PICK item : item = [i EXCEPT !.todo = @ \ {c},
                              !.step = IF i.todo = {c} THEN "extract" ELSE "ingest"]
        OBVIOUS
  <2>4. /\ work' = [work EXCEPT ![w] = item] /\ item.todo = i.todo \ {c}
        /\ item.step \in {"extract", "ingest"} /\ item.batch = i.batch
        /\ item.pending = i.pending /\ item.build = b
        BY <1>2, <1>3, <1>4, <1>5, <2>3 DEF GraphInv, WorkTypes, Works
  <2>5. ItemKept(item)'
        BY <1>1, <1>3, <1>4, <2>1, <2>4 DEF ItemKept
  <2> QED
      BY <2>2, <2>4, <2>5, WorkGoesOn
<1>6. ASSUME NEW c \in i.todo, SetEpisodes(w, {c}, "absent"), UNCHANGED work
      PROVE  KeptInv'
  <2>1. /\ \A d \in Builds : d # b => Episodes(d)' = Episodes(d)
        /\ \A d \in {b} : Episodes(d)' = Episodes(d) \ {c}
    <3>1. {c} \in SUBSET Chunks /\ work[w].build = b /\ b \in Builds
          BY <1>2, <1>3, <1>4
    <3>2. PICK S : S = {c}
          OBVIOUS
    <3>3. S \in SUBSET Chunks /\ SetEpisodes(w, S, "absent")
          BY <3>1, <3>2, <1>6
    <3>4. /\ \A d \in Builds : d # b => Episodes(d)' = Episodes(d)
          /\ \A d \in {b} : Episodes(d)' = Episodes(d) \ S
          BY <3>1, <3>3, EpisodesRemoved
    <3> QED
        BY <3>2, <3>4
  <2>2. GraphsAreKept'
    <3>1. c \notin mapped[b]
          BY <1>3, <1>4
    <3> QED
        BY <1>1, <2>1, <3>1, GraphsStay DEF KeptInv
  <2>3. ItemKept(i)'
        BY <1>1, <1>2, <1>3, <1>4, <2>1 DEF ItemKept
  <2>4. work' = [work EXCEPT ![w] = i]
        BY <1>2, <1>6 DEF GraphInv, WorkTypes
  <2> QED
      BY <2>2, <2>3, <2>4, WorkGoesOn
<1>7. CASE Extract(w)
  <2>1. SetEpisodes(w, i.pending, "complete") /\ Step(w, "save")
        BY <1>2, <1>7 DEF Extract
  <2>2. /\ \A d \in Builds : d # b => Episodes(d)' = Episodes(d)
        /\ \A d \in {b} : Episodes(d)' = Episodes(d) \cup i.pending
    <3>1. i.pending \in SUBSET Chunks /\ work[w].build = b /\ b \in Builds
          BY <1>2, <1>3, <1>4
    <3> QED
        BY <3>1, <2>1, EpisodesAdded
  <2>3. GraphsAreKept'
        BY <1>1, <2>2, GraphsStay DEF KeptInv
  <2>4. PICK item : item = [i EXCEPT !.step = "save"]
        OBVIOUS
  <2>5. /\ work' = [work EXCEPT ![w] = item] /\ item.step = "save" /\ item.batch = i.batch
        /\ item.build = b
        BY <1>2, <1>3, <1>4, <2>1, <2>4 DEF Step, GraphInv, WorkTypes, Works
  <2>6. ItemKept(item)'
        BY <1>3, <1>4, <2>2, <2>5 DEF ItemKept
  <2> QED
      BY <2>3, <2>5, <2>6, WorkGoesOn
<1>8. CASE Ingest(w)
      BY <1>2, <1>4, <1>5, <1>6, <1>8 DEF Ingest
<1> QED
    BY <1>7, <1>8

(* What is mapped is in the external graph.                                *)
LEMMA WorkSaves ==
  ASSUME GraphInv, LifeGoesOn, KeptInv, NEW w \in Workers,
         \A v \in Workers : v # w => work[v].step = "idle", SaveBatch(w)
  PROVE  KeptInv'
<1>1. UNCHANGED <<graph, builds, config>> /\ work[w].step = "save" /\ Leave(w, "release")
      BY DEF SaveBatch
<1>2. \A b \in Builds : Episodes(b)' = Episodes(b)
      BY <1>1 DEF Episodes
<1>3. PICK i : i = work[w]
      OBVIOUS
<1>4. /\ i.build \in Builds
      /\ Alive(i.build) => i.batch \subseteq Episodes(i.build)
      BY <1>1, <1>3, ItemsLive DEF KeptInv, BatchesAreKept, ItemKept
<1>5. \/ mapped' = mapped
      \/ mapped' = [mapped EXCEPT ![i.build] = @ \cup i.batch]
      BY <1>3 DEF SaveBatch
<1>6. GraphsAreKept'
  <2>1. ASSUME NEW b \in Builds, Alive(b)
        PROVE  mapped'[b] \subseteq mapped[b] \/ mapped'[b] \subseteq Episodes(b)'
    <3>1. mapped[b] \subseteq Episodes(b)
          BY <2>1 DEF KeptInv, GraphsAreKept
    <3> QED
        BY <1>2, <1>4, <1>5, <2>1, <3>1 DEF GraphInv, RowTypes
  <2> QED
      BY <1>2, <2>1, GraphsStay DEF KeptInv
<1>7. PICK item : item = [Idle EXCEPT !.step = "release", !.build = i.build]
      OBVIOUS
<1>8. work' = [work EXCEPT ![w] = item] /\ item.step = "release"
      BY <1>1, <1>3, <1>7 DEF Leave, Idle
<1>9. ItemKept(item)'
      BY <1>8 DEF ItemKept
<1> QED
    BY <1>6, <1>8, <1>9, WorkGoesOn

(* At first nothing is kept.                                               *)
LEMMA KeptInit == GraphInit => KeptInv
  BY DEF GraphInit, NoRow, Idle, KeptInv, GraphsAreKept, BatchesAreKept, ItemKept, Alive

(* A worker at work, next to whom no other is.                             *)
LEMMA LoneSteps ==
  ASSUME GraphInv, LoneWorker, KeptInv, LifeGoesOn, NEW w \in Workers,
         Process(w) \/ Crash(w)
  PROVE  KeptInv'
<1>1. work[w].step # "idle"
      BY DEF Process, Crash, Preflight, LoadBatch, Ingest, Extract, SaveBatch, ReadyProbe,
         FinalizeStops, FinalizeRotates, Publish, Raise, MarkFailed, Release
<1>2. \A v \in Workers : v # w => work[v].step = "idle"
      BY <1>1 DEF LoneWorker
<1> QED
    BY <1>2, WorkEnds, WorkLoads, WorkIngests, WorkSaves DEF Process

(* Every step of a lone worker, and around it, keeps them.                 *)
LEMMA KeptStep ==
  ASSUME GraphInv, LoneWorker, KeptInv, [GraphNext]_vars
  PROVE  KeptInv'
<1>1. LifeGoesOn
      BY LifeSteps
<1>2. ASSUME NEW w \in Workers, Process(w) \/ Crash(w) PROVE KeptInv'
      BY <1>1, <1>2, LoneSteps
<1>3. ASSUME NEW w \in Workers, Claim(w) PROVE KeptInv'
      BY <1>1, <1>3, WorkStarts
<1>4. ASSUME NEW b \in Builds, DeleteGraph(b) PROVE KeptInv'
  <2>1. ~Alive(b) /\ UNCHANGED <<work, mapped>>
        BY <1>4 DEF DeleteGraph, KeptInv, GraphsAreKept, rowVars
  <2>2. \A d \in Builds : d # b => graph'[d] = graph[d]
        BY <1>4 DEF DeleteGraph, GraphInv, GraphTypes
  <2> QED
      BY <1>1, <2>1, <2>2, BesideWork
<1>5. ASSUME NEW c \in Chunks, Purge(c) PROVE KeptInv'
  <2>1. UNCHANGED <<work, graph>> /\ \A b \in Builds : mapped'[b] \subseteq mapped[b]
        BY <1>5 DEF Purge
  <2> QED
      BY <1>1, <2>1, BesideWork
<1>6. ASSUME UNCHANGED <<work, mapped, graph>> PROVE KeptInv'
      BY <1>1, <1>6, BesideWork
<1>7. ASSUME \/ Disable \/ RetryInPlace
             \/ \E yes \in BOOLEAN : Configure(yes) \/ RetryRotates(yes)
             \/ \E gone, new \in SUBSET Chunks : Promote(gone, new)
             \/ \E gone \in SUBSET Chunks : Withdraw(gone)
             \/ \E c \in Chunks : Exclude(c)
             \/ DeleteKnowledgeBase \/ UNCHANGED vars
      PROVE  UNCHANGED <<work, mapped, graph>>
      BY <1>7 DEF Disable, RetryInPlace, Configure, RetryRotates, ApiFrame, Promote, Withdraw,
         Exclude, DeleteKnowledgeBase, ContentFrame, vars, rowVars
<1>8. ASSUME \/ ClaimRetires \/ ClaimRefuses \/ Upgrade
             \/ \E b \in Builds : Expire(b) \/ Stall(b) \/ Reconcile(b)
      PROVE  UNCHANGED <<work, mapped, graph>>
      BY <1>8 DEF ClaimRetires, ClaimRefuses, Upgrade, Expire, Stall, Reconcile
<1> QED
    BY <1>2, <1>3, <1>4, <1>5, <1>6, <1>7, <1>8 DEF GraphNext

(* As long as no two workers are at work at once - neither a stalled one   *)
(* that goes on beside the one that took over its build, nor one that ends *)
(* the calls of a generation closed under it beside the one that fills the *)
(* next - the external graph of the generation that answers questions is   *)
(* never deleted and holds an episode for every mapped chunk.              *)
THEOREM LoneWorkersHold == GraphSafety /\ []LoneWorker => []ServedGraphSurvives
<1>1. GraphInv /\ LoneWorker /\ KeptInv /\ [GraphNext]_vars => KeptInv'
      BY KeptStep
<1>2. GraphInv /\ KeptInv => ServedGraphSurvives
      BY KeptServes DEF KeptInv
<1> QED
    BY <1>1, <1>2, KeptInit, Invariant, PTL DEF GraphSafety

=============================================================================
