----------------------------- MODULE SourceFiles -----------------------------
(***************************************************************************)
(* Source files: requests that upload a version (stage its file, reserve   *)
(* its rows, finalize the file, activate the rows), the deletion of        *)
(* documents, and the janitor that repairs what dead requests left.        *)
(*                                                                         *)
(* A version stands for the request content it is made of: idempotency     *)
(* key, endpoint and checksum determine its file's identity.  The rows     *)
(* change in transactions, the files between them, one operation at a      *)
(* time.  A file is "fresh" while it is younger than the grace period of   *)
(* the janitor, then "old"; "bad" is one whose digest differs.  Requests   *)
(* with the same key but another request hash are not told apart: their    *)
(* Reserve raises, as it always may.                                       *)
(***************************************************************************)
EXTENDS Naturals, FiniteSets

CONSTANTS Versions,       \* the uploads
          Documents,      \* a partition of Versions
          Keys,           \* a partition of Versions: equal idempotency keys
          Creations,      \* versions uploaded by create-document, the
                          \* others by create-version; a document with no
                          \* creation has earlier versions
          Bundles,        \* Markdown uploads whose media are normalized
          Clients,        \* concurrent upload requests
          BatchSize,      \* rows of one kind a janitor pass reads
          MaxTries,       \* cleanup_max_attempts
          Faults,         \* "delete": the deletions of clean-up may raise,
                          \* "raise": all other file operations may raise,
                          \* "lose": a final file may be lost or damaged
          NoVersion

ASSUME FileConstants ==
  /\ BatchSize \in Nat \ {0} /\ MaxTries \in Nat \ {0}
  /\ Creations \subseteq Versions /\ Bundles \subseteq Versions
  /\ Faults \subseteq {"delete", "raise", "lose"} /\ NoVersion \notin Versions
  /\ \A P \in {Documents, Keys} : /\ UNION P = Versions
                                  /\ \A S, T \in P : S # T => S \cap T = {}
  /\ \A u, v \in Creations : u # v => /\ ~\E d \in Documents : {u, v} \subseteq d
                                     /\ ~\E k \in Keys : {u, v} \subseteq k
  /\ \A u, v \in Versions \ Creations : u # v => ~\E k \in Keys : {u, v} \subseteq k

Files  == {"none", "fresh", "old", "bad"}
Intact == {"fresh", "old"}

VARIABLES
  staging, final,   \* the file of each version in the two directories
  mutation,         \* ContentMutation.status ("none": no row)
  source,           \* DocumentVersion.source_status
  recent,           \* versions reserved less than the grace period ago
  deleted,          \* the documents with deleted_at
  cleanup,          \* SourceFileCleanup.status, "due" or "later" if pending
  tries,            \* SourceFileCleanup.attempt_count
  client,           \* per request: its step and its version
  step, at,         \* of the janitor's pass, and the version it looks at
  pending, references, tasks,\* what the pass still has to look at
  keepStaging, keepFinal,    \* staging_references, final_references
  listed                     \* <<directory, version>> found too old

fileVars == <<staging, final>>
rowVars  == <<mutation, source, recent, deleted>>
taskVars == <<cleanup, tries>>
passVars == <<step, at, pending, references, tasks, keepStaging, keepFinal, listed>>
vars     == <<fileVars, rowVars, taskVars, client, passVars>>

Idle == [step |-> "idle", version |-> NoVersion]

FilesInit ==
  /\ staging  = [v \in Versions |-> "none"]
  /\ final    = [v \in Versions |-> "none"]
  /\ mutation = [v \in Versions |-> "none"]
  /\ source   = [v \in Versions |-> "absent"]
  /\ recent = {} /\ deleted = {}
  /\ cleanup  = [v \in Versions |-> "none"]
  /\ tries    = [v \in Versions |-> 0]
  /\ client   = [c \in Clients |-> Idle]
  /\ step = "idle" /\ at = NoVersion
  /\ pending = {} /\ references = {} /\ tasks = {}
  /\ keepStaging = {} /\ keepFinal = {} /\ listed = {}

DocumentOf(v) == CHOOSE d \in Documents : v \in d
Existing(d) == d \cap Creations = {}
SameKey(u, v) == \E k \in Keys : {u, v} \subseteq k

-----------------------------------------------------------------------------
(* LocalFileStore.                                                         *)

(* A final file that is there is only checked; else the staged one is      *)
(* renamed, and keeps its modification time.                               *)
FinalizeFile(v) ==
  \/ /\ final[v] \in Intact
     /\ staging' = [staging EXCEPT ![v] = "none"]
     /\ UNCHANGED final
  \/ /\ final[v] = "none" /\ staging[v] \in Intact
     /\ final'   = [final EXCEPT ![v] = staging[v]]
     /\ staging' = [staging EXCEPT ![v] = "none"]

(* Missing, damaged, or renamed by somebody else in the meantime.          *)
FinalizeRaises(v) == \/ final[v] = "bad" \/ staging[v] \notin Intact
                     \/ "raise" \in Faults

-----------------------------------------------------------------------------
(* Transactions on the rows.                                               *)

Reservable(v) == /\ mutation[v] = "none"
                 /\ \/ v \in Creations
                    \/ Existing(DocumentOf(v))
                    \/ \E u \in DocumentOf(v) : source[u] # "absent"

Replayable(v) == mutation[v] \in {"pending", "completed"}

ReserveRows(v) ==
  /\ mutation' = [mutation EXCEPT ![v] = "pending"]
  /\ source'   = [source EXCEPT ![v] = "unavailable"]
  /\ recent'   = recent \cup {v}
  /\ UNCHANGED deleted

(* activate_reserved_version looks the mutation up by its key alone, at    *)
(* the create-document endpoint first.                                     *)
Selected(v) == IF \E u \in Creations : SameKey(u, v) /\ mutation[u] # "none"
               THEN CHOOSE u \in Creations : SameKey(u, v) /\ mutation[u] # "none"
               ELSE v

KeyReused(v) == Selected(v) \notin DocumentOf(v)

Activates(v) == /\ ~KeyReused(v)
                /\ mutation[Selected(v)] = "pending"
                /\ source[Selected(v)] = "unavailable"

ActivateRows(v) ==
  /\ Activates(v)
  /\ mutation' = [mutation EXCEPT ![Selected(v)] = "completed"]
  /\ source'   = [source EXCEPT ![Selected(v)] = "available"]
  /\ deleted'  = deleted \ {DocumentOf(v)}
  /\ UNCHANGED recent

ActivationReplays(v) == ~KeyReused(v) /\ mutation[Selected(v)] = "completed"

ActivationConflicts(v) ==
  ~KeyReused(v) /\ ~ActivationReplays(v) /\ ~Activates(v)

(* One clean-up row per version; a second one is not inserted.             *)
ScheduleCleanup(S) ==
  cleanup' = [v \in Versions |-> IF v \in S /\ cleanup[v] = "none" THEN "due"
                                 ELSE cleanup[v]]

(* Only a reservation that is neither activated nor given up can fail.     *)
FailableUnlessDeleted(v) == source[v] # "deleted"                   \* mutant
Failable(v) == mutation[v] = "pending" /\ source[v] = "unavailable"

FailPendingRows(v) ==
  /\ Failable(v)
  /\ mutation' = [mutation EXCEPT ![v] = "failed"]
  /\ source'   = [source EXCEPT ![v] = "deleted"]
  /\ deleted'  = IF /\ ~Existing(DocumentOf(v))
                    /\ \A u \in DocumentOf(v) : mutation[u] # "completed"
                 THEN deleted \cup {DocumentOf(v)} ELSE deleted
  /\ ScheduleCleanup({v})
  /\ UNCHANGED <<recent, tries>>

-----------------------------------------------------------------------------
(* SourceFileService.store_and_activate.                                   *)

Continue(c, s) == client' = [client EXCEPT ![c].step = s]
Leave(c) == client' = [client EXCEPT ![c] = Idle]

(* A bundle is normalized once: a file of its identity is used as it is    *)
(* (a damaged one changes the request hash, and Reserve raises).           *)
Stage(c, v) ==
  /\ client[c].step = "idle"
  /\ v \in Bundles => "bad" \notin {staging[v], final[v]}
  /\ client' = [client EXCEPT ![c] = [step |-> "reserve", version |-> v]]
  /\ staging' = IF v \in Bundles /\ ~(staging[v] = "none" /\ final[v] = "none")
                THEN staging ELSE [staging EXCEPT ![v] = "fresh"]
  /\ UNCHANGED <<final, rowVars, taskVars, passVars>>

(* It may also raise: another request hash, duplicate content, no          *)
(* knowledge base, no database.                                            *)
Reserve(c) == LET v == client[c].version IN
  /\ client[c].step = "reserve"
  /\ \/ Reservable(v) /\ ReserveRows(v) /\ Continue(c, "finalize")
     \/ Replayable(v) /\ Continue(c, "finalize") /\ UNCHANGED rowVars
     \/ /\ IF v \in Bundles THEN Leave(c) ELSE Continue(c, "discard")
        /\ UNCHANGED rowVars
  /\ UNCHANGED <<fileVars, taskVars, passVars>>

Discard(c) ==
  /\ client[c].step = "discard"
  /\ staging' = [staging EXCEPT ![client[c].version] = "none"]
  /\ Leave(c)
  /\ UNCHANGED <<final, rowVars, taskVars, passVars>>

Finalize(c) == LET v == client[c].version IN
  /\ client[c].step = "finalize"
  /\ \/ FinalizeFile(v) /\ Continue(c, "activate")
     \/ FinalizeRaises(v) /\ Leave(c) /\ UNCHANGED fileVars
  /\ UNCHANGED <<rowVars, taskVars, passVars>>

Succeeds(v) == Activates(v) \/ ActivationReplays(v)

(* A replay or a conflict changes nothing.                                 *)
Activate(c) == LET v == client[c].version IN
  /\ client[c].step = "activate"
  /\ \/ ActivateRows(v)
     \/ ~Activates(v) /\ UNCHANGED rowVars
  /\ Leave(c)
  /\ UNCHANGED <<fileVars, taskVars, passVars>>

(* The process dies, or the request is cancelled.                          *)
Abandon(c) == /\ client[c].step # "idle" /\ Leave(c)
              /\ UNCHANGED <<fileVars, rowVars, taskVars, passVars>>

Reserved(d) == {v \in d : source[v] # "absent"}
Cleaned(d)  == Reserved(d)

WithdrawnCurrent(d) == {v \in d : source[v] = "available"}          \* mutant
Withdrawn(d)        == Reserved(d)

(* The deletion of a document, or of its knowledge base.  A document that  *)
(* is deleted already still has the files of all its versions cleaned up;  *)
(* only the deletion of its base withdraws what was reserved since.        *)
SoftDelete(d) ==
  /\ Reserved(d) # {} \/ Existing(d)
  /\ ScheduleCleanup(Cleaned(d))
  /\ deleted' = deleted \cup {d}
  /\ \/ source' = [v \in Versions |-> IF v \in Withdrawn(d) THEN "deleted" ELSE source[v]]
     \/ d \in deleted /\ UNCHANGED source
  /\ UNCHANGED <<fileVars, mutation, recent, tries, client, passVars>>

-----------------------------------------------------------------------------
(* FileReconciliationService.run_once: one pass of the janitor.            *)

Pending == {v \in Versions : mutation[v] = "pending" /\ source[v] = "unavailable"}
DueCleanup == {v \in Versions : cleanup[v] = "due"}

Batch(S, B) == /\ B \subseteq S
               /\ \/ B = S /\ Cardinality(S) <= BatchSize
                  \/ Cardinality(B) = BatchSize

(* The snapshot that the whole pass works with, oldest mutations first.    *)
LoadPass(P, T) ==
  /\ step = "idle"
  /\ Batch(Pending, P) /\ Batch(DueCleanup, T)
  /\ \A u \in P, v \in Pending \ P : u \in recent => v \in recent
  /\ step' = "pending"
  /\ pending' = P /\ tasks' = T
  /\ references' = {v \in Versions : source[v] = "available"}
  /\ keepStaging' = P /\ keepFinal' = references'
  /\ UNCHANGED <<at, listed, fileVars, rowVars, taskVars, client>>

Raises == "raise" \in Faults

(* Continue with the next pending mutation; a raising file operation       *)
(* defers the one at hand to a later pass.                                 *)
NextPending == /\ step' = "pending" /\ at' = NoVersion
               /\ UNCHANGED <<pending, references, tasks, listed>>
Keep   == UNCHANGED <<keepStaging, keepFinal>>
Goto(s) == /\ step' = s
           /\ UNCHANGED <<at, pending, references, tasks, keepStaging, keepFinal, listed>>

Return(s) == /\ step' = s /\ at' = NoVersion
             /\ UNCHANGED <<pending, references, tasks, keepStaging, keepFinal, listed>>

(* inspect FINAL                                                           *)
InspectPending(v) ==
  /\ step = "pending" /\ v \in pending
  /\ pending' = pending \ {v}
  /\ \/ /\ step' = CASE final[v] \in Intact -> "activate"
                     [] final[v] = "bad"    -> "fail"
                     [] final[v] = "none"   -> "inspect staging"
        /\ at' = v
     \/ Raises /\ UNCHANGED <<step, at>>
  /\ UNCHANGED <<references, tasks, keepStaging, keepFinal, listed,
                 fileVars, rowVars, taskVars, client>>

InspectStaging ==
  /\ step = "inspect staging"
  /\ \/ Goto(CASE staging[at] = "none"   -> "inspect again"
              [] staging[at] = "bad"    -> "fail"
              [] staging[at] \in Intact -> "finalize")
     \/ Raises /\ NextPending /\ Keep
  /\ UNCHANGED <<fileVars, rowVars, taskVars, client>>

AlwaysWaits(v) == TRUE                                              \* mutant
Waits(v) == v \in recent

(* A rename can happen between the two inspections.                        *)
InspectAgain ==
  /\ step = "inspect again"
  /\ \/ final[at] # "none" /\ Goto("activate")
     \/ final[at] = "none" /\ Waits(at) /\ NextPending /\ Keep
     \/ final[at] = "none" /\ ~Waits(at) /\ Goto("fail")
     \/ Raises /\ NextPending /\ Keep
  /\ UNCHANGED <<fileVars, rowVars, taskVars, client>>

FinalizePending ==
  /\ step = "finalize"
  /\ \/ FinalizeFile(at) /\ Goto("verify")
     \/ FinalizeRaises(at) /\ NextPending /\ Keep /\ UNCHANGED fileVars
  /\ UNCHANGED <<rowVars, taskVars, client>>

VerifyPending ==
  /\ step = "verify"
  /\ \/ Goto(IF final[at] \in Intact THEN "activate" ELSE "fail")
     \/ Raises /\ NextPending /\ Keep
  /\ UNCHANGED <<fileVars, rowVars, taskVars, client>>

KeepFinalOfSnapshot(v) == keepFinal                                 \* mutant
KeepFinalWith(v) == keepFinal \cup {v}

(* An IdempotencyKeyReusedError leaves run_once; so does the error of a    *)
(* replay whose knowledge base is deleted, which its documents are then.   *)
ActivatePending ==
  /\ step = "activate"
  /\ \/ /\ \/ ActivateRows(at)
           \/ ActivationReplays(at) /\ UNCHANGED rowVars
        /\ NextPending
        /\ keepStaging' = keepStaging \ {at} /\ keepFinal' = KeepFinalWith(at)
     \/ ActivationConflicts(at) /\ Goto("fail") /\ UNCHANGED rowVars
     \/ /\ KeyReused(at) \/ (ActivationReplays(at) /\ DocumentOf(at) \in deleted)
        /\ Goto("stop") /\ UNCHANGED rowVars
  /\ UNCHANGED <<fileVars, taskVars, client>>

FailPending ==
  /\ step = "fail"
  /\ NextPending
  /\ \/ /\ FailPendingRows(at)
        /\ keepStaging' = keepStaging \ {at} /\ keepFinal' = keepFinal \ {at}
     \/ ~Failable(at) /\ Keep /\ UNCHANGED <<rowVars, taskVars>>
  /\ UNCHANGED <<fileVars, client>>

PendingDone == /\ step = "pending" /\ pending = {} /\ Return("references")
               /\ UNCHANGED <<fileVars, rowVars, taskVars, client>>

FileMissing(v) == final[v] = "none"                                 \* mutant
FileDiffers(v) == final[v] \notin Intact

(* A reference whose file cannot even be read counts as missing.           *)
CheckReference(v) ==
  /\ step = "references" /\ v \in references
  /\ references' = references \ {v}
  /\ \/ ~FileDiffers(v) /\ UNCHANGED <<step, at>>
     \/ (FileDiffers(v) \/ Raises) /\ step' = "compensate" /\ at' = v
  /\ UNCHANGED <<pending, tasks, keepStaging, keepFinal, listed,
                 fileVars, rowVars, taskVars, client>>

Compensate ==
  /\ step = "compensate"
  /\ \/ /\ source[at] = "available"
        /\ source' = [source EXCEPT ![at] = "unavailable"]
        /\ Goto("leftover")
     \/ source[at] # "available" /\ Return("references") /\ UNCHANGED source
  /\ UNCHANGED <<fileVars, mutation, recent, deleted, taskVars, client>>

CleanLeftover ==
  /\ step = "leftover" /\ Return("references")
  /\ \/ final[at] # "none" /\ ScheduleCleanup({at})
     \/ (final[at] = "none" \/ Raises) /\ UNCHANGED cleanup
  /\ UNCHANGED <<fileVars, rowVars, tries, client>>

ReferencesDone == /\ step = "references" /\ references = {} /\ Return("cleanup")
                  /\ UNCHANGED <<fileVars, rowVars, taskVars, client>>

DeleteFiles(v) ==
  /\ step = "cleanup" /\ v \in tasks
  /\ tasks' = tasks \ {v} /\ at' = v
  /\ \/ /\ staging' = [staging EXCEPT ![v] = "none"]
        /\ final'   = [final EXCEPT ![v] = "none"]
        /\ step' = "completed"
     \/ /\ "delete" \in Faults
        /\ staging' \in {staging, [staging EXCEPT ![v] = "none"]}
        /\ step' = "failed" /\ UNCHANGED final
  /\ UNCHANGED <<pending, references, keepStaging, keepFinal, listed,
                 rowVars, taskVars, client>>

CompleteCleanup ==
  /\ step = "completed" /\ Return("cleanup")
  /\ cleanup' = [cleanup EXCEPT ![at] = IF cleanup[at] = "due" THEN "completed" ELSE @]
  /\ UNCHANGED <<fileVars, rowVars, tries, client>>

StatusAfterOneMore(n) == IF n > MaxTries THEN "failed" ELSE "later"  \* mutant
StatusAfter(n) == IF n >= MaxTries THEN "failed" ELSE "later"

FailCleanup ==
  /\ step = "failed" /\ Return("cleanup")
  /\ tries' = [tries EXCEPT ![at] = @ + 1]
  /\ cleanup' = [cleanup EXCEPT ![at] = StatusAfter(tries[at] + 1)]
  /\ UNCHANGED <<fileVars, rowVars, client>>

TooOld(f) == f \in {"old", "bad"}

ListFiles ==
  /\ step = "cleanup" /\ tasks = {}
  /\ step' = "sweep"
  /\ listed' = {<<"staging", v>> : v \in {u \in Versions : TooOld(staging[u])}}
          \cup {<<"final", v>> : v \in {u \in Versions : TooOld(final[u])}}
  /\ UNCHANGED <<at, pending, references, tasks, keepStaging, keepFinal,
                 fileVars, rowVars, taskVars, client>>

ReferencedByRows(d, v) == mutation[v] # "none"                      \* mutant
Referenced(d, v) == IF d = "staging" THEN v \in keepStaging ELSE v \in keepFinal

DeleteStored(d, v) ==
  /\ step = "sweep" /\ <<d, v>> \in listed
  /\ listed' = listed \ {<<d, v>>}
  /\ \/ /\ ~Referenced(d, v)
        /\ staging' = IF d = "staging" THEN [staging EXCEPT ![v] = "none"] ELSE staging
        /\ final'   = IF d = "final" THEN [final EXCEPT ![v] = "none"] ELSE final
     \/ (Referenced(d, v) \/ Raises) /\ UNCHANGED fileVars
  /\ UNCHANGED <<step, at, pending, references, tasks, keepStaging, keepFinal,
                 rowVars, taskVars, client>>

(* The pass ends, or it stops anywhere: its process dies or a transaction  *)
(* raises.                                                                 *)
EndPass ==
  /\ step' = "idle" /\ at' = NoVersion
  /\ pending' = {} /\ references' = {} /\ tasks' = {}
  /\ keepStaging' = {} /\ keepFinal' = {} /\ listed' = {}
  /\ UNCHANGED <<fileVars, rowVars, taskVars, client>>

Finished   == step = "stop" \/ (step = "sweep" /\ listed = {})
FinishPass == Finished /\ EndPass
AbortPass  == step # "idle" /\ ~Finished /\ EndPass

-----------------------------------------------------------------------------
(* Time, and what happens to a disk.                                       *)

(* A pass compares with the time it started at, so that nothing grows too  *)
(* old during it.  A request lasts less than the grace period.             *)
GracePeriodPasses(v) ==
  /\ step = "idle"
  /\ \A c \in Clients : client[c].version # v
  /\ v \in recent \/ staging[v] = "fresh" \/ final[v] = "fresh"
  /\ recent'  = recent \ {v}
  /\ staging' = [staging EXCEPT ![v] = IF @ = "fresh" THEN "old" ELSE @]
  /\ final'   = [final EXCEPT ![v] = IF @ = "fresh" THEN "old" ELSE @]
  /\ UNCHANGED <<mutation, source, deleted, taskVars, client, passVars>>

CleanupBackoffElapses(v) ==
  /\ cleanup[v] = "later"
  /\ cleanup' = [cleanup EXCEPT ![v] = "due"]
  /\ UNCHANGED <<fileVars, rowVars, tries, client, passVars>>

(* Maintenance deletes clean-up rows that have been settled long enough.   *)
CleanupExpires(v) ==
  /\ cleanup[v] \in {"completed", "failed"}
  /\ cleanup' = [cleanup EXCEPT ![v] = "none"]
  /\ tries' = [tries EXCEPT ![v] = 0]
  /\ UNCHANGED <<fileVars, rowVars, client, passVars>>

LoseFile(v) ==
  /\ "lose" \in Faults /\ final[v] \in Intact
  /\ \E f \in {"none", "bad"} : final' = [final EXCEPT ![v] = f]
  /\ UNCHANGED <<staging, rowVars, taskVars, client, passVars>>

-----------------------------------------------------------------------------
Request(c) == Reserve(c) \/ Discard(c) \/ Finalize(c) \/ Activate(c)

Pass == \/ \E P, T \in SUBSET Versions : LoadPass(P, T)
        \/ \E v \in Versions : InspectPending(v) \/ CheckReference(v) \/ DeleteFiles(v)
        \/ InspectStaging \/ InspectAgain \/ FinalizePending \/ VerifyPending
        \/ ActivatePending
        \/ FailPending \/ PendingDone \/ Compensate \/ CleanLeftover
        \/ ReferencesDone \/ CompleteCleanup \/ FailCleanup \/ ListFiles
        \/ \E d \in {"staging", "final"}, v \in Versions : DeleteStored(d, v)
        \/ FinishPass

FilesNext ==
  \/ \E c \in Clients, v \in Versions : Stage(c, v)
  \/ \E c \in Clients : Request(c) \/ Abandon(c)
  \/ \E d \in Documents : SoftDelete(d)
  \/ Pass \/ AbortPass
  \/ \E v \in Versions : \/ GracePeriodPasses(v) \/ CleanupBackoffElapses(v)
                         \/ CleanupExpires(v) \/ LoseFile(v)

FilesSafety == FilesInit /\ [][FilesNext]_vars

(* Requests run on, time passes, and the janitor is started again.         *)
FilesFairness ==
  /\ \A c \in Clients : WF_vars(Request(c))
  /\ \A v \in Versions : SF_vars(GracePeriodPasses(v)) /\ WF_vars(CleanupBackoffElapses(v))
  /\ WF_vars(Pass)

FilesSpec == FilesSafety /\ FilesFairness

-----------------------------------------------------------------------------
(* Properties.                                                             *)

Steps == {"idle", "pending", "inspect staging", "inspect again", "finalize",
          "verify", "activate", "fail", "stop", "references", "compensate",
          "leftover", "cleanup", "completed", "failed", "sweep"}

(* Every variable has a value of the column, directory or local variable   *)
(* it stands for.                                                          *)
FilesTypeOK ==
  /\ staging \in [Versions -> Files] /\ final \in [Versions -> Files]
  /\ mutation \in [Versions -> {"none", "pending", "completed", "failed"}]
  /\ source \in [Versions -> {"absent", "unavailable", "available", "deleted"}]
  /\ recent \subseteq Versions /\ deleted \subseteq Documents
  /\ cleanup \in [Versions -> {"none", "due", "later", "completed", "failed"}]
  /\ tries \in [Versions -> 0..MaxTries]
  /\ client \in [Clients -> [step : {"idle", "reserve", "discard", "finalize", "activate"},
                             version : Versions \cup {NoVersion}]]
  /\ step \in Steps /\ at \in Versions \cup {NoVersion}
  /\ pending \subseteq Versions /\ references \subseteq Versions
  /\ tasks \subseteq Versions /\ keepStaging \subseteq Versions
  /\ keepFinal \subseteq Versions /\ listed \subseteq {"staging", "final"} \X Versions

(* The mutation and the version of an upload agree: only a completed       *)
(* mutation has an available version, and a failed one a deleted version.  *)
OutcomesAgree ==
  \A v \in Versions :
    /\ mutation[v] = "none" <=> source[v] = "absent"
    /\ source[v] = "available" => mutation[v] = "completed"
    /\ mutation[v] = "failed" => source[v] = "deleted"

(* An upload is decided once: a janitor that found its file missing does   *)
(* not undo an activation that came first, nor does an activation undo the *)
(* janitor's failure or a deletion (fail_pending_file_mutation).           *)
DecisionsStand ==
  [][\A v \in Versions :
       /\ mutation[v] \in {"completed", "failed"} => mutation'[v] = mutation[v]
       /\ source[v] = "deleted" => source'[v] = "deleted"]_vars

HasFile(v) == staging[v] \in Intact \/ final[v] \in Intact
OfJanitor  == passVars' # passVars

(* No step of a pass removes the last intact file of a pending reservation *)
(* older than the grace period, which a pass is there to activate.         *)
RestartRecoversPending ==
  [][OfJanitor => \A v \in Pending \ recent : HasFile(v) => HasFile(v)']_vars

(* The four ways in which the janitor loses sight of an upload that is     *)
(* activated later.  The pass starts without it: more are pending than it  *)
(* reads.                                                                  *)
LeftOut(v) == step = "idle" /\ step' = "pending" /\ v \in Pending \ pending'

(* An inspection of its final file raises, and the pass goes on.           *)
GivenUp(v) == /\ step' = "pending"
              /\ \/ step = "pending" /\ v \in pending \ pending'
                 \/ step = "verify" /\ v = at

(* Its document, deleted already, is deleted again: its file is doomed.    *)
Doomed(v) == cleanup[v] = "none" /\ cleanup'[v] # "none" /\ v \in Pending'

(* A request for a bundle uses a staged file that is old.                  *)
StagedBefore(v) ==
  \E c \in Clients : /\ client[c].step = "idle" /\ client'[c].step = "reserve"
                     /\ client'[c].version = v /\ staging'[v] = "old"

(* Kept only to state the property: the uploads lost sight of so far, by a *)
(* pass only if their final file was old.                                  *)
VARIABLE neglected

Neglects(v) == \/ final[v] = "old" /\ (LeftOut(v) \/ GivenUp(v))
               \/ Doomed(v) \/ StagedBefore(v)

Watch == neglected' = neglected \cup {v \in Versions : Neglects(v)}

FilesWatched == /\ FilesInit /\ neglected = {}
                /\ [][FilesNext /\ Watch]_<<vars, neglected>>

(* No step of a pass removes the intact file of a version that is          *)
(* available, though the pass works with a snapshot taken at its start,    *)
(* unless it has lost sight of that very upload.                           *)
CommittedFilesSurvive ==
  [][OfJanitor => \A v \in Versions \ neglected :
       source[v] = "available" /\ final[v] \in Intact
         => final'[v] \in Intact]_<<vars, neglected>>

(* An upload that answers with success has its mutation completed.         *)
UploadsArePublished ==
  [][\A c \in Clients : LET v == client[c].version IN
       client[c].step = "activate" /\ Activate(c) /\ Succeeds(v)
         => mutation'[v] = "completed"]_vars

UploadsCease == <>[](\A c \in Clients : client[c].step = "idle")
CrashesCease == <>[][~AbortPass]_vars

(* Once nobody uploads any more and passes end, every reservation whose    *)
(* request died is activated or fails, or its document was deleted.        *)
PendingIsDecided ==
  UploadsCease /\ CrashesCease => \A v \in Versions : v \in Pending ~> v \notin Pending

(* A version whose file was lost or damaged does not stay available.       *)
LostFilesAreCompensated ==
  CrashesCease => \A v \in Versions :
    source[v] = "available" /\ final[v] \notin Intact
      ~> source[v] # "available" \/ final[v] \in Intact

(* Once nobody uploads any more and passes end, no staged file and no file *)
(* of a version that is not available remains.                             *)
NothingLeaks ==
  UploadsCease /\ CrashesCease => \A v \in Versions :
    []<>(staging[v] = "none" /\ (final[v] = "none" \/ source[v] = "available"))
=============================================================================
