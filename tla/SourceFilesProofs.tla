-------------------------- MODULE SourceFilesProofs --------------------------
(***************************************************************************)
(* Proofs about SourceFiles, for any uploads, documents, keys, requests,   *)
(* batch size, clean-up attempts and faults.                               *)
(***************************************************************************)
EXTENDS SourceFiles, FiniteSetTheorems, TLAPS

(* The parts of the type invariant.                                        *)
FilesOK == staging \in [Versions -> Files] /\ final \in [Versions -> Files]
RowsOK ==
  /\ mutation \in [Versions -> {"none", "pending", "completed", "failed"}]
  /\ source \in [Versions -> {"absent", "unavailable", "available", "deleted"}]
  /\ recent \subseteq Versions /\ deleted \subseteq Documents
TasksOK ==
  /\ cleanup \in [Versions -> {"none", "due", "later", "completed", "failed"}]
  /\ tries \in [Versions -> 0..MaxTries]
ClientsOK ==
  client \in [Clients -> [step : {"idle", "reserve", "discard", "finalize", "activate"},
                          version : Versions \cup {NoVersion}]]
PassOK ==
  /\ step \in Steps /\ at \in Versions \cup {NoVersion}
  /\ pending \subseteq Versions /\ references \subseteq Versions
  /\ tasks \subseteq Versions /\ keepStaging \subseteq Versions
  /\ keepFinal \subseteq Versions /\ listed \subseteq {"staging", "final"} \X Versions

(* A request at work has a version; so has a pass that looks at one.  A    *)
(* clean-up that a pass has still to do is due, and one that can become    *)
(* due has attempts left: only the pass itself counts them.                *)
Requesting == \A c \in Clients : client[c].step # "idle" => client[c].version \in Versions
Looking    == step \notin {"idle", "pending", "references", "cleanup", "sweep", "stop"}
                => at \in Versions
Cleaning   == /\ tasks \subseteq DueCleanup
              /\ step \in {"completed", "failed"} => at \in DueCleanup \ tasks
Trying     == \A v \in Versions : cleanup[v] \in {"none", "due", "later"}
                                    => tries[v] < MaxTries

(* The invariant, by the variables that its parts are about.               *)
FilePart   == FilesOK
RowPart    == RowsOK /\ OutcomesAgree
TaskPart   == TasksOK /\ Trying
ClientPart == ClientsOK /\ Requesting
PassPart   == PassOK /\ Looking

FilesInv == FilePart /\ RowPart /\ TaskPart /\ ClientPart /\ PassPart /\ Cleaning

(* It implies the type invariant and the agreement of rows.                *)
LEMMA InvImplies == FilesInv => FilesTypeOK /\ OutcomesAgree
  BY DEF FilesInv, FilePart, RowPart, TaskPart, ClientPart, PassPart,
         FilesTypeOK, FilesOK, RowsOK, TasksOK, ClientsOK, PassOK

(* A version has its document.                                             *)
LEMMA DocumentType == ASSUME NEW v \in Versions PROVE DocumentOf(v) \in Documents
  BY FileConstants DEF DocumentOf

(* The mutation that an activation finds is that of an upload.             *)
LEMMA SelectedType == ASSUME NEW v \in Versions PROVE Selected(v) \in Versions
  BY FileConstants DEF Selected

-----------------------------------------------------------------------------
(* The transactions.                                                       *)

(* reserve_version keeps the rows' types and agreement.                    *)
LEMMA ReserveKeeps ==
  ASSUME RowsOK, OutcomesAgree, NEW v \in Versions,
         mutation[v] = "none", ReserveRows(v)
  PROVE  RowsOK' /\ OutcomesAgree'
  BY DEF RowsOK, OutcomesAgree, ReserveRows

(* activate_reserved_version keeps them.                                   *)
LEMMA ActivateKeeps ==
  ASSUME RowsOK, OutcomesAgree, NEW v \in Versions, ActivateRows(v)
  PROVE  RowsOK' /\ OutcomesAgree'
<1> DEFINE u == Selected(v)
<1>1. u \in Versions
      BY SelectedType
<1> QED
    BY <1>1 DEF RowsOK, OutcomesAgree, ActivateRows, Activates

(* Inserting clean-up rows keeps the tasks' types, and their attempts.     *)
LEMMA ScheduleKeeps ==
  ASSUME TasksOK, Trying, Cleaning, NEW S, ScheduleCleanup(S), UNCHANGED tries
  PROVE  /\ TasksOK' /\ Trying'
         /\ DueCleanup \subseteq DueCleanup'
  BY DEF TasksOK, Trying, ScheduleCleanup, DueCleanup

(* fail_pending_file_mutation keeps the rows' types and agreement.         *)
LEMMA FailKeeps ==
  ASSUME RowsOK, OutcomesAgree, NEW v \in Versions, FailPendingRows(v)
  PROVE  RowsOK' /\ OutcomesAgree'
<1>1. deleted' \subseteq Documents
      BY DocumentType DEF FailPendingRows, RowsOK
<1> QED
    BY <1>1 DEF FailPendingRows, Failable, RowsOK, OutcomesAgree

(* soft_delete keeps them.                                                 *)
LEMMA DeleteKeeps ==
  ASSUME RowsOK, OutcomesAgree, NEW d \in Documents, SoftDelete(d)
  PROVE  RowsOK' /\ OutcomesAgree'
  BY DEF SoftDelete, Withdrawn, Reserved, RowsOK, OutcomesAgree

-----------------------------------------------------------------------------
(* What a step does not change stays as it is.                             *)
LEMMA Frame ==
  ASSUME FilesInv
  PROVE  /\ UNCHANGED fileVars => FilePart'
         /\ UNCHANGED rowVars => RowPart'
         /\ UNCHANGED taskVars => TaskPart'
         /\ UNCHANGED client => ClientPart'
         /\ UNCHANGED passVars => PassPart'
<1>1. UNCHANGED fileVars => FilePart'
      BY DEF FilesInv, FilePart, FilesOK, fileVars
<1>2. UNCHANGED rowVars => RowPart'
      BY DEF FilesInv, RowPart, RowsOK, OutcomesAgree, rowVars
<1>3. UNCHANGED taskVars => TaskPart'
      BY DEF FilesInv, TaskPart, TasksOK, Trying, taskVars
<1>4. UNCHANGED client => ClientPart'
      BY DEF FilesInv, ClientPart, ClientsOK, Requesting
<1>5. UNCHANGED passVars => PassPart'
      BY DEF FilesInv, PassPart, PassOK, Looking, passVars
<1> QED
    BY <1>1, <1>2, <1>3, <1>4, <1>5

(* Clean-ups only become due while the pass has not come to them.          *)
LEMMA CleaningStays ==
  ASSUME Cleaning, DueCleanup \subseteq DueCleanup', tasks' \subseteq tasks,
         \/ step' \notin {"completed", "failed"}
         \/ UNCHANGED <<step, at>>
  PROVE  Cleaning'
  BY DEF Cleaning

(* A request goes on with its version, or leaves.                          *)
LEMMA ClientMoves ==
  ASSUME FilesInv, NEW c \in Clients,
         \/ Leave(c)
         \/ \E s \in {"reserve", "discard", "finalize", "activate"} :
              client[c].step # "idle" /\ Continue(c, s)
  PROVE  ClientPart'
<1>1. CASE Leave(c)
      BY <1>1 DEF FilesInv, Leave, Idle, ClientPart, ClientsOK, Requesting
<1>2. ASSUME NEW s \in {"reserve", "discard", "finalize", "activate"},
             client[c].step # "idle", Continue(c, s)
      PROVE  ClientPart'
      <2>1. client' = [client EXCEPT ![c] = [step |-> s, version |-> client[c].version]]
            <3>1. client[c] \in [step : {"idle", "reserve", "discard", "finalize", "activate"},
                                 version : Versions \cup {NoVersion}]
                  BY DEF FilesInv, ClientPart, ClientsOK
            <3>2. [client[c] EXCEPT !.step = s] = [step |-> s, version |-> client[c].version]
                  BY <3>1
            <3> QED
                BY <1>2, <3>2 DEF Continue
      <2>2. client[c].version \in Versions
            BY <1>2 DEF FilesInv, ClientPart, Requesting
      <2>3. [step |-> s, version |-> client[c].version] \in
              [step : {"idle", "reserve", "discard", "finalize", "activate"},
               version : Versions \cup {NoVersion}]
            BY <2>2
      <2> QED
          BY <2>1, <2>2, <2>3 DEF FilesInv, ClientPart, ClientsOK, Requesting
<1> QED
    BY <1>1, <1>2

(* The pass goes on with its version, with the next one or elsewhere.      *)
LEMMA PassMoves ==
  ASSUME FilesInv,
         \/ at \in Versions /\ \E s \in Steps : Goto(s)
         \/ Goto("stop")
         \/ \E s \in {"references", "cleanup"} : Return(s)
         \/ /\ NextPending
            /\ keepStaging' \subseteq keepStaging
            /\ keepFinal' \subseteq Versions
  PROVE  /\ PassPart' /\ tasks' = tasks
<1>1. ASSUME at \in Versions, NEW s \in Steps, Goto(s)
      PROVE  PassPart' /\ tasks' = tasks
      BY <1>1 DEF FilesInv, Goto, PassPart, PassOK, Looking
<1>2. ASSUME Goto("stop") PROVE PassPart' /\ tasks' = tasks
      BY <1>2 DEF FilesInv, Goto, PassPart, PassOK, Looking, Steps
<1>3. ASSUME NEW s \in {"references", "cleanup"}, Return(s)
      PROVE  PassPart' /\ tasks' = tasks
      BY <1>3 DEF FilesInv, Return, PassPart, PassOK, Looking, Steps
<1>4. ASSUME NextPending, keepStaging' \subseteq keepStaging, keepFinal' \subseteq Versions
      PROVE  PassPart' /\ tasks' = tasks
      BY <1>4 DEF FilesInv, NextPending, PassPart, PassOK, Looking, Steps
<1> QED
    BY <1>1, <1>2, <1>3, <1>4

(* Finalizing moves a file.                                                *)
LEMMA FinalizeKeeps ==
  ASSUME FilesOK, NEW v \in Versions, FinalizeFile(v)
  PROVE  FilesOK'
  BY DEF FilesOK, FinalizeFile, Files

-----------------------------------------------------------------------------
(* Every action keeps the invariant.                                       *)

(* A new request.                                                          *)
LEMMA StageStep ==
  ASSUME FilesInv, NEW c \in Clients, NEW v \in Versions, Stage(c, v)
  PROVE  FilesInv'
<1>1. FilePart'
      BY DEF FilesInv, Stage, FilePart, FilesOK, Files
<1>2. ClientPart'
      <2>1. client' = [client EXCEPT ![c] = [step |-> "reserve", version |-> v]]
            BY DEF Stage
      <2> QED
          BY <2>1 DEF FilesInv, ClientPart, ClientsOK, Requesting
<1>3. RowPart' /\ TaskPart' /\ PassPart' /\ Cleaning'
      BY Frame, CleaningStays DEF FilesInv, Stage, taskVars, passVars, DueCleanup
<1> QED
    BY <1>1, <1>2, <1>3 DEF FilesInv

(* The steps of a request.                                                 *)
LEMMA RequestStep ==
  ASSUME FilesInv, NEW c \in Clients, Request(c) \/ Abandon(c)
  PROVE  FilesInv'
<1> DEFINE v == client[c].version
<1>0. /\ client[c].step # "idle"
      /\ UNCHANGED <<taskVars, passVars>>
      BY DEF Request, Reserve, Discard, Finalize, Activate, Abandon
<1>1. v \in Versions
      BY <1>0 DEF FilesInv, ClientPart, Requesting
<1>2. TaskPart' /\ PassPart' /\ Cleaning' /\ UNCHANGED cleanup
      BY <1>0, Frame, CleaningStays DEF FilesInv, taskVars, passVars, DueCleanup
<1>3. ASSUME Reserve(c) PROVE FilesInv'
      <2>1. FilePart'
            BY <1>3, Frame DEF Reserve
      <2>2. RowPart'
            <3>1. \/ mutation[v] = "none" /\ ReserveRows(v)
                  \/ UNCHANGED rowVars
                  BY <1>3 DEF Reserve, Reservable
            <3> QED
                BY <3>1, <1>1, <1>2, ReserveKeeps, Frame DEF FilesInv, RowPart
      <2>3. ClientPart'
            BY <1>0, <1>3, ClientMoves DEF Reserve
      <2> QED
          BY <1>2, <2>1, <2>2, <2>3 DEF FilesInv
<1>4. ASSUME Discard(c) PROVE FilesInv'
      <2>1. FilePart'
            BY <1>1, <1>4 DEF FilesInv, Discard, FilePart, FilesOK, Files
      <2> QED
          BY <1>2, <1>4, <2>1, ClientMoves, Frame DEF FilesInv, Discard
<1>5. ASSUME Finalize(c) PROVE FilesInv'
      <2>1. FilePart'
            BY <1>1, <1>5, FinalizeKeeps, Frame DEF FilesInv, Finalize, FilePart
      <2>2. ClientPart'
            BY <1>0, <1>5, ClientMoves DEF Finalize
      <2> QED
          BY <1>2, <1>5, <2>1, <2>2, Frame DEF FilesInv, Finalize
<1>6. ASSUME Activate(c) PROVE FilesInv'
      <2>1. ActivateRows(v) \/ UNCHANGED rowVars
            BY <1>6 DEF Activate
      <2>2. RowPart'
            BY <1>1, <1>2, <2>1, ActivateKeeps, Frame DEF FilesInv, RowPart
      <2> QED
          BY <1>2, <1>6, <2>2, ClientMoves, Frame DEF FilesInv, Activate
<1>7. ASSUME Abandon(c) PROVE FilesInv'
      BY <1>2, <1>7, ClientMoves, Frame DEF FilesInv, Abandon
<1> QED
    BY <1>3, <1>4, <1>5, <1>6, <1>7 DEF Request

(* Deletion, time and the disk.                                            *)
LEMMA OutsideStep ==
  ASSUME FilesInv,
         \/ \E d \in Documents : SoftDelete(d)
         \/ \E v \in Versions : \/ GracePeriodPasses(v) \/ CleanupBackoffElapses(v)
                                \/ CleanupExpires(v) \/ LoseFile(v)
  PROVE  FilesInv'
<1>1. ASSUME NEW d \in Documents, SoftDelete(d) PROVE FilesInv'
      <2>1. RowPart'
            BY <1>1, DeleteKeeps DEF FilesInv, RowPart
      <2>2. TaskPart' /\ DueCleanup \subseteq DueCleanup'
            BY <1>1, ScheduleKeeps DEF FilesInv, SoftDelete, TaskPart
      <2>3. Cleaning'
            BY <1>1, <2>2, CleaningStays DEF FilesInv, SoftDelete, passVars
      <2> QED
          BY <1>1, <2>1, <2>2, <2>3, Frame DEF FilesInv, SoftDelete
<1>2. ASSUME NEW v \in Versions, GracePeriodPasses(v) PROVE FilesInv'
      <2>1. FilePart' /\ RowPart'
            BY <1>2 DEF FilesInv, GracePeriodPasses, FilePart, FilesOK, Files,
                                  RowPart, RowsOK, OutcomesAgree, taskVars
      <2>2. Cleaning'
            BY <1>2, CleaningStays DEF FilesInv, GracePeriodPasses, taskVars, passVars, DueCleanup
      <2> QED
          BY <1>2, <2>1, <2>2, Frame DEF FilesInv, GracePeriodPasses
<1>3. ASSUME NEW v \in Versions, CleanupBackoffElapses(v) PROVE FilesInv'
      <2>1. TaskPart' /\ DueCleanup \subseteq DueCleanup'
            BY <1>3 DEF FilesInv, CleanupBackoffElapses, TaskPart, TasksOK, Trying, DueCleanup
      <2>2. Cleaning'
            BY <1>3, <2>1, CleaningStays DEF FilesInv, CleanupBackoffElapses, passVars
      <2> QED
          BY <1>3, <2>1, <2>2, Frame DEF FilesInv, CleanupBackoffElapses
<1>4. ASSUME NEW v \in Versions, CleanupExpires(v) PROVE FilesInv'
      <2>1. TaskPart' /\ DueCleanup \subseteq DueCleanup'
            BY <1>4, FileConstants
               DEF FilesInv, CleanupExpires, TaskPart, TasksOK, Trying, DueCleanup
      <2>2. Cleaning'
            BY <1>4, <2>1, CleaningStays DEF FilesInv, CleanupExpires, passVars
      <2> QED
          BY <1>4, <2>1, <2>2, Frame DEF FilesInv, CleanupExpires
<1>5. ASSUME NEW v \in Versions, LoseFile(v) PROVE FilesInv'
      <2>1. FilePart'
            BY <1>5 DEF FilesInv, LoseFile, FilePart, FilesOK, Files
      <2>2. Cleaning'
            BY <1>5, CleaningStays DEF FilesInv, LoseFile, taskVars, passVars, DueCleanup
      <2> QED
          BY <1>5, <2>1, <2>2, Frame DEF FilesInv, LoseFile, taskVars
<1> QED
    BY <1>1, <1>2, <1>3, <1>4, <1>5

(* The pass over the pending mutations, where it only looks.               *)
LEMMA PendingStep ==
  ASSUME FilesInv,
         \/ \E P, T \in SUBSET Versions : LoadPass(P, T)
         \/ \E v \in Versions : InspectPending(v)
         \/ InspectStaging \/ InspectAgain \/ VerifyPending \/ PendingDone
  PROVE  FilesInv'
<1>0. keepStaging \subseteq Versions /\ keepFinal \subseteq Versions
      BY DEF FilesInv, PassPart, PassOK
<1>1. ASSUME NEW P \in SUBSET Versions, NEW T \in SUBSET Versions, LoadPass(P, T)
      PROVE  FilesInv'
      <2>1. PassPart' /\ Cleaning'
            BY <1>1 DEF FilesInv, LoadPass, Batch, PassPart, PassOK, Looking, Cleaning,
                        Steps, DueCleanup, taskVars
      <2> QED
          BY <1>1, <2>1, Frame DEF FilesInv, LoadPass, taskVars
<1>2. ASSUME NEW v \in Versions, InspectPending(v) PROVE FilesInv'
      <2>1. step' \in {"pending", "activate", "fail", "inspect staging"} /\ at' \in Versions \cup {at}
            BY <1>2 DEF FilesInv, FilePart, FilesOK, Files, Intact, InspectPending
      <2>2. step' = "pending" \/ at' \in Versions
            BY <1>2 DEF InspectPending
      <2>3. PassPart' /\ Cleaning'
            BY <1>2, <2>1, <2>2 DEF FilesInv, InspectPending, PassPart, PassOK, Looking,
                              Cleaning, Steps, DueCleanup, taskVars
      <2> QED
          BY <1>2, <2>3, Frame DEF FilesInv, InspectPending, taskVars
<1>3. ASSUME InspectStaging \/ InspectAgain \/ VerifyPending \/ PendingDone PROVE FilesInv'
      <2>1. \/ at \in Versions /\ \E s \in {"inspect again", "fail", "finalize", "activate"} : Goto(s)
            \/ Return("references")
            \/ NextPending /\ Keep
            BY <1>3 DEF FilesInv, FilePart, FilesOK, Files, Intact, PassPart, Looking,
                        InspectStaging, InspectAgain, VerifyPending, PendingDone
      <2>2. PassPart' /\ tasks' = tasks
            BY <1>0, <2>1, PassMoves DEF Keep, Steps
      <2>3. step' \notin {"completed", "failed"}
            BY <2>1 DEF Goto, Return, NextPending
      <2>4. UNCHANGED <<fileVars, rowVars, taskVars, client>>
            BY <1>3 DEF InspectStaging, InspectAgain, VerifyPending, PendingDone
      <2> QED
          BY <2>2, <2>3, <2>4, Frame, CleaningStays DEF FilesInv, taskVars, DueCleanup
<1> QED
    BY <1>1, <1>2, <1>3

(* The pass over the pending mutations, where it decides them.             *)
LEMMA DecisionStep ==
  ASSUME FilesInv, FinalizePending \/ ActivatePending \/ FailPending
  PROVE  FilesInv'
<1>0. at \in Versions
      BY DEF FilesInv, PassPart, Looking, FinalizePending, ActivatePending, FailPending
<1>1. keepStaging \subseteq Versions /\ keepFinal \subseteq Versions
      BY DEF FilesInv, PassPart, PassOK
<1>2. \/ Goto("verify") \/ Goto("fail") \/ Goto("stop")
      \/ /\ NextPending
         /\ keepStaging' \subseteq keepStaging /\ keepFinal' \subseteq Versions
      BY <1>0, <1>1 DEF FinalizePending, ActivatePending, FailPending, Keep, KeepFinalWith
<1>3. PassPart' /\ tasks' = tasks
      BY <1>0, <1>2, PassMoves DEF Steps
<1>4. step' \notin {"completed", "failed"}
      BY <1>2 DEF Goto, NextPending
<1>5. ASSUME FinalizePending PROVE FilesInv'
      <2>1. FilePart'
            BY <1>0, <1>5, FinalizeKeeps, Frame DEF FilesInv, FinalizePending, FilePart
      <2> QED
          BY <1>3, <1>4, <1>5, <2>1, Frame, CleaningStays
             DEF FilesInv, FinalizePending, taskVars, DueCleanup
<1>6. ASSUME ActivatePending PROVE FilesInv'
      <2>1. ActivateRows(at) \/ UNCHANGED rowVars
            BY <1>6 DEF ActivatePending
      <2>2. RowPart'
            BY <1>0, <2>1, ActivateKeeps, Frame DEF FilesInv, RowPart
      <2> QED
          BY <1>3, <1>4, <1>6, <2>2, Frame, CleaningStays
             DEF FilesInv, ActivatePending, taskVars, DueCleanup
<1>7. ASSUME FailPending PROVE FilesInv'
      <2>1. FailPendingRows(at) \/ UNCHANGED <<rowVars, taskVars>>
            BY <1>7 DEF FailPending
      <2>2. UNCHANGED <<fileVars, client>>
            BY <1>7 DEF FailPending
      <2>3. RowPart'
            BY <1>0, <2>1, FailKeeps, Frame DEF FilesInv, RowPart
      <2>4. TaskPart' /\ DueCleanup \subseteq DueCleanup'
            BY <2>1, ScheduleKeeps, Frame DEF FilesInv, TaskPart, FailPendingRows, taskVars, DueCleanup
      <2> QED
          BY <1>3, <1>4, <2>2, <2>3, <2>4, Frame, CleaningStays DEF FilesInv
<1> QED
    BY <1>5, <1>6, <1>7

(* The pass over the references.                                           *)
LEMMA ReferenceStep ==
  ASSUME FilesInv,
         \/ \E v \in Versions : CheckReference(v)
         \/ Compensate \/ CleanLeftover \/ ReferencesDone
  PROVE  FilesInv'
<1>1. ASSUME NEW v \in Versions, CheckReference(v) PROVE FilesInv'
      <2>1. PassPart' /\ Cleaning'
            BY <1>1 DEF FilesInv, CheckReference, PassPart, PassOK, Looking, Cleaning,
                        Steps, DueCleanup, taskVars
      <2> QED
          BY <1>1, <2>1, Frame DEF FilesInv, CheckReference, taskVars
<1>2. ASSUME Compensate PROVE FilesInv'
      <2>1. at \in Versions
            BY <1>2 DEF FilesInv, PassPart, Looking, Compensate
      <2>2. Goto("leftover") \/ Return("references")
            BY <1>2 DEF Compensate
      <2>3. PassPart' /\ tasks' = tasks
            BY <2>1, <2>2, PassMoves DEF Steps
      <2>4. RowPart'
            BY <1>2, <2>1 DEF FilesInv, RowPart, RowsOK, OutcomesAgree, Compensate, taskVars
      <2>5. Cleaning'
            BY <1>2, <2>2, <2>3, CleaningStays
               DEF FilesInv, Compensate, Goto, Return, taskVars, DueCleanup
      <2> QED
          BY <1>2, <2>3, <2>4, <2>5, Frame DEF FilesInv, Compensate
<1>3. ASSUME CleanLeftover PROVE FilesInv'
      <2>1. PassPart' /\ tasks' = tasks /\ step' = "references"
            BY <1>3, PassMoves DEF CleanLeftover, Return
      <2>2. ScheduleCleanup({at}) \/ UNCHANGED cleanup
            BY <1>3 DEF CleanLeftover
      <2>3. UNCHANGED <<fileVars, rowVars, tries, client>>
            BY <1>3 DEF CleanLeftover
      <2>4. TaskPart' /\ DueCleanup \subseteq DueCleanup'
            BY <2>2, <2>3, ScheduleKeeps, Frame DEF FilesInv, TaskPart, taskVars, DueCleanup
      <2> QED
          BY <2>1, <2>3, <2>4, Frame, CleaningStays DEF FilesInv
<1>4. ASSUME ReferencesDone PROVE FilesInv'
      <2>1. PassPart' /\ tasks' = tasks /\ step' = "cleanup"
            BY <1>4, PassMoves DEF ReferencesDone, Return
      <2> QED
          BY <1>4, <2>1, Frame, CleaningStays DEF FilesInv, ReferencesDone, taskVars, DueCleanup
<1> QED
    BY <1>1, <1>2, <1>3, <1>4
(* The pass over the clean-up rows.                                        *)
LEMMA CleanupStep ==
  ASSUME FilesInv,
         \/ \E v \in Versions : DeleteFiles(v)
         \/ CompleteCleanup \/ FailCleanup
  PROVE  FilesInv'
<1>1. ASSUME NEW v \in Versions, DeleteFiles(v) PROVE FilesInv'
      <2>1. FilePart'
            BY <1>1 DEF FilesInv, FilePart, FilesOK, Files, DeleteFiles
      <2>2. PassPart'
            BY <1>1 DEF FilesInv, PassPart, PassOK, Looking, DeleteFiles, Steps
      <2>3. Cleaning'
            BY <1>1 DEF FilesInv, Cleaning, DueCleanup, DeleteFiles, taskVars
      <2> QED
          BY <1>1, <2>1, <2>2, <2>3, Frame DEF FilesInv, DeleteFiles, taskVars
<1>2. ASSUME CompleteCleanup \/ FailCleanup PROVE FilesInv'
      <2>1. /\ at \in Versions /\ at \notin tasks /\ cleanup[at] = "due" /\ tries[at] < MaxTries
            /\ tasks \subseteq DueCleanup
            BY <1>2 DEF FilesInv, Cleaning, DueCleanup, TaskPart, Trying,
                        CompleteCleanup, FailCleanup
      <2>2. PassPart' /\ tasks' = tasks /\ step' = "cleanup"
            BY <1>2, PassMoves DEF CompleteCleanup, FailCleanup, Return
      <2>3. TaskPart'
            <3>1. CASE CompleteCleanup
                  BY <3>1, <2>1 DEF FilesInv, TaskPart, TasksOK, Trying, CompleteCleanup
            <3>2. CASE FailCleanup
                  <4>1. tries[at] + 1 \in 0..MaxTries
                        BY <2>1, FileConstants DEF FilesInv, TaskPart, TasksOK
                  <4>2. \/ StatusAfter(tries[at] + 1) = "failed"
                        \/ /\ StatusAfter(tries[at] + 1) = "later"
                           /\ tries[at] + 1 < MaxTries
                        BY <4>1, FileConstants DEF StatusAfter
                  <4> QED
                      BY <3>2, <2>1, <4>1, <4>2 DEF FilesInv, TaskPart, TasksOK, Trying, FailCleanup
            <3> QED
                BY <1>2, <3>1, <3>2
      <2>4. UNCHANGED <<fileVars, rowVars, client>>
            BY <1>2 DEF CompleteCleanup, FailCleanup
      <2>5. \A v \in Versions \ {at} : cleanup'[v] = cleanup[v]
            BY <1>2, <2>1 DEF FilesInv, TaskPart, TasksOK, CompleteCleanup, FailCleanup, StatusAfter
      <2>6. Cleaning'
            <3>1. tasks \subseteq DueCleanup'
                  BY <2>1, <2>5 DEF DueCleanup
            <3> QED
                BY <2>2, <3>1 DEF Cleaning
      <2> QED
          BY <2>2, <2>3, <2>4, <2>6, Frame DEF FilesInv
<1> QED
    BY <1>1, <1>2

(* The sweep of the directories, and the end of the pass.                  *)
LEMMA SweepStep ==
  ASSUME FilesInv,
         \/ ListFiles
         \/ \E d \in {"staging", "final"}, v \in Versions : DeleteStored(d, v)
         \/ EndPass
  PROVE  FilesInv'
<1>1. ASSUME ListFiles PROVE FilesInv'
      <2>1. PassPart' /\ Cleaning'
            BY <1>1 DEF FilesInv, PassPart, PassOK, Looking, Cleaning, ListFiles, Steps, DueCleanup
      <2> QED
          BY <1>1, <2>1, Frame DEF FilesInv, ListFiles, taskVars
<1>2. ASSUME NEW d \in {"staging", "final"}, NEW v \in Versions, DeleteStored(d, v)
      PROVE  FilesInv'
      <2>1. FilePart'
            BY <1>2, Frame DEF FilesInv, FilePart, FilesOK, Files, DeleteStored, fileVars
      <2>2. PassPart' /\ Cleaning'
            BY <1>2 DEF FilesInv, PassPart, PassOK, Looking, Cleaning, DeleteStored,
                        taskVars, DueCleanup
      <2> QED
          BY <1>2, <2>1, <2>2, Frame DEF FilesInv, DeleteStored, taskVars
<1>3. ASSUME EndPass PROVE FilesInv'
      <2>1. PassPart' /\ Cleaning'
            BY <1>3 DEF FilesInv, PassPart, PassOK, Looking, Cleaning, EndPass, Steps
      <2> QED
          BY <1>3, <2>1, Frame DEF FilesInv, EndPass, taskVars
<1> QED
    BY <1>1, <1>2, <1>3

-----------------------------------------------------------------------------
(* Initially nothing is stored.                                            *)
LEMMA InitInv == FilesInit => FilesInv
  BY FileConstants DEF FilesInit, Idle, FilesInv, FilePart, FilesOK, Files, RowPart, RowsOK,
     OutcomesAgree, TaskPart, TasksOK, Trying, ClientPart, ClientsOK, Requesting,
     PassPart, PassOK, Looking, Steps, Cleaning

(* The invariant is inductive.                                             *)
LEMMA NextInv == FilesInv /\ [FilesNext]_vars => FilesInv'
<1> SUFFICES ASSUME FilesInv, [FilesNext]_vars PROVE FilesInv'
    OBVIOUS
<1>1. ASSUME UNCHANGED vars PROVE FilesInv'
      BY <1>1, Frame, CleaningStays DEF FilesInv, vars, taskVars, passVars, DueCleanup
<1>2. ASSUME Pass \/ AbortPass PROVE FilesInv'
      BY <1>2, PendingStep, DecisionStep, ReferenceStep, CleanupStep, SweepStep
         DEF Pass, AbortPass, FinishPass
<1> QED
    BY <1>1, <1>2, StageStep, RequestStep, OutsideStep DEF FilesNext

(* In every reachable state the invariant holds.                           *)
LEMMA Invariant == FilesSafety => []FilesInv
  BY InitInv, NextInv, PTL DEF FilesSafety

(* Every row, file and local variable keeps to its type: in particular no  *)
(* clean-up is attempted more often than cleanup_max_attempts.             *)
THEOREM FilesTyped == FilesSafety => []FilesTypeOK
  BY Invariant, InvImplies, PTL

(* The mutation and the version of an upload agree, whatever requests,     *)
(* deletions and passes of the janitor interleave.                         *)
THEOREM OutcomesHold == FilesSafety => []OutcomesAgree
  BY Invariant, InvImplies, PTL

(* A step reserves, activates or fails an upload, compensates a lost file, *)
(* deletes a document, or leaves mutations and versions alone.             *)
LEMMA RowSteps ==
  ASSUME FilesNext
  PROVE  \/ UNCHANGED <<mutation, source>>
         \/ \E v : Reservable(v) /\ ReserveRows(v)
         \/ \E v : ActivateRows(v)
         \/ \E v : FailPendingRows(v)
         \/ Compensate
         \/ \E d \in Documents : SoftDelete(d)
<1>1. ASSUME NEW c \in Clients, Request(c)
      PROVE  \/ UNCHANGED <<mutation, source>>
             \/ \E v : Reservable(v) /\ ReserveRows(v)
             \/ \E v : ActivateRows(v)
      BY <1>1 DEF Request, Reserve, Discard, Finalize, Activate, rowVars
<1>2. ASSUME Pass \/ AbortPass
      PROVE  \/ UNCHANGED <<mutation, source>>
             \/ \E v : ActivateRows(v)
             \/ \E v : FailPendingRows(v)
             \/ Compensate
      BY <1>2 DEF Pass, AbortPass, FinishPass, EndPass, LoadPass, InspectPending,
                  CheckReference, DeleteFiles, InspectStaging, InspectAgain,
                  FinalizePending, VerifyPending, ActivatePending, FailPending,
                  PendingDone, CleanLeftover, ReferencesDone, CompleteCleanup,
                  FailCleanup, ListFiles, DeleteStored, rowVars
<1>3. ASSUME NEW c \in Clients, NEW v \in Versions, Stage(c, v)
      PROVE  UNCHANGED <<mutation, source>>
      BY <1>3 DEF Stage, rowVars
<1>4. ASSUME NEW v \in Versions,
             \/ GracePeriodPasses(v) \/ CleanupBackoffElapses(v)
             \/ CleanupExpires(v) \/ LoseFile(v)
      PROVE  UNCHANGED <<mutation, source>>
      BY <1>4 DEF GracePeriodPasses, CleanupBackoffElapses, CleanupExpires, LoseFile, rowVars
<1>5. ASSUME NEW c \in Clients, Abandon(c) PROVE UNCHANGED <<mutation, source>>
      BY <1>5 DEF Abandon, rowVars
<1> QED
    BY <1>1, <1>2, <1>3, <1>4, <1>5 DEF FilesNext

(* An upload is decided once: neither a late janitor nor a late request    *)
(* nor a deletion undoes a completed or failed mutation, and a deleted     *)
(* version stays deleted.                                                  *)
THEOREM DecisionsHold == FilesSafety => DecisionsStand
<1> DEFINE Stands ==
      \A v \in Versions :
        /\ mutation[v] \in {"completed", "failed"} => mutation'[v] = mutation[v]
        /\ source[v] = "deleted" => source'[v] = "deleted"
<1>1. ASSUME FilesInv, FilesNext PROVE Stands
      <2>1. RowsOK /\ OutcomesAgree
            BY <1>1 DEF FilesInv, RowPart
      <2>2. ASSUME UNCHANGED <<mutation, source>> PROVE Stands
            BY <2>2
      <2>3. ASSUME NEW v, Reservable(v), ReserveRows(v) PROVE Stands
            BY <2>1, <2>3 DEF RowsOK, OutcomesAgree, Reservable, ReserveRows
      <2>4. ASSUME NEW v, ActivateRows(v) PROVE Stands
            <3> DEFINE u == Selected(v)
            <3>1. /\ mutation[u] = "pending" /\ source[u] = "unavailable"
                  /\ mutation' = [mutation EXCEPT ![u] = "completed"]
                  /\ source' = [source EXCEPT ![u] = "available"]
                  BY <2>4 DEF ActivateRows, Activates
            <3> HIDE DEF u
            <3> QED
                BY <2>1, <3>1 DEF RowsOK
      <2>5. ASSUME NEW v, FailPendingRows(v) PROVE Stands
            BY <2>1, <2>5 DEF RowsOK, FailPendingRows, Failable
      <2>6. ASSUME Compensate PROVE Stands
            BY <2>1, <2>6 DEF RowsOK, Compensate
      <2>7. ASSUME NEW d \in Documents, SoftDelete(d) PROVE Stands
            BY <2>1, <2>7 DEF RowsOK, SoftDelete
      <2> QED
          BY <1>1, <2>2, <2>3, <2>4, <2>5, <2>6, <2>7, RowSteps
<1>2. FilesInv /\ [FilesNext]_vars => [Stands]_vars
      BY <1>1
<1> QED
    BY <1>2, Invariant, PTL DEF FilesSafety, DecisionsStand

-----------------------------------------------------------------------------
(* What CommittedFilesSurvive needs to be inductive.                       *)

Watched == Versions \ neglected

(* Deleted, or compensated for a lost file: never available again.         *)
Gone(v) == \/ source[v] = "deleted"
           \/ source[v] = "unavailable" /\ mutation[v] = "completed"

(* Uploaded with the key of its document's creation, whose mutation its    *)
(* activation finds instead of its own: never available at all.            *)
Twin(v) == v \notin Creations /\ \E u \in Creations \cap DocumentOf(v) : SameKey(u, v)

Over(v) == Gone(v) \/ Twin(v)

(* A document is created before its other versions, twins stay as they are *)
(* reserved, and a deleted document has no version that is available.      *)
CreationsAreFirst ==
  \A v \in Versions : mutation[v] # "none" =>
    \A u \in Creations \cap DocumentOf(v) : mutation[u] # "none"
TwinsAreNeverServed == \A v \in Versions : Twin(v) => source[v] # "available"
DeletedServeNothing == \A d \in deleted : \A v \in d : source[v] # "available"

RowsInv == CreationsAreFirst /\ TwinsAreNeverServed /\ DeletedServeNothing

(* Only what is gone is cleaned up.                                        *)
CleanedAreGone == /\ \A v \in Watched : cleanup[v] # "none" => Gone(v)
                  /\ step = "leftover" => Gone(at)

(* A request's own staged file is younger than the grace period, and it    *)
(* has its reservation before it has a final file.                         *)
StagedAreFresh  == \A c \in Clients :
  client[c].step # "idle" /\ client[c].version \in Watched
    => staging[client[c].version] \in {"none", "fresh"}
FinalsAreReserved ==
  /\ \A v \in Versions : mutation[v] = "none" => final[v] = "none"
  /\ \A c \in Clients : client[c].step \in {"finalize", "activate"}
                          => mutation[client[c].version] # "none"

(* The pass has a pending mutation still before it, or in hand.            *)
Looked == {"inspect staging", "inspect again", "finalize", "verify", "activate", "fail"}
Handling(v) == v \in pending \/ (at = v /\ step \in Looked)

(* A mutation in hand with an old final file is not about to be failed.    *)
HandledAreReserved ==
  /\ \A v \in Versions : Handling(v) => mutation[v] # "none"
  /\ at \in Watched =>
       /\ step \in {"inspect staging", "inspect again", "finalize"} => final[at] # "old"
       /\ step = "fail" => final[at] # "old" \/ Over(at)
  /\ pending # {} => step \in Looked \cup {"pending", "stop"}

(* During a pass that comes to its sweep every old final file is           *)
(* referenced by its snapshot, or still before it, or over; so is what the *)
(* sweep has found to be too old.                                          *)
OldAreKept ==
  step \notin {"idle", "stop"} => \A v \in Watched :
    final[v] = "old" => v \in keepFinal \/ Handling(v) \/ Over(v)
ListedAreGone ==
  \A v \in Watched : <<"final", v>> \in listed =>
    step = "sweep" /\ (v \in keepFinal \/ Over(v) \/ final[v] = "bad")

KeepInv ==
  /\ RowsInv /\ CleanedAreGone
  /\ StagedAreFresh /\ FinalsAreReserved
  /\ HandledAreReserved /\ OldAreKept /\ ListedAreGone

-----------------------------------------------------------------------------
(* The documents are a partition, and have one creation at most.           *)
LEMMA DocumentsApart ==
  /\ \A v \in Versions : DocumentOf(v) \in Documents /\ v \in DocumentOf(v)
  /\ \A d \in Documents : d \subseteq Versions /\ \A v \in d : DocumentOf(v) = d
  /\ \A d \in Documents : \A u, v \in Creations \cap d : u = v
<1>1. ASSUME NEW v \in Versions PROVE DocumentOf(v) \in Documents /\ v \in DocumentOf(v)
      <2>1. \E d \in Documents : v \in d
            BY FileConstants
      <2> QED
          BY <2>1, Zenon DEF DocumentOf
<1>2. \A d \in Documents : d \subseteq Versions
      BY FileConstants
<1>3. ASSUME NEW d \in Documents, NEW v \in d PROVE DocumentOf(v) = d
      BY <1>1, <1>2, FileConstants
<1>4. ASSUME NEW d \in Documents, NEW u \in Creations \cap d, NEW v \in Creations \cap d
      PROVE  u = v
      <2>1. {u, v} \subseteq d
            OBVIOUS
      <2> QED
          BY <2>1, FileConstants
<1> QED
    BY <1>1, <1>2, <1>3, <1>4

(* An activation finds its own mutation, or that of a creation with the    *)
(* same key.                                                               *)
LEMMA SelectedIsOwn ==
  ASSUME NEW v \in Versions
  PROVE  \/ /\ Selected(v) = v
            /\ ~\E u \in Creations : SameKey(u, v) /\ mutation[u] # "none"
         \/ /\ Selected(v) \in Creations /\ SameKey(Selected(v), v)
            /\ mutation[Selected(v)] # "none"
<1>1. CASE \E u \in Creations : SameKey(u, v) /\ mutation[u] # "none"
      <2>1. PICK u : u = CHOOSE w \in Creations : SameKey(w, v) /\ mutation[w] # "none"
            OBVIOUS
      <2>2. u \in Creations /\ SameKey(u, v) /\ mutation[u] # "none"
            BY <1>1, <2>1, Zenon
      <2>3. Selected(v) = u
            BY <1>1, <2>1, Zenon DEF Selected
      <2> QED
          BY <2>2, <2>3
<1>2. CASE ~\E u \in Creations : SameKey(u, v) /\ mutation[u] # "none"
      BY <1>2, Zenon DEF Selected
<1> QED
    BY <1>1, <1>2

(* So what is activated is no twin, and belongs to the same document.      *)
LEMMA ActivatedIsNoTwin ==
  ASSUME RowsInv, NEW v \in Versions, Activates(v)
  PROVE  /\ Selected(v) \in Versions /\ ~Twin(Selected(v))
         /\ DocumentOf(Selected(v)) = DocumentOf(v)
<1>1. /\ Selected(v) \in Versions /\ Selected(v) \in DocumentOf(v)
      /\ mutation[Selected(v)] = "pending"
      BY SelectedType DEF Activates, KeyReused
<1>2. DocumentOf(Selected(v)) = DocumentOf(v)
      BY <1>1, DocumentsApart
<1>3. ASSUME Twin(Selected(v)) PROVE FALSE
      <2>1. Selected(v) \notin Creations
            BY <1>3 DEF Twin
      <2>2. /\ Selected(v) = v
            /\ ~\E u \in Creations : SameKey(u, v) /\ mutation[u] # "none"
            BY <2>1, SelectedIsOwn
      <2>3. PICK u \in Creations \cap DocumentOf(v) : SameKey(u, v)
            BY <1>3, <2>2 DEF Twin
      <2>4. mutation[u] # "none"
            BY <1>1, <2>2, <2>3 DEF RowsInv, CreationsAreFirst
      <2> QED
          BY <2>2, <2>3, <2>4
<1> QED
    BY <1>1, <1>2, <1>3

(* A pending mutation whose activation conflicts is over.                  *)
LEMMA ConflictsAreOver ==
  ASSUME RowsOK, OutcomesAgree, NEW v \in Versions, mutation[v] # "none",
         ActivationConflicts(v)
  PROVE  Over(v)
<1>1. CASE Selected(v) = v
      <2>1. /\ mutation[v] # "completed"
            /\ ~(mutation[v] = "pending" /\ source[v] = "unavailable")
            BY <1>1 DEF ActivationConflicts, ActivationReplays, Activates
      <2> QED
          BY <2>1 DEF RowsOK, OutcomesAgree, Over, Gone
<1>2. CASE Selected(v) # v
      <2>1. /\ Selected(v) \in Creations /\ SameKey(Selected(v), v)
            /\ Selected(v) \in DocumentOf(v)
            BY <1>2, SelectedIsOwn DEF ActivationConflicts, KeyReused
      <2>2. v \notin Creations
            BY <1>2, <2>1, DocumentsApart
      <2> QED
          BY <2>1, <2>2 DEF Over, Twin
<1> QED
    BY <1>1, <1>2

(* What is watched has not been lost sight of in this step either.         *)
LEMMA WatchedStay ==
  ASSUME Watch
  PROVE  /\ Watched' \subseteq Watched /\ Watched \subseteq Versions
         /\ \A v \in Watched' : ~Neglects(v)
  BY DEF Watch, Watched

(* Twins are twins for ever.                                               *)
LEMMA TwinStays == \A v : Twin(v)' <=> Twin(v)
  BY DEF Twin, DocumentOf, SameKey

-----------------------------------------------------------------------------
(* What a step does to rows and clean-ups, with its version.               *)
LEMMA OutcomeSteps ==
  ASSUME FilesInv, FilesNext
  PROVE  \/ /\ UNCHANGED <<mutation, source, deleted>>
            /\ \A v \in Versions : cleanup'[v] # "none" =>
                 cleanup[v] # "none" \/ (step = "leftover" /\ v = at)
         \/ /\ UNCHANGED cleanup
            /\ \E v \in Versions : (Reservable(v) /\ ReserveRows(v)) \/ ActivateRows(v)
         \/ \E v \in Versions : FailPendingRows(v)
         \/ Compensate
         \/ \E d \in Documents : SoftDelete(d)
<1> DEFINE Quiet == /\ UNCHANGED <<mutation, source, deleted>>
                    /\ \A v \in Versions : cleanup'[v] # "none" =>
                         cleanup[v] # "none" \/ (step = "leftover" /\ v = at)
<1>1. UNCHANGED <<rowVars, cleanup>> => Quiet
      BY DEF rowVars
<1>2. ASSUME NEW c \in Clients, Request(c)
      PROVE  \/ Quiet
             \/ /\ UNCHANGED cleanup
                /\ \E v \in Versions : (Reservable(v) /\ ReserveRows(v)) \/ ActivateRows(v)
      <2>1. client[c].version \in Versions
            BY <1>2 DEF FilesInv, ClientPart, Requesting, Request, Reserve, Discard,
                        Finalize, Activate
      <2> QED
          BY <1>1, <1>2, <2>1 DEF Request, Reserve, Discard, Finalize, Activate, taskVars
<1>3. ASSUME ActivatePending \/ FailPending
      PROVE  \/ Quiet
             \/ UNCHANGED cleanup /\ \E v \in Versions : ActivateRows(v)
             \/ \E v \in Versions : FailPendingRows(v)
      <2>1. at \in Versions
            BY <1>3 DEF FilesInv, PassPart, Looking, ActivatePending, FailPending
      <2> QED
          BY <1>1, <1>3, <2>1 DEF ActivatePending, FailPending, taskVars
<1>4. ASSUME \/ \E P, T \in SUBSET Versions : LoadPass(P, T)
             \/ \E v \in Versions : InspectPending(v) \/ CheckReference(v) \/ DeleteFiles(v)
             \/ InspectStaging \/ InspectAgain \/ FinalizePending \/ VerifyPending
             \/ PendingDone \/ ReferencesDone \/ ListFiles
             \/ \E d \in {"staging", "final"}, v \in Versions : DeleteStored(d, v)
             \/ FinishPass \/ AbortPass
      PROVE  Quiet
      <2>1. UNCHANGED <<rowVars, taskVars>>
            BY <1>4 DEF LoadPass, InspectPending, CheckReference, DeleteFiles, InspectStaging,
                        InspectAgain, FinalizePending, VerifyPending, PendingDone,
                        ReferencesDone, ListFiles, DeleteStored, FinishPass, AbortPass, EndPass
      <2> QED
          BY <1>1, <2>1 DEF taskVars
<1>5. ASSUME CleanLeftover PROVE Quiet
      BY <1>5 DEF CleanLeftover, ScheduleCleanup, rowVars
<1>6. ASSUME CompleteCleanup \/ FailCleanup PROVE Quiet
      <2>1. at \in Versions /\ cleanup[at] = "due"
            BY <1>6 DEF FilesInv, Cleaning, DueCleanup, CompleteCleanup, FailCleanup
      <2> QED
          BY <1>6, <2>1 DEF FilesInv, TaskPart, TasksOK, CompleteCleanup, FailCleanup, rowVars
<1>7. ASSUME NEW c \in Clients, NEW v \in Versions, Stage(c, v) PROVE Quiet
      BY <1>1, <1>7 DEF Stage, taskVars
<1>8. ASSUME NEW c \in Clients, Abandon(c) PROVE Quiet
      BY <1>1, <1>8 DEF Abandon, taskVars
<1>9. ASSUME NEW v \in Versions,
             \/ GracePeriodPasses(v) \/ CleanupBackoffElapses(v)
             \/ CleanupExpires(v) \/ LoseFile(v)
      PROVE  Quiet
      BY <1>9 DEF FilesInv, TaskPart, TasksOK, GracePeriodPasses, CleanupBackoffElapses,
                  CleanupExpires, LoseFile, rowVars, taskVars
<1> QED
    BY <1>2, <1>3, <1>4, <1>5, <1>6, <1>7, <1>8, <1>9, Zenon DEF FilesNext, Pass

(* What is gone stays gone, and what is reserved stays reserved.           *)
LEMMA GoneStays ==
  ASSUME FilesInv, FilesNext
  PROVE  \A v \in Versions : /\ Gone(v) => Gone(v)'
                             /\ mutation[v] # "none" => mutation'[v] # "none"
<1> DEFINE Stays == \A v \in Versions : /\ Gone(v) => Gone(v)'
                                        /\ mutation[v] # "none" => mutation'[v] # "none"
<1>0. RowsOK /\ OutcomesAgree
      BY DEF FilesInv, RowPart
<1>1. ASSUME UNCHANGED <<mutation, source>> PROVE Stays
      BY <1>1 DEF Gone
<1>2. ASSUME NEW v \in Versions, Reservable(v), ReserveRows(v) PROVE Stays
      BY <1>0, <1>2 DEF Gone, Reservable, ReserveRows, OutcomesAgree, RowsOK
<1>3. ASSUME NEW v \in Versions, ActivateRows(v) PROVE Stays
      <2> DEFINE u == Selected(v)
      <2>1. /\ mutation[u] = "pending" /\ source[u] = "unavailable"
            /\ mutation' = [mutation EXCEPT ![u] = "completed"]
            /\ source' = [source EXCEPT ![u] = "available"]
            BY <1>3 DEF ActivateRows, Activates
      <2> HIDE DEF u
      <2> QED
          BY <1>0, <2>1 DEF Gone, RowsOK
<1>4. ASSUME NEW v \in Versions, FailPendingRows(v) PROVE Stays
      BY <1>0, <1>4 DEF Gone, FailPendingRows, Failable, RowsOK
<1>5. ASSUME Compensate PROVE Stays
      BY <1>0, <1>5 DEF Gone, Compensate, RowsOK
<1>6. ASSUME NEW d \in Documents, SoftDelete(d) PROVE Stays
      BY <1>0, <1>6 DEF Gone, SoftDelete, RowsOK
<1> QED
    BY <1>1, <1>2, <1>3, <1>4, <1>5, <1>6, OutcomeSteps, Zenon

LEMMA OverStays ==
  ASSUME FilesInv, FilesNext
  PROVE  \A v \in Versions : Over(v) => Over(v)'
  BY GoneStays, TwinStays DEF Over

(* The rows keep their order: creations first, twins never served, and     *)
(* nothing served of what is deleted.                                      *)
LEMMA RowsStep ==
  ASSUME FilesInv, KeepInv, FilesNext
  PROVE  RowsInv'
<1>0. RowsOK /\ OutcomesAgree /\ CreationsAreFirst /\ TwinsAreNeverServed /\ DeletedServeNothing
      BY DEF FilesInv, RowPart, KeepInv, RowsInv
<1> DEFINE Same == \A v \in Versions : mutation'[v] # "none" => mutation[v] # "none"
           Less == \A v \in Versions : source'[v] = "available" => source[v] = "available"
<1>1. Same => CreationsAreFirst'
      <2>1. ASSUME Same, NEW v \in Versions, mutation'[v] # "none",
                   NEW u \in Creations \cap DocumentOf(v)
            PROVE  mutation'[u] # "none"
            <3>1. mutation[u] # "none"
                  BY <1>0, <2>1 DEF CreationsAreFirst
            <3> QED
                BY <3>1, GoneStays, FileConstants
      <2> QED
          BY <2>1 DEF CreationsAreFirst, DocumentOf
<1>2. Less => TwinsAreNeverServed'
      BY <1>0, TwinStays DEF TwinsAreNeverServed
<1>3. Less /\ deleted' \subseteq deleted => DeletedServeNothing'
      BY <1>0, DocumentsApart DEF DeletedServeNothing, RowsOK
<1>4. ASSUME UNCHANGED <<mutation, source, deleted>> PROVE RowsInv'
      BY <1>1, <1>2, <1>3, <1>4 DEF RowsInv
<1>5. ASSUME NEW v \in Versions, Reservable(v), ReserveRows(v) PROVE RowsInv'
      <2>1. Less /\ deleted' \subseteq deleted
            BY <1>0, <1>5 DEF ReserveRows, RowsOK
      <2>2. \A w \in Versions : mutation'[w] # "none" => w = v \/ mutation[w] # "none"
            BY <1>0, <1>5 DEF ReserveRows, RowsOK
      <2>3. ASSUME NEW w \in Versions, mutation'[w] # "none",
                   NEW u \in Creations \cap DocumentOf(w)
            PROVE  mutation'[u] # "none"
            <3>1. CASE mutation[w] # "none"
                  BY <1>0, <2>3, <3>1, GoneStays, FileConstants DEF CreationsAreFirst
            <3>2. CASE w = v /\ u = v
                  BY <2>3, <3>2
            <3>3. CASE w = v /\ v \in Creations
                  BY <2>3, <3>2, <3>3, DocumentsApart
            <3>4. CASE w = v /\ v \notin Creations
                  <4>1. PICK x \in DocumentOf(v) : source[x] # "absent"
                        BY <1>5, <2>3, <3>4 DEF Reservable, Existing
                  <4>2. x \in Versions /\ DocumentOf(x) = DocumentOf(v)
                        BY <4>1, DocumentsApart
                  <4>3. mutation[x] # "none"
                        BY <1>0, <4>1, <4>2 DEF OutcomesAgree
                  <4>4. mutation[u] # "none"
                        BY <1>0, <2>3, <3>4, <4>2, <4>3 DEF CreationsAreFirst
                  <4> QED
                      BY <4>4, GoneStays, FileConstants
            <3> QED
                BY <2>2, <2>3, <3>1, <3>3, <3>4
      <2>4. CreationsAreFirst'
            BY <2>3 DEF CreationsAreFirst, DocumentOf
      <2> QED
          BY <1>2, <1>3, <2>1, <2>4 DEF RowsInv
<1>6. ASSUME NEW v \in Versions, ActivateRows(v) PROVE RowsInv'
      <2> DEFINE u == Selected(v)
      <2>1. /\ mutation[u] = "pending"
            /\ mutation' = [mutation EXCEPT ![u] = "completed"]
            /\ source' = [source EXCEPT ![u] = "available"]
            /\ deleted' = deleted \ {DocumentOf(v)}
            BY <1>6 DEF ActivateRows, Activates
      <2>2. u \in Versions /\ ~Twin(u) /\ DocumentOf(u) = DocumentOf(v)
            BY <1>6, ActivatedIsNoTwin DEF ActivateRows, KeepInv
      <2> HIDE DEF u
      <2>3. Same
            BY <1>0, <2>1, <2>2 DEF RowsOK
      <2>4. TwinsAreNeverServed'
            BY <1>0, <2>1, <2>2, TwinStays DEF TwinsAreNeverServed, RowsOK
      <2>5. DeletedServeNothing'
            <3>1. \A d \in deleted' : d \in deleted /\ u \notin d
                  BY <1>0, <2>1, <2>2, DocumentsApart DEF RowsOK
            <3>2. \A w \in Versions \ {u} : source'[w] = source[w]
                  BY <1>0, <2>1 DEF RowsOK
            <3> QED
                BY <1>0, <3>1, <3>2, DocumentsApart DEF DeletedServeNothing, RowsOK
      <2> QED
          BY <1>1, <2>3, <2>4, <2>5 DEF RowsInv
<1>7. ASSUME NEW v \in Versions, FailPendingRows(v) PROVE RowsInv'
      <2>1. Same /\ Less
            BY <1>0, <1>7 DEF FailPendingRows, Failable, RowsOK
      <2>2. DeletedServeNothing'
            <3>1. CASE deleted' = deleted
                  BY <1>3, <2>1, <3>1
            <3>2. CASE /\ deleted' = deleted \cup {DocumentOf(v)}
                       /\ \A w \in DocumentOf(v) : mutation[w] # "completed"
                  BY <1>0, <2>1, <3>2, DocumentsApart
                     DEF DeletedServeNothing, OutcomesAgree, RowsOK
            <3> QED
                BY <1>7, <3>1, <3>2 DEF FailPendingRows
      <2> QED
          BY <1>1, <1>2, <2>1, <2>2 DEF RowsInv
<1>8. ASSUME Compensate PROVE RowsInv'
      <2>1. Same /\ Less /\ deleted' = deleted
            BY <1>0, <1>8 DEF Compensate, RowsOK
      <2> QED
          BY <1>1, <1>2, <1>3, <2>1 DEF RowsInv
<1>9. ASSUME NEW d \in Documents, SoftDelete(d) PROVE RowsInv'
      <2>1. Same /\ Less /\ deleted' = deleted \cup {d}
            BY <1>0, <1>9 DEF SoftDelete, RowsOK
      <2>2. \A w \in d : source'[w] # "available"
            <3>1. CASE source' = [w \in Versions |-> IF w \in Withdrawn(d) THEN "deleted"
                                                    ELSE source[w]]
                  BY <1>0, <3>1, DocumentsApart DEF Withdrawn, Reserved, RowsOK
            <3>2. CASE d \in deleted /\ UNCHANGED source
                  BY <1>0, <3>2 DEF DeletedServeNothing
            <3> QED
                BY <1>9, <3>1, <3>2 DEF SoftDelete
      <2>3. DeletedServeNothing'
            BY <1>0, <2>1, <2>2, DocumentsApart DEF DeletedServeNothing, RowsOK
      <2> QED
          BY <1>1, <1>2, <2>1, <2>3 DEF RowsInv
<1> QED
    BY <1>4, <1>5, <1>6, <1>7, <1>8, <1>9, OutcomeSteps, Zenon

(* Only what is gone is cleaned up, unless a deletion dooms it.            *)
LEMMA CleanedStep ==
  ASSUME FilesInv, KeepInv, FilesNext, Watch, NEW v \in Watched', cleanup'[v] # "none"
  PROVE  Gone(v)'
<1>0. /\ RowsOK /\ OutcomesAgree /\ DeletedServeNothing /\ CleanedAreGone
      /\ v \in Watched /\ v \in Versions /\ ~Doomed(v)
      BY WatchedStay DEF FilesInv, RowPart, KeepInv, RowsInv, Neglects
<1>1. CASE Gone(v)
      BY <1>0, <1>1, GoneStays
<1>2. CASE ~Gone(v)
      <2>1. /\ cleanup[v] = "none"
            /\ ~(mutation'[v] = "pending" /\ source'[v] = "unavailable")
            BY <1>0, <1>2 DEF CleanedAreGone, Doomed, Pending
      <2>2. ~(step = "leftover" /\ v = at)
            BY <1>0, <1>2 DEF CleanedAreGone
      <2>3. ASSUME NEW w \in Versions, FailPendingRows(w) PROVE Gone(v)'
            BY <1>0, <2>1, <2>3 DEF FailPendingRows, ScheduleCleanup, RowsOK, Gone
      <2>4. ASSUME Compensate PROVE FALSE
            BY <1>0, <2>1, <2>4 DEF Compensate, taskVars
      <2>5. ASSUME NEW d \in Documents, SoftDelete(d) PROVE Gone(v)'
            <3>1. v \in Reserved(d) /\ mutation' = mutation
                  BY <1>0, <2>1, <2>5 DEF SoftDelete, ScheduleCleanup, Cleaned
            <3>2. CASE source' = [w \in Versions |-> IF w \in Withdrawn(d) THEN "deleted"
                                                    ELSE source[w]]
                  BY <1>0, <3>1, <3>2 DEF Withdrawn, Gone
            <3>3. CASE d \in deleted /\ UNCHANGED source
                  <4>1. source[v] \in {"unavailable", "deleted"}
                        BY <1>0, <3>1, <3>3 DEF DeletedServeNothing, Reserved, RowsOK
                  <4>2. source[v] = "unavailable" => mutation[v] = "completed"
                        BY <1>0, <2>1, <3>1, <3>3 DEF OutcomesAgree, RowsOK
                  <4> QED
                      BY <3>1, <3>3, <4>1, <4>2 DEF Gone
            <3> QED
                BY <2>5, <3>2, <3>3 DEF SoftDelete
      <2> QED
          BY <1>0, <2>1, <2>2, <2>3, <2>4, <2>5, OutcomeSteps, Zenon
<1> QED
    BY <1>1, <1>2

-----------------------------------------------------------------------------
(* What a step does to the files.                                          *)

(* A final file only grows old between passes, or is renamed old by the    *)
(* pass; one appears only for a reservation; a damaged one stays until the *)
(* clean-up or the sweep removes it; and only a clean-up or the sweep      *)
(* remove a file that is intact during a step of the pass.                 *)
LEMMA FinalSteps ==
  ASSUME FilesInv, KeepInv, FilesNext, NEW v \in Versions
  PROVE  /\ v \in Watched /\ final'[v] = "old" =>
                                 \/ final[v] = "old"
                                 \/ step = "idle" /\ step' = "idle"
                                 \/ step = "finalize" /\ step' = "verify" /\ v = at /\ at' = at
         /\ final[v] = "none" /\ final'[v] # "none" => mutation[v] # "none"
         /\ final[v] = "bad" /\ final'[v] # "bad"
              => step = "cleanup" \/ <<"final", v>> \notin listed'
         /\ OfJanitor /\ final[v] \in Intact /\ final'[v] \notin Intact
              => \/ cleanup[v] # "none"
                 \/ <<"final", v>> \in listed /\ v \notin keepFinal
<1> DEFINE Kept == final'[v] = final[v]
<1>0. /\ FilesOK /\ final[v] \in Files /\ staging[v] \in Files
      /\ StagedAreFresh /\ FinalsAreReserved /\ HandledAreReserved
      BY DEF FilesInv, FilePart, FilesOK, KeepInv
<1>1. CASE Kept
      BY <1>0, <1>1 DEF Intact
<1>2. ASSUME NEW c \in Clients, Finalize(c), ~Kept
      PROVE  /\ v = client[c].version /\ final[v] = "none" /\ final'[v] \in Intact
             /\ v \in Watched => final'[v] = "fresh"
             /\ mutation[v] # "none"
      <2>1. client[c].version \in Versions /\ client[c].step = "finalize"
            BY <1>2 DEF FilesInv, ClientPart, Requesting, Finalize
      <2>2. /\ final[client[c].version] = "none" /\ staging[client[c].version] \in Intact
            /\ final' = [final EXCEPT ![client[c].version] = staging[client[c].version]]
            BY <1>0, <1>2 DEF Finalize, FinalizeFile, fileVars
      <2>3. v = client[c].version
            BY <1>0, <1>2, <2>1, <2>2 DEF FilesOK
      <2>4. v \in Watched => staging[v] = "fresh"
            BY <1>0, <2>1, <2>2, <2>3 DEF StagedAreFresh, Intact
      <2> QED
          BY <1>0, <2>1, <2>2, <2>3, <2>4 DEF FilesOK, FinalsAreReserved
<1>3. ASSUME FinalizePending, ~Kept
      PROVE  /\ v = at /\ at' = at /\ step = "finalize" /\ step' = "verify"
             /\ final[v] = "none" /\ final'[v] \in Intact /\ mutation[v] # "none"
      <2>1. at \in Versions /\ step = "finalize"
            BY <1>3 DEF FilesInv, PassPart, Looking, FinalizePending
      <2>2. /\ final[at] = "none" /\ staging[at] \in Intact
            /\ final' = [final EXCEPT ![at] = staging[at]]
            /\ Goto("verify")
            BY <1>0, <1>3 DEF FinalizePending, FinalizeFile, fileVars
      <2>3. v = at
            BY <1>0, <1>3, <2>1, <2>2 DEF FilesOK
      <2>4. mutation[at] # "none"
            BY <1>0, <2>1 DEF HandledAreReserved, Handling, Looked
      <2> QED
          BY <1>0, <2>1, <2>2, <2>3, <2>4 DEF FilesOK, Goto
<1>4. ASSUME NEW w \in Versions, DeleteFiles(w), ~Kept
      PROVE  v = w /\ step = "cleanup" /\ final'[v] = "none" /\ cleanup[v] # "none"
      <2>1. w \in tasks /\ step = "cleanup"
            BY <1>4 DEF DeleteFiles
      <2>2. cleanup[w] # "none"
            BY <2>1 DEF FilesInv, Cleaning, DueCleanup
      <2>3. final' = [final EXCEPT ![w] = "none"]
            BY <1>0, <1>4 DEF DeleteFiles
      <2> QED
          BY <1>0, <1>4, <2>1, <2>2, <2>3 DEF FilesOK
<1>5. ASSUME NEW d \in {"staging", "final"}, NEW w \in Versions, DeleteStored(d, w), ~Kept
      PROVE  /\ v = w /\ final'[v] = "none" /\ <<"final", v>> \in listed
             /\ v \notin keepFinal /\ <<"final", v>> \notin listed'
      <2>1. /\ d = "final" /\ ~Referenced(d, w) /\ final' = [final EXCEPT ![w] = "none"]
            /\ <<d, w>> \in listed /\ listed' = listed \ {<<d, w>>}
            BY <1>0, <1>5 DEF DeleteStored, fileVars
      <2> QED
          BY <1>0, <1>5, <2>1 DEF FilesOK, Referenced
<1>6. ASSUME NEW w \in Versions, GracePeriodPasses(w), ~Kept
      PROVE  final[v] = "fresh" /\ final'[v] = "old" /\ step = "idle" /\ step' = "idle"
      BY <1>0, <1>6 DEF GracePeriodPasses, FilesOK, passVars
<1>7. ASSUME NEW w \in Versions, LoseFile(w), ~Kept
      PROVE  final[v] \in Intact /\ final'[v] \in {"none", "bad"} /\ UNCHANGED passVars
      BY <1>0, <1>7 DEF LoseFile, FilesOK
<1>8. \/ Kept
      \/ \E c \in Clients : Finalize(c)
      \/ FinalizePending
      \/ \E w \in Versions : DeleteFiles(w) \/ GracePeriodPasses(w) \/ LoseFile(w)
      \/ \E d \in {"staging", "final"}, w \in Versions : DeleteStored(d, w)
      BY DEF FilesNext, Stage, Request, Reserve, Discard, Activate, Abandon, SoftDelete,
             Pass, LoadPass, InspectPending, CheckReference, InspectStaging, InspectAgain,
             VerifyPending, ActivatePending, FailPending, PendingDone, Compensate,
             CleanLeftover, ReferencesDone, CompleteCleanup, FailCleanup, ListFiles,
             FinishPass, AbortPass, EndPass, CleanupBackoffElapses, CleanupExpires, fileVars
<1>9. CASE \E c \in Clients : Finalize(c) /\ ~Kept
      BY <1>2, <1>9 DEF Intact
<1>10. CASE FinalizePending /\ ~Kept
      BY <1>3, <1>10 DEF Intact
<1>11. CASE \E w \in Versions : DeleteFiles(w) /\ ~Kept
      BY <1>4, <1>11
<1>12. CASE \E d \in {"staging", "final"}, w \in Versions : DeleteStored(d, w) /\ ~Kept
      BY <1>5, <1>12
<1>13. CASE \E w \in Versions : GracePeriodPasses(w) /\ ~Kept
      BY <1>6, <1>13 DEF Intact
<1>14. CASE \E w \in Versions : LoseFile(w) /\ ~Kept
      BY <1>7, <1>14 DEF Intact, OfJanitor
<1> QED
    BY <1>1, <1>8, <1>9, <1>10, <1>11, <1>12, <1>13, <1>14, Zenon

-----------------------------------------------------------------------------
(* The invariant is kept, part by part.                                    *)

(* A request stages a fresh file, or one it has not staged itself and is   *)
(* not watched for; it can only be renamed or deleted while the request    *)
(* lasts.                                                                  *)
LEMMA StagedStep ==
  ASSUME FilesInv, KeepInv, FilesNext, Watch
  PROVE  StagedAreFresh'
<1>0. /\ FilesOK /\ ClientsOK /\ Requesting /\ StagedAreFresh
      /\ Watched' \subseteq Watched /\ Watched \subseteq Versions
      BY WatchedStay DEF FilesInv, FilePart, ClientPart, KeepInv
<1> DEFINE Younger == \A v \in Versions : staging'[v] \in {staging[v], "none"}
<1>1. ASSUME UNCHANGED client, Younger PROVE StagedAreFresh'
      BY <1>0, <1>1 DEF StagedAreFresh, Requesting
<1>2. ASSUME NEW c \in Clients, Request(c) \/ Abandon(c) PROVE StagedAreFresh'
      <2>1. client[c].step # "idle" /\ client[c].version \in Versions
            BY <1>0, <1>2 DEF Request, Reserve, Discard, Finalize, Activate, Abandon, Requesting
      <2>2. Younger
            BY <1>0, <1>2, <2>1 DEF Request, Reserve, Discard, Finalize, FinalizeFile, Activate,
                                    Abandon, FilesOK, fileVars
      <2>3. \A e \in Clients : client'[e].step = "idle" \/ /\ client[e].step # "idle"
                                                           /\ client'[e].version = client[e].version
            <3>1. Leave(c) \/ \E s \in {"finalize", "discard", "activate"} : Continue(c, s)
                  BY <1>2 DEF Request, Reserve, Discard, Finalize, Activate, Abandon
            <3> QED
                BY <1>0, <2>1, <3>1 DEF Leave, Continue, Idle, ClientsOK
      <2> QED
          BY <1>0, <2>2, <2>3 DEF StagedAreFresh, Requesting
<1>3. ASSUME NEW c \in Clients, NEW v \in Versions, Stage(c, v) PROVE StagedAreFresh'
      <2>1. /\ client' = [client EXCEPT ![c] = [step |-> "reserve", version |-> v]]
            /\ client[c].step = "idle"
            /\ staging' \in {staging, [staging EXCEPT ![v] = "fresh"]}
            BY <1>3 DEF Stage
      <2>2. /\ client'[c] = [step |-> "reserve", version |-> v]
            /\ \A e \in Clients \ {c} : client'[e] = client[e]
            BY <1>0, <2>1 DEF ClientsOK
      <2>3. v \in Watched' => staging'[v] # "old"
            BY <2>1, <2>2, WatchedStay DEF Neglects, StagedBefore
      <2>4. v \in Watched' => staging'[v] \in {"none", "fresh"}
            <3>1. staging'[v] # "bad"
                  <4>1. CASE v \in Bundles /\ ~(staging[v] = "none" /\ final[v] = "none")
                        BY <1>3, <4>1 DEF Stage
                  <4>2. CASE ~(v \in Bundles /\ ~(staging[v] = "none" /\ final[v] = "none"))
                        BY <1>0, <1>3, <4>2 DEF Stage, FilesOK
                  <4> QED
                      BY <4>1, <4>2
            <3>2. staging'[v] \in Files
                  BY <1>0, <2>1 DEF FilesOK, Files
            <3> QED
                BY <2>3, <3>1, <3>2 DEF Files
      <2>5. \A w \in Versions \ {v} : staging'[w] = staging[w]
            BY <1>0, <2>1 DEF FilesOK
      <2> QED
          BY <1>0, <2>2, <2>4, <2>5 DEF StagedAreFresh, Requesting
<1>4. ASSUME NEW v \in Versions, GracePeriodPasses(v) PROVE StagedAreFresh'
      <2>1. /\ \A c \in Clients : client'[c].version # v /\ client' = client
            /\ \A u \in Versions \ {v} : staging'[u] = staging[u]
            BY <1>0, <1>4 DEF GracePeriodPasses, FilesOK
      <2> QED
          BY <1>0, <2>1 DEF StagedAreFresh, Requesting
<1>5. ASSUME Pass \/ AbortPass PROVE StagedAreFresh'
      <2>1. FinalizePending => at \in Versions
            BY DEF FilesInv, PassPart, Looking, FinalizePending
      <2>2. UNCHANGED client /\ Younger
            BY <1>0, <1>5, <2>1
               DEF FilesOK, Pass, LoadPass, InspectPending, CheckReference, DeleteFiles,
                   InspectStaging, InspectAgain, FinalizePending, FinalizeFile, VerifyPending,
                   ActivatePending, FailPending, PendingDone, Compensate, CleanLeftover,
                   ReferencesDone, CompleteCleanup, FailCleanup, ListFiles, DeleteStored,
                   FinishPass, AbortPass, EndPass, fileVars
      <2> QED
          BY <1>1, <2>2
<1>6. ASSUME \/ \E d \in Documents : SoftDelete(d)
             \/ \E v \in Versions : CleanupBackoffElapses(v) \/ CleanupExpires(v) \/ LoseFile(v)
      PROVE  StagedAreFresh'
      <2>1. UNCHANGED client /\ Younger
            BY <1>6 DEF SoftDelete, CleanupBackoffElapses, CleanupExpires, LoseFile, fileVars
      <2> QED
          BY <1>1, <2>1
<1> QED
    BY <1>2, <1>3, <1>4, <1>5, <1>6 DEF FilesNext

(* A request goes on to its file only with a reservation, and a file is    *)
(* renamed only for one.                                                   *)
LEMMA FinalsStep ==
  ASSUME FilesInv, KeepInv, FilesNext
  PROVE  FinalsAreReserved'
<1>0. /\ RowsOK /\ ClientsOK /\ Requesting /\ FinalsAreReserved
      BY DEF FilesInv, RowPart, ClientPart, KeepInv
<1>1. \A v \in Versions : mutation'[v] = "none" => final'[v] = "none"
      BY <1>0, GoneStays, FinalSteps DEF FinalsAreReserved
<1>2. \A c \in Clients : client'[c].step \in {"finalize", "activate"} =>
        mutation'[client'[c].version] # "none"
      <2>1. ASSUME UNCHANGED client
            PROVE  \A c \in Clients : client'[c].step \in {"finalize", "activate"} =>
                     mutation'[client'[c].version] # "none"
            BY <1>0, <2>1, GoneStays DEF FinalsAreReserved, Requesting
      <2>2. ASSUME NEW c \in Clients,
                   /\ client' = [client EXCEPT ![c] = client'[c]]
                   /\ client'[c].step \in {"finalize", "activate"} =>
                        mutation'[client'[c].version] # "none"
            PROVE  \A e \in Clients : client'[e].step \in {"finalize", "activate"} =>
                     mutation'[client'[e].version] # "none"
            BY <1>0, <2>2, GoneStays DEF FinalsAreReserved, Requesting, ClientsOK
      <2>3. ASSUME NEW c \in Clients, Request(c) \/ Abandon(c)
            PROVE  /\ client' = [client EXCEPT ![c] = client'[c]]
                   /\ client'[c].step \in {"finalize", "activate"} =>
                        mutation'[client'[c].version] # "none"
            <3>1. /\ client[c].step # "idle" /\ client[c].version \in Versions
                  /\ Leave(c) \/ \E s \in {"finalize", "discard", "activate"} : Continue(c, s)
                  BY <1>0, <2>3 DEF Request, Reserve, Discard, Finalize, Activate, Abandon, Requesting
            <3>2. /\ client' = [client EXCEPT ![c] = client'[c]]
                  /\ client'[c].step = "idle" \/ client'[c].version = client[c].version
                  BY <1>0, <3>1 DEF Leave, Continue, Idle, ClientsOK
            <3>3. CASE Reserve(c)
                  <4>1. \/ Leave(c) \/ Continue(c, "discard")
                        \/ mutation'[client[c].version] # "none"
                        BY <1>0, <3>1, <3>3 DEF Reserve, ReserveRows, Replayable, RowsOK, rowVars
                  <4> QED
                      BY <1>0, <3>2, <4>1 DEF Leave, Continue, Idle, ClientsOK
            <3>4. CASE Finalize(c)
                  <4>1. mutation[client[c].version] # "none"
                        BY <1>0, <3>4 DEF Finalize, FinalsAreReserved
                  <4> QED
                      BY <1>0, <3>1, <3>2, <3>4, <4>1, GoneStays DEF Finalize, Leave, Idle, ClientsOK
            <3>5. CASE Discard(c) \/ Activate(c) \/ Abandon(c)
                  BY <1>0, <3>2, <3>5 DEF Discard, Activate, Abandon, Leave, Idle, ClientsOK
            <3> QED
                BY <2>3, <3>3, <3>4, <3>5 DEF Request
      <2>4. ASSUME NEW c \in Clients, NEW v \in Versions, Stage(c, v)
            PROVE  client' = [client EXCEPT ![c] = client'[c]] /\ client'[c].step = "reserve"
            BY <1>0, <2>4 DEF Stage, ClientsOK
      <2>5. \/ \E c \in Clients : Request(c) \/ Abandon(c) \/ \E v \in Versions : Stage(c, v)
            \/ UNCHANGED client
            BY DEF FilesNext, SoftDelete, GracePeriodPasses, CleanupBackoffElapses,
                   CleanupExpires, LoseFile, Pass, LoadPass, InspectPending, CheckReference, DeleteFiles,
                   InspectStaging, InspectAgain, FinalizePending, VerifyPending,
                   ActivatePending, FailPending, PendingDone, Compensate, CleanLeftover,
                   ReferencesDone, CompleteCleanup, FailCleanup, ListFiles, DeleteStored,
                   FinishPass, AbortPass, EndPass
      <2> QED
          BY <2>1, <2>2, <2>3, <2>4, <2>5
<1> QED
    BY <1>1, <1>2 DEF FinalsAreReserved

(* The parts about the pass.                                               *)
SnapshotInv == /\ step = "leftover" => Gone(at)
               /\ HandledAreReserved /\ OldAreKept /\ ListedAreGone

(* Whatever happens beside the pass.                                       *)
LEMMA BesideStep ==
  ASSUME FilesInv, KeepInv, FilesNext, Watch, UNCHANGED passVars
  PROVE  SnapshotInv'
<1>0. /\ HandledAreReserved /\ OldAreKept /\ ListedAreGone /\ CleanedAreGone
      /\ PassOK /\ Looking
      /\ UNCHANGED <<step, at, pending, keepFinal, listed>>
      /\ Watched' \subseteq Watched /\ Watched \subseteq Versions
      BY WatchedStay DEF FilesInv, PassPart, KeepInv, passVars
<1>1. \A v \in Versions : Handling(v)' <=> Handling(v)
      BY <1>0 DEF Handling
<1>2. \A v \in Watched' : step # "idle" /\ final'[v] = "old" => final[v] = "old"
      BY <1>0, FinalSteps
<1>3. (step = "leftover" => Gone(at))'
      BY <1>0, GoneStays DEF CleanedAreGone, Looking
<1>4. HandledAreReserved'
      <2>1. \A v \in Versions : Handling(v)' => mutation'[v] # "none"
            BY <1>0, <1>1, GoneStays DEF HandledAreReserved
      <2>2. ASSUME at \in Watched', step \in {"inspect staging", "inspect again", "finalize"}
            PROVE  final'[at] # "old"
            BY <1>0, <1>2, <2>2 DEF HandledAreReserved
      <2>3. ASSUME at \in Watched', step = "fail" PROVE final'[at] # "old" \/ Over(at)'
            BY <1>0, <1>2, <2>3, OverStays DEF HandledAreReserved
      <2> QED
          BY <1>0, <2>1, <2>2, <2>3 DEF HandledAreReserved
<1>5. OldAreKept'
      BY <1>0, <1>1, <1>2, OverStays DEF OldAreKept
<1>6. ListedAreGone'
      <2>1. ASSUME NEW v \in Watched', <<"final", v>> \in listed
            PROVE  step = "sweep" /\ (v \in keepFinal \/ Over(v)' \/ final'[v] = "bad")
            <3>1. step = "sweep" /\ (v \in keepFinal \/ Over(v) \/ final[v] = "bad")
                  BY <1>0, <2>1 DEF ListedAreGone
            <3>2. final[v] = "bad" => final'[v] = "bad"
                  BY <1>0, <2>1, <3>1, FinalSteps
            <3> QED
                BY <1>0, <3>1, <3>2, OverStays
      <2> QED
          BY <1>0, <2>1 DEF ListedAreGone
<1> QED
    BY <1>3, <1>4, <1>5, <1>6 DEF SnapshotInv

(* The snapshot of a pass has every old file that is watched.              *)
LEMMA LoadSnapshot ==
  ASSUME FilesInv, KeepInv, FilesNext, Watch,
         NEW P \in SUBSET Versions, NEW T \in SUBSET Versions, LoadPass(P, T)
  PROVE  SnapshotInv'
<1>0. /\ RowsOK /\ OutcomesAgree /\ FinalsAreReserved /\ ListedAreGone
      /\ step = "idle" /\ step' = "pending" /\ pending' = P /\ listed' = listed
      /\ keepFinal' = {v \in Versions : source[v] = "available"}
      /\ UNCHANGED <<mutation, source, final, at>>
      /\ P \subseteq Pending
      /\ Watched' \subseteq Watched /\ Watched \subseteq Versions
      BY WatchedStay DEF FilesInv, RowPart, KeepInv, LoadPass, Batch, rowVars, fileVars
<1>1. HandledAreReserved'
      BY <1>0 DEF HandledAreReserved, Handling, Looked, Pending
<1>2. OldAreKept'
      <2>1. ASSUME NEW v \in Watched', final[v] = "old"
            PROVE  v \in keepFinal' \/ v \in P \/ Gone(v)
            <3>1. mutation[v] \in {"pending", "completed", "failed"}
                  BY <1>0, <2>1 DEF RowsOK, FinalsAreReserved
            <3>2. v \in Pending => v \in P
                  BY <1>0, <2>1, WatchedStay DEF Neglects, LeftOut
            <3> QED
                BY <1>0, <3>1, <3>2 DEF RowsOK, OutcomesAgree, Pending, Gone
      <2> QED
          BY <1>0, <2>1 DEF OldAreKept, Handling, Over, Gone
<1>3. ListedAreGone'
      BY <1>0 DEF ListedAreGone
<1> QED
    BY <1>0, <1>1, <1>2, <1>3 DEF SnapshotInv

(* Before the sweep, where it hands a mutation on, keeps or fails it, the  *)
(* pass loses no old file.                                                 *)
LEMMA HandOn ==
  ASSUME FilesInv, KeepInv, FilesNext, Watch,
         step \in Looked \cup {"pending"}, listed' = listed,
         \A v \in Versions : Handling(v)' => Handling(v),
         \A v \in Watched' : v \in keepFinal => v \in keepFinal' \/ Over(v)',
         \A v \in Watched' : Handling(v) =>
           Handling(v)' \/ v \in keepFinal' \/ Over(v)' \/ final'[v] # "old",
         \A v \in Watched' : final'[v] = "old" => final[v] = "old" \/ Handling(v)',
         at' \in Watched' /\ step' \in {"inspect staging", "inspect again", "finalize"}
           => final'[at'] # "old",
         at' \in Watched' /\ step' = "fail" => final'[at'] # "old" \/ Over(at)',
         step' \notin {"stop", "leftover"},
         pending' # {} => step' \in Looked \cup {"pending"}
  PROVE  SnapshotInv'
<1>0. /\ HandledAreReserved /\ OldAreKept /\ ListedAreGone
      /\ Watched' \subseteq Watched /\ Watched \subseteq Versions
      BY WatchedStay DEF KeepInv
<1>1. HandledAreReserved'
      BY <1>0, GoneStays DEF HandledAreReserved
<1>2. OldAreKept'
      <2>1. step \notin {"idle", "stop"}
            BY DEF Looked
      <2> QED
          BY <1>0, <2>1, OverStays DEF OldAreKept
<1>3. ListedAreGone'
      BY <1>0 DEF ListedAreGone, Looked
<1> QED
    BY <1>1, <1>2, <1>3 DEF SnapshotInv

(* A pass that stops has nothing listed, and comes to no sweep.            *)
LEMMA StopStep ==
  ASSUME FilesInv, KeepInv, FilesNext, Watch,
         step = "activate", Goto("stop"), UNCHANGED rowVars
  PROVE  SnapshotInv'
<1>0. /\ HandledAreReserved /\ ListedAreGone
      /\ Watched' \subseteq Watched
      /\ step' = "stop" /\ UNCHANGED <<at, pending, listed, mutation>>
      BY WatchedStay DEF KeepInv, Goto, rowVars
<1>1. \A v \in Versions : Handling(v)' => Handling(v)
      BY <1>0 DEF Handling, Looked
<1>2. HandledAreReserved'
      BY <1>0, <1>1 DEF HandledAreReserved
<1> QED
    BY <1>0, <1>2 DEF SnapshotInv, OldAreKept, ListedAreGone

(* The pass over the pending mutations, where it only looks.               *)
LEMMA LookStep ==
  ASSUME FilesInv, KeepInv, FilesNext, Watch,
         \/ \E v \in Versions : InspectPending(v)
         \/ InspectStaging \/ InspectAgain \/ VerifyPending
  PROVE  SnapshotInv'
<1>0. /\ FilesOK /\ HandledAreReserved /\ PassOK /\ Looking
      /\ Watched' \subseteq Watched /\ Watched \subseteq Versions
      BY WatchedStay DEF FilesInv, FilePart, PassPart, KeepInv
<1>1. ASSUME NEW v \in Versions, InspectPending(v) PROVE SnapshotInv'
      <2>1. /\ step = "pending" /\ v \in pending /\ pending' = pending \ {v}
            /\ UNCHANGED <<final, keepFinal, listed>>
            BY <1>1 DEF InspectPending, fileVars
      <2>2. \/ at' = v /\ final[v] \in Intact /\ step' = "activate"
            \/ at' = v /\ final[v] = "bad" /\ step' = "fail"
            \/ at' = v /\ final[v] = "none" /\ step' = "inspect staging"
            \/ step' = "pending" /\ at' = at
            BY <1>0, <1>1, <2>1 DEF InspectPending, FilesOK, Files, Intact
      <2>3. \A u \in Versions : Handling(u)' => Handling(u)
            BY <2>1, <2>2 DEF Handling, Looked
      <2>4. \A u \in Watched' : Handling(u) => Handling(u)' \/ final[u] # "old"
            <3>1. CASE step' = "pending" /\ at' = at
                  <4>1. v \in Watched' => final[v] # "old"
                        BY <2>1, <3>1, WatchedStay DEF Neglects, GivenUp
                  <4> QED
                      BY <2>1, <3>1, <4>1 DEF Handling, Looked
            <3>2. CASE at' = v /\ step' \in Looked
                  BY <2>1, <3>2 DEF Handling, Looked
            <3> QED
                BY <2>2, <3>1, <3>2 DEF Looked
      <2>5. step' \in Looked \cup {"pending"}
            BY <2>2 DEF Looked
      <2>6. step' \notin {"stop", "leftover", "inspect again", "finalize"}
            BY <2>2
      <2> QED
          BY <2>1, <2>2, <2>3, <2>4, <2>5, <2>6, HandOn
<1>2. ASSUME InspectStaging \/ InspectAgain \/ VerifyPending PROVE SnapshotInv'
      <2>0. at \in Versions /\ step \in Looked
            BY <1>0, <1>2 DEF InspectStaging, InspectAgain, VerifyPending, Looking, Looked
      <2>1. /\ UNCHANGED <<pending, keepFinal, listed, final>>
            /\ \/ at' = at /\ step' = "activate"
               \/ /\ at' = at /\ step' \in {"inspect again", "finalize", "fail"}
                  /\ at \in Watched => final[at] # "old"
               \/ /\ step' = "pending" /\ at' = NoVersion
                  /\ at \in Watched' => final[at] # "old"
            <3>1. CASE InspectStaging
                  <4>1. /\ at \in Watched => final[at] # "old"
                        /\ UNCHANGED <<pending, keepFinal, listed, final>>
                        /\ \/ Goto(CASE staging[at] = "none"   -> "inspect again"
                                     [] staging[at] = "bad"    -> "fail"
                                     [] staging[at] \in Intact -> "finalize")
                           \/ NextPending
                        BY <1>0, <3>1 DEF InspectStaging, HandledAreReserved, Goto,
                                          NextPending, Keep, fileVars
                  <4>2. staging[at] \in {"none", "bad"} \cup Intact
                        BY <1>0, <2>0 DEF FilesOK, Files, Intact
                  <4> QED
                      BY <1>0, <4>1, <4>2 DEF Goto, NextPending, Intact
            <3>2. CASE InspectAgain
                  BY <1>0, <3>2 DEF InspectAgain, HandledAreReserved,
                                    Goto, NextPending, Keep, fileVars
            <3>3. CASE VerifyPending
                  <4>1. NextPending /\ at \in Watched' => final[at] # "old"
                        BY <3>3, WatchedStay DEF VerifyPending, NextPending, Neglects, GivenUp
                  <4> QED
                      BY <3>3, <4>1 DEF VerifyPending, Goto, NextPending, Keep, Intact, fileVars
            <3> QED
                BY <1>2, <3>1, <3>2, <3>3
      <2>2. \A v \in Versions : Handling(v)' => Handling(v)
            BY <2>0, <2>1, FileConstants DEF Handling, Looked
      <2>3. \A v \in Watched' : Handling(v) => Handling(v)' \/ final[v] # "old"
            BY <1>0, <2>0, <2>1 DEF Handling, Looked
      <2>4. step' \in Looked \cup {"pending"}
            BY <2>1 DEF Looked
      <2>5. step' \notin {"stop", "leftover", "inspect staging"}
            BY <2>1
      <2>6. at' \in Watched' /\ step' \in {"inspect again", "finalize", "fail"}
              => final'[at'] # "old"
            BY <1>0, <2>1
      <2> QED
          BY <1>0, <2>0, <2>1, <2>2, <2>3, <2>4, <2>5, <2>6, HandOn
<1> QED
    BY <1>1, <1>2

(* The pass over the pending mutations, where it decides them.             *)
LEMMA DecideStep ==
  ASSUME FilesInv, KeepInv, FilesNext, Watch,
         FinalizePending \/ ActivatePending \/ FailPending \/ PendingDone
  PROVE  SnapshotInv'
<1>0. /\ FilesOK /\ RowsOK /\ OutcomesAgree /\ HandledAreReserved /\ PassOK /\ Looking
      /\ Watched' \subseteq Watched /\ Watched \subseteq Versions
      BY WatchedStay DEF FilesInv, FilePart, RowPart, PassPart, KeepInv
<1>1. ASSUME FinalizePending PROVE SnapshotInv'
      <2>0. /\ at \in Versions /\ step = "finalize"
            /\ at \in Watched => final[at] # "old"
            BY <1>0, <1>1 DEF FinalizePending, Looking, HandledAreReserved
      <2>1. /\ UNCHANGED <<pending, keepFinal, listed>>
            /\ \/ at' = at /\ step' = "verify"
               \/ step' = "pending" /\ at' = NoVersion /\ UNCHANGED final
            BY <1>1 DEF FinalizePending, Goto, NextPending, Keep, fileVars
      <2>2. \A v \in Versions : Handling(v)' => Handling(v)
            BY <2>0, <2>1, FileConstants DEF Handling, Looked
      <2>3. \A v \in Watched' : Handling(v) => Handling(v)' \/ final'[v] # "old"
            BY <1>0, <2>0, <2>1 DEF Handling, Looked
      <2>4. \A v \in Watched' : final'[v] = "old" => final[v] = "old" \/ Handling(v)'
            BY <1>0, <2>0, <2>1, FinalSteps DEF Handling, Looked
      <2>5. step \in Looked /\ step' \in Looked \cup {"pending"}
            BY <2>0, <2>1 DEF Looked
      <2> QED
          BY <2>1, <2>2, <2>3, <2>4, <2>5, HandOn
<1>2. ASSUME ActivatePending PROVE SnapshotInv'
      <2>0. at \in Versions /\ step = "activate"
            BY <1>0, <1>2 DEF ActivatePending, Looking
      <2>1. \/ Goto("stop") /\ UNCHANGED rowVars
            \/ /\ UNCHANGED <<pending, listed, final>>
               /\ \/ step' = "pending" /\ at' = NoVersion /\ keepFinal' = keepFinal \cup {at}
                  \/ /\ step' = "fail" /\ at' = at /\ UNCHANGED keepFinal
                     /\ ActivationConflicts(at)
            BY <1>2, <2>0 DEF ActivatePending, NextPending, Goto, KeepFinalWith, fileVars
      <2>2. CASE Goto("stop") /\ UNCHANGED rowVars
            BY <2>0, <2>2, StopStep
      <2>3. CASE /\ UNCHANGED <<pending, listed, final>>
                 /\ \/ step' = "pending" /\ at' = NoVersion /\ keepFinal' = keepFinal \cup {at}
                    \/ /\ step' = "fail" /\ at' = at /\ UNCHANGED keepFinal
                       /\ ActivationConflicts(at)
            <3>1. step' = "fail" => Over(at)'
                  <4>1. mutation[at] # "none"
                        BY <1>0, <2>0 DEF HandledAreReserved, Handling, Looked
                  <4>2. ActivationConflicts(at) => Over(at)
                        BY <1>0, <2>0, <4>1, ConflictsAreOver
                  <4>3. step' = "fail" => Over(at) /\ at' = at
                        BY <2>3, <4>2
                  <4> QED
                      BY <2>0, <4>3, OverStays
            <3>2. \A v \in Versions : Handling(v)' => Handling(v)
                  BY <2>0, <2>3, FileConstants DEF Handling, Looked
            <3>3. \A v \in Versions : Handling(v) => Handling(v)' \/ v \in keepFinal'
                  BY <2>0, <2>3 DEF Handling, Looked
            <3>4. step \in Looked /\ step' \in Looked \cup {"pending"}
                  BY <2>0, <2>3 DEF Looked
            <3> QED
                BY <1>0, <2>3, <3>1, <3>2, <3>3, <3>4, HandOn
      <2> QED
          BY <2>1, <2>2, <2>3
<1>3. ASSUME FailPending PROVE SnapshotInv'
      <2>0. /\ at \in Versions /\ step = "fail"
            /\ at \in Watched => final[at] # "old" \/ Over(at)
            BY <1>0, <1>3 DEF FailPending, Looking, HandledAreReserved
      <2>1. /\ UNCHANGED <<pending, listed, final>> /\ step' = "pending" /\ at' = NoVersion
            /\ \/ FailPendingRows(at) /\ keepFinal' = keepFinal \ {at}
               \/ UNCHANGED keepFinal
            BY <1>3 DEF FailPending, NextPending, Keep, fileVars
      <2>2. ASSUME FailPendingRows(at), NEW v \in Versions, v = at PROVE Over(v)'
            BY <1>0, <2>0, <2>2 DEF FailPendingRows, Over, Gone, RowsOK
      <2>3. \A v \in Versions : v = at /\ v \in Watched => final[v] # "old" \/ Over(v)'
            BY <2>0, OverStays
      <2>4. \A v \in Versions : Handling(v)' => Handling(v)
            BY <2>0, <2>1, FileConstants DEF Handling, Looked
      <2>5. \A v \in Versions : Handling(v) => Handling(v)' \/ v = at
            BY <2>0, <2>1 DEF Handling, Looked
      <2>6. \A v \in Watched' : Handling(v) => Handling(v)' \/ Over(v)' \/ final'[v] # "old"
            <3>1. ASSUME NEW v \in Watched', v = at PROVE Over(v)' \/ final'[v] # "old"
                  BY <1>0, <2>1, <2>3, <3>1
            <3> QED
                BY <1>0, <2>5, <3>1
      <2>7. \A v \in Watched' : v \in keepFinal => v \in keepFinal' \/ Over(v)'
            BY <1>0, <2>1, <2>2
      <2>8. step \in Looked /\ step' \in Looked \cup {"pending"}
            BY <2>0, <2>1 DEF Looked
      <2> QED
          BY <2>1, <2>4, <2>6, <2>7, <2>8, HandOn
<1>4. ASSUME PendingDone PROVE SnapshotInv'
      <2>1. /\ step = "pending" /\ pending = {} /\ step' = "references" /\ at' = NoVersion
            /\ UNCHANGED <<pending, keepFinal, listed, final>>
            BY <1>4 DEF PendingDone, Return, fileVars
      <2>2. \A v \in Versions : ~Handling(v) /\ ~Handling(v)'
            BY <2>1 DEF Handling, Looked
      <2> QED
          BY <1>0, <2>1, <2>2, HandOn
<1> QED
    BY <1>1, <1>2, <1>3, <1>4

(* The pass over the references and the clean-up rows, which hands nothing *)
(* on.                                                                     *)
LEMMA RestStep ==
  ASSUME FilesInv, KeepInv, FilesNext, Watch,
         \/ \E v \in Versions : CheckReference(v) \/ DeleteFiles(v)
         \/ Compensate \/ CleanLeftover \/ ReferencesDone
         \/ CompleteCleanup \/ FailCleanup
  PROVE  SnapshotInv'
<1>0. /\ RowsOK /\ OutcomesAgree /\ PassOK /\ Looking
      /\ HandledAreReserved /\ OldAreKept /\ ListedAreGone
      /\ Watched' \subseteq Watched /\ Watched \subseteq Versions
      BY WatchedStay DEF FilesInv, RowPart, PassPart, KeepInv
<1> DEFINE Rest == {"references", "compensate", "leftover", "cleanup", "completed", "failed"}
<1>1. /\ step \in Rest /\ step' \in Rest /\ UNCHANGED <<pending, keepFinal, listed>>
      BY DEF CheckReference, DeleteFiles, Compensate, CleanLeftover, ReferencesDone,
             CompleteCleanup, FailCleanup, Goto, Return
<1>2. pending = {} /\ \A v \in Versions : ~Handling(v) /\ ~Handling(v)'
      BY <1>0, <1>1 DEF HandledAreReserved, Handling, Looked
<1>3. (step = "leftover" => Gone(at))'
      <2>1. step' = "leftover" => Compensate /\ source[at] = "available" /\ Goto("leftover")
                                  /\ source' = [source EXCEPT ![at] = "unavailable"]
            BY DEF CheckReference, DeleteFiles, Compensate, CleanLeftover, ReferencesDone,
                   CompleteCleanup, FailCleanup, Goto, Return
      <2>2. ASSUME step' = "leftover" PROVE Gone(at)'
            <3>1. at \in Versions /\ at' = at /\ mutation' = mutation
                  BY <1>0, <2>1, <2>2 DEF Compensate, Looking, Goto
            <3>2. mutation[at] = "completed" /\ source'[at] = "unavailable"
                  BY <1>0, <2>1, <2>2, <3>1 DEF RowsOK, OutcomesAgree
            <3> QED
                BY <3>1, <3>2 DEF Gone
      <2> QED
          BY <2>2
<1>4. HandledAreReserved'
      BY <1>1, <1>2 DEF HandledAreReserved
<1>5. OldAreKept'
      BY <1>0, <1>1, <1>2, OverStays, FinalSteps DEF OldAreKept
<1>6. ListedAreGone'
      BY <1>0, <1>1 DEF ListedAreGone
<1> QED
    BY <1>3, <1>4, <1>5, <1>6 DEF SnapshotInv

(* The sweep lists old files that the snapshot does not reference only if  *)
(* they are over; and the pass ends.                                       *)
LEMMA SnapshotEnds ==
  ASSUME FilesInv, KeepInv, FilesNext, Watch,
         \/ ListFiles
         \/ \E d \in {"staging", "final"}, v \in Versions : DeleteStored(d, v)
         \/ EndPass
  PROVE  SnapshotInv'
<1>0. /\ HandledAreReserved /\ OldAreKept /\ ListedAreGone
      /\ Watched' \subseteq Watched /\ Watched \subseteq Versions
      BY WatchedStay DEF KeepInv
<1>1. ASSUME ListFiles PROVE SnapshotInv'
      <2>1. /\ step = "cleanup" /\ step' = "sweep"
            /\ UNCHANGED <<pending, keepFinal, final, mutation, source>>
            /\ \A v \in Versions : <<"final", v>> \in listed' => TooOld(final[v])
            BY <1>1 DEF ListFiles, rowVars, fileVars
      <2>2. pending = {} /\ \A v \in Versions : ~Handling(v) /\ ~Handling(v)'
            BY <1>0, <2>1 DEF HandledAreReserved, Handling, Looked
      <2>3. HandledAreReserved'
            BY <2>1, <2>2 DEF HandledAreReserved
      <2>4. OldAreKept'
            BY <1>0, <2>1, <2>2, OverStays DEF OldAreKept
      <2>5. ListedAreGone'
            BY <1>0, <2>1, <2>2, OverStays DEF ListedAreGone, OldAreKept, TooOld
      <2> QED
          BY <2>1, <2>3, <2>4, <2>5 DEF SnapshotInv
<1>2. ASSUME NEW d \in {"staging", "final"}, NEW w \in Versions, DeleteStored(d, w)
      PROVE  SnapshotInv'
      <2>1. /\ step = "sweep" /\ step' = "sweep" /\ listed' \subseteq listed
            /\ UNCHANGED <<pending, keepFinal>>
            BY <1>2 DEF DeleteStored
      <2>2. pending = {} /\ \A v \in Versions : ~Handling(v) /\ ~Handling(v)'
            BY <1>0, <2>1 DEF HandledAreReserved, Handling, Looked
      <2>3. HandledAreReserved'
            BY <2>1, <2>2 DEF HandledAreReserved
      <2>4. OldAreKept'
            BY <1>0, <2>1, <2>2, OverStays, FinalSteps DEF OldAreKept
      <2>5. ListedAreGone'
            <3>1. ASSUME NEW v \in Watched', <<"final", v>> \in listed'
                  PROVE  v \in keepFinal' \/ Over(v)' \/ final'[v] = "bad"
                  <4>1. v \in keepFinal \/ Over(v) \/ final[v] = "bad"
                        BY <1>0, <2>1, <3>1 DEF ListedAreGone
                  <4>2. final[v] = "bad" => final'[v] = "bad"
                        BY <1>0, <2>1, <3>1, FinalSteps
                  <4> QED
                      BY <1>0, <2>1, <4>1, <4>2, OverStays
            <3> QED
                BY <2>1, <3>1 DEF ListedAreGone
      <2> QED
          BY <2>1, <2>3, <2>4, <2>5 DEF SnapshotInv
<1>3. ASSUME EndPass PROVE SnapshotInv'
      <2>1. step' = "idle" /\ pending' = {} /\ listed' = {}
            BY <1>3 DEF EndPass
      <2> QED
          BY <2>1 DEF SnapshotInv, HandledAreReserved, Handling, Looked, OldAreKept,
                      ListedAreGone
<1> QED
    BY <1>1, <1>2, <1>3

(* At first there is nothing to keep.                                      *)
LEMMA KeepInit == FilesInit => KeepInv
<1> SUFFICES ASSUME FilesInit PROVE KeepInv
    OBVIOUS
<1>1. RowsInv /\ CleanedAreGone
      BY DEF FilesInit, RowsInv, CreationsAreFirst, TwinsAreNeverServed, DeletedServeNothing,
             CleanedAreGone, Watched
<1>2. StagedAreFresh /\ FinalsAreReserved
      BY DEF FilesInit, Idle, StagedAreFresh, FinalsAreReserved
<1>3. HandledAreReserved /\ OldAreKept /\ ListedAreGone
      BY DEF FilesInit, HandledAreReserved, Handling, Looked, OldAreKept, ListedAreGone
<1> QED
    BY <1>1, <1>2, <1>3 DEF KeepInv

(* The invariant is inductive.                                             *)
LEMMA KeepNext ==
  ASSUME FilesInv, KeepInv, [FilesNext /\ Watch]_<<vars, neglected>>
  PROVE  KeepInv'
<1>1. ASSUME UNCHANGED <<vars, neglected>> PROVE KeepInv'
      <2>1. /\ UNCHANGED <<staging, final, mutation, source, deleted, cleanup, client, step, at>>
            /\ UNCHANGED <<pending, keepFinal, listed, neglected>>
            BY <1>1 DEF vars, fileVars, rowVars, taskVars, passVars
      <2>2. RowsInv' /\ CleanedAreGone'
            BY <2>1, TwinStays
               DEF KeepInv, RowsInv, CreationsAreFirst, DocumentOf, TwinsAreNeverServed,
                   DeletedServeNothing, CleanedAreGone, Gone, Watched
      <2>3. StagedAreFresh' /\ FinalsAreReserved'
            BY <2>1 DEF KeepInv, StagedAreFresh, FinalsAreReserved, Watched
      <2>4. HandledAreReserved' /\ OldAreKept' /\ ListedAreGone'
            BY <2>1, TwinStays
               DEF KeepInv, HandledAreReserved, Handling, OldAreKept, ListedAreGone,
                   Watched, Over, Gone
      <2> QED
          BY <2>2, <2>3, <2>4 DEF KeepInv
<1>2. ASSUME FilesNext, Watch PROVE SnapshotInv'
      <2>1. CASE Pass \/ AbortPass
            BY <1>2, <2>1, LoadSnapshot, LookStep, DecideStep, RestStep, SnapshotEnds
               DEF Pass, AbortPass, FinishPass
      <2>2. CASE ~(Pass \/ AbortPass)
            <3>1. UNCHANGED passVars
                  BY <1>2, <2>2 DEF FilesNext, Stage, Request, Reserve, Discard, Finalize,
                     Activate, Abandon, SoftDelete, GracePeriodPasses, CleanupBackoffElapses,
                     CleanupExpires, LoseFile
            <3> QED
                BY <1>2, <3>1, BesideStep
      <2> QED
          BY <2>1, <2>2
<1>3. ASSUME FilesNext, Watch PROVE KeepInv'
      <2>1. CleanedAreGone'
            BY <1>2, <1>3, CleanedStep DEF SnapshotInv, CleanedAreGone
      <2> QED
          BY <1>2, <1>3, <2>1, RowsStep, StagedStep, FinalsStep DEF KeepInv, SnapshotInv
<1> QED
    BY <1>1, <1>3

(* No step of a pass removes the intact file of a version that is          *)
(* available, although the pass works with the rows it read at its start   *)
(* while uploads, deletions and losses go on: for any documents with any   *)
(* versions, bundles, backlogs and faults, except where the janitor has    *)
(* lost sight of that very upload, in one of the four ways of Neglects.    *)
THEOREM CommittedFilesHold == FilesWatched => CommittedFilesSurvive
<1> DEFINE Survive == OfJanitor => \A v \in Versions \ neglected :
                        source[v] = "available" /\ final[v] \in Intact => final'[v] \in Intact
<1>1. FilesWatched => FilesSafety
      <2>1. [FilesNext /\ Watch]_<<vars, neglected>> => [FilesNext]_vars
            OBVIOUS
      <2> QED
          BY <2>1, PTL DEF FilesWatched, FilesSafety
<1>2. FilesInit => KeepInv
      BY KeepInit
<1>3. FilesInv /\ KeepInv /\ [FilesNext /\ Watch]_<<vars, neglected>> => KeepInv'
      BY KeepNext
<1>4. FilesInv /\ KeepInv /\ FilesNext => Survive
      <2> SUFFICES ASSUME FilesInv, KeepInv, FilesNext, OfJanitor,
                          NEW v \in Versions \ neglected,
                          source[v] = "available", final[v] \in Intact,
                          final'[v] \notin Intact
                   PROVE  FALSE
          OBVIOUS
      <2>1. \/ cleanup[v] # "none"
            \/ <<"final", v>> \in listed /\ v \notin keepFinal
            BY FinalSteps
      <2>2. Over(v) \/ final[v] = "bad"
            BY <2>1 DEF KeepInv, CleanedAreGone, ListedAreGone, Watched, Over
      <2>3. ~Over(v)
            BY DEF Over, Gone, KeepInv, RowsInv, TwinsAreNeverServed
      <2> QED
          BY <2>2, <2>3 DEF Intact
<1>5. FilesInv /\ KeepInv /\ [FilesNext /\ Watch]_<<vars, neglected>>
        => [Survive]_<<vars, neglected>>
      BY <1>4
<1> QED
    BY <1>1, <1>2, <1>3, <1>5, Invariant, PTL DEF FilesWatched, CommittedFilesSurvive
=============================================================================
