------------------------------ MODULE MCStorage ------------------------------
(* What is kept on disk: the source files with their janitor, and the      *)
(* checkpoints of the parser.  The two share no state, so each is checked  *)
(* by itself: part says which of them a behaviour is about.                *)
EXTENDS SourceFiles, ParserCheckpoints, TLC

(* Small instances of SourceFiles for TLC: one version that creates its    *)
(* document, by two requests, and one of a document that has earlier       *)
(* versions, by one.                                                       *)
CONSTANTS v1, c1

OneVersion == {v1}

(* Each version a document and a key of its own.                           *)
Apart == {{v} : v \in Versions}

Later == INSTANCE SourceFiles WITH Creations <- {}

(* A small instance of ParserCheckpoints for TLC: a document of two page   *)
(* segments and one that is converted in one piece.                        *)
CONSTANTS pdf, note, small, large

MCSegmentsOf == pdf :> 3 @@ note :> 1
MCSizeOf     == small :> 1 @@ large :> 2

VARIABLE part

(* Documents that are not looked at have been given up.                    *)
ParserIdle ==
  /\ folder = [d \in Docs |-> NoFolder]
  /\ child = NoChild /\ call = NoCall /\ late = {} /\ mishaps = 0
  /\ job = [d \in Docs |-> [tries |-> MaxAttempts, resumed |-> FALSE,
                            outcome |-> "failed", text |-> <<>>]]

StorageInit ==
  /\ FilesInit /\ neglected = {}
  /\ \/ part \in {"created", "existing"} /\ ParserIdle
     \/ part = "parser" /\ ParserInit

InFiles(A) == part = "created" /\ A /\ Watch /\ UNCHANGED <<part, parserVars>>
InLater(A) == /\ part = "existing" /\ A /\ Watch /\ UNCHANGED <<part, parserVars>>
              /\ \A c \in Clients \ {c1} : client'[c].step = "idle"
InParser(A) == part = "parser" /\ A /\ UNCHANGED <<part, vars, neglected>>

StorageNext == InFiles(FilesNext) \/ InLater(Later!FilesNext) \/ InParser(ParserNext)

storageVars == <<part, vars, neglected, parserVars>>

(* The fairness of each part, while that part runs.                        *)
StorageFairness ==
  /\ \A c \in Clients : WF_storageVars(InFiles(Request(c)) \/ InLater(Later!Request(c)))
  /\ \A v \in Versions :
       /\ SF_storageVars(InFiles(GracePeriodPasses(v)) \/ InLater(GracePeriodPasses(v)))
       /\ WF_storageVars(InFiles(CleanupBackoffElapses(v)) \/ InLater(CleanupBackoffElapses(v)))
  /\ WF_storageVars(InFiles(Pass) \/ InLater(Later!Pass))
  /\ WF_storageVars(InParser(WorkerStep))
  /\ WF_storageVars(InParser(ChildConverts))

StorageSpec == StorageInit /\ [][StorageNext]_storageVars /\ StorageFairness
=============================================================================
