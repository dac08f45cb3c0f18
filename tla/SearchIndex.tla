----------------------------- MODULE SearchIndex -----------------------------
(***************************************************************************)
(* What the index of evidex-rag promises about one document, with nothing  *)
(* about jobs, attempts, builds or workers: a search sees at most one      *)
(* version of it, only the newest version that was published is ever       *)
(* brought into view, and a version that left the view never returns.      *)
(* IndexingJobs is shown to implement this module.                         *)
(***************************************************************************)

CONSTANTS Versions,   \* the versions of the document
          NoVersion   \* "nothing was published"

VARIABLES published,  \* versions that were handed to indexing
          newest,     \* the version published last
          shown,      \* what a search sees: no version, or one
          withdrawn   \* versions that will never be seen (again)

indexVars == <<published, newest, shown, withdrawn>>

IndexInit == /\ published = {}
             /\ newest = NoVersion
             /\ shown = {}
             /\ withdrawn = {}

Publish(v) == /\ v \notin published
              /\ published' = published \cup {v}
              /\ newest' = v
              /\ UNCHANGED <<shown, withdrawn>>

Show(v) == /\ v = newest /\ v \in published
           /\ v \notin withdrawn
           /\ shown' = {v}
           /\ withdrawn' = withdrawn \cup (shown \ {v})
           /\ UNCHANGED <<published, newest>>

(* Deletion, a lost source file, or a version overtaken while it was built *)
Withdraw(S) == /\ S \subseteq published
               /\ shown' = shown \ S
               /\ withdrawn' = withdrawn \cup S
               /\ UNCHANGED <<published, newest>>

IndexNext == \/ \E v \in Versions : Publish(v) \/ Show(v)
             \/ \E S \in SUBSET Versions : Withdraw(S)

IndexSafety == IndexInit /\ [][IndexNext]_indexVars
=============================================================================
