---------------------------- MODULE ModelSettings ----------------------------
(***************************************************************************)
(* Model providers, model profiles and the default selection: immutable    *)
(* revisions in PostgreSQL, provider keys in files beside it, and the      *)
(* janitor that removes key files no revision names.                       *)
(*                                                                         *)
(* A transaction that reads first and locks later is two actions, so that  *)
(* other requests may come between them; a validation also leaves the      *)
(* database while it asks the provider.  Names, endpoints and parameters   *)
(* are abstracted to the fact that a change makes a new revision.          *)
(***************************************************************************)
EXTENDS Naturals, FiniteSets, Sequences

CONSTANTS Providers,   \* model_provider rows
          Profiles,    \* model_profile rows
          Kind,        \* Kind[q]: "chat" or "text_embedding"
          Secrets,     \* names a key file may get (uuid4)
          Facts,       \* what a validated embedding model may be found to be
          Admins,      \* requests of the settings dialog in flight
          MaxRevisions,  \* bound: revisions of one provider or profile
          SecretBatch,   \* entries one pass of the janitor looks at
          MaxEdits,      \* bound: settings requests
          None

ASSUME SettingsConstants ==
  /\ Kind \in [Profiles -> {"chat", "text_embedding"}]
  /\ SecretBatch \in Nat \ {0}
  /\ MaxRevisions \in Nat
  /\ None \notin Secrets \cup Providers \cup Profiles \cup Facts

VARIABLES
  providers,  \* per provider: enabled, and the key each revision refers to
  profiles,   \* per profile: enabled, the provider of the row, its revisions
  selection,  \* ModelSelection: the selected revision of each kind
  secrets,    \* per key file: "absent", "fresh" (within the grace), "old" or
              \* "removed" (names are never used again)
  admin,      \* per request: where it is and what it has read
  janitor,    \* ModelSecretReconciliationService.run_once
  kept,       \* keys whose request was answered with success (history)
  edits       \* settings requests still to come (bound)

settingsVars ==
  <<providers, profiles, selection, secrets, admin, janitor, kept, edits>>

Free       == [pc |-> "idle"]
Resting    == [pc |-> "idle", referenced |-> {}, aged |-> {}, entries |-> {}]
NoProvider == [enabled |-> FALSE, keys |-> <<>>]
NoProfile  == [enabled |-> FALSE, provider |-> None, revisions |-> <<>>]

SettingsInit ==
  /\ providers = [p \in Providers |-> NoProvider]
  /\ profiles  = [q \in Profiles |-> NoProfile]
  /\ selection = [k \in {"chat", "text_embedding"} |-> None]
  /\ secrets   = [s \in Secrets |-> "absent"]
  /\ admin     = [a \in Admins |-> Free]
  /\ janitor   = Resting
  /\ kept      = {}
  /\ edits     = MaxEdits

Present(s)        == secrets[s] \in {"fresh", "old"}
ProviderExists(p) == providers[p].keys # <<>>
ProfileExists(q)  == profiles[q].revisions # <<>>
Current(q)        == Len(profiles[q].revisions)

(* A profile revision is named by its profile and its number.              *)
RevisionExists(ref) == ref # None /\ ref[2] \in 1 .. Len(profiles[ref[1]].revisions)
Revision(ref)       == profiles[ref[1]].revisions[ref[2]]

Unverified(p) == [provider |-> p, key |-> Len(providers[p].keys),
                  status |-> "unverified", facts |-> None]

Request(a) ==
  /\ admin[a].pc = "idle"
  /\ edits > 0
  /\ edits' = edits - 1

-----------------------------------------------------------------------------
(* Providers.  The key is written to its file before the transaction and   *)
(* removed when the transaction raises.                                    *)

WriteKey(a, p, s) ==
  /\ Request(a)
  /\ secrets[s] = "absent"
  /\ secrets' = [secrets EXCEPT ![s] = "fresh"]
  /\ admin' = [admin EXCEPT ![a] = [pc |-> "save", provider |-> p, key |-> s,
                                    new |-> ~ProviderExists(p)]]
  /\ UNCHANGED <<providers, profiles, selection, janitor, kept>>

(* update_provider without a key: a new revision keeps the current one.    *)
EditProvider(a, p, enabled, revised) ==
  /\ Request(a)
  /\ ProviderExists(p)
  /\ revised => Len(providers[p].keys) < MaxRevisions
  /\ providers' = [providers EXCEPT ![p] =
       [enabled |-> enabled,
        keys |-> IF revised THEN Append(@.keys, @.keys[Len(@.keys)]) ELSE @.keys]]
  /\ UNCHANGED <<profiles, selection, secrets, admin, janitor, kept>>

(* create_provider or update_provider commits; the reply follows.          *)
SaveProvider(a, enabled) ==
  /\ admin[a].pc = "save"
  /\ Len(providers[admin[a].provider].keys) < MaxRevisions
  /\ admin[a].new = ~ProviderExists(admin[a].provider)
  /\ admin[a].new => enabled
  /\ providers' = [providers EXCEPT ![admin[a].provider] =
       [enabled |-> enabled, keys |-> Append(@.keys, admin[a].key)]]
  /\ admin' = [admin EXCEPT ![a].pc = "saved"]
  /\ UNCHANGED <<profiles, selection, secrets, janitor, kept, edits>>

AnswerSaved(a) ==
  /\ admin[a].pc = "saved"
  /\ kept'  = kept \cup {admin[a].key}
  /\ admin' = [admin EXCEPT ![a] = Free]
  /\ UNCHANGED <<providers, profiles, selection, secrets, janitor, edits>>

(* A name taken, a provider not found, an error before or at the commit --  *)
(* or after it, its acknowledgement lost -- and the key is removed.         *)
SaveRaises(a) ==
  /\ admin[a].pc \in {"save", "saved"}
  /\ secrets' = [secrets EXCEPT ![admin[a].key] = "removed"]
  /\ admin'   = [admin EXCEPT ![a] = Free]
  /\ UNCHANGED <<providers, profiles, selection, janitor, kept, edits>>

-----------------------------------------------------------------------------
(* Profiles.                                                               *)

CreateProfile(a, q, p) ==
  /\ Request(a)
  /\ ~ProfileExists(q)
  /\ ProviderExists(p) /\ providers[p].enabled
  /\ profiles' = [profiles EXCEPT ![q] =
       [enabled |-> TRUE, provider |-> p, revisions |-> <<Unverified(p)>>]]
  /\ UNCHANGED <<providers, selection, secrets, admin, janitor, kept>>

(* update_profile with a provider: the new revision is the given           *)
(* provider's, the row's own provider stays what it was.  Without one, a   *)
(* changed model or parameter set keeps the provider revision in use.      *)
UpdateProfile(a, q, p, enabled) ==
  /\ Request(a)
  /\ ProfileExists(q) /\ Current(q) < MaxRevisions
  /\ LET owner == IF p = None THEN profiles[q].provider ELSE p
         same  == [Revision(<<q, Current(q)>>) EXCEPT !.status = "unverified",
                                                       !.facts  = None]
     IN  /\ ProviderExists(owner) /\ providers[owner].enabled
         /\ profiles' = [profiles EXCEPT ![q] =
              [enabled |-> enabled, provider |-> @.provider, revisions |->
               Append(@.revisions, IF p = None THEN same ELSE Unverified(p))]]
  /\ UNCHANGED <<providers, selection, secrets, admin, janitor, kept>>

(* update_profile without anything that makes a revision.                  *)
ToggleProfile(a, q, enabled) ==
  /\ Request(a)
  /\ ProfileExists(q)
  /\ profiles[q].enabled # enabled
  /\ providers[profiles[q].provider].enabled
  /\ profiles' = [profiles EXCEPT ![q].enabled = enabled]
  /\ UNCHANGED <<providers, selection, secrets, admin, janitor, kept>>

ProfileIsOn(q) == profiles[q].enabled /\ providers[profiles[q].provider].enabled

(* validate_profile: the first transaction reads the current revision.     *)
LoadForValidation(a, q) ==
  /\ Request(a)
  /\ ProfileExists(q) /\ ProfileIsOn(q)
  /\ admin' = [admin EXCEPT ![a] =
       [pc |-> "ask", ref |-> <<q, Current(q)>>,
        frozen |-> Revision(<<q, Current(q)>>)]]
  /\ UNCHANGED <<providers, profiles, selection, secrets, janitor, kept>>

ProviderKey(revision) == providers[revision.provider].keys[revision.key]

(* What the provider may be found to be.  A chat model has no facts.       *)
Findings(ref) ==
  {[status |-> "invalid", facts |-> None]} \cup
  {[status |-> "valid", facts |-> f] :
     f \in IF Kind[ref[1]] = "chat" THEN {None} ELSE Facts}

(* The validator's outcome.  A validated revision is preserved: a failure  *)
(* or different facts end the request without a write.                     *)
AskProvider(a) ==
  /\ admin[a].pc = "ask"
  /\ \E found \in Findings(admin[a].ref) :
       /\ secrets[ProviderKey(admin[a].frozen)] = "removed" => found.status = "invalid"
       /\ admin' = [admin EXCEPT ![a] =
            IF admin[a].frozen.status = "valid"
               /\ (found.status = "invalid" \/ found.facts # admin[a].frozen.facts)
            THEN Free
            ELSE [pc |-> "record", ref |-> admin[a].ref, found |-> found]]
  /\ UNCHANGED <<providers, profiles, selection, secrets, janitor, kept, edits>>

(* set_validation locks the revision's row and overwrites what it says.    *)
RecordValidation(a) ==
  /\ admin[a].pc = "record"
  /\ LET ref == admin[a].ref IN
     profiles' = [profiles EXCEPT ![ref[1]].revisions[ref[2]] =
       [@ EXCEPT !.status = admin[a].found.status,
                 !.facts  = admin[a].found.facts]]
  /\ admin' = [admin EXCEPT ![a] = Free]
  /\ UNCHANGED <<providers, selection, secrets, janitor, kept, edits>>

(* What update_selection and create_run ask of a revision.                 *)
Usable(ref, kind) ==
  /\ RevisionExists(ref)
  /\ Kind[ref[1]] = kind
  /\ ProfileIsOn(ref[1])
  /\ Revision(ref).status = "valid"

References == {<<q, n>> : q \in Profiles, n \in 1 .. MaxRevisions}

Select(a, kind, ref) ==
  /\ Request(a)
  /\ ref = None \/ Usable(ref, kind)
  /\ selection' = [selection EXCEPT ![kind] = ref]
  /\ UNCHANGED <<providers, profiles, secrets, admin, janitor, kept>>

-----------------------------------------------------------------------------
(* The API process dies: files and rows stay, requests are gone.           *)
StopAdmins ==
  /\ \E a \in Admins : admin[a].pc # "idle"
  /\ admin' = [a \in Admins |-> Free]
  /\ UNCHANGED <<providers, profiles, selection, secrets, janitor, kept, edits>>

(* The orphan grace is longer than a request takes.                        *)
AgeKey(s) ==
  /\ secrets[s] = "fresh"
  /\ ~\E a \in Admins : admin[a].pc \in {"save", "saved"} /\ admin[a].key = s
  /\ secrets' = [secrets EXCEPT ![s] = "old"]
  /\ UNCHANGED <<providers, profiles, selection, admin, janitor, kept, edits>>

ReferencedByTheNewest ==                                             \* mutant
  {providers[p].keys[Len(providers[p].keys)] : p \in {x \in Providers : ProviderExists(x)}}
Referenced == UNION {{providers[p].keys[i] : i \in 1 .. Len(providers[p].keys)} :
                     p \in Providers}

(* A pass first notes the time, then reads the references.                 *)
AgedAtListing(s) == secrets[s] = "old"                               \* mutant
AgedAtStart(s) == s \in janitor.aged

SweepReferences ==
  /\ janitor.pc = "idle"
  /\ janitor' = [pc |-> "list", referenced |-> Referenced,
                 aged |-> {s \in Secrets : secrets[s] = "old"}, entries |-> {}]
  /\ UNCHANGED <<providers, profiles, selection, secrets, admin, kept, edits>>

(* Files are named by random identifiers, so a batch may be any of them.   *)
SweepList ==
  /\ janitor.pc = "list"
  /\ LET files == {s \in Secrets : Present(s)} IN
     \E batch \in SUBSET files :
       /\ Cardinality(batch) = IF Cardinality(files) < SecretBatch
                               THEN Cardinality(files) ELSE SecretBatch
       /\ LET doomed == {s \in batch : AgedAtStart(s)} \ janitor.referenced
          IN  janitor' = IF doomed = {} THEN Resting
                         ELSE [Resting EXCEPT !.pc = "delete", !.entries = doomed]
  /\ UNCHANGED <<providers, profiles, selection, secrets, admin, kept, edits>>

(* A failed deletion is counted and left to a later pass.                  *)
SweepDelete(s) ==
  /\ janitor.pc = "delete"
  /\ s \in janitor.entries
  /\ \/ secrets' = [secrets EXCEPT ![s] = "removed"]
     \/ UNCHANGED secrets
  /\ janitor' = IF janitor.entries = {s} THEN Resting
                ELSE [janitor EXCEPT !.entries = @ \ {s}]
  /\ UNCHANGED <<providers, profiles, selection, admin, kept, edits>>

-----------------------------------------------------------------------------
SettingsNext ==
  \/ \E a \in Admins, p \in Providers, s \in Secrets : WriteKey(a, p, s)
  \/ \E a \in Admins, p \in Providers, b, r \in BOOLEAN :
       EditProvider(a, p, b, r)
  \/ \E a \in Admins, b \in BOOLEAN : SaveProvider(a, b)
  \/ \E a \in Admins : \/ AnswerSaved(a)
                       \/ SaveRaises(a)
                       \/ AskProvider(a)
                       \/ RecordValidation(a)
  \/ \E a \in Admins, q \in Profiles, p \in Providers : CreateProfile(a, q, p)
  \/ \E a \in Admins, q \in Profiles, p \in Providers \cup {None}, b \in BOOLEAN :
       UpdateProfile(a, q, p, b)
  \/ \E a \in Admins, q \in Profiles, b \in BOOLEAN : ToggleProfile(a, q, b)
  \/ \E a \in Admins, q \in Profiles : LoadForValidation(a, q)
  \/ \E a \in Admins, k \in {"chat", "text_embedding"},
        ref \in References \cup {None} : Select(a, k, ref)
  \/ StopAdmins
  \/ \E s \in Secrets : AgeKey(s)
  \/ SweepReferences
  \/ SweepList
  \/ \E s \in Secrets : SweepDelete(s)

(* A key file whose save was answered with success is there for good: each *)
(* revision that ever named it stays in use by profiles and frozen runs.   *)
(* The janitor takes the references first, the files later, and deletes    *)
(* later still; requests write the file first and the reference later.     *)
AnsweredKeysSurvive == \A s \in kept : Present(s)

(* services/model_settings.py: "validated model revision was preserved     *)
(* after revalidation failure" -- a revision that is valid stays valid and *)
(* stays what it was found to be.                                          *)
ValidRevisionsStand ==
  [][\A ref \in References : RevisionExists(ref) /\ Revision(ref).status = "valid"
       => /\ Revision(ref)'.status = "valid"
          /\ Revision(ref)'.facts = Revision(ref).facts]_settingsVars
=============================================================================
