--------------------------- MODULE MCChatAdmission ---------------------------
(* Small instances of ChatAdmission: four questions of one session, two    *)
(* of them under one key and one for a given model, at two connections,    *)
(* with and without a selected model; and the model settings with two      *)
(* requests at a time.  Beside these, as a part of its own, the live       *)
(* progress of one run.                                                    *)
EXTENDS ChatAdmission, ChatStream

CONSTANTS i1, i2, i3, i4, k1, k2, k3, s1, b1, b2, p1, q1, q2, e1, e2, f1,
          a1, a2, c1, c2

MCKind    == (q1 :> "chat") @@ (q2 :> "text_embedding")
MCKey     == (i1 :> k1) @@ (i2 :> k2) @@ (i3 :> k1) @@ (i4 :> k3)
MCSession == [i \in Intents |-> s1]
MCScope   == (i1 :> {b1}) @@ (i2 :> {b1, b2}) @@ (i3 :> {b2}) @@ (i4 :> {b2})
MCWanted  == [i \in Intents |-> IF i = i4 THEN <<q1, 1>> ELSE None]
MCWeight  == (i1 :> 1) @@ (i2 :> 2) @@ (i3 :> 1) @@ (i4 :> 3)

(* A provider with a key, a validated chat model on it.                    *)
Prepared(editing) ==
  /\ providers = [p \in Providers |-> [enabled |-> TRUE, keys |-> <<e1>>]]
  /\ profiles  = [q \in Profiles |->
       IF q = q1 THEN [enabled |-> TRUE, provider |-> p1, revisions |->
                       <<[provider |-> p1, key |-> 1, status |-> "valid", facts |-> None]>>]
       ELSE NoProfile]
  /\ \E chat \in {None, <<q1, 1>>} :
       selection = [k \in {"chat", "text_embedding"} |->
                      IF k = "chat" THEN chat ELSE None]
  /\ secrets   = [s \in Secrets |-> IF s = e1 THEN "old" ELSE "absent"]
  /\ admin     = [a \in Admins |-> Free]
  /\ janitor   = Resting
  /\ kept      = {e1}
  /\ edits     = editing

VARIABLE part  \* what this behaviour is about

(* The settings alone, the questions with a prepared model, or one         *)
(* question beside an edit of it.                                          *)
MCInit ==
  /\ StreamInit
  /\ \/ part = "questions" /\ SettingsInit /\ AdmissionInit(0)
     \/ part = "questions" /\ Prepared(0) /\ AdmissionInit(MaxRequests)
     \/ part = "questions" /\ Prepared(1) /\ AdmissionInit(1)
     \/ part = "progress"  /\ Prepared(0) /\ AdmissionInit(0)

MCNext ==
  /\ UNCHANGED part
  /\ \/ part = "questions" /\ AdmissionNext /\ UNCHANGED streamVars
     \/ part = "progress"  /\ StreamNext /\ UNCHANGED <<settingsVars, admissionVars>>

Alike == Permutations(Connections) \cup Permutations(Admins)

MCSpec == MCInit /\ [][MCNext]_<<part, settingsVars, admissionVars, streamVars>>
=============================================================================
