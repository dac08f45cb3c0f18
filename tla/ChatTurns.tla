------------------------------ MODULE ChatTurns ------------------------------
(***************************************************************************)
(* What the chat of evidex-rag promises to a reader of a session, with     *)
(* nothing about workers, leases, heartbeats or retries.                   *)
(*                                                                         *)
(* A turn is asked once, in one session that has no other open turn, and   *)
(* is decided once: the reader sees either a finished answer together with *)
(* its citations or a failure with neither, never a mixture.  ChatRuns is  *)
(* shown to implement this module.                                         *)
(***************************************************************************)
EXTENDS FiniteSets

CONSTANTS Runs,       \* the questions that may be asked
          Sessions    \* the chat sessions they are asked in

(* What a reader sees of a turn: its state, whether the assistant message  *)
(* has text, and whether citations are attached to it.                     *)
Unasked       == [state |-> "unasked",  text |-> "empty", citations |-> "none"]
Pending       == [state |-> "pending",  text |-> "empty", citations |-> "none"]
Answered(c)   == [state |-> "answered", text |-> "full",  citations |-> c]
Failed        == [state |-> "failed",   text |-> "empty", citations |-> "none"]

VARIABLES turn,       \* turn[r]: what a reader sees of r
          home        \* home[s]: the turns asked in session s

turnVars == <<turn, home>>

TurnInit == /\ turn = [r \in Runs |-> Unasked]
            /\ home = [s \in Sessions |-> {}]

Ask(r, s) == /\ turn[r] = Unasked
             /\ \A q \in home[s] : turn[q] # Pending
             /\ turn' = [turn EXCEPT ![r] = Pending]
             /\ home' = [home EXCEPT ![s] = @ \cup {r}]

Decide(r) == /\ turn[r] = Pending
             /\ \E v \in {Answered("none"), Answered("some"), Failed} :
                   turn' = [turn EXCEPT ![r] = v]
             /\ UNCHANGED home

(* One transaction of the reconciler may give up on several turns at once. *)
GiveUp(S) == /\ \A r \in S : turn[r] = Pending
             /\ turn' = [r \in Runs |-> IF r \in S THEN Failed ELSE turn[r]]
             /\ UNCHANGED home

TurnNext == \/ \E r \in Runs, s \in Sessions : Ask(r, s)
            \/ \E r \in Runs : Decide(r)
            \/ \E S \in SUBSET Runs : GiveUp(S)

TurnSafety == TurnInit /\ [][TurnNext]_turnVars

(* Every question asked is decided.                                        *)
TurnSpec == TurnSafety /\ \A r \in Runs : WF_turnVars(Decide(r))
=============================================================================
