----------------------------- MODULE ConfigSync -----------------------------
(***************************************************************************)
(* What passes between the control plane and an agent, whoever of the two is   *)
(* looked at: a reply is the newest revision at some moment of its request,     *)
(* and the agent persists what it was handed, nothing, or the loss of its file. *)
(* Who models one side of it may leave the other to this module.              *)
(***************************************************************************)
EXTENDS Revisions

VARIABLES
  working, \* the revision of the reply the agent is working on, 0 if there is none
  local    \* the revision it has persisted as applied

vars == <<revision, retired, working, local>>

Init == revision = 1 /\ ~retired /\ working = 0 /\ local = 0

Edit == Renumber /\ UNCHANGED <<working, local>>

Fetch == working = 0 /\ working' = revision /\ UNCHANGED <<numbering, local>>

Apply == working # 0 /\ local' = working /\ working' = 0 /\ UNCHANGED numbering

\* The reply is not applied, or the agent stops; what it had persisted may be lost.
Drop == working' = 0 /\ local' \in {local, 0} /\ UNCHANGED numbering

Next == Edit \/ Fetch \/ Apply \/ Drop

Spec == Init /\ [][Next]_vars

\* The control plane goes back to an older state.
Rewind ==
  /\ revision' \in Nat \ {0} /\ retired' \in BOOLEAN
  /\ UNCHANGED <<working, local>>

RewindingSpec == Init /\ [][Next \/ Rewind]_vars

---------------------------------------------------------------------------
(* What follows from Spec.                                                  *)

\* The agent is never ahead of the control plane, nor behind what it is handed next.
NeverAhead ==
  /\ revision \in Nat /\ working \in Nat /\ local \in Nat
  /\ local <= revision /\ working <= revision
  /\ working # 0 => local <= working

\* What the agent has applied is never replaced by something older.
NeverOlder == [][local' >= local \/ local' = 0]_vars
=============================================================================
