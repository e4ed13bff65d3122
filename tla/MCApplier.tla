----------------------------- MODULE MCApplier -----------------------------
(* Applier on a small host.  `base' is the history variable the refinement  *)
(* of Deployment needs: what was committed when the call began, or what the *)
(* migration from a legacy deployment made of it.                           *)
EXTENDS Applier

VARIABLE base

MCInit == Init /\ base = Committed

MCNext ==
  /\ Next
  /\ base' = IF pc \in {"idle", "configure", "switch"} \/ pc' = "idle" THEN Committed' ELSE base

MCSpec == MCInit /\ [][MCNext]_<<vars, base>>

MCFairSpec == MCSpec /\ Fairness

\* What is left of the legacy deployment.
Old ==
  IF unit = "legacy" /\ legacy # "absent" THEN "running"
  ELSE IF legacy = "full" /\ current = None THEN "stored" ELSE "none"

\* A deployment is all or nothing: Apply implements the abstract Deployment, with
\* every step of the switch, the rollback and the recovery hidden.
D == INSTANCE Deployment WITH
       old       <- Old,
       committed <- Committed,
       applying  <- IF pc = "idle" THEN None ELSE want,
       result    <- outcome

AllOrNothing == D!Spec

\* The inductive invariant behind it: nothing is decided before the switch, the
\* generation a rollback would return to holds what the call goes back to, and
\* recoverPending removes `current' only when there is none to return to.
Undecided == Clean \cup {"idle", "recover", "recoverRemove"}

HistoryInv ==
  /\ pc \in Undecided => Committed = base
  /\ pc \in Switched \cup {"restoreProcess"} => Deployed(prev) = base
  /\ pc = "recoverRemove" => current \in Gen \ activated /\ previous[current] = None

\* A migration goes back to the copy it made, and every other call to the generation it
\* found; a host with a complete legacy deployment never returns to no generation at all.
MigrationInv ==
  /\ pc \in {"previous", "configure", "switch"} =>
       \/ prev = current /\ (prev # None \/ legacy # "full")
       \/ /\ current = None /\ legacy = "full"
          /\ prev # None /\ content[prev] = Legacy
  /\ legacy = "full" =>
       /\ \A g \in Gen : previous[g] # None
       /\ pc \in Staged \ {"link"} => prev # None

\* Directory names are interchangeable, so it is enough to explore runs that take
\* the smallest free one: a symmetry reduction that liveness checking allows too.
SmallestFree(g) == \A h \in Gen : h < g => h \in OnDisk \cup {running}

SmallestNames ==
  /\ gen' \in {gen, None} \/ SmallestFree(gen')
  /\ (pc = "link" /\ prev' \in Gen \ OnDisk) => SmallestFree(prev')
=============================================================================
