----------------------------- MODULE Deployment -----------------------------
(***************************************************************************)
(* What Applier.Apply promises, without the disk and without systemd: a      *)
(* deployment is all or nothing.  `committed' is what the host falls back to *)
(* if everything stops now.  While a bundle is applied, it is either what    *)
(* was committed before or that bundle; while none is, it does not move.    *)
(*                                                                         *)
(* There is one exception, the migration from a deployment made before      *)
(* generations existed: its unit is rewritten before the first generation   *)
(* is switched to, and a call that ends in between leaves nothing to fall    *)
(* back to until a later call gets past the switch.                         *)
(***************************************************************************)
CONSTANTS Content, None, Legacy

VARIABLES
  old,       \* the legacy deployment: its unit runs it, only its files are left
             \* to adopt, or there is none (any more)
  committed, \* the deployment a recovery would restore
  base,      \* what the call in progress goes back to when it fails
  applying,  \* the bundle of the call in progress, or None
  result     \* what the last call returned

vars == <<old, committed, base, applying, result>>

Init ==
  /\ old \in {"running", "none"}
  /\ committed = (IF old = "running" THEN Legacy ELSE None) /\ base = committed
  /\ applying = None /\ result = "none"

Submit(b) ==
  /\ applying = None
  /\ applying' = b /\ base' = committed /\ result' = "none"
  /\ UNCHANGED <<old, committed>>

\* The unit no longer starts the legacy deployment, whose files may be preserved.
Uproot ==
  /\ applying # None /\ old = "running"
  /\ old' \in {"stored", "none"} /\ committed' = None /\ base' = None
  /\ UNCHANGED <<applying, result>>

\* The first switch makes the preserved copy what a failing call goes back to.
Adopt ==
  /\ applying # None /\ old = "stored"
  /\ old' = "none" /\ committed' = Legacy /\ base' = Legacy
  /\ UNCHANGED <<applying, result>>

Decide ==
  /\ applying # None /\ old = "none"
  /\ committed' \in {base, applying}
  /\ UNCHANGED <<old, base, applying, result>>

\* A call that returns nil has committed its bundle.
Succeed ==
  /\ applying # None /\ committed = applying
  /\ applying' = None /\ base' = committed /\ result' = "ok"
  /\ UNCHANGED <<old, committed>>

\* An error or a crash leaves either deployment, never a mixture or a third one.
Fail ==
  /\ applying' = None /\ base' = committed
  /\ result' \in {"error", "crashed"}
  /\ UNCHANGED <<old, committed>>

Next == (\E b \in Content : Submit(b)) \/ Uproot \/ Adopt \/ Decide \/ Succeed \/ Fail

Spec == Init /\ [][Next]_vars
=============================================================================
