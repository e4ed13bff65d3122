--------------------------- MODULE HostReconcile ---------------------------
(***************************************************************************)
(* An frpc host: the agent makes the frpc processes of the host match the    *)
(* connections of the bundle, one at a time, each committed on its own, and  *)
(* stops them all when the host is retired (internal/agent/connections.go,   *)
(* reconcile and decommission; internal/agent/state.go).  Every call can     *)
(* fail, and the agent or the host can stop between any two of them.         *)
(*                                                                         *)
(* Applier.Apply appears here as its specification promises it (Deployment):  *)
(* a connection has the deployment committed last, and maybe a candidate that *)
(* was switched to and not activated.                                        *)
(***************************************************************************)
EXTENDS Naturals, FiniteSets

CONSTANTS
  Conns,     \* connections of the host
  Content,   \* fingerprints of their configurations
  None,      \* no connection, no content, no process
  Broken,    \* a connection the control plane cannot render (ConfigError)
  MaxTarget, \* bound: revisions of the host
  MaxFaults  \* bound: failing calls, crashes, reboots, damage

ASSUME ConstantsAssumption ==
  /\ None \notin Content \cup Conns /\ Broken \notin Content \cup {None}
  /\ MaxTarget \in Nat /\ MaxFaults \in Nat

VARIABLES
  target, wanted, deleted, retired,  \* control plane: revision, connections
  saved, hostVersion,                \* state.json
  dir, committed, pending,           \* each instance: its directory, deployments,
  stuck,                             \* and whether recoverPending must fail
  enabled, proc,                     \* its unit: enabled at boot, what it runs
  pc, bundle, todo, at, errs, outcome, \* the call in progress
  faults                             \* faults so far

plane    == <<target, wanted, deleted, retired>>
state    == <<saved, hostVersion>>
instance == <<dir, committed, pending, stuck>>
unit     == <<enabled, proc>>
call     == <<bundle, outcome>>
vars     == <<target, wanted, deleted, retired, saved, hostVersion, dir, committed, pending, stuck,
              enabled, proc, pc, bundle, todo, at, errs, outcome, faults>>

Fault == faults < MaxFaults /\ faults' = faults + 1

Goto(from, to) == pc = from /\ pc' = to

Return(result) == pc' = "idle" /\ outcome' = result /\ todo' = {} /\ at' = None

Desired == {c \in Conns : bundle.conns[c] # None}

Unknown == [known |-> FALSE, fingerprint |-> None, error |-> FALSE]

\* State.SetConn, SetConnFailure and RemoveConn; each persists the whole file.
SetConn(c)        == saved' = [saved EXCEPT ![c] = [known |-> TRUE, fingerprint |-> bundle.conns[c], error |-> FALSE]]
SetConnFailure(S) == saved' = [c \in Conns |-> IF c \in S THEN [saved[c] EXCEPT !.known = TRUE, !.error = TRUE] ELSE saved[c]]
RemoveConn(c)     == saved' = [saved EXCEPT ![c] = Unknown]

\* Mutant of managedConnections: the inventory is state.json alone.
recordedConnections == {c \in Conns : saved[c].known}

\* Mutant of managedConnections: the inventory is the directories alone.
installedConnections == {c \in Conns : dir[c]}

\* Inventory is state.json and the instance directories.
managedConnections == {c \in Conns : saved[c].known \/ dir[c]}

\* connectionFilesExist asks for an activated generation with all its files.
FilesExist(c) == pending[c] = None /\ committed[c] # None /\ ~stuck[c]

\* What the unit executes when it is started.
ExecTarget(c) == IF pending[c] # None THEN pending[c] ELSE committed[c]

Init ==
  /\ target = 1 /\ wanted = [c \in Conns |-> None] /\ deleted = {} /\ retired = FALSE
  /\ saved = [c \in Conns |-> Unknown] /\ hostVersion = 0
  /\ dir = [c \in Conns |-> FALSE]
  /\ committed = [c \in Conns |-> None] /\ pending = [c \in Conns |-> None]
  /\ stuck = [c \in Conns |-> FALSE]
  /\ enabled = [c \in Conns |-> FALSE] /\ proc = [c \in Conns |-> None]
  /\ pc = "idle" /\ todo = {} /\ at = None /\ errs = FALSE /\ outcome = "none"
  /\ bundle = [version |-> 0, conns |-> wanted, decommission |-> FALSE]
  /\ faults = 0

---------------------------------------------------------------------------
(* A poll returns the current bundle and reconcile or decommission starts.   *)

Begin ==
  /\ Goto("idle", "remove")
  /\ bundle' = [version |-> target, conns |-> wanted, decommission |-> retired]
  /\ todo' = {c \in managedConnections : wanted[c] = None}
  /\ errs' = FALSE /\ outcome' = "none" /\ at' = None
  /\ UNCHANGED <<plane, state, instance, unit, faults>>

InventoryFails ==
  /\ pc = "idle" /\ Fault
  /\ bundle' = [version |-> target, conns |-> wanted, decommission |-> retired]
  /\ errs' = TRUE /\ Return("failed")
  /\ UNCHANGED <<plane, state, instance, unit>>

---------------------------------------------------------------------------
(* removeConnection, then State.RemoveConn, for every undesired connection.  *)

Stop(c) ==
  /\ Goto("remove", "disable") /\ c \in todo
  /\ proc' = [proc EXCEPT ![c] = None]
  /\ at' = c /\ todo' = todo \ {c}
  /\ UNCHANGED <<plane, state, instance, enabled, call, errs, faults>>

Disable ==
  /\ Goto("disable", "delete")
  /\ enabled' = [enabled EXCEPT ![at] = FALSE]
  /\ UNCHANGED <<plane, state, instance, proc, call, todo, at, errs, faults>>

Delete ==
  /\ Goto("delete", "forget")
  /\ dir' = [dir EXCEPT ![at] = FALSE]
  /\ committed' = [committed EXCEPT ![at] = None]
  /\ pending' = [pending EXCEPT ![at] = None]
  /\ stuck' = [stuck EXCEPT ![at] = FALSE]
  /\ UNCHANGED <<plane, state, unit, call, todo, at, errs, faults>>

Forget ==
  /\ Goto("forget", "remove")
  /\ RemoveConn(at) /\ at' = None
  /\ UNCHANGED <<plane, hostVersion, instance, unit, call, todo, errs, faults>>

\* A step of the removal fails, its effect made or not.  reconcile goes on with
\* the next connection, decommission gives up and acknowledges the error.
RemoveFails ==
  /\ Fault
  /\ \/ /\ pc = "remove" /\ UNCHANGED <<instance, enabled>>
        /\ \E c \in todo : proc' \in {proc, [proc EXCEPT ![c] = None]} /\ todo' = todo \ {c}
     \/ /\ pc = "disable" /\ UNCHANGED <<instance, proc, todo>>
        /\ enabled' \in {enabled, [enabled EXCEPT ![at] = FALSE]}
     \/ /\ pc = "delete" /\ UNCHANGED <<dir, stuck, unit, todo>>
        /\ \/ UNCHANGED <<committed, pending>>
           \/ committed' = [committed EXCEPT ![at] = None] /\ pending' = [pending EXCEPT ![at] = None]
     \/ pc = "forget" /\ UNCHANGED <<instance, unit, todo>>
  /\ errs' = TRUE /\ at' = None
  /\ pc' = IF bundle.decommission THEN "save" ELSE "remove"
  /\ UNCHANGED <<plane, state, call>>

Removed ==
  /\ pc = "remove" /\ todo = {}
  /\ pc' = IF bundle.decommission THEN "save" ELSE "prepare"
  /\ UNCHANGED <<plane, state, instance, unit, call, todo, at, errs, faults>>

---------------------------------------------------------------------------
(* The desired connections, one after the other.                            *)

PrepareBinary ==
  /\ Goto("prepare", "apply")
  /\ todo' = Desired
  /\ UNCHANGED <<plane, state, instance, unit, call, at, errs, faults>>

\* Every connection gets the error; persisting it may fail for some.
PrepareBinaryFails ==
  /\ pc = "prepare" /\ Desired # {} /\ Fault
  /\ \E S \in SUBSET Desired : SetConnFailure(S)
  /\ Return("failed")
  /\ UNCHANGED <<plane, hostVersion, instance, unit, bundle, errs>>

\* Mutant of Reject: the connection is skipped without an error.
RejectSilently(c) ==
  /\ pc = "apply" /\ c \in todo /\ bundle.conns[c] = Broken
  /\ todo' = todo \ {c}
  /\ UNCHANGED <<plane, state, instance, unit, pc, call, errs, at, faults>>

\* A connection with a ConfigError keeps what it has and reports the error.
Reject(c) ==
  /\ pc = "apply" /\ c \in todo /\ bundle.conns[c] = Broken
  /\ SetConnFailure({c})
  /\ errs' = TRUE /\ todo' = todo \ {c}
  /\ UNCHANGED <<plane, hostVersion, instance, unit, pc, call, at, faults>>

RejectUnrecorded(c) ==
  /\ pc = "apply" /\ c \in todo /\ bundle.conns[c] = Broken
  /\ Fault
  /\ errs' = TRUE /\ todo' = todo \ {c}
  /\ UNCHANGED <<plane, state, instance, unit, pc, call, at>>

Applied(c) ==
  /\ saved[c].known /\ saved[c].fingerprint = bundle.conns[c] /\ FilesExist(c)

\* Nothing to do, and the process is active or systemd does not tell.  A change of
\* the revision alone, or an error of an earlier one, is persisted.
Keep(c) ==
  /\ pc = "apply" /\ c \in todo /\ bundle.conns[c] # Broken /\ Applied(c)
  /\ \/ proc[c] # None /\ SetConn(c) /\ UNCHANGED <<errs, faults>>
     \/ Fault /\ SetConn(c) /\ UNCHANGED errs
     \/ Fault /\ errs' = TRUE /\ UNCHANGED saved
  /\ todo' = todo \ {c}
  /\ UNCHANGED <<plane, hostVersion, instance, unit, pc, call, at>>

\* Mutant of Stale: a connection that cannot be rendered is deployed.
StaleOrBroken(c) == c \in todo /\ (~Applied(c) \/ proc[c] = None)

Stale(c) ==
  /\ c \in todo /\ bundle.conns[c] # Broken
  /\ ~Applied(c) \/ proc[c] = None

\* Apply finds its fingerprint in the current generation, after the recovery of
\* one left pending; an active process is not restarted.
Redeploy(c) ==
  /\ Goto("apply", "record") /\ Stale(c) /\ ~stuck[c]
  /\ committed[c] = bundle.conns[c]
  /\ proc' = [proc EXCEPT ![c] = IF pending[c] # None \/ @ = None THEN committed[c] ELSE @]
  /\ pending' = [pending EXCEPT ![c] = None]
  /\ enabled' = [enabled EXCEPT ![c] = TRUE]
  /\ at' = c /\ todo' = todo \ {c}
  /\ UNCHANGED <<plane, state, dir, committed, stuck, call, errs, faults>>

\* Apply switches to a new generation and restarts the unit.
Deploy(c) ==
  /\ Goto("apply", "activate") /\ Stale(c) /\ ~stuck[c]
  /\ committed[c] # bundle.conns[c]
  /\ dir' = [dir EXCEPT ![c] = TRUE]
  /\ pending' = [pending EXCEPT ![c] = bundle.conns[c]]
  /\ proc' = [proc EXCEPT ![c] = bundle.conns[c]]
  /\ enabled' = [enabled EXCEPT ![c] = TRUE]
  /\ at' = c /\ todo' = todo \ {c}
  /\ UNCHANGED <<plane, state, committed, stuck, call, errs, faults>>

\* recoverPending finds neither "activated" nor "previous" and Apply returns its error,
\* every time: nothing else would put the pointer right.
RecoveryFails(c) ==
  /\ Goto("apply", "blame") /\ Stale(c) /\ stuck[c]
  /\ at' = c /\ todo' = todo \ {c}
  /\ UNCHANGED <<plane, state, instance, unit, call, errs, faults>>

Activate ==
  /\ Goto("activate", "record")
  /\ committed' = [committed EXCEPT ![at] = pending[at]]
  /\ pending' = [pending EXCEPT ![at] = None]
  /\ stuck' = [stuck EXCEPT ![at] = FALSE]
  /\ UNCHANGED <<plane, state, dir, unit, call, todo, at, errs, faults>>

\* Apply fails before the switch, perhaps after the recovery of a pending generation.
StageFails(c) ==
  /\ Goto("apply", "blame") /\ Stale(c) /\ Fault
  /\ dir' \in {dir, [dir EXCEPT ![c] = TRUE]}
  /\ \/ UNCHANGED <<pending, proc>>
     \/ /\ pending[c] # None /\ ~stuck[c]
        /\ pending' = [pending EXCEPT ![c] = None]
        /\ \E p \in {committed[c], None, proc[c]} : proc' = [proc EXCEPT ![c] = p]
  /\ at' = c /\ todo' = todo \ {c}
  /\ UNCHANGED <<plane, state, committed, stuck, enabled, call, errs>>

GoBack == pending' = [pending EXCEPT ![at] = None] /\ stuck' = [stuck EXCEPT ![at] = FALSE]

\* Apply rolls back after the switch; the rollback itself may fail.  A candidate whose
\* directory disappeared cannot be activated, and going back leaves it behind.
ActivateFails ==
  /\ Goto("activate", "blame")
  /\ \/ /\ Fault
        /\ GoBack \/ UNCHANGED <<pending, stuck>>
        /\ \E p \in {committed[at], None, proc[at]} : proc' = [proc EXCEPT ![at] = p]
     \/ /\ stuck[at] /\ UNCHANGED faults
        /\ GoBack /\ proc' = [proc EXCEPT ![at] = committed[at]]
  /\ UNCHANGED <<plane, state, dir, committed, enabled, call, todo, at, errs>>

\* Enabling the unit once more fails after the activation.
EnableFails ==
  /\ Goto("record", "blame") /\ Fault
  /\ UNCHANGED <<plane, state, instance, unit, call, todo, at, errs>>

Record ==
  /\ Goto("record", "apply")
  /\ SetConn(at) /\ at' = None
  /\ UNCHANGED <<plane, hostVersion, instance, unit, call, todo, errs, faults>>

Blame ==
  /\ Goto("blame", "apply")
  /\ SetConnFailure({at}) /\ errs' = TRUE /\ at' = None
  /\ UNCHANGED <<plane, hostVersion, instance, unit, call, todo, faults>>

PersistFails ==
  /\ pc \in {"record", "blame"} /\ pc' = "apply"
  /\ Fault /\ errs' = TRUE /\ at' = None
  /\ UNCHANGED <<plane, state, instance, unit, call, todo>>

---------------------------------------------------------------------------
(* SaveHost or Save, and the acknowledgement.                               *)

AllApplied ==
  /\ pc = "apply" /\ todo = {} /\ pc' = "save"
  /\ UNCHANGED <<plane, state, instance, unit, call, todo, at, errs, faults>>

Succeed ==
  /\ pc = "save" /\ ~errs
  /\ hostVersion' = bundle.version
  /\ Return("ok")
  /\ UNCHANGED <<plane, saved, instance, unit, bundle, errs, faults>>

Fail ==
  /\ pc = "save"
  /\ (errs /\ UNCHANGED faults) \/ Fault
  /\ Return("failed")
  /\ UNCHANGED <<plane, state, instance, unit, bundle, errs>>

---------------------------------------------------------------------------
(* The environment.                                                         *)

\* A connection is created or its configuration changes.  Its identifier is a new
\* UUID: one that was deleted does not come back.
Edit(c, x) ==
  /\ ~retired /\ target < MaxTarget /\ c \notin deleted /\ x # wanted[c]
  /\ target' = target + 1 /\ wanted' = [wanted EXCEPT ![c] = x]
  /\ UNCHANGED <<deleted, retired, state, instance, unit, pc, call, todo, at, errs, faults>>

DeleteConnection(c) ==
  /\ ~retired /\ target < MaxTarget /\ wanted[c] # None
  /\ target' = target + 1 /\ wanted' = [wanted EXCEPT ![c] = None]
  /\ deleted' = deleted \cup {c}
  /\ UNCHANGED <<retired, state, instance, unit, pc, call, todo, at, errs, faults>>

\* Deleting the host deletes its connections with it.
Retire ==
  /\ ~retired /\ target < MaxTarget
  /\ retired' = TRUE /\ target' = target + 1 /\ wanted' = [c \in Conns |-> None]
  /\ deleted' = deleted \cup {c \in Conns : wanted[c] # None}
  /\ UNCHANGED <<state, instance, unit, pc, call, todo, at, errs, faults>>

AgentCrash ==
  /\ Fault /\ Return("none")
  /\ UNCHANGED <<plane, state, instance, unit, bundle, errs>>

\* The agent restarts and cannot read state.json: it starts from an empty one.
StateLost ==
  /\ Fault /\ Return("none")
  /\ saved' = [c \in Conns |-> Unknown] /\ hostVersion' = 0
  /\ UNCHANGED <<plane, instance, unit, bundle, errs>>

\* A unit whose directory disappeared has nothing to execute any more.
HostReboot ==
  /\ Fault /\ Return("none")
  /\ \E Missing \in SUBSET {c \in Conns : stuck[c]} :
       proc' = [c \in Conns |-> IF enabled[c] /\ c \notin Missing THEN ExecTarget(c) ELSE None]
  /\ UNCHANGED <<plane, state, instance, enabled, bundle, errs>>

ProcessDies(c) ==
  /\ proc[c] # None /\ proc' = [proc EXCEPT ![c] = None] /\ Fault
  /\ UNCHANGED <<plane, state, instance, enabled, pc, call, todo, at, errs>>

\* Files of the current generation disappear.  Most are put right by the next Apply,
\* "activated" too as long as "previous" tells where to go back to (what that is does not
\* matter here).  Nothing is put right once both are gone, or the directory with them.
Damage(c) ==
  /\ Fault
  /\ \/ /\ committed[c] # None /\ committed' = [committed EXCEPT ![c] = None]
        /\ UNCHANGED stuck
     \/ /\ committed[c] # None \/ pending[c] # None
        /\ stuck' = [stuck EXCEPT ![c] = TRUE]
        /\ UNCHANGED committed
  /\ UNCHANGED <<plane, state, dir, pending, unit, pc, call, todo, at, errs>>

---------------------------------------------------------------------------

Removal == Disable \/ Delete \/ Forget \/ Removed \/ \E c \in Conns : Stop(c)

Application ==
  \/ PrepareBinary \/ Activate \/ Record \/ Blame \/ AllApplied
  \/ \E c \in Conns : Reject(c) \/ Keep(c) \/ Redeploy(c) \/ Deploy(c) \/ RecoveryFails(c)

Run == Begin \/ Removal \/ Application \/ Succeed \/ Fail

Failure ==
  \/ InventoryFails \/ RemoveFails \/ PrepareBinaryFails \/ ActivateFails
  \/ EnableFails \/ PersistFails
  \/ \E c \in Conns : RejectUnrecorded(c) \/ StageFails(c)

Environment ==
  \/ Retire \/ AgentCrash \/ StateLost \/ HostReboot
  \/ \E c \in Conns : \/ ProcessDies(c) \/ Damage(c) \/ DeleteConnection(c)
                      \/ \E x \in Content \cup {Broken} : Edit(c, x)

Next == Run \/ Failure \/ Environment

Spec == Init /\ [][Next]_vars

\* The configuration loop retries after every failure and reconciles again at
\* every full sync; a call in progress goes on while the agent runs.
FairSpec == Spec /\ WF_vars(Run)

---------------------------------------------------------------------------
(* Properties.                                                              *)

Steps == {"idle", "remove", "disable", "delete", "forget", "prepare", "apply",
          "activate", "record", "blame", "save"}

\* Every variable holds a value of its kind.
TypeOK ==
  /\ target \in Nat /\ wanted \in [Conns -> Content \cup {None, Broken}]
  /\ deleted \in SUBSET Conns /\ retired \in BOOLEAN
  /\ saved \in [Conns -> [known : BOOLEAN, fingerprint : Content \cup {None}, error : BOOLEAN]]
  /\ hostVersion \in Nat
  /\ dir \in [Conns -> BOOLEAN] /\ stuck \in [Conns -> BOOLEAN]
  /\ committed \in [Conns -> Content \cup {None}] /\ pending \in [Conns -> Content \cup {None}]
  /\ enabled \in [Conns -> BOOLEAN] /\ proc \in [Conns -> Content \cup {None}]
  /\ pc \in Steps /\ at \in Conns \cup {None} /\ todo \in SUBSET Conns
  /\ errs \in BOOLEAN /\ outcome \in {"none", "ok", "failed"}
  /\ bundle \in [version : Nat, conns : [Conns -> Content \cup {None, Broken}], decommission : BOOLEAN]
  /\ faults \in Nat

\* Nothing of the connection is left: no process, no unit that starts at boot, no
\* directory and no record.
Gone(c) == proc[c] = None /\ ~enabled[c] /\ ~dir[c] /\ ~saved[c].known

\* A process or an enabled unit always belongs to a connection the inventory still
\* finds, so that the next bundle can remove it: "a crash after activating a unit
\* but before saving state must not turn that unit into an unmanaged, permanently
\* running tunnel" (connections.go:207-208).
NoOrphan ==
  \A c \in Conns : proc[c] # None \/ enabled[c] => c \in managedConnections

\* A successful acknowledgement means that all of the bundle is done: everything it
\* does not have is gone, everything it has is recorded with its fingerprint and
\* starts at boot, and nothing in it was unrenderable (connections.go:124-135).
\* For a retired host all its connections are gone (connections.go:234-265).
SuccessIsComplete ==
  outcome = "ok" =>
    \A c \in Conns :
      IF bundle.conns[c] = None THEN Gone(c)
      ELSE saved[c] = [known |-> TRUE, fingerprint |-> bundle.conns[c], error |-> FALSE] /\ enabled[c]

\* Once faults and edits cease every connection that can be rendered and recovered is
\* applied, whatever is wrong with the others: each instance is committed independently
\* (connections.go:85-135).  One whose generation lost the files recoverPending needs is
\* never repaired, but is never passed over either: its error stays recorded.  Every
\* connection that is not wanted is gone, and the host has the target revision unless one
\* of the wanted cannot be rendered or recovered.
Converges ==
  <>[](/\ \A c \in Conns : wanted[c] \in Content =>
            IF stuck[c] THEN saved[c].error
            ELSE saved[c] = [known |-> TRUE, fingerprint |-> wanted[c], error |-> FALSE]
       /\ \A c \in Conns : wanted[c] = None => Gone(c)
       /\ (\A c \in Conns : wanted[c] # Broken /\ ~stuck[c]) => hostVersion = target)

\* After a successful acknowledgement the deployments on disk are those of the
\* bundle: "interrupted partial upgrades cannot skip old processes"
\* (connections.go:29-30).
SuccessIsDeployed ==
  outcome = "ok" =>
    \A c \in Conns : committed[c] \in {bundle.conns[c], None}

---------------------------------------------------------------------------
(* The inductive invariant behind NoOrphan and SuccessIsComplete.            *)

Removing == {"disable", "delete", "forget"}
Applying == {"apply", "activate", "record", "blame"}

Recorded(c) ==
  saved[c] = [known |-> TRUE, fingerprint |-> bundle.conns[c], error |-> FALSE] /\ enabled[c]

\* What exists of a connection lies in its directory, and one that was ever
\* delivered is still wanted or was deleted for good.
InventoryInv ==
  \A c \in Conns :
    /\ proc[c] # None \/ enabled[c] \/ committed[c] # None \/ pending[c] # None => dir[c]
    /\ dir[c] \/ saved[c].known \/ bundle.conns[c] # None => wanted[c] # None \/ c \in deleted
    /\ c \in deleted \/ retired => wanted[c] = None
    /\ committed[c] # None \/ pending[c] # None =>
         enabled[c] \/ (c \in deleted /\ bundle.conns[c] = None)
    /\ bundle.decommission => bundle.conns[c] = None
    /\ bundle.decommission => retired

\* What the call in progress works on at each of its steps.
StepInv ==
  /\ pc # "idle" => outcome = "none"
  /\ pc \in {"remove"} \cup Removing => \A c \in todo : bundle.conns[c] = None /\ c \in deleted
  /\ pc \in Removing =>
       /\ at \in Conns /\ bundle.conns[at] = None /\ at \in deleted
       /\ proc[at] = None
       /\ pc # "disable" => ~enabled[at]
       /\ pc = "forget" => ~dir[at]
  /\ pc \in Applying => \A c \in todo : bundle.conns[c] # None
  /\ pc \in Applying \ {"apply"} =>
       at \in Conns /\ bundle.conns[at] \notin {None, Broken}
  /\ pc \in {"activate", "record"} => enabled[at]

\* As long as no error has been counted, what is behind the call is done.
DoneInv ==
  pc # "idle" /\ ~errs =>
    \A c \in Conns :
      /\ bundle.conns[c] = None =>
           Gone(c) \/ (pc \in {"remove"} \cup Removing /\ c \in todo) \/ (pc \in Removing /\ c = at)
      /\ bundle.conns[c] # None /\ pc \in Applying \cup {"save"} =>
           Recorded(c) \/ (pc \in Applying /\ c \in todo)
             \/ (pc \in Applying \ {"apply"} /\ c = at)

IInv == TypeOK /\ SuccessIsComplete /\ InventoryInv /\ StepInv /\ DoneInv

---------------------------------------------------------------------------
(* How SuccessIsDeployed is lost.                                           *)

\* state.json has a fingerprint for the connection that is not the one deployed, although
\* no file is missing: Applied takes the connection for what it was before.
Drifted(c) == saved[c].fingerprint # None /\ committed[c] \notin {saved[c].fingerprint, None}

\* A success over a deployment of another bundle is the success of a drifted connection,
\* and nothing else.
OnlyDriftMisleads ==
  outcome = "ok" => \A c \in Conns : committed[c] \in {bundle.conns[c], None} \/ Drifted(c)

\* A connection drifts in one way only, and for the length of one step if all goes well:
\* its new generation is activated before state.json is written, and Record ends it.
OnlyActivateDrifts ==
  [][\A c \in Conns : /\ Drifted(c)' => Drifted(c) \/ (Activate /\ c = at)
                      /\ Record /\ c = at => ~Drifted(c)']_vars

\* Every activation is recorded: enabling the unit again and writing state.json succeed,
\* and the agent does not stop before they do.
ActivationsRecorded == pc = "record" => Record \/ pc' = "record"

\* What Apply leaves for Record to write down.
DeployInv ==
  /\ pc = "activate" => pending[at] = bundle.conns[at]
  /\ pc = "record" => committed[at] \in {bundle.conns[at], None}

---------------------------------------------------------------------------
(* A reconciliation, however long, is one delivery of ConfigSync.            *)

Sync == INSTANCE ConfigSync WITH
  revision <- target,
  working  <- IF pc = "idle" THEN 0 ELSE bundle.version,
  local    <- hostVersion

\* The revision of the host in state.json is the one its call began with, written when
\* that call succeeds and by nothing else (connections.go:124-135).
Syncs == Sync!Spec

---------------------------------------------------------------------------
(* What a reconciliation leaves alone.                                      *)

\* There is nothing to do for the connection, or nothing that can be done.
Settled(c) ==
  \/ bundle.conns[c] = Broken
  \/ bundle.conns[c] \in Content /\ Applied(c) /\ proc[c] # None

\* No step of a call, and no failure of one, touches a connection for which there is nothing
\* to do, whatever happens to the others: "a revision-only change (such as a display name)
\* does not alter the process" (connections.go:32, 96-107), and what cannot be rendered
\* keeps running.
OnlyChangesDisturb ==
  [][\A c \in Conns : pc # "idle" /\ Settled(c) /\ (Run \/ Failure) =>
       Settled(c)' /\ <<proc[c], enabled[c], committed[c], pending[c]>>'
                       = <<proc[c], enabled[c], committed[c], pending[c]>>]_vars
=============================================================================
