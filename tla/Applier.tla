------------------------------ MODULE Applier ------------------------------
(***************************************************************************)
(* One deployment unit of an agent: the generations on disk, the atomically *)
(* switched `current' pointer, the systemd unit and the frp process it      *)
(* runs (internal/agent/applier.go).  Applier.Apply is taken apart into one  *)
(* action per effect on the disk or on systemd, so that the agent or the    *)
(* whole host can stop between any two of them, and every effect can fail.  *)
(*                                                                         *)
(* A generation is identified by its directory; what it holds is abstracted *)
(* to its fingerprint (configuration, certificates, CA and binary version). *)
(***************************************************************************)
EXTENDS Naturals

CONSTANTS
  Content,     \* fingerprints of the bundles the control plane may deliver
  Gen,         \* names of generation directories (os.MkdirTemp)
  None,        \* no generation, no content, no process
  Legacy,      \* the deployment made before generations existed
  Unwritten,   \* a generation whose "previous" file is not there
  LegacyKinds, \* what of a legacy deployment the host may start with
  MaxBundles,  \* bound: bundles delivered
  MaxFaults    \* bound: crashes, failing calls and dying processes

ASSUME ConstantsAssumption ==
  /\ None \notin Content \cup Gen /\ Legacy \notin Content \cup Gen
  /\ Unwritten \notin Gen
  /\ None # Legacy /\ None # Unwritten
  /\ LegacyKinds \subseteq {"absent", "partial", "full"}
  /\ MaxBundles \in Nat /\ MaxFaults \in Nat

VARIABLES
  desired, bundles,             \* the bundle a poll returns; bundles delivered
  content, previous, activated, \* the generations: what they hold, their
                                \* "previous" file, and who has "activated"
  current,                      \* target of the `current' symlink
  legacy,                       \* files of a pre-generation deployment
  unit, enabled, up,            \* unit file, boot enablement, wanted running
  running,                      \* the generation the frp process executes
  pc, want, gen, prev, outcome, \* the call of Apply in progress
  faults                        \* faults so far

request  == <<desired, bundles>>
disk     == <<content, previous, activated>>
service  == <<unit, enabled, up, running>>
vars     == <<desired, bundles, content, previous, activated, current, legacy,
              unit, enabled, up, running, pc, want, gen, prev, outcome, faults>>

OnDisk == {g \in Gen : content[g] # None}

\* What systemd executes when it (re)starts the unit now.
ExecTarget ==
  IF unit = "current" THEN current
  ELSE IF legacy = "absent" THEN None ELSE Legacy

Fault == faults < MaxFaults /\ faults' = faults + 1

Goto(from, to) == pc = from /\ pc' = to

Return(result) == pc' = "idle" /\ outcome' = result /\ gen' = None /\ prev' = None

RestartUnit == up' = TRUE /\ running' = ExecTarget /\ UNCHANGED <<unit, enabled>>

\* systemctl reports an error or is killed after 30 seconds: the old process may
\* still run, none may run, or the job it queued may have started the new one.
RestartUnitFails ==
  Fault /\ up' = TRUE /\ running' \in {running, None, ExecTarget}
        /\ UNCHANGED <<unit, enabled>>

\* WaitActive gives up: nothing runs, or it runs but its PID does not settle.
NotActive ==
  \/ running = None /\ UNCHANGED faults
  \/ Fault

StopUnit == up' = FALSE /\ running' = None /\ UNCHANGED <<unit, enabled>>

StopUnitFails == Fault /\ running' \in {running, None} /\ UNCHANGED <<unit, enabled, up>>

\* os.RemoveAll of the generation directories outside `keep'.
RetainOnly(keep) ==
  /\ content'   = [g \in Gen |-> IF g \in keep THEN content[g] ELSE None]
  /\ previous'  = [g \in Gen |-> IF g \in keep THEN previous[g] ELSE Unwritten]
  /\ activated' = activated \cap keep

Init ==
  /\ desired \in Content /\ bundles = 1
  /\ content = [g \in Gen |-> None]
  /\ previous = [g \in Gen |-> Unwritten]
  /\ activated = {} /\ current = None
  /\ legacy \in LegacyKinds
  /\ unit = "legacy" /\ enabled = (legacy # "absent") /\ up = (legacy # "absent")
  /\ running = IF legacy = "absent" THEN None ELSE Legacy
  /\ pc = "idle" /\ want = None /\ gen = None /\ prev = None
  /\ outcome = "none" /\ faults = 0

---------------------------------------------------------------------------
(* The configuration loop of the agent calls Apply with what a poll returned. *)

Deliver ==
  /\ bundles < MaxBundles /\ bundles' = bundles + 1
  /\ desired' \in Content \ {desired}
  /\ UNCHANGED <<disk, current, legacy, service, pc, want, gen, prev, outcome, faults>>

Begin ==
  /\ Goto("idle", "recover")
  /\ want' = desired /\ outcome' = "none"
  /\ UNCHANGED <<request, disk, current, legacy, service, gen, prev, faults>>

---------------------------------------------------------------------------
(* recoverPending: a generation without "activated" is rolled back first.    *)

NothingPending ==
  /\ Goto("recover", "identify")
  /\ current = None \/ current \in activated
  /\ UNCHANGED <<request, disk, current, legacy, service, want, gen, prev, outcome, faults>>

\* Mutant of RecoverPointer: the link is removed, not put back.
RecoverPointerRemoves ==
  /\ Goto("recover", "recoverRestart")
  /\ current \in Gen \ activated /\ previous[current] \in Gen
  /\ current' = None
  /\ UNCHANGED <<request, disk, legacy, service, want, gen, prev, outcome, faults>>

RecoverPointer ==
  /\ Goto("recover", "recoverRestart")
  /\ current \in Gen \ activated /\ previous[current] \in Gen
  /\ current' = previous[current]
  /\ UNCHANGED <<request, disk, legacy, service, want, gen, prev, outcome, faults>>

RecoverProcess ==
  /\ Goto("recoverRestart", "identify")
  /\ RestartUnit
  /\ UNCHANGED <<request, disk, current, legacy, want, gen, prev, outcome, faults>>

RecoverStop ==
  /\ Goto("recover", "recoverRemove")
  /\ current \in Gen \ activated /\ previous[current] = None
  /\ StopUnit
  /\ UNCHANGED <<request, disk, current, legacy, want, gen, prev, outcome, faults>>

RecoverRemove ==
  /\ Goto("recoverRemove", "identify")
  /\ current' = None
  /\ UNCHANGED <<request, disk, legacy, service, want, gen, prev, outcome, faults>>

\* Restart or Stop fails inside recoverPending, and Apply returns the error.
RecoverProcessFails ==
  /\ \/ pc = "recoverRestart" /\ RestartUnitFails
     \/ pc = "recover" /\ current \in Gen \ activated /\ previous[current] = None
        /\ StopUnitFails
  /\ Return("error")
  /\ UNCHANGED <<request, disk, current, legacy, want>>

---------------------------------------------------------------------------
(* The fast path: the wanted generation is already current and activated.   *)

\* Mutant of FastPath: whatever is deployed counts as the wanted bundle.
FastPathIgnoresContent ==
  /\ Goto("identify", "fast")
  /\ current \in activated
  /\ UNCHANGED <<request, disk, current, legacy, service, want, gen, prev, outcome, faults>>

FastPath ==
  /\ Goto("identify", "fast")
  /\ current \in activated /\ content[current] = want
  /\ UNCHANGED <<request, disk, current, legacy, service, want, gen, prev, outcome, faults>>

FastConfigure ==
  /\ Goto("fast", "fastWait")
  /\ unit' = "current" /\ enabled' = TRUE
  /\ UNCHANGED <<request, disk, current, legacy, up, running, want, gen, prev, outcome, faults>>

\* WaitActive asks systemd for a stable PID, whatever that process executes.
ProcessActive ==
  /\ pc \in {"fastWait", "fastSettle"} /\ running # None
  /\ Return("ok")
  /\ UNCHANGED <<request, disk, current, legacy, service, want, faults>>

ProcessInactive ==
  /\ Goto("fastWait", "fastRestart")
  /\ NotActive
  /\ UNCHANGED <<request, disk, current, legacy, service, want, gen, prev, outcome>>

FastRestart ==
  /\ Goto("fastRestart", "fastSettle")
  /\ RestartUnit
  /\ UNCHANGED <<request, disk, current, legacy, want, gen, prev, outcome, faults>>

FastRestartFails ==
  /\ \/ pc = "fastRestart" /\ RestartUnitFails
     \/ pc = "fastSettle" /\ UNCHANGED service /\ NotActive
  /\ Return("error")
  /\ UNCHANGED <<request, disk, current, legacy, want>>

---------------------------------------------------------------------------
(* The slow path: stage a generation, switch to it, restart, activate it.   *)

SlowPath ==
  /\ Goto("identify", "stage")
  /\ ~(current \in activated /\ content[current] = want)
  /\ UNCHANGED <<request, disk, current, legacy, service, want, gen, prev, outcome, faults>>

\* os.MkdirTemp returns a name nobody uses; the files are written and verified.
Stage(g) ==
  /\ Goto("stage", "link")
  /\ g \notin OnDisk /\ g # running
  /\ content' = [content EXCEPT ![g] = want]
  /\ gen' = g
  /\ UNCHANGED <<request, previous, activated, current, legacy, service, want, prev, outcome, faults>>

ReadPrevious ==
  /\ Goto("link", "previous")
  /\ current # None \/ legacy # "full"
  /\ prev' = current
  /\ UNCHANGED <<request, disk, current, legacy, service, want, gen, outcome, faults>>

\* snapshotLegacy: the first migration preserves the deployment it replaces.
SnapshotLegacy(l) ==
  /\ Goto("link", "previous")
  /\ current = None /\ legacy = "full"
  /\ l \notin OnDisk /\ l # running
  /\ content' = [content EXCEPT ![l] = Legacy]
  /\ activated' = activated \cup {l}
  /\ prev' = l
  /\ UNCHANGED <<request, previous, current, legacy, service, want, gen, outcome, faults>>

WritePrevious ==
  /\ Goto("previous", "configure")
  /\ previous' = [previous EXCEPT ![gen] = prev]
  /\ UNCHANGED <<request, content, activated, current, legacy, service, want, gen, prev, outcome, faults>>

Configure ==
  /\ Goto("configure", "switch")
  /\ unit' = "current"
  /\ UNCHANGED <<request, disk, current, legacy, enabled, up, running, want, gen, prev, outcome, faults>>

\* Mutant of SwitchGeneration: the link is named after the bundle.
SwitchToContent ==
  /\ Goto("switch", "enable")
  /\ current' = want
  /\ UNCHANGED <<request, disk, legacy, service, want, gen, prev, outcome, faults>>

SwitchGeneration ==
  /\ Goto("switch", "enable")
  /\ current' = gen
  /\ UNCHANGED <<request, disk, legacy, service, want, gen, prev, outcome, faults>>

\* Mutant of Enable: its error is ignored.
EnableIgnored ==
  /\ Goto("enable", "restart")
  /\ UNCHANGED <<request, disk, current, legacy, service, want, gen, prev, outcome, faults>>

Enable ==
  /\ Goto("enable", "restart")
  /\ enabled' = TRUE
  /\ UNCHANGED <<request, disk, current, legacy, unit, up, running, want, gen, prev, outcome, faults>>

Restart ==
  /\ Goto("restart", "settle")
  /\ RestartUnit
  /\ UNCHANGED <<request, disk, current, legacy, want, gen, prev, outcome, faults>>

\* Mutant of Settle: WaitActive is not asked.
SettleAtOnce ==
  /\ Goto("settle", "activate")
  /\ UNCHANGED <<request, disk, current, legacy, service, want, gen, prev, outcome, faults>>

Settle ==
  /\ Goto("settle", "activate")
  /\ running # None
  /\ UNCHANGED <<request, disk, current, legacy, service, want, gen, prev, outcome, faults>>

Activate ==
  /\ Goto("activate", "prune")
  /\ activated' = activated \cup {gen}
  /\ UNCHANGED <<request, content, previous, current, legacy, service, want, gen, prev, outcome, faults>>

PruneGenerations ==
  /\ pc = "prune"
  /\ RetainOnly({gen, prev})
  /\ Return("ok")
  /\ UNCHANGED <<request, current, legacy, service, want, faults>>

---------------------------------------------------------------------------
(* Error returns and the rollback closure of Apply.                         *)

\* An error before a generation exists: invalid TLS material, a candidate that
\* does not run, a failing file operation, Configure or Enable.
Abandon ==
  /\ pc \in {"recover", "recoverRemove", "identify", "fast", "stage"}
  /\ Fault /\ Return("error")
  /\ UNCHANGED <<request, disk, current, legacy, service, want>>

\* An error before the switch: the deferred RemoveAll discards the generation.
Discard ==
  /\ pc \in {"link", "previous", "configure", "switch"}
  /\ Fault /\ RetainOnly(Gen \ {gen}) /\ Return("error")
  /\ UNCHANGED <<request, current, legacy, service, want>>

\* An error after the switch. Writing "activated" may fail with the file created.
ActivationFails ==
  /\ pc' = "restore"
  /\ \/ pc = "enable" /\ Fault /\ UNCHANGED <<service, activated>>
     \/ pc = "restart" /\ RestartUnitFails /\ UNCHANGED activated
     \/ pc = "settle" /\ NotActive /\ UNCHANGED <<service, activated>>
     \/ pc = "activate" /\ Fault /\ UNCHANGED service
        /\ activated' \in {activated, activated \cup {gen}}
  /\ UNCHANGED <<request, content, previous, current, legacy, want, gen, prev, outcome>>

RestorePointer ==
  /\ Goto("restore", "restoreProcess")
  /\ current' = prev
  /\ UNCHANGED <<request, disk, legacy, service, want, gen, prev, outcome, faults>>

\* Mutant of RestorePointerFails: the candidate is discarded as on other errors.
RestorePointerFailsDiscarding ==
  /\ pc = "restore" /\ Fault /\ RetainOnly(Gen \ {gen}) /\ Return("error")
  /\ UNCHANGED <<request, current, legacy, service, want>>

\* `current' still points to the candidate, which is therefore retained.
RestorePointerFails ==
  /\ pc = "restore" /\ Fault /\ Return("error")
  /\ UNCHANGED <<request, disk, current, legacy, service, want>>

RestoreProcess ==
  /\ pc = "restoreProcess"
  /\ \/ prev # None /\ ((RestartUnit /\ UNCHANGED faults) \/ RestartUnitFails)
     \/ prev = None /\ ((StopUnit /\ UNCHANGED faults) \/ StopUnitFails)
  /\ RetainOnly(Gen \ {gen}) /\ Return("error")
  /\ UNCHANGED <<request, current, legacy, want>>

---------------------------------------------------------------------------
(* The environment: agent crashes, host reboots, frp processes that die.    *)

AgentCrash ==
  /\ Fault /\ Return("crashed")
  /\ UNCHANGED <<request, disk, current, legacy, service, want>>

HostReboot ==
  /\ Fault /\ Return("crashed")
  /\ up' = enabled /\ running' = IF enabled THEN ExecTarget ELSE None
  /\ UNCHANGED <<request, disk, current, legacy, unit, enabled, want>>

ProcessDies ==
  /\ running # None /\ running' = None /\ Fault
  /\ UNCHANGED <<request, disk, current, legacy, unit, enabled, up, pc, want, gen, prev, outcome>>

\* Restart=on-failure, RestartSec=5s.
Respawn ==
  /\ running = None /\ up /\ ExecTarget # None
  /\ running' = ExecTarget
  /\ UNCHANGED <<request, disk, current, legacy, unit, enabled, up, pc, want, gen, prev, outcome, faults>>

---------------------------------------------------------------------------

Recover == NothingPending \/ RecoverPointer \/ RecoverProcess \/ RecoverStop
           \/ RecoverRemove \/ RecoverProcessFails

Fast == FastPath \/ FastConfigure \/ ProcessActive \/ ProcessInactive
        \/ FastRestart \/ FastRestartFails

Slow == \/ SlowPath \/ ReadPrevious \/ WritePrevious \/ Configure
        \/ SwitchGeneration \/ Enable \/ Restart \/ Settle \/ Activate
        \/ PruneGenerations
        \/ \E g \in Gen : Stage(g) \/ SnapshotLegacy(g)

Failure == Abandon \/ Discard \/ ActivationFails \/ RestorePointer
           \/ RestorePointerFails \/ RestoreProcess

Environment == Deliver \/ AgentCrash \/ HostReboot \/ ProcessDies \/ Respawn

Apply == Begin \/ Recover \/ Fast \/ Slow \/ Failure

Next == Apply \/ Environment

Spec == Init /\ [][Next]_vars

\* The configuration loop calls Apply again after a success (a full sync every
\* five minutes) and after an error (exponential backoff), a call takes its next
\* step as long as the agent runs, and systemd respawns a unit that failed.
Fairness == WF_vars(Apply) /\ WF_vars(Respawn)

FairSpec == Spec /\ Fairness

---------------------------------------------------------------------------
(* Properties.                                                              *)

PCs == {"idle", "recover", "recoverRestart", "recoverRemove", "identify",
        "fast", "fastWait", "fastRestart", "fastSettle",
        "stage", "link", "previous", "configure", "switch", "enable",
        "restart", "settle", "activate", "prune", "restore", "restoreProcess"}

\* Every variable holds a value of its kind.
TypeOK ==
  /\ desired \in Content /\ bundles \in Nat
  /\ content \in [Gen -> Content \cup {None, Legacy}]
  /\ previous \in [Gen -> Gen \cup {None, Unwritten}]
  /\ activated \in SUBSET Gen /\ current \in Gen \cup {None}
  /\ legacy \in {"absent", "partial", "full"}
  /\ unit \in {"legacy", "current"} /\ enabled \in BOOLEAN /\ up \in BOOLEAN
  /\ running \in Gen \cup {None, Legacy}
  /\ pc \in PCs /\ want \in Content \cup {None}
  /\ gen \in Gen \cup {None} /\ prev \in Gen \cup {None}
  /\ outcome \in {"none", "ok", "error", "crashed"}
  /\ faults \in Nat

\* Wherever the agent or the host stops, `current' names a directory that exists,
\* and if that one was never activated, the generation to go back to was recorded,
\* is still on disk and had been activated: pruning, discarding and every error
\* return keep what recoverPending will need (applier.go:174-182,294-321,323-334).
Recoverable ==
  current # None =>
    /\ current \in OnDisk
    /\ current \in activated
         \/ previous[current] = None
         \/ previous[current] \in OnDisk \cap activated

\* When Apply returns nil the current generation is activated and holds exactly
\* the bundle of the call, on the fast path as on the slow one, and it stays so
\* until the next call (applier.go:69-86,166-171).
SuccessIsCommitted ==
  outcome = "ok" => current \in activated /\ content[current] = want

\* A call goes on to record the activation only while the process of its own generation
\* runs, and when it records it that process may have died but no other has taken its
\* place: a bundle is never certified by another one's process (applier.go:160-168).
ActivationIsObserved ==
  [][/\ pc # "activate" /\ pc' = "activate" => running = gen
     /\ \A g \in activated' \ activated :
          content'[g] = Legacy \/ running \in {g, None}]_vars

\* An activated deployment comes back after a reboot: its unit is enabled and
\* starts what `current' points to (applier.go:74,130,157).
SurvivesReboot ==
  current \in activated => enabled /\ unit = "current"

---------------------------------------------------------------------------
(* The inductive invariant behind the properties above: what a call knows at  *)
(* each of its steps.                                                       *)

Clean == {"recoverRestart", "identify", "fast", "fastWait", "fastRestart",
          "fastSettle", "stage", "link", "previous", "configure", "switch"}
Staged == {"link", "previous", "configure", "switch", "enable", "restart",
           "settle", "activate", "prune", "restore", "restoreProcess"}
Switched == {"enable", "restart", "settle", "activate", "prune", "restore"}

GenerationInv ==
  /\ activated \subseteq OnDisk
  /\ pc \in Clean => current = None \/ current \in activated
  /\ pc \in Clean \cap Staged => current # gen
  /\ pc \in Staged => gen \in OnDisk /\ content[gen] = want
  /\ pc \in Staged \ {"prune", "restore", "restoreProcess"} => gen \notin activated
  /\ pc = "prune" => gen \in activated

CallInv ==
  /\ pc # "idle" => want \in Content /\ outcome = "none"
  /\ pc \in {"fast", "fastWait", "fastRestart", "fastSettle"} =>
       current \in activated /\ content[current] = want
  /\ pc \in Staged \ {"link"} =>
       prev # gen /\ (prev = None \/ prev \in activated)
  /\ pc \in Switched \cup {"configure", "switch"} => previous[gen] = prev
  /\ pc \in Switched => current = gen
  /\ pc = "restoreProcess" => current = prev

ServiceInv ==
  /\ legacy = "full" \/ activated # {} => enabled
  /\ pc \in {"restart", "settle", "activate", "prune"} => enabled
  /\ current # None \/ pc \in Switched \cup {"switch", "restoreProcess"} =>
       unit = "current"
  /\ pc \in {"settle", "activate"} => running \in {gen, None}

IInv == TypeOK /\ Recoverable /\ SuccessIsCommitted
        /\ GenerationInv /\ CallInv /\ ServiceInv

\* The generation the host falls back to: the current one once it is activated, the
\* one recorded in its "previous" file until then.
Fallback ==
  IF current \in activated THEN current
  ELSE IF current \in Gen THEN previous[current] ELSE None

\* The deployment that falling back to generation g gives.  Without a generation it is
\* the legacy one, and only while the unit still starts it: Configure rewrites the unit
\* before the first switch (applier.go:130,133), and there is nothing that
\* recoverPending could restore in between (applier.go:295-298).
Deployed(g) ==
  IF g \in OnDisk THEN content[g]
  ELSE IF unit = "legacy" /\ legacy # "absent" THEN Legacy ELSE None

Committed == Deployed(Fallback)

\* Once faults and new bundles cease, retries commit the last bundle delivered
\* (runner.go:138-219 calls Apply until it succeeds, then at every full sync).
EventuallyCommitted ==
  <>[](current \in activated /\ content[current] = desired)

\* When Apply has returned nil, the frp process executes the current generation:
\* "ExecStart follows the atomically switched generation, binding its executable
\* and certificates to its configuration" (systemd.go:95-96).
SuccessRunsCurrent ==
  outcome = "ok" => running \in {current, None}

\* One step alone breaks it: the fast path that finds some process active, and does not
\* ask which.  A success of the slow path, or of a fast path that had to restart the unit,
\* is a success of the current generation's own process, and stays one whatever dies, is
\* respawned or delivered afterwards (applier.go:72-86,157-171).
OnlyFastPathIsStale ==
  [][SuccessRunsCurrent => SuccessRunsCurrent' \/ (pc = "fastWait" /\ ProcessActive)]_vars

\* What a call knows of the process when it is about to return nil in any other way.
ProcessInv ==
  /\ pc = "prune" => running \in {gen, None}
  /\ pc = "fastSettle" => running \in {current, None}
=============================================================================
