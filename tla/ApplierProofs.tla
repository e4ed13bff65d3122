--------------------------- MODULE ApplierProofs ---------------------------
(* Proofs about Applier, for every set of bundles and generations and every *)
(* number of faults; the refinement of Deployment is stated in MCApplier.     *)
EXTENDS MCApplier, TLAPS

LEMMA InvariantInitially == Init => IInv
  <1> SUFFICES ASSUME Init PROVE IInv
    OBVIOUS
  <1> USE ConstantsAssumption DEF Init
  <1>1. enabled \in BOOLEAN /\ up \in BOOLEAN
    BY Zenon
  <1>2. legacy \in {"absent", "partial", "full"} /\ running \in {None, Legacy}
    OBVIOUS
  <1>3. TypeOK
    BY <1>1, <1>2 DEF TypeOK, PCs
  <1>4. Recoverable /\ SuccessIsCommitted /\ GenerationInv
    BY DEF Recoverable, SuccessIsCommitted, GenerationInv, OnDisk, Clean, Staged
  <1>5. CallInv
    BY DEF CallInv, Staged, Switched
  <1>6. legacy = "full" => enabled
    BY Zenon
  <1>7. ServiceInv
    BY <1>6 DEF ServiceInv, Switched
  <1>8. QED
    BY <1>3, <1>4, <1>5, <1>7 DEF IInv

\* Every step of a call, of a rollback and of the environment keeps IInv.
LEMMA InvariantStep == IInv /\ [Next]_vars => IInv'
  <1> SUFFICES ASSUME IInv, [Next]_vars PROVE IInv'
    OBVIOUS
  <1> USE ConstantsAssumption
      DEF request, disk, service, IInv, TypeOK, PCs, Recoverable, OnDisk,
          SuccessIsCommitted, GenerationInv, CallInv, ServiceInv,
          Clean, Staged, Switched
  <1>1. CASE Begin
    BY <1>1 DEF Begin, Goto
  <1>2. CASE Deliver
    BY <1>2 DEF Deliver
  <1>3. CASE NothingPending
    BY <1>3 DEF NothingPending, Goto
  <1>4. CASE RecoverPointer
    BY <1>4 DEF RecoverPointer, Goto
  <1>5. CASE RecoverProcess
    BY <1>5 DEF RecoverProcess, Goto, RestartUnit, ExecTarget
  <1>6. CASE RecoverStop
    BY <1>6 DEF RecoverStop, Goto, StopUnit
  <1>7. CASE RecoverRemove
    BY <1>7 DEF RecoverRemove, Goto
  <1>8. CASE RecoverProcessFails
    <2>1. pc # "idle" /\ Return("error") /\ UNCHANGED <<request, disk, current, legacy, want>>
      BY <1>8 DEF RecoverProcessFails
    <2>2. CASE RestartUnitFails
      BY <2>1, <2>2 DEF RestartUnitFails, ExecTarget, Fault, Return
    <2>3. CASE StopUnitFails
      BY <2>1, <2>3 DEF StopUnitFails, Fault, Return
    <2>4. QED
      BY <1>8, <2>2, <2>3 DEF RecoverProcessFails
  <1>9. CASE FastPath
    BY <1>9 DEF FastPath, Goto
  <1>10. CASE FastConfigure
    BY <1>10 DEF FastConfigure, Goto
  <1>11. CASE ProcessActive
    BY <1>11 DEF ProcessActive, Return
  <1>12. CASE ProcessInactive
    BY <1>12 DEF ProcessInactive, Goto, NotActive, Fault
  <1>13. CASE FastRestart
    BY <1>13 DEF FastRestart, Goto, RestartUnit, ExecTarget
  <1>14. CASE FastRestartFails
    <2>1. pc # "idle" /\ Return("error") /\ UNCHANGED <<request, disk, current, legacy, want>>
      BY <1>14 DEF FastRestartFails
    <2>2. CASE RestartUnitFails
      BY <2>1, <2>2 DEF RestartUnitFails, ExecTarget, Fault, Return
    <2>3. CASE UNCHANGED service /\ NotActive
      BY <2>1, <2>3 DEF NotActive, Fault, Return
    <2>4. QED
      BY <1>14, <2>2, <2>3 DEF FastRestartFails
  <1>15. CASE SlowPath
    BY <1>15 DEF SlowPath, Goto
  <1>16. CASE ReadPrevious
    BY <1>16 DEF ReadPrevious, Goto
  <1>17. CASE WritePrevious
    BY <1>17 DEF WritePrevious, Goto
  <1>18. CASE Configure
    BY <1>18 DEF Configure, Goto
  <1>19. CASE SwitchGeneration
    BY <1>19 DEF SwitchGeneration, Goto
  <1>20. CASE Enable
    BY <1>20 DEF Enable, Goto
  <1>21. CASE Restart
    BY <1>21 DEF Restart, Goto, RestartUnit, ExecTarget
  <1>22. CASE Settle
    BY <1>22 DEF Settle, Goto
  <1>23. CASE Activate
    BY <1>23 DEF Activate, Goto
  <1>24. CASE PruneGenerations
    BY <1>24 DEF PruneGenerations, RetainOnly, Return
  <1>25. CASE Abandon
    BY <1>25 DEF Abandon, Fault, Return
  <1>26. CASE Discard
    BY <1>26 DEF Discard, Fault, RetainOnly, Return
  <1>27. CASE ActivationFails
    <2>1. /\ pc' = "restore"
          /\ UNCHANGED <<request, content, previous, current, legacy, want, gen, prev, outcome>>
      BY <1>27 DEF ActivationFails
    <2>2. CASE pc = "enable" /\ Fault /\ UNCHANGED <<service, activated>>
      BY <2>1, <2>2 DEF Fault
    <2>3. CASE pc = "restart" /\ RestartUnitFails /\ UNCHANGED activated
      BY <2>1, <2>3 DEF RestartUnitFails, ExecTarget, Fault
    <2>4. CASE pc = "settle" /\ NotActive /\ UNCHANGED <<service, activated>>
      BY <2>1, <2>4 DEF NotActive, Fault
    <2>5. CASE /\ pc = "activate" /\ Fault /\ UNCHANGED service
               /\ activated' \in {activated, activated \cup {gen}}
      BY <2>1, <2>5 DEF Fault
    <2>6. QED
      BY <1>27, <2>2, <2>3, <2>4, <2>5 DEF ActivationFails
  <1>28. CASE RestorePointer
    BY <1>28 DEF RestorePointer, Goto
  <1>29. CASE RestorePointerFails
    BY <1>29 DEF RestorePointerFails, Fault, Return
  <1>30. CASE RestoreProcess
    <2>1. /\ pc = "restoreProcess" /\ RetainOnly(Gen \ {gen}) /\ Return("error")
          /\ UNCHANGED <<request, current, legacy, want>>
      BY <1>30 DEF RestoreProcess
    <2>2. CASE RestartUnit /\ UNCHANGED faults
      BY <2>1, <2>2 DEF RestartUnit, ExecTarget, RetainOnly, Return
    <2>3. CASE RestartUnitFails
      BY <2>1, <2>3 DEF RestartUnitFails, ExecTarget, Fault, RetainOnly, Return
    <2>4. CASE StopUnit /\ UNCHANGED faults
      BY <2>1, <2>4 DEF StopUnit, RetainOnly, Return
    <2>5. CASE StopUnitFails
      BY <2>1, <2>5 DEF StopUnitFails, Fault, RetainOnly, Return
    <2>6. QED
      BY <1>30, <2>2, <2>3, <2>4, <2>5 DEF RestoreProcess
  <1>31. CASE AgentCrash
    BY <1>31 DEF AgentCrash, Fault, Return
  <1>32. CASE HostReboot
    BY <1>32 DEF HostReboot, Fault, Return, ExecTarget
  <1>33. CASE ProcessDies
    BY <1>33 DEF ProcessDies, Fault
  <1>34. CASE Respawn
    BY <1>34 DEF Respawn, ExecTarget
  <1>35. ASSUME NEW g \in Gen, Stage(g)
        PROVE IInv'
    BY <1>35 DEF Stage, Goto
  <1>36. ASSUME NEW l \in Gen, SnapshotLegacy(l)
        PROVE IInv'
    BY <1>36 DEF SnapshotLegacy, Goto
  <1>37. CASE UNCHANGED vars
    BY <1>37 DEF vars
  <1>38. QED
    BY <1>1, <1>2, <1>3, <1>4, <1>5, <1>6, <1>7, <1>8, <1>9, <1>10, <1>11, <1>12, <1>13, <1>14, <1>15, <1>16, <1>17, <1>18, <1>19, <1>20, <1>21, <1>22, <1>23, <1>24, <1>25, <1>26, <1>27, <1>28, <1>29, <1>30, <1>31, <1>32, <1>33, <1>34, <1>35, <1>36, <1>37
    DEF Next, Apply, Recover, Fast, Slow, Failure, Environment

\* Activation certifies the process of the generation it is written for.
LEMMA ActivationStep ==
  IInv /\ [Next]_vars =>
    /\ pc # "activate" /\ pc' = "activate" => running = gen
    /\ \A g \in activated' \ activated :
         content'[g] = Legacy \/ running \in {g, None}
  <1> SUFFICES ASSUME IInv, [Next]_vars
               PROVE  /\ pc # "activate" /\ pc' = "activate" => running = gen
                      /\ \A g \in activated' \ activated :
                           content'[g] = Legacy \/ running \in {g, None}
    OBVIOUS
  <1> USE ConstantsAssumption
      DEF request, disk, service, IInv, TypeOK, ServiceInv
  <1>1. CASE Activate
    BY <1>1 DEF Activate, Goto
  <1>2. CASE ActivationFails
    BY <1>2 DEF ActivationFails
  <1>3. ASSUME NEW l \in Gen, SnapshotLegacy(l)
        PROVE pc' # "activate" /\ \A g \in activated' \ activated : content'[g] = Legacy
    BY <1>3 DEF SnapshotLegacy, Goto
  <1>4. CASE PruneGenerations \/ Discard \/ RestoreProcess
    BY <1>4 DEF PruneGenerations, Discard, RestoreProcess, RetainOnly, Return
  <1>5. CASE Settle
    BY <1>5 DEF Settle, Goto
  <1>6. CASE UNCHANGED activated /\ (pc' # "activate" \/ pc' = pc)
    BY <1>6
  <1>7. QED
    BY <1>1, <1>2, <1>3, <1>4, <1>5, <1>6
    DEF Next, Apply, Recover, Fast, Slow, Failure, Environment, vars, Goto, Return,
        Begin, Deliver, NothingPending, RecoverPointer, RecoverStop,
        RecoverRemove, RecoverProcess, RecoverProcessFails, FastPath,
        FastConfigure, ProcessActive, ProcessInactive, FastRestart,
        FastRestartFails, SlowPath, Stage, ReadPrevious, WritePrevious,
        Configure, SwitchGeneration, Enable, Restart, Abandon,
        RestorePointer, RestorePointerFails, AgentCrash, HostReboot,
        ProcessDies, Respawn

LEMMA Invariance == Spec => []IInv
  BY InvariantInitially, InvariantStep, PTL DEF Spec

\* Every variable of the applier keeps a value of its kind.
THEOREM TypeCorrect == Spec => []TypeOK
  BY Invariance, PTL DEF IInv

\* Wherever the agent or the host stops, the deployment can be recovered: the
\* generation recoverPending goes back to is on disk and was activated.
THEOREM AlwaysRecoverable == Spec => []Recoverable
  BY Invariance, PTL DEF IInv

\* Apply never returns nil for a bundle that is not committed.
THEOREM SuccessCommitted == Spec => []SuccessIsCommitted
  BY Invariance, PTL DEF IInv

\* An activated deployment comes back after a reboot of the host.
THEOREM RebootSurvival == Spec => []SurvivesReboot
  <1>1. IInv => SurvivesReboot
    BY ConstantsAssumption
    DEF IInv, TypeOK, ServiceInv, SurvivesReboot
  <1>2. QED
    BY Invariance, <1>1, PTL

\* No generation is recorded as activated before its own process was seen running, nor
\* on the evidence of another's.
THEOREM ActivationObserved == Spec => ActivationIsObserved
  <1>1. IInv /\ [Next]_vars =>
          [/\ pc # "activate" /\ pc' = "activate" => running = gen
           /\ \A g \in activated' \ activated :
                content'[g] = Legacy \/ running \in {g, None}]_vars
    BY ActivationStep
  <1>2. QED
    BY Invariance, <1>1, PTL DEF Spec, ActivationIsObserved

---------------------------------------------------------------------------
(* Which success may be one of another generation's process.                *)

LEMMA ProcessStep ==
  IInv /\ ProcessInv /\ [Next]_vars =>
    /\ ProcessInv'
    /\ SuccessRunsCurrent => SuccessRunsCurrent' \/ (pc = "fastWait" /\ ProcessActive)
  <1> DEFINE Kept == SuccessRunsCurrent => SuccessRunsCurrent' \/ (pc = "fastWait" /\ ProcessActive)
  <1> SUFFICES ASSUME IInv, ProcessInv, [Next]_vars PROVE ProcessInv' /\ Kept
    OBVIOUS
  <1> USE ConstantsAssumption
      DEF request, disk, service, ProcessInv, SuccessRunsCurrent, Return, Goto
  <1>1. unit = "current" /\ current # None => ExecTarget = current
    BY DEF ExecTarget
  <1>2. /\ pc \in {"prune", "fastRestart", "fastSettle"} \/ outcome = "ok" => unit = "current" /\ current # None
        /\ pc = "prune" => current = gen
        /\ pc # "idle" => outcome = "none"
    BY DEF IInv, TypeOK, SuccessIsCommitted, GenerationInv, CallInv, ServiceInv, Switched, Staged, OnDisk
  \* Steps that return nil.
  <1>3. CASE PruneGenerations
    BY <1>2, <1>3 DEF PruneGenerations
  <1>4. CASE ProcessActive
    BY <1>2, <1>4 DEF ProcessActive
  \* Steps that lead up to it.
  <1>5. CASE Activate
    BY <1>2, <1>5 DEF Activate, IInv, ServiceInv
  <1>6. CASE FastRestart
    BY <1>1, <1>2, <1>6 DEF FastRestart, RestartUnit
  \* Steps of the environment that change the process and not the call.
  <1>7. CASE ProcessDies
    BY <1>7 DEF ProcessDies
  <1>8. CASE Respawn
    BY <1>1, <1>2, <1>8 DEF Respawn
  <1>9. CASE Deliver \/ UNCHANGED vars
    BY <1>9 DEF Deliver, vars
  \* Steps that go elsewhere, or return an error.
  <1>10. CASE outcome' # "ok" /\ pc' \notin {"prune", "fastSettle"}
    BY <1>10
  <1>11. CASE pc # "idle" /\ outcome' = outcome /\ pc' \notin {"prune", "fastSettle"}
    BY <1>2, <1>10, <1>11
  <1>12. QED
    BY <1>3, <1>4, <1>5, <1>6, <1>7, <1>8, <1>9, <1>10, <1>11
    DEF Next, Apply, Recover, Fast, Slow, Failure, Environment,
        Begin, NothingPending, RecoverPointer, RecoverStop, RecoverRemove,
        RecoverProcess, RecoverProcessFails, FastPath, FastConfigure,
        ProcessInactive, FastRestartFails, SlowPath, Stage, SnapshotLegacy,
        ReadPrevious, WritePrevious, Configure, SwitchGeneration, Enable, Restart,
        Settle, Abandon, Discard, ActivationFails, RestorePointer,
        RestorePointerFails, RestoreProcess, AgentCrash, HostReboot

\* Apply returns nil while the process of another generation runs in one way only: on the
\* fast path, which trusts whatever process systemd reports as active.
THEOREM StaleByFastPathOnly == Spec => OnlyFastPathIsStale
  <1>1. Init => ProcessInv
    BY DEF Init, ProcessInv
  <1>2. Spec => []ProcessInv
    BY <1>1, ProcessStep, Invariance, PTL DEF Spec
  <1>3. IInv /\ ProcessInv /\ [Next]_vars =>
          [SuccessRunsCurrent => SuccessRunsCurrent' \/ (pc = "fastWait" /\ ProcessActive)]_vars
    BY ProcessStep
  <1>4. QED
    BY <1>2, <1>3, Invariance, PTL DEF Spec, OnlyFastPathIsStale

---------------------------------------------------------------------------
(* Apply implements Deployment.                                             *)

\* What the inductive invariant says of the deployment a recovery would restore.
LEMMA CommittedFacts ==
  ASSUME IInv, HistoryInv
  PROVE  /\ pc = "idle" => Committed = base
         /\ pc # "idle" => Committed \in {base, want}
         /\ pc = "prune" => Committed = want
         /\ current \in activated => Committed = content[current]
  <1> USE ConstantsAssumption
      DEF IInv, TypeOK, Recoverable, OnDisk, GenerationInv, CallInv, HistoryInv,
          Committed, Fallback, Deployed, Undecided, Clean, Staged, Switched, PCs
  <1>1. current \in activated => Committed = content[current]
    OBVIOUS
  <1>2. pc = "prune" => Committed = want
    OBVIOUS
  <1>3. CASE pc \in Undecided
    BY <1>1, <1>2, <1>3
  <1>4. CASE pc \in Switched \ {"prune"}
    <2>1. CASE current \in activated
      BY <1>1, <1>4, <2>1
    <2>2. CASE current \notin activated
      BY <1>4, <2>2
    <2>3. QED
      BY <1>2, <1>4, <2>1, <2>2
  <1>5. CASE pc = "restoreProcess"
    BY <1>5
  <1>6. pc \in Undecided \cup Switched \cup {"restoreProcess"}
    OBVIOUS
  <1>7. QED
    BY <1>1, <1>2, <1>3, <1>4, <1>5, <1>6

\* Only the generation to fall back to decides what is committed: touching other
\* generations does not change it.
LEMMA FallbackKept ==
  ASSUME IInv, UNCHANGED <<current, legacy, unit>>,
         content' \in [Gen -> Content \cup {None, Legacy}],
         NEW S \in SUBSET Gen,
         \A g \in S : /\ content'[g] = content[g] /\ previous'[g] = previous[g]
                      /\ g \in activated' <=> g \in activated,
         current # None => current \in S,
         current \in Gen \ activated => previous[current] \in S \cup {None}
  PROVE  Committed' = Committed
  BY ConstantsAssumption
  DEF IInv, TypeOK, Recoverable, OnDisk, Committed, Fallback, Deployed

LEMMA RetainKept ==
  ASSUME IInv, UNCHANGED <<current, legacy, unit>>,
         NEW keep \in SUBSET (Gen \cup {None}), RetainOnly(keep),
         current # None => current \in keep,
         current \in Gen \ activated => previous[current] \in keep \cup {None}
  PROVE  Committed' = Committed
  <1>1. /\ content' \in [Gen -> Content \cup {None, Legacy}]
        /\ \A g \in keep \cap Gen : /\ content'[g] = content[g] /\ previous'[g] = previous[g]
                                    /\ g \in activated' <=> g \in activated
    BY DEF RetainOnly, IInv, TypeOK
  <1>2. current # None => current \in keep \cap Gen
    BY DEF IInv, TypeOK
  <1>3. current \in Gen \ activated => previous[current] \in (keep \cap Gen) \cup {None}
    BY DEF IInv, TypeOK, Recoverable, OnDisk
  <1>4. QED
    BY <1>1, <1>2, <1>3, FallbackKept

LEMMA DiskKept ==
  ASSUME UNCHANGED <<disk, current, legacy, unit>>
  PROVE  Committed' = Committed /\ \A g : Deployed(g)' = Deployed(g)
  BY DEF disk, Committed, Fallback, Deployed, OnDisk

\* Only Configure rewrites the unit: where the fast path does, it already reads so.
LEMMA UnitKept ==
  ASSUME IInv, Next, ~Configure
  PROVE  unit' = unit
  <1> USE DEF request, disk, service
  <1>1. CASE FastConfigure
    BY <1>1, ConstantsAssumption
    DEF FastConfigure, Goto, IInv, TypeOK, CallInv, ServiceInv
  <1>2. CASE ~FastConfigure
    BY <1>2
    DEF Next, Apply, Recover, Fast, Slow, Failure, Environment,
        RestartUnit, RestartUnitFails, StopUnit, StopUnitFails,
        Begin, Deliver, NothingPending, RecoverPointer, RecoverStop,
        RecoverRemove, RecoverProcess, RecoverProcessFails, FastPath,
        ProcessActive, ProcessInactive, FastRestart, FastRestartFails, SlowPath,
        Stage, SnapshotLegacy, ReadPrevious, WritePrevious, SwitchGeneration,
        Enable, Restart, Settle, Activate, PruneGenerations, Abandon, Discard,
        ActivationFails, RestorePointer, RestorePointerFails, RestoreProcess,
        AgentCrash, HostReboot, ProcessDies, Respawn
  <1>3. QED
    BY <1>1, <1>2

\* A call that returns leaves what is committed as it is, and it returns nil only
\* when that is its bundle.
LEMMA ReturnStep ==
  ASSUME IInv, HistoryInv, Next, pc # "idle", pc' = "idle"
  PROVE  /\ Committed' = Committed /\ want' = want
         /\ \/ outcome' \in {"error", "crashed"}
            \/ outcome' = "ok" /\ Committed = want
  <1> USE DEF Return
  <1>u. ~Configure /\ unit' = unit
    BY UnitKept DEF Configure, Goto
  <1>1. CASE ProcessActive
    <2>1. Committed = want
      BY <1>1, CommittedFacts DEF ProcessActive, IInv, CallInv
    <2>2. QED
      BY <1>u, <1>1, <2>1, DiskKept DEF ProcessActive
  <1>2. CASE FastRestartFails \/ RecoverProcessFails \/ Abandon
             \/ RestorePointerFails \/ AgentCrash \/ HostReboot
    BY <1>u, <1>2, DiskKept
    DEF FastRestartFails, RecoverProcessFails, Abandon, RestorePointerFails,
        AgentCrash, HostReboot
  <1>3. CASE PruneGenerations
    <2>1. /\ RetainOnly({gen, prev}) /\ outcome' = "ok" /\ Committed = want
          /\ UNCHANGED <<current, legacy, want>>
      BY <1>3, CommittedFacts DEF PruneGenerations
    <2>2. current = gen /\ gen \in activated /\ {gen, prev} \in SUBSET (Gen \cup {None})
      BY <1>3 DEF PruneGenerations, IInv, TypeOK, GenerationInv, CallInv, Switched
    <2>3. Committed' = Committed
      BY <1>u, <2>1, <2>2, RetainKept
    <2>4. QED
      BY <2>1, <2>3
  <1>4. CASE Discard \/ RestoreProcess
    <2>1. /\ RetainOnly(Gen \ {gen}) /\ outcome' = "error"
          /\ UNCHANGED <<current, legacy, want>>
      BY <1>4 DEF Discard, RestoreProcess
    <2>2. current # gen /\ (current = None \/ current \in activated)
      BY <1>4, ConstantsAssumption
      DEF Discard, RestoreProcess, IInv, TypeOK, GenerationInv, CallInv, OnDisk,
          Clean, Staged
    <2>3. /\ Gen \ {gen} \in SUBSET (Gen \cup {None})
          /\ current # None => current \in Gen \ {gen}
          /\ current \notin Gen \ activated
      BY <2>2, ConstantsAssumption DEF IInv, TypeOK
    <2>4. Committed' = Committed
      BY <1>u, <2>1, <2>3, RetainKept
    <2>5. QED
      BY <2>1, <2>4
  <1>5. QED
    BY <1>1, <1>2, <1>3, <1>4
    DEF Next, Apply, Recover, Fast, Slow, Failure, Environment, Goto,
        Begin, Deliver, NothingPending, RecoverPointer, RecoverStop,
        RecoverRemove, RecoverProcess, FastPath, FastConfigure, ProcessInactive,
        FastRestart, SlowPath, Stage, SnapshotLegacy, ReadPrevious, WritePrevious,
        Configure, SwitchGeneration, Enable, Restart, Settle, Activate,
        ActivationFails, RestorePointer, ProcessDies, Respawn

\* Between calls, and as a call begins, nothing happens to what is committed.
LEMMA IdleStep ==
  ASSUME IInv, Next, pc = "idle"
  PROVE  /\ Committed' = Committed
         /\ \/ pc' = "idle" /\ outcome' \in {outcome, "crashed"}
            \/ pc' = "recover" /\ want' \in Content /\ outcome' = "none"
  <1>1. Begin \/ Deliver \/ AgentCrash \/ HostReboot \/ ProcessDies \/ Respawn
    BY DEF Next, Apply, Recover, Fast, Slow, Failure, Environment, Goto,
        NothingPending, RecoverPointer, RecoverStop, RecoverProcessFails,
        RecoverRemove, RecoverProcess, FastPath, FastConfigure, ProcessInactive,
        FastRestart, FastRestartFails, ProcessActive, SlowPath, Stage,
        SnapshotLegacy, ReadPrevious, WritePrevious, PruneGenerations,
        Configure, SwitchGeneration, Enable, Restart, Settle, Activate, Abandon,
        Discard, ActivationFails, RestorePointer, RestorePointerFails, RestoreProcess
  <1>2. UNCHANGED <<disk, current, legacy, unit>>
    BY <1>1 DEF service, Begin, Deliver, AgentCrash, HostReboot, ProcessDies, Respawn
  <1>3. QED
    BY <1>1, <1>2, DiskKept
    DEF Begin, Deliver, AgentCrash, HostReboot, ProcessDies, Respawn, Goto, Return,
        IInv, TypeOK

\* Inside a call its bundle and the result of the last call do not change.
LEMMA InnerFrame ==
  ASSUME IInv, Next, pc # "idle", pc' # "idle"
  PROVE  want' = want /\ outcome' = outcome
  BY DEF Next, Apply, Recover, Fast, Slow, Failure, Environment, Goto, Return,
      Begin, Deliver, NothingPending, RecoverPointer, RecoverStop,
      RecoverProcessFails, RecoverRemove, RecoverProcess, FastPath,
      FastConfigure, ProcessInactive, FastRestart, FastRestartFails,
      ProcessActive, SlowPath, Stage, SnapshotLegacy, ReadPrevious,
      WritePrevious, PruneGenerations, Configure, SwitchGeneration, Enable,
      Restart, Settle, Activate, Abandon, Discard, ActivationFails,
      RestorePointer, RestorePointerFails, RestoreProcess, AgentCrash,
      HostReboot, ProcessDies, Respawn

\* Inside a call, HistoryInv is kept: one step per action that moves the disk, the
\* pointer or the generation to go back to.
LEMMA InnerStep ==
  ASSUME IInv, HistoryInv, Next, pc # "idle", pc' # "idle",
         base' = IF pc \in {"configure", "switch"} THEN Committed' ELSE base
  PROVE  HistoryInv'
  <1> USE DEF HistoryInv, Undecided, Clean, Staged, Switched, Goto
  <1>u. ~Configure => unit' = unit
    BY UnitKept
  <1>1. CASE NothingPending \/ RecoverStop \/ RecoverProcess \/ FastPath
             \/ FastConfigure \/ ProcessInactive \/ FastRestart \/ SlowPath
             \/ Deliver \/ ProcessDies \/ Respawn
    <2>1. UNCHANGED <<disk, current, legacy, unit, gen, prev>>
      BY <1>u, <1>1 DEF NothingPending, RecoverStop, RecoverProcess, FastPath,
        FastConfigure, ProcessInactive, FastRestart, SlowPath, Deliver,
        ProcessDies, Respawn, Configure
    <2>2. Committed' = Committed /\ Deployed(prev)' = Deployed(prev)
      BY <2>1, DiskKept
    <2>3. base' = base
      BY <2>2
    <2>4. QED
      BY <1>1, <2>1, <2>2, <2>3 DEF NothingPending, RecoverStop, RecoverProcess, FastPath,
        FastConfigure, ProcessInactive, FastRestart, SlowPath, Deliver,
        ProcessDies, Respawn, disk
  <1>2. CASE RecoverPointer
    <2>1. Committed' = Committed
      BY <1>2, ConstantsAssumption
      DEF RecoverPointer, disk, service, Committed, Fallback, Deployed, OnDisk,
          IInv, TypeOK, Recoverable
    <2>2. QED
      BY <1>2, <2>1 DEF RecoverPointer
  <1>3. CASE RecoverRemove
    <2>1. Committed' = Committed
      BY <1>3, ConstantsAssumption
      DEF RecoverRemove, disk, service, Committed, Fallback, Deployed, OnDisk, IInv, TypeOK
    <2>2. QED
      BY <1>3, <2>1 DEF RecoverRemove
  <1>4. ASSUME NEW g \in Gen, Stage(g)
        PROVE HistoryInv'
    <2>1. Committed' = Committed
      <3>1. /\ \A h \in OnDisk : content'[h] = content[h]
            /\ UNCHANGED <<previous, activated, current, legacy, unit>>
            /\ content' \in [Gen -> Content \cup {None, Legacy}]
        BY <1>4 DEF Stage, OnDisk, service, IInv, TypeOK, CallInv
      <3>2. /\ current # None => current \in OnDisk
            /\ current \in Gen \ activated => previous[current] \in OnDisk \cup {None}
        BY ConstantsAssumption DEF IInv, Recoverable
      <3>3. OnDisk \in SUBSET Gen
        BY DEF OnDisk
      <3>4. QED
        BY <3>1, <3>2, <3>3, FallbackKept
    <2>2. QED
      BY <1>4, <2>1 DEF Stage
  <1>5. ASSUME NEW l \in Gen, SnapshotLegacy(l)
        PROVE HistoryInv'
    <2>1. Committed' = Committed
      BY <1>5, ConstantsAssumption
      DEF SnapshotLegacy, service, IInv, TypeOK, Committed, Fallback, Deployed, OnDisk
    <2>2. QED
      BY <1>5, <2>1 DEF SnapshotLegacy
  <1>6. CASE ReadPrevious
    <2>1. Committed' = Committed
      BY <1>6, DiskKept DEF ReadPrevious, service
    <2>2. QED
      BY <1>6, <2>1 DEF ReadPrevious
  <1>7. CASE WritePrevious
    <2>1. Committed' = Committed
      BY <1>7, ConstantsAssumption
      DEF WritePrevious, service, Committed, Fallback, Deployed, OnDisk,
          IInv, TypeOK, GenerationInv
    <2>2. QED
      BY <1>7, <2>1 DEF WritePrevious
  \* What the unit starts changes here, and `base' with it.
  <1>8. CASE Configure
    BY <1>8 DEF Configure
  \* A failing call will go back to what "previous" names.
  <1>9. CASE SwitchGeneration
    <2>1. gen \in Gen \ activated /\ gen # None /\ previous[gen] = prev
      BY <1>9, ConstantsAssumption
      DEF SwitchGeneration, IInv, TypeOK, GenerationInv, CallInv, OnDisk
    <2>2. Committed' = Deployed(prev)' /\ base' = Committed' /\ pc' = "enable"
      BY <1>9, <2>1 DEF SwitchGeneration, disk, Committed, Fallback
    <2>3. QED
      BY <2>2
  <1>10. CASE Enable \/ Restart \/ Settle \/ Activate \/ ActivationFails
    <2>1. /\ pc \in Switched /\ pc' \in Switched /\ base' = base
          /\ UNCHANGED <<content, legacy, unit, prev>>
      BY <1>u, <1>10 DEF Enable, Restart, Settle, Activate, ActivationFails, disk, Configure
    <2>2. Deployed(prev)' = Deployed(prev)
      BY <2>1 DEF Deployed, OnDisk
    <2>3. QED
      BY <2>1, <2>2
  <1>11. CASE RestorePointer
    <2>1. Deployed(prev)' = Deployed(prev)
      BY <1>11 DEF RestorePointer, disk, service, Deployed, OnDisk
    <2>2. QED
      BY <1>11, <2>1 DEF RestorePointer
  <1>12. QED
    BY <1>1, <1>2, <1>3, <1>4, <1>5, <1>6, <1>7, <1>8, <1>9, <1>10, <1>11
    DEF Next, Apply, Recover, Fast, Slow, Failure, Environment, Return, Begin,
        RecoverProcessFails, FastRestartFails, ProcessActive, PruneGenerations,
        Abandon, Discard, RestorePointerFails, RestoreProcess, AgentCrash, HostReboot

LEMMA HistoryStep ==
  IInv /\ HistoryInv /\ [MCNext]_<<vars, base>> => HistoryInv'
  <1> SUFFICES ASSUME IInv, HistoryInv, [MCNext]_<<vars, base>> PROVE HistoryInv'
    OBVIOUS
  <1>1. CASE MCNext /\ pc # "idle" /\ pc' # "idle"
    BY <1>1, InnerStep DEF MCNext
  <1>2. CASE MCNext /\ (pc = "idle" \/ pc' = "idle")
    <2>1. base' = Committed' /\ pc' \in {"idle", "recover"}
      BY <1>2, IdleStep DEF MCNext
    <2>2. QED
      BY <2>1 DEF HistoryInv, Switched
  <1>3. CASE UNCHANGED <<vars, base>>
    BY <1>3 DEF vars, HistoryInv, Committed, Fallback, Deployed, OnDisk
  <1>4. QED
    BY <1>1, <1>2, <1>3

\* The migration from a legacy deployment: one step per action that reads or writes what
\* a call goes back to, and one for those that move the pointer back.
LEMMA MigrationStep == IInv /\ MigrationInv /\ [Next]_vars => MigrationInv'
  <1> SUFFICES ASSUME IInv, MigrationInv, [Next]_vars PROVE MigrationInv'
    OBVIOUS
  <1> USE ConstantsAssumption
      DEF request, disk, MigrationInv, IInv, TypeOK, Staged, Goto, Return
  <1>1. CASE ReadPrevious
    BY <1>1 DEF ReadPrevious
  <1>2. ASSUME NEW l \in Gen, SnapshotLegacy(l)
        PROVE MigrationInv'
    BY <1>2 DEF SnapshotLegacy
  <1>3. CASE WritePrevious
    BY <1>3 DEF WritePrevious
  <1>4. CASE Configure
    BY <1>4 DEF Configure
  <1>5. CASE PruneGenerations \/ Discard \/ RestoreProcess
    BY <1>5 DEF PruneGenerations, Discard, RestoreProcess, RetainOnly
  <1>6. CASE Deliver \/ ProcessDies \/ Respawn \/ UNCHANGED vars
    BY <1>6 DEF Deliver, ProcessDies, Respawn, vars
  <1>7. CASE /\ UNCHANGED <<previous, legacy>>
             /\ pc' \notin {"previous", "configure", "switch"}
             /\ pc' \notin Staged \ {"link"} \/ (pc \in Staged \ {"link"} /\ prev' = prev)
    BY <1>7
  <1>8. QED
    BY <1>1, <1>2, <1>3, <1>4, <1>5, <1>6, <1>7
    DEF Next, Apply, Recover, Fast, Slow, Failure, Environment,
        Begin, NothingPending, RecoverPointer, RecoverStop, RecoverRemove,
        RecoverProcess, RecoverProcessFails, FastPath, FastConfigure, ProcessActive,
        ProcessInactive, FastRestart, FastRestartFails, SlowPath, Stage,
        SwitchGeneration, Enable, Restart, Settle, Activate, Abandon,
        ActivationFails, RestorePointer, RestorePointerFails, AgentCrash, HostReboot

\* Only the two actions of a migration change what is left of the legacy deployment.
LEMMA OldKept ==
  ASSUME IInv, HistoryInv, MigrationInv, Next, ~Configure, ~SwitchGeneration
  PROVE  Old' = Old
  <1> USE ConstantsAssumption DEF disk, service, IInv, TypeOK, Old, Goto
  <1>u. unit' = unit
    BY UnitKept
  <1>1. CASE RecoverPointer
    BY <1>u, <1>1 DEF RecoverPointer
  <1>2. CASE RecoverRemove
    BY <1>u, <1>2 DEF RecoverRemove, HistoryInv, MigrationInv
  <1>3. CASE RestorePointer
    BY <1>u, <1>3
    DEF RestorePointer, MigrationInv, GenerationInv, CallInv, ServiceInv, OnDisk, Staged, Switched
  <1>4. CASE UNCHANGED <<current, legacy>>
    BY <1>u, <1>4
  <1>5. QED
    BY <1>1, <1>2, <1>3, <1>4
    DEF Next, Apply, Recover, Fast, Slow, Failure, Environment,
        Begin, Deliver, NothingPending, RecoverStop, RecoverProcess,
        RecoverProcessFails, FastPath, FastConfigure, ProcessActive,
        ProcessInactive, FastRestart, FastRestartFails, SlowPath, Stage,
        SnapshotLegacy, ReadPrevious, WritePrevious, Enable, Restart, Settle,
        Activate, PruneGenerations, Abandon, Discard, ActivationFails,
        RestorePointerFails, RestoreProcess, AgentCrash, HostReboot,
        ProcessDies, Respawn

\* The unit stops starting the legacy deployment, or had done so before.
LEMMA ConfigureStep ==
  ASSUME IInv, HistoryInv, Configure, base' = Committed'
  PROVE  \/ /\ Old = "running" /\ Old' \in {"stored", "none"}
            /\ Committed' = None /\ base' = None
         \/ Old' = Old /\ Committed' = Committed /\ base' = base
  <1> USE ConstantsAssumption
      DEF Configure, Goto, disk, IInv, TypeOK, ServiceInv, Old
  <1>1. CASE unit = "legacy" /\ legacy # "absent"
    <2>1. current = None
      BY <1>1
    <2>2. Committed' = None
      BY <1>1, <2>1 DEF Committed, Fallback, Deployed, OnDisk
    <2>3. QED
      BY <1>1, <2>2
  <1>2. CASE unit = "current" \/ legacy = "absent"
    <2>1. Old' = Old /\ Committed' = Committed
      BY <1>2 DEF Committed, Fallback, Deployed, OnDisk
    <2>2. QED
      BY <2>1 DEF HistoryInv, Undecided, Clean
  <1>3. QED
    BY <1>1, <1>2

\* The first switch of a migration adopts the copy; no other one changes anything yet.
LEMMA SwitchStep ==
  ASSUME IInv, HistoryInv, MigrationInv, SwitchGeneration, base' = Committed'
  PROVE  \/ /\ Old = "stored" /\ Old' = "none"
            /\ Committed' = Legacy /\ base' = Legacy
         \/ Old' = Old /\ Committed' = Committed /\ base' = base
  <1> USE ConstantsAssumption
      DEF SwitchGeneration, Goto, disk, service, IInv, TypeOK, ServiceInv, Old
  <1>1. /\ unit = "current" /\ gen \in Gen \ activated /\ gen # None /\ previous[gen] = prev
        /\ current = None \/ current \in activated
    BY DEF GenerationInv, CallInv, OnDisk, Clean, Staged
  <1>2. Old' = "none" /\ Committed' = Deployed(prev)
    BY <1>1 DEF Committed, Fallback, Deployed, OnDisk
  <1>3. CASE prev = current /\ (prev # None \/ legacy # "full")
    <2>1. Old = "none" /\ Committed = Deployed(prev)
      BY <1>1, <1>3 DEF Committed, Fallback
    <2>2. QED
      BY <1>2, <2>1 DEF HistoryInv, Undecided, Clean
  <1>4. CASE current = None /\ legacy = "full" /\ prev # None /\ content[prev] = Legacy
    BY <1>1, <1>2, <1>4 DEF Deployed, OnDisk
  <1>5. QED
    BY <1>3, <1>4 DEF MigrationInv

\* Before the switch, waiting changes nothing.
LEMMA WaitingStep ==
  ASSUME IInv, HistoryInv, Next, pc \in {"configure", "switch"}, pc' # "idle",
         ~Configure, ~SwitchGeneration, base' = Committed'
  PROVE  Committed' = Committed /\ base' = base
  <1>1. Deliver \/ ProcessDies \/ Respawn
    BY DEF Next, Apply, Recover, Fast, Slow, Failure, Environment, Goto, Return,
        Begin, NothingPending, RecoverPointer, RecoverStop, RecoverProcessFails,
        RecoverRemove, RecoverProcess, FastPath, FastConfigure, ProcessInactive,
        FastRestart, FastRestartFails, ProcessActive, SlowPath, Stage,
        SnapshotLegacy, ReadPrevious, WritePrevious, PruneGenerations, Enable,
        Restart, Settle, Activate, Abandon, Discard, ActivationFails,
        RestorePointer, RestorePointerFails, RestoreProcess, AgentCrash, HostReboot
  <1>2. UNCHANGED <<disk, current, legacy, unit>>
    BY <1>1 DEF Deliver, ProcessDies, Respawn, service
  <1>3. QED
    BY <1>2, DiskKept DEF HistoryInv, Undecided, Clean

\* While a legacy deployment is there, no step but those of the migration decides.
LEMMA UndecidedStep ==
  ASSUME IInv, HistoryInv, HistoryInv', MigrationInv, Next, pc # "idle", pc' # "idle",
         ~SwitchGeneration, base' = base, Old # "none"
  PROVE  Committed' = Committed
  <1> USE ConstantsAssumption DEF Undecided, Clean, Staged, Switched
  <1>1. pc \notin Switched \cup {"restoreProcess"}
    BY DEF IInv, TypeOK, OnDisk, GenerationInv, CallInv, ServiceInv, MigrationInv, Old
  <1>2. pc \in Undecided
    BY <1>1 DEF IInv, TypeOK, PCs
  <1>3. pc' \in Undecided
    BY <1>2
    DEF Next, Apply, Recover, Fast, Slow, Failure, Environment, Goto, Return,
        Begin, Deliver, NothingPending, RecoverPointer, RecoverStop,
        RecoverProcessFails, RecoverRemove, RecoverProcess, FastPath, FastConfigure,
        ProcessInactive, FastRestart, FastRestartFails, ProcessActive, SlowPath, Stage,
        SnapshotLegacy, ReadPrevious, WritePrevious, Configure, PruneGenerations, Enable,
        Restart, Settle, Activate, Abandon, Discard, ActivationFails,
        RestorePointer, RestorePointerFails, RestoreProcess, AgentCrash, HostReboot,
        ProcessDies, Respawn
  <1>4. Committed = base /\ Committed' = base'
    BY <1>2, <1>3 DEF HistoryInv
  <1>5. QED
    BY <1>4

\* Every step of Applier is a step of Deployment or leaves its variables alone.
LEMMA RefinementStep ==
  /\ IInv /\ HistoryInv /\ MigrationInv /\ IInv' /\ HistoryInv'
  /\ [MCNext]_<<vars, base>>
  => [D!Next]_(D!vars)
  <1> SUFFICES ASSUME IInv, HistoryInv, MigrationInv, IInv', HistoryInv',
                      [MCNext]_<<vars, base>>
               PROVE  [D!Next]_(D!vars)
    OBVIOUS
  <1> USE DEF D!vars, D!Next
  <1>1. CASE MCNext /\ pc = "idle"
    <2>1. /\ Committed' = Committed /\ base' = Committed' /\ Committed = base
          /\ \/ pc' = "idle" /\ outcome' \in {outcome, "crashed"}
             \/ pc' = "recover" /\ want' \in Content /\ outcome' = "none"
      BY <1>1, IdleStep, CommittedFacts DEF MCNext
    <2>2. Old' = Old
      BY <1>1, OldKept DEF MCNext, Configure, SwitchGeneration, Goto
    <2>3. CASE pc' = "idle"
      BY <1>1, <2>1, <2>2, <2>3 DEF D!Fail
    <2>4. CASE pc' = "recover"
      BY <1>1, <2>1, <2>2, <2>4 DEF D!Submit
    <2>5. QED
      BY <2>1, <2>3, <2>4
  <1>2. CASE MCNext /\ pc # "idle" /\ pc' = "idle"
    <2>1. /\ Committed' = Committed /\ base' = Committed'
          /\ \/ outcome' \in {"error", "crashed"}
             \/ outcome' = "ok" /\ Committed = want
      BY <1>2, ReturnStep DEF MCNext
    <2>2. want # None
      BY <1>2, ConstantsAssumption DEF IInv, CallInv
    <2>3. Old' = Old
      BY <1>2, OldKept DEF MCNext, Configure, SwitchGeneration, Goto
    <2>4. QED
      BY <1>2, <2>1, <2>2, <2>3 DEF D!Fail, D!Succeed
  <1>3. CASE MCNext /\ pc # "idle" /\ pc' # "idle"
    <2>1. want' = want /\ outcome' = outcome /\ want # None
      BY <1>3, InnerFrame, ConstantsAssumption DEF MCNext, IInv, CallInv
    <2>2. base' = IF pc \in {"configure", "switch"} THEN Committed' ELSE base
      BY <1>3 DEF MCNext
    <2>3. CASE Configure
      <3>1. \/ /\ Old = "running" /\ Old' \in {"stored", "none"}
               /\ Committed' = None /\ base' = None
            \/ Old' = Old /\ Committed' = Committed /\ base' = base
        BY <2>2, <2>3, ConfigureStep DEF Configure, Goto
      <3>2. QED
        BY <1>3, <2>1, <3>1 DEF D!Uproot
    <2>4. CASE SwitchGeneration
      <3>1. \/ /\ Old = "stored" /\ Old' = "none"
               /\ Committed' = Legacy /\ base' = Legacy
            \/ Old' = Old /\ Committed' = Committed /\ base' = base
        BY <2>2, <2>4, SwitchStep DEF SwitchGeneration, Goto
      <3>2. QED
        BY <1>3, <2>1, <3>1 DEF D!Adopt
    <2>5. CASE ~Configure /\ ~SwitchGeneration
      <3>1. Old' = Old
        BY <1>3, <2>5, OldKept DEF MCNext
      <3>2. CASE pc \in {"configure", "switch"}
        <4>1. Committed' = Committed /\ base' = base
          BY <1>3, <2>2, <2>5, <3>2, WaitingStep DEF MCNext
        <4>2. QED
          BY <1>3, <2>1, <3>1, <4>1
      <3>3. CASE pc \notin {"configure", "switch"} /\ Old # "none"
        <4>1. Committed' = Committed
          BY <1>3, <2>2, <2>5, <3>3, UndecidedStep DEF MCNext
        <4>2. QED
          BY <1>3, <2>1, <2>2, <3>1, <3>3, <4>1
      <3>4. CASE pc \notin {"configure", "switch"} /\ Old = "none"
        <4>1. (pc # "idle" => Committed \in {base, want})'
          BY CommittedFacts, PTL
        <4>2. Committed' \in {base, want} /\ base' = base
          BY <1>3, <2>1, <2>2, <3>4, <4>1
        <4>3. QED
          BY <1>3, <2>1, <3>1, <3>4, <4>2 DEF D!Decide
      <3>5. QED
        BY <3>2, <3>3, <3>4
    <2>6. QED
      BY <2>3, <2>4, <2>5
  <1>4. CASE UNCHANGED <<vars, base>>
    <2>1. Committed' = Committed /\ Old' = Old
      BY <1>4 DEF vars, Committed, Fallback, Deployed, OnDisk, Old
    <2>2. QED
      BY <1>4, <2>1 DEF vars
  <1>5. QED
    BY <1>1, <1>2, <1>3, <1>4

\* A deployment is all or nothing: whatever fails, crashes or reboots between two
\* of its effects, Apply implements Deployment (applier.go:48-198,294-346), with its
\* exception for a migration that stops between the unit and the switch (applier.go:130-133).
THEOREM AppliesAtomically == MCSpec => AllOrNothing
  <1>1. MCInit => IInv /\ HistoryInv /\ MigrationInv /\ D!Init
    <2> SUFFICES ASSUME MCInit PROVE IInv /\ HistoryInv /\ MigrationInv /\ D!Init
      OBVIOUS
    <2>1. pc = "idle" /\ outcome = "none" /\ base = Committed
      BY DEF MCInit, Init
    <2>2. /\ Old = IF legacy = "absent" THEN "none" ELSE "running"
          /\ Committed = IF legacy = "absent" THEN None ELSE Legacy
      BY ConstantsAssumption
      DEF MCInit, Init, Committed, Fallback, Deployed, OnDisk, Old
    <2>3. D!Init
      BY <2>1, <2>2 DEF D!Init
    <2>4. HistoryInv /\ MigrationInv
      BY <2>1, ConstantsAssumption DEF MCInit, Init, HistoryInv, MigrationInv, Switched, Staged
    <2>5. QED
      BY <2>3, <2>4, InvariantInitially DEF MCInit
  <1>2. [MCNext]_<<vars, base>> => [Next]_vars
    BY DEF MCNext, vars
  <1>3. QED
    BY <1>1, <1>2, InvariantStep, HistoryStep, MigrationStep, RefinementStep, PTL
    DEF MCSpec, AllOrNothing, D!Spec
=============================================================================
