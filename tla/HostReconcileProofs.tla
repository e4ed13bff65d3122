------------------------- MODULE HostReconcileProofs -------------------------
(***************************************************************************)
(* Theorems about HostReconcile, for any connections, contents and bounds.    *)
(*                                                                         *)
(* IInv is inductive: InventoryInv says that nothing of a connection exists   *)
(* outside its directory, StepInv what the call works on, and DoneInv that    *)
(* all connections it has dealt with are done unless an error was counted.    *)
(* Each conjunct is preserved by a lemma of its own, one step per action.     *)
(***************************************************************************)
EXTENDS HostReconcile, TLAPS

\* What state.json holds of a connection.
Entry == [known : BOOLEAN, fingerprint : Content \cup {None}, error : BOOLEAN]

\* Recording a failure keeps the kind of every entry.
LEMMA FailureTyped ==
  ASSUME saved \in [Conns -> Entry], NEW S, SetConnFailure(S)
  PROVE  saved' \in [Conns -> Entry]
<1>1. \A c \in Conns : [saved[c] EXCEPT !.known = TRUE, !.error = TRUE] \in Entry
  BY DEF Entry
<1>2. QED
  BY <1>1 DEF SetConnFailure

\* Recording a success changes one entry.
LEMMA SetConnEffect ==
  ASSUME saved \in [Conns -> Entry], NEW c \in Conns, SetConn(c)
  PROVE  /\ saved'[c] = [known |-> TRUE, fingerprint |-> bundle.conns[c], error |-> FALSE]
         /\ \A d \in Conns \ {c} : saved'[d] = saved[d]
BY DEF SetConn

\* Recording a success keeps the kind of every entry.
LEMMA SuccessTyped ==
  ASSUME saved \in [Conns -> Entry], NEW c \in Conns, SetConn(c),
         bundle.conns[c] \in Content \cup {None}
  PROVE  saved' \in [Conns -> Entry]
<1>1. [known |-> TRUE, fingerprint |-> bundle.conns[c], error |-> FALSE] \in Entry
  BY DEF Entry
<1>2. QED
  BY <1>1 DEF SetConn

\* Every step keeps the types.
LEMMA TypePreserved == IInv /\ [Next]_vars => TypeOK'
<1> SUFFICES ASSUME IInv, [Next]_vars PROVE TypeOK'
  OBVIOUS
<1> USE ConstantsAssumption DEF IInv, TypeOK, StepInv, Steps, Removing, Applying, plane, state, instance, unit, call
<1>1. CASE Begin
  BY <1>1 DEF Begin, Goto, managedConnections
<1>2. CASE InventoryFails
  BY <1>2 DEF InventoryFails, Fault, Return
<1>3. ASSUME NEW c \in Conns, Stop(c) PROVE TypeOK'
  BY <1>3 DEF Stop, Goto
<1>4. CASE Disable
  BY <1>4 DEF Disable, Goto
<1>5. CASE Delete
  BY <1>5 DEF Delete, Goto
<1>6. CASE Forget
  BY <1>6 DEF Forget, Goto, RemoveConn, Unknown
<1>7. CASE RemoveFails
  <2>1. proc' \in [Conns -> Content \cup {None}] /\ todo' \in SUBSET Conns
    BY <1>7 DEF RemoveFails
  <2>2. enabled' \in [Conns -> BOOLEAN]
    BY <1>7 DEF RemoveFails
  <2>3. committed' \in [Conns -> Content \cup {None}] /\ pending' \in [Conns -> Content \cup {None}]
    BY <1>7 DEF RemoveFails
  <2>4. faults' \in Nat /\ dir' = dir /\ stuck' = stuck /\ at' = None /\ errs' = TRUE /\ pc' \in {"save", "remove"}
    BY <1>7 DEF RemoveFails, Fault
  <2>5. QED
    BY <1>7, <2>1, <2>2, <2>3, <2>4 DEF RemoveFails
<1>8. CASE Removed
  BY <1>8 DEF Removed
<1>9. CASE PrepareBinary
  BY <1>9 DEF PrepareBinary, Goto, Desired
<1>10. CASE PrepareBinaryFails
  <2>1. saved' \in [Conns -> Entry]
    BY <1>10, FailureTyped DEF PrepareBinaryFails, Entry
  <2>2. QED
    BY <1>10, <2>1 DEF PrepareBinaryFails, Fault, Return, Entry
<1>11. ASSUME NEW c \in Conns, Reject(c) PROVE TypeOK'
  <2>1. saved' \in [Conns -> Entry]
    BY <1>11, FailureTyped DEF Reject, Entry
  <2>2. QED
    BY <1>11, <2>1 DEF Reject, Entry
<1>12. ASSUME NEW c \in Conns, RejectUnrecorded(c) PROVE TypeOK'
  BY <1>12 DEF RejectUnrecorded, Fault
<1>13. ASSUME NEW c \in Conns, Keep(c) PROVE TypeOK'
  <2>1. bundle.conns[c] \in Content \cup {None, Broken} /\ bundle.conns[c] # Broken
    BY <1>13 DEF Keep
  <2>2. saved' = saved \/ SetConn(c)
    BY <1>13 DEF Keep
  <2>3. saved' \in [Conns -> Entry]
    BY <2>1, <2>2, SuccessTyped DEF Entry
  <2>4. errs' \in {errs, TRUE}
    BY <1>13 DEF Keep
  <2>5. errs' \in BOOLEAN
    BY <2>4, Zenon
  <2>6. faults' \in Nat
    BY <1>13 DEF Keep, Fault
  <2>7. QED
    BY <1>13, <2>3, <2>5, <2>6 DEF Keep, Entry
<1>14. ASSUME NEW c \in Conns, Redeploy(c) PROVE TypeOK'
  BY <1>14 DEF Redeploy, Goto, Stale
<1>15. ASSUME NEW c \in Conns, Deploy(c) PROVE TypeOK'
  BY <1>15 DEF Deploy, Goto, Stale
<1>16. CASE Activate
  BY <1>16 DEF Activate, Goto
<1>17. ASSUME NEW c \in Conns, StageFails(c) PROVE TypeOK'
  <2>1. dir' \in [Conns -> BOOLEAN]
    BY <1>17 DEF StageFails
  <2>2. /\ pending' \in [Conns -> Content \cup {None}]
        /\ proc' \in [Conns -> Content \cup {None}]
    BY <1>17 DEF StageFails
  <2>3. QED
    BY <1>17, <2>1, <2>2 DEF StageFails, Goto, Fault
<1>18. CASE ActivateFails
  <2>1. at \in Conns /\ faults' \in Nat
    BY <1>18 DEF ActivateFails, Goto, Fault
  <2>2. /\ pending' \in [Conns -> Content \cup {None}]
        /\ proc' \in [Conns -> Content \cup {None}]
    <3>1. pending' = pending \/ pending' = [pending EXCEPT ![at] = None]
      BY <1>18 DEF ActivateFails, GoBack
    <3>2. \E p \in {committed[at], None, proc[at]} : proc' = [proc EXCEPT ![at] = p]
      BY <1>18 DEF ActivateFails
    <3>3. QED
      BY <2>1, <3>1, <3>2
  <2>3. stuck' \in [Conns -> BOOLEAN]
    BY <1>18, <2>1 DEF ActivateFails, GoBack
  <2>4. QED
    BY <1>18, <2>1, <2>2, <2>3 DEF ActivateFails, Goto
<1>19. CASE EnableFails
  BY <1>19 DEF EnableFails, Goto, Fault
<1>20. CASE Record
  BY <1>20 DEF Record, Goto, SetConn
<1>21. CASE Blame
  <2>1. saved' \in [Conns -> Entry]
    BY <1>21, FailureTyped DEF Blame, Entry
  <2>2. QED
    BY <1>21, <2>1 DEF Blame, Goto, Entry
<1>22. CASE PersistFails
  BY <1>22 DEF PersistFails, Fault
<1>23. CASE AllApplied
  BY <1>23 DEF AllApplied
<1>24. CASE Succeed
  BY <1>24 DEF Succeed, Return
<1>25. CASE Fail
  BY <1>25 DEF Fail, Return, Fault
<1>26. ASSUME NEW c \in Conns, NEW x \in Content \cup {Broken}, Edit(c, x) PROVE TypeOK'
  BY <1>26 DEF Edit
<1>27. ASSUME NEW c \in Conns, DeleteConnection(c) PROVE TypeOK'
  BY <1>27 DEF DeleteConnection
<1>28. CASE Retire
  BY <1>28 DEF Retire
<1>29. CASE AgentCrash
  BY <1>29 DEF AgentCrash, Fault, Return
<1>30. CASE StateLost
  BY <1>30 DEF StateLost, Fault, Return, Unknown
<1>31. CASE HostReboot
  BY <1>31 DEF HostReboot, Fault, Return, ExecTarget
<1>32. ASSUME NEW c \in Conns, ProcessDies(c) PROVE TypeOK'
  BY <1>32 DEF ProcessDies, Fault
<1>33. ASSUME NEW c \in Conns, Damage(c) PROVE TypeOK'
  <2>1. committed' \in [Conns -> Content \cup {None}]
    BY <1>33 DEF Damage
  <2>2. stuck' \in [Conns -> BOOLEAN]
    BY <1>33 DEF Damage
  <2>3. QED
    BY <1>33, <2>1, <2>2 DEF Damage, Fault
<1>34. CASE UNCHANGED vars
  BY <1>34 DEF vars
<1>35. ASSUME NEW c \in Conns, RecoveryFails(c) PROVE TypeOK'
  BY <1>35 DEF RecoveryFails, Goto, Stale
<1>36. QED
  BY <1>1, <1>2, <1>3, <1>4, <1>5, <1>6, <1>7, <1>8, <1>9, <1>10, <1>11, <1>12, <1>13, <1>14, <1>15, <1>16, <1>17, <1>18, <1>19, <1>20, <1>21, <1>22, <1>23, <1>24, <1>25, <1>26, <1>27, <1>28, <1>29, <1>30, <1>31, <1>32, <1>33, <1>34, <1>35
     DEF Next, Run, Removal, Application, Failure, Environment

\* Every step keeps what exists of a connection within reach of the inventory.
LEMMA InventoryPreserved == IInv /\ [Next]_vars => InventoryInv'
<1> SUFFICES ASSUME IInv, [Next]_vars PROVE InventoryInv'
  OBVIOUS
<1> USE ConstantsAssumption DEF IInv, TypeOK, InventoryInv, StepInv, Steps, Removing, Applying, plane, state, instance, unit, call
<1>1. CASE Begin
  BY <1>1 DEF Begin, Goto, managedConnections
<1>2. CASE InventoryFails
  BY <1>2 DEF InventoryFails, Fault, Return
<1>3. ASSUME NEW c \in Conns, Stop(c) PROVE InventoryInv'
  BY <1>3 DEF Stop, Goto
<1>4. CASE Disable
  BY <1>4 DEF Disable, Goto
<1>5. CASE Delete
  BY <1>5 DEF Delete, Goto
<1>6. CASE Forget
  BY <1>6 DEF Forget, Goto, RemoveConn, Unknown
<1>7. CASE RemoveFails
  BY <1>7 DEF RemoveFails, Fault
<1>8. CASE Removed
  BY <1>8 DEF Removed
<1>9. CASE PrepareBinary
  BY <1>9 DEF PrepareBinary, Goto, Desired
<1>10. CASE PrepareBinaryFails
  <2>1. PICK S \in SUBSET Desired : SetConnFailure(S)
    BY <1>10 DEF PrepareBinaryFails
  <2>2. ASSUME NEW d \in Conns \ S PROVE saved'[d] = saved[d]
    BY <2>1 DEF SetConnFailure
  <2>3. ASSUME NEW d \in S PROVE bundle.conns[d] # None
    BY DEF Desired
  <2>4. QED
    BY <1>10, <2>2, <2>3 DEF PrepareBinaryFails, Return
<1>11. ASSUME NEW c \in Conns, Reject(c) PROVE InventoryInv'
  <2>1. ASSUME NEW d \in Conns \ {c} PROVE saved'[d] = saved[d]
    BY <1>11 DEF Reject, SetConnFailure
  <2>2. bundle.conns[c] # None
    BY <1>11 DEF Reject
  <2>3. QED
    BY <1>11, <2>1, <2>2 DEF Reject
<1>12. ASSUME NEW c \in Conns, RejectUnrecorded(c) PROVE InventoryInv'
  BY <1>12 DEF RejectUnrecorded, Fault
<1>13. ASSUME NEW c \in Conns, Keep(c) PROVE InventoryInv'
  <2>1. saved' = saved \/ SetConn(c)
    BY <1>13 DEF Keep
  <2>2. \A d \in Conns \ {c} : saved'[d] = saved[d]
    BY <2>1, SetConnEffect DEF Entry
  <2>3. saved[c].known /\ UNCHANGED <<instance, unit, bundle, plane>>
    BY <1>13 DEF Keep, Applied
  <2>4. QED
    BY <2>2, <2>3
<1>14. ASSUME NEW c \in Conns, Redeploy(c) PROVE InventoryInv'
  BY <1>14 DEF Redeploy, Goto, Stale
<1>15. ASSUME NEW c \in Conns, Deploy(c) PROVE InventoryInv'
  BY <1>15 DEF Deploy, Goto, Stale
<1>16. CASE Activate
  BY <1>16 DEF Activate, Goto
<1>17. ASSUME NEW c \in Conns, StageFails(c) PROVE InventoryInv'
  BY <1>17 DEF StageFails, Goto, Stale, Fault
<1>18. CASE ActivateFails
  BY <1>18 DEF ActivateFails, GoBack, Goto, Fault
<1>19. CASE EnableFails
  BY <1>19 DEF EnableFails, Goto, Fault
<1>20. CASE Record
  BY <1>20 DEF Record, Goto, SetConn
<1>21. CASE Blame
  BY <1>21 DEF Blame, Goto, SetConnFailure
<1>22. CASE PersistFails
  BY <1>22 DEF PersistFails, Fault
<1>23. CASE AllApplied
  BY <1>23 DEF AllApplied
<1>24. CASE Succeed
  BY <1>24 DEF Succeed, Return
<1>25. CASE Fail
  BY <1>25 DEF Fail, Return, Fault
<1>26. ASSUME NEW c \in Conns, NEW x \in Content \cup {Broken}, Edit(c, x) PROVE InventoryInv'
  BY <1>26 DEF Edit
<1>27. ASSUME NEW c \in Conns, DeleteConnection(c) PROVE InventoryInv'
  BY <1>27 DEF DeleteConnection
<1>28. CASE Retire
  BY <1>28 DEF Retire
<1>29. CASE AgentCrash
  BY <1>29 DEF AgentCrash, Fault, Return
<1>30. CASE StateLost
  BY <1>30 DEF StateLost, Fault, Return, Unknown
<1>31. CASE HostReboot
  BY <1>31 DEF HostReboot, Fault, Return, ExecTarget
<1>32. ASSUME NEW c \in Conns, ProcessDies(c) PROVE InventoryInv'
  BY <1>32 DEF ProcessDies, Fault
<1>33. ASSUME NEW c \in Conns, Damage(c) PROVE InventoryInv'
  BY <1>33 DEF Damage, Fault
<1>34. CASE UNCHANGED vars
  BY <1>34 DEF vars
<1>35. ASSUME NEW c \in Conns, RecoveryFails(c) PROVE InventoryInv'
  BY <1>35 DEF RecoveryFails, Goto, Stale
<1>36. QED
  BY <1>1, <1>2, <1>3, <1>4, <1>5, <1>6, <1>7, <1>8, <1>9, <1>10, <1>11, <1>12, <1>13, <1>14, <1>15, <1>16, <1>17, <1>18, <1>19, <1>20, <1>21, <1>22, <1>23, <1>24, <1>25, <1>26, <1>27, <1>28, <1>29, <1>30, <1>31, <1>32, <1>33, <1>34, <1>35
     DEF Next, Run, Removal, Application, Failure, Environment

\* Every step hands the next one what it works on.
LEMMA StepPreserved == IInv /\ [Next]_vars => StepInv'
<1> SUFFICES ASSUME IInv, [Next]_vars PROVE StepInv'
  OBVIOUS
<1> USE ConstantsAssumption DEF IInv, TypeOK, InventoryInv, StepInv, Steps, Removing, Applying, plane, state, instance, unit, call
<1>1. CASE Begin
  BY <1>1 DEF Begin, Goto, managedConnections
<1>2. CASE InventoryFails
  BY <1>2 DEF InventoryFails, Fault, Return
<1>3. ASSUME NEW c \in Conns, Stop(c) PROVE StepInv'
  BY <1>3 DEF Stop, Goto
<1>4. CASE Disable
  BY <1>4 DEF Disable, Goto
<1>5. CASE Delete
  BY <1>5 DEF Delete, Goto
<1>6. CASE Forget
  BY <1>6 DEF Forget, Goto, RemoveConn, Unknown
<1>7. CASE RemoveFails
  BY <1>7 DEF RemoveFails, Fault
<1>8. CASE Removed
  BY <1>8 DEF Removed
<1>9. CASE PrepareBinary
  BY <1>9 DEF PrepareBinary, Goto, Desired
<1>10. CASE PrepareBinaryFails
  BY <1>10 DEF PrepareBinaryFails, Fault, Return, SetConnFailure, Desired
<1>11. ASSUME NEW c \in Conns, Reject(c) PROVE StepInv'
  BY <1>11 DEF Reject, SetConnFailure
<1>12. ASSUME NEW c \in Conns, RejectUnrecorded(c) PROVE StepInv'
  BY <1>12 DEF RejectUnrecorded, Fault
<1>13. ASSUME NEW c \in Conns, Keep(c) PROVE StepInv'
  BY <1>13 DEF Keep, Applied, FilesExist, SetConn, Fault
<1>14. ASSUME NEW c \in Conns, Redeploy(c) PROVE StepInv'
  BY <1>14 DEF Redeploy, Goto, Stale
<1>15. ASSUME NEW c \in Conns, Deploy(c) PROVE StepInv'
  BY <1>15 DEF Deploy, Goto, Stale
<1>16. CASE Activate
  BY <1>16 DEF Activate, Goto
<1>17. ASSUME NEW c \in Conns, StageFails(c) PROVE StepInv'
  BY <1>17 DEF StageFails, Goto, Stale, Fault
<1>18. CASE ActivateFails
  BY <1>18 DEF ActivateFails, GoBack, Goto, Fault
<1>19. CASE EnableFails
  BY <1>19 DEF EnableFails, Goto, Fault
<1>20. CASE Record
  BY <1>20 DEF Record, Goto, SetConn
<1>21. CASE Blame
  BY <1>21 DEF Blame, Goto, SetConnFailure
<1>22. CASE PersistFails
  BY <1>22 DEF PersistFails, Fault
<1>23. CASE AllApplied
  BY <1>23 DEF AllApplied
<1>24. CASE Succeed
  BY <1>24 DEF Succeed, Return
<1>25. CASE Fail
  BY <1>25 DEF Fail, Return, Fault
<1>26. ASSUME NEW c \in Conns, NEW x \in Content \cup {Broken}, Edit(c, x) PROVE StepInv'
  BY <1>26 DEF Edit
<1>27. ASSUME NEW c \in Conns, DeleteConnection(c) PROVE StepInv'
  BY <1>27 DEF DeleteConnection
<1>28. CASE Retire
  BY <1>28 DEF Retire
<1>29. CASE AgentCrash
  BY <1>29 DEF AgentCrash, Fault, Return
<1>30. CASE StateLost
  BY <1>30 DEF StateLost, Fault, Return, Unknown
<1>31. CASE HostReboot
  BY <1>31 DEF HostReboot, Fault, Return, ExecTarget
<1>32. ASSUME NEW c \in Conns, ProcessDies(c) PROVE StepInv'
  BY <1>32 DEF ProcessDies, Fault
<1>33. ASSUME NEW c \in Conns, Damage(c) PROVE StepInv'
  BY <1>33 DEF Damage, Fault
<1>34. CASE UNCHANGED vars
  BY <1>34 DEF vars
<1>35. ASSUME NEW c \in Conns, RecoveryFails(c) PROVE StepInv'
  BY <1>35 DEF RecoveryFails, Goto, Stale
<1>36. QED
  BY <1>1, <1>2, <1>3, <1>4, <1>5, <1>6, <1>7, <1>8, <1>9, <1>10, <1>11, <1>12, <1>13, <1>14, <1>15, <1>16, <1>17, <1>18, <1>19, <1>20, <1>21, <1>22, <1>23, <1>24, <1>25, <1>26, <1>27, <1>28, <1>29, <1>30, <1>31, <1>32, <1>33, <1>34, <1>35
     DEF Next, Run, Removal, Application, Failure, Environment

\* Without an error, what is behind the call stays done.
LEMMA DonePreserved == IInv /\ [Next]_vars => DoneInv'
<1> SUFFICES ASSUME IInv, [Next]_vars PROVE DoneInv'
  OBVIOUS
<1> USE ConstantsAssumption DEF IInv, TypeOK, InventoryInv, StepInv, DoneInv, Recorded, Gone, Steps, Removing, Applying, plane, state, instance, unit, call
<1>1. CASE Begin
  BY <1>1 DEF Begin, Goto, managedConnections
<1>2. CASE InventoryFails
  BY <1>2 DEF InventoryFails, Fault, Return
<1>3. ASSUME NEW c \in Conns, Stop(c) PROVE DoneInv'
  BY <1>3 DEF Stop, Goto
<1>4. CASE Disable
  BY <1>4 DEF Disable, Goto
<1>5. CASE Delete
  BY <1>5 DEF Delete, Goto
<1>6. CASE Forget
  BY <1>6 DEF Forget, Goto, RemoveConn, Unknown
<1>7. CASE RemoveFails
  BY <1>7 DEF RemoveFails, Fault
<1>8. CASE Removed
  BY <1>8 DEF Removed
<1>9. CASE PrepareBinary
  BY <1>9 DEF PrepareBinary, Goto, Desired
<1>10. CASE PrepareBinaryFails
  BY <1>10 DEF PrepareBinaryFails, Fault, Return, SetConnFailure, Desired
<1>11. ASSUME NEW c \in Conns, Reject(c) PROVE DoneInv'
  BY <1>11 DEF Reject, SetConnFailure
<1>12. ASSUME NEW c \in Conns, RejectUnrecorded(c) PROVE DoneInv'
  BY <1>12 DEF RejectUnrecorded, Fault
<1>13. ASSUME NEW c \in Conns, Keep(c) PROVE DoneInv'
  <2>1. pc = "apply" /\ c \in todo /\ committed[c] # None /\ bundle.conns[c] # None
    BY <1>13 DEF Keep, Applied, FilesExist
  <2>2. enabled[c]
    BY <2>1
  <2>3. saved' = saved \/ SetConn(c)
    BY <1>13 DEF Keep
  <2>4. \A d \in Conns \ {c} : saved'[d] = saved[d]
    BY <2>3, SetConnEffect DEF Entry
  <2>5. ~errs' => ~errs /\ SetConn(c)
    BY <1>13 DEF Keep
  <2>6. ~errs' => saved'[c] = [known |-> TRUE, fingerprint |-> bundle.conns[c], error |-> FALSE]
    BY <2>5, SetConnEffect DEF Entry
  <2>7. UNCHANGED <<bundle, dir, enabled, proc, pc>> /\ todo' = todo \ {c}
    BY <1>13 DEF Keep
  <2>8. QED
    BY <2>1, <2>2, <2>4, <2>5, <2>6, <2>7
<1>14. ASSUME NEW c \in Conns, Redeploy(c) PROVE DoneInv'
  BY <1>14 DEF Redeploy, Goto, Stale
<1>15. ASSUME NEW c \in Conns, Deploy(c) PROVE DoneInv'
  BY <1>15 DEF Deploy, Goto, Stale
<1>16. CASE Activate
  BY <1>16 DEF Activate, Goto
<1>17. ASSUME NEW c \in Conns, StageFails(c) PROVE DoneInv'
  BY <1>17 DEF StageFails, Goto, Stale, Fault
<1>18. CASE ActivateFails
  BY <1>18 DEF ActivateFails, GoBack, Goto, Fault
<1>19. CASE EnableFails
  BY <1>19 DEF EnableFails, Goto, Fault
<1>20. CASE Record
  <2>1. pc = "record" /\ pc' = "apply" /\ at \in Conns /\ bundle.conns[at] # None /\ enabled[at]
    BY <1>20 DEF Record, Goto
  <2>2. SetConn(at)
    BY <1>20 DEF Record
  <2>3. saved'[at] = [known |-> TRUE, fingerprint |-> bundle.conns[at], error |-> FALSE]
        /\ \A d \in Conns \ {at} : saved'[d] = saved[d]
    BY <2>1, <2>2, SetConnEffect DEF Entry
  <2>4. UNCHANGED <<bundle, dir, enabled, proc, todo, errs>>
    BY <1>20 DEF Record
  <2>5. ASSUME NEW c \in Conns, bundle.conns[c] # None, ~errs, c # at PROVE Recorded(c)' \/ c \in todo
    BY <2>1, <2>3, <2>4, <2>5
  <2>6. ASSUME NEW c \in Conns, c = at PROVE Recorded(c)'
    <3>1. enabled'[c] /\ bundle' = bundle
      BY <2>1, <2>4, <2>6
    <3>2. QED
      BY <2>3, <2>6, <3>1, Zenon
  <2>7. ASSUME NEW c \in Conns, bundle.conns[c] = None, ~errs PROVE Gone(c)'
    BY <2>1, <2>3, <2>4, <2>7
  <2>8. bundle' = bundle /\ todo' = todo /\ errs' = errs /\ pc' = "apply"
    BY <2>1, <2>4
  <2>9. QED
    <3> HIDE DEF Recorded, Gone
    <3>1. QED
      BY <2>5, <2>6, <2>7, <2>8
<1>21. CASE Blame
  BY <1>21 DEF Blame, Goto, SetConnFailure
<1>22. CASE PersistFails
  BY <1>22 DEF PersistFails, Fault
<1>23. CASE AllApplied
  BY <1>23 DEF AllApplied
<1>24. CASE Succeed
  BY <1>24 DEF Succeed, Return
<1>25. CASE Fail
  BY <1>25 DEF Fail, Return, Fault
<1>26. ASSUME NEW c \in Conns, NEW x \in Content \cup {Broken}, Edit(c, x) PROVE DoneInv'
  BY <1>26 DEF Edit
<1>27. ASSUME NEW c \in Conns, DeleteConnection(c) PROVE DoneInv'
  BY <1>27 DEF DeleteConnection
<1>28. CASE Retire
  BY <1>28 DEF Retire
<1>29. CASE AgentCrash
  BY <1>29 DEF AgentCrash, Fault, Return
<1>30. CASE StateLost
  BY <1>30 DEF StateLost, Fault, Return, Unknown
<1>31. CASE HostReboot
  BY <1>31 DEF HostReboot, Fault, Return, ExecTarget
<1>32. ASSUME NEW c \in Conns, ProcessDies(c) PROVE DoneInv'
  BY <1>32 DEF ProcessDies, Fault
<1>33. ASSUME NEW c \in Conns, Damage(c) PROVE DoneInv'
  BY <1>33 DEF Damage, Fault
<1>34. CASE UNCHANGED vars
  BY <1>34 DEF vars
<1>35. ASSUME NEW c \in Conns, RecoveryFails(c) PROVE DoneInv'
  BY <1>35 DEF RecoveryFails, Goto, Stale
<1>36. QED
  BY <1>1, <1>2, <1>3, <1>4, <1>5, <1>6, <1>7, <1>8, <1>9, <1>10, <1>11, <1>12, <1>13, <1>14, <1>15, <1>16, <1>17, <1>18, <1>19, <1>20, <1>21, <1>22, <1>23, <1>24, <1>25, <1>26, <1>27, <1>28, <1>29, <1>30, <1>31, <1>32, <1>33, <1>34, <1>35
     DEF Next, Run, Removal, Application, Failure, Environment

\* A successful outcome comes from a call without an error, and lasts.
LEMMA SuccessPreserved == IInv /\ [Next]_vars => SuccessIsComplete'
<1> SUFFICES ASSUME IInv, [Next]_vars PROVE SuccessIsComplete'
  OBVIOUS
<1> USE ConstantsAssumption DEF IInv, TypeOK, InventoryInv, StepInv, DoneInv, SuccessIsComplete, Recorded, Gone, Steps, Removing, Applying, plane, state, instance, unit, call
<1>1. CASE Begin
  BY <1>1 DEF Begin, Goto, managedConnections
<1>2. CASE InventoryFails
  BY <1>2 DEF InventoryFails, Fault, Return
<1>3. ASSUME NEW c \in Conns, Stop(c) PROVE SuccessIsComplete'
  BY <1>3 DEF Stop, Goto
<1>4. CASE Disable
  BY <1>4 DEF Disable, Goto
<1>5. CASE Delete
  BY <1>5 DEF Delete, Goto
<1>6. CASE Forget
  BY <1>6 DEF Forget, Goto, RemoveConn, Unknown
<1>7. CASE RemoveFails
  BY <1>7 DEF RemoveFails, Fault
<1>8. CASE Removed
  BY <1>8 DEF Removed
<1>9. CASE PrepareBinary
  BY <1>9 DEF PrepareBinary, Goto, Desired
<1>10. CASE PrepareBinaryFails
  BY <1>10 DEF PrepareBinaryFails, Fault, Return, SetConnFailure, Desired
<1>11. ASSUME NEW c \in Conns, Reject(c) PROVE SuccessIsComplete'
  BY <1>11 DEF Reject, SetConnFailure
<1>12. ASSUME NEW c \in Conns, RejectUnrecorded(c) PROVE SuccessIsComplete'
  BY <1>12 DEF RejectUnrecorded, Fault
<1>13. ASSUME NEW c \in Conns, Keep(c) PROVE SuccessIsComplete'
  BY <1>13 DEF Keep, Applied, FilesExist, SetConn, Fault
<1>14. ASSUME NEW c \in Conns, Redeploy(c) PROVE SuccessIsComplete'
  BY <1>14 DEF Redeploy, Goto, Stale
<1>15. ASSUME NEW c \in Conns, Deploy(c) PROVE SuccessIsComplete'
  BY <1>15 DEF Deploy, Goto, Stale
<1>16. CASE Activate
  BY <1>16 DEF Activate, Goto
<1>17. ASSUME NEW c \in Conns, StageFails(c) PROVE SuccessIsComplete'
  BY <1>17 DEF StageFails, Goto, Stale, Fault
<1>18. CASE ActivateFails
  BY <1>18 DEF ActivateFails, GoBack, Goto, Fault
<1>19. CASE EnableFails
  BY <1>19 DEF EnableFails, Goto, Fault
<1>20. CASE Record
  BY <1>20 DEF Record, Goto, SetConn
<1>21. CASE Blame
  BY <1>21 DEF Blame, Goto, SetConnFailure
<1>22. CASE PersistFails
  BY <1>22 DEF PersistFails, Fault
<1>23. CASE AllApplied
  BY <1>23 DEF AllApplied
<1>24. CASE Succeed
  BY <1>24 DEF Succeed, Return
<1>25. CASE Fail
  BY <1>25 DEF Fail, Return, Fault
<1>26. ASSUME NEW c \in Conns, NEW x \in Content \cup {Broken}, Edit(c, x) PROVE SuccessIsComplete'
  BY <1>26 DEF Edit
<1>27. ASSUME NEW c \in Conns, DeleteConnection(c) PROVE SuccessIsComplete'
  BY <1>27 DEF DeleteConnection
<1>28. CASE Retire
  BY <1>28 DEF Retire
<1>29. CASE AgentCrash
  BY <1>29 DEF AgentCrash, Fault, Return
<1>30. CASE StateLost
  BY <1>30 DEF StateLost, Fault, Return, Unknown
<1>31. CASE HostReboot
  BY <1>31 DEF HostReboot, Fault, Return, ExecTarget
<1>32. ASSUME NEW c \in Conns, ProcessDies(c) PROVE SuccessIsComplete'
  BY <1>32 DEF ProcessDies, Fault
<1>33. ASSUME NEW c \in Conns, Damage(c) PROVE SuccessIsComplete'
  BY <1>33 DEF Damage, Fault
<1>34. CASE UNCHANGED vars
  BY <1>34 DEF vars
<1>35. ASSUME NEW c \in Conns, RecoveryFails(c) PROVE SuccessIsComplete'
  BY <1>35 DEF RecoveryFails, Goto, Stale
<1>36. QED
  BY <1>1, <1>2, <1>3, <1>4, <1>5, <1>6, <1>7, <1>8, <1>9, <1>10, <1>11, <1>12, <1>13, <1>14, <1>15, <1>16, <1>17, <1>18, <1>19, <1>20, <1>21, <1>22, <1>23, <1>24, <1>25, <1>26, <1>27, <1>28, <1>29, <1>30, <1>31, <1>32, <1>33, <1>34, <1>35
     DEF Next, Run, Removal, Application, Failure, Environment

---------------------------------------------------------------------------

\* The invariant holds initially.
LEMMA InvariantInitially == Init => IInv
<1> SUFFICES ASSUME Init PROVE IInv
  OBVIOUS
<1> USE ConstantsAssumption DEF Init
<1>1. \A c \in Conns : bundle.conns[c] = None /\ Gone(c)
  BY DEF Gone, Unknown
<1>2. bundle \in [version : Nat, conns : [Conns -> Content \cup {None, Broken}], decommission : BOOLEAN]
  OBVIOUS
<1>3. saved \in [Conns -> [known : BOOLEAN, fingerprint : Content \cup {None}, error : BOOLEAN]]
  BY DEF Unknown
<1>4. TypeOK
  BY <1>2, <1>3 DEF TypeOK, Steps
<1>5. InventoryInv
  BY <1>1 DEF InventoryInv, Gone
<1>6. StepInv /\ DoneInv /\ SuccessIsComplete
  BY <1>1 DEF StepInv, DoneInv, SuccessIsComplete, Removing, Applying
<1>7. QED
  BY <1>4, <1>5, <1>6 DEF IInv

\* The invariant always holds.
LEMMA Invariance == Spec => []IInv
<1>1. IInv /\ [Next]_vars => IInv'
  BY TypePreserved, InventoryPreserved, StepPreserved, DonePreserved, SuccessPreserved DEF IInv
<1>2. QED
  BY InvariantInitially, <1>1, PTL DEF Spec

\* Every variable always holds a value of its kind.
THEOREM TypeCorrect == Spec => []TypeOK
<1>1. IInv => TypeOK
  BY DEF IInv
<1>2. QED
  BY Invariance, <1>1, PTL

\* No crash, reboot, failing call or lost state file leaves a running process or an
\* enabled unit that the next inventory does not find (connections.go:207-232).
THEOREM OrphansNever == Spec => []NoOrphan
<1>1. IInv => NoOrphan
  BY DEF IInv, InventoryInv, NoOrphan, managedConnections
<1>2. QED
  BY Invariance, <1>1, PTL

\* A success is acknowledged only when every connection of the bundle is recorded
\* and enabled, and every other one is gone (connections.go:124-135,234-265).
THEOREM SuccessComplete == Spec => []SuccessIsComplete
<1>1. IInv => SuccessIsComplete
  BY DEF IInv
<1>2. QED
  BY Invariance, <1>1, PTL

---------------------------------------------------------------------------
(* How SuccessIsDeployed is lost.                                           *)

DriftStep ==
  \A c \in Conns : /\ Drifted(c)' => Drifted(c) \/ (Activate /\ c = at)
                   /\ Record /\ c = at => ~Drifted(c)'

\* Entries whose fingerprints stay do not drift unless something is deployed.
LEMMA NoDrift ==
  ASSUME \A c \in Conns : /\ saved'[c].fingerprint \in {saved[c].fingerprint, None}
                          /\ committed'[c] \in {committed[c], None}
  PROVE  \A c \in Conns : Drifted(c)' => Drifted(c)
BY DEF Drifted

\* Recording a failure keeps every fingerprint.
LEMMA FailureKeepsFingerprints ==
  ASSUME saved \in [Conns -> Entry], NEW S, SetConnFailure(S)
  PROVE  \A c \in Conns : saved'[c].fingerprint = saved[c].fingerprint
BY DEF SetConnFailure, Entry

LEMMA DeployPreserved == IInv /\ DeployInv /\ [Next]_vars => DeployInv' /\ DriftStep
<1> SUFFICES ASSUME IInv, DeployInv, [Next]_vars PROVE DeployInv' /\ DriftStep
  OBVIOUS
<1> USE ConstantsAssumption DEF plane, state, instance, unit, call, Goto, Return
<1>1. /\ saved \in [Conns -> Entry] /\ committed \in [Conns -> Content \cup {None}]
      /\ pending \in [Conns -> Content \cup {None}]
      /\ pc \in {"activate", "record", "blame"} => at \in Conns
  BY DEF IInv, TypeOK, StepInv, Applying, Entry
\* Steps that deploy nothing and write no fingerprint.
<1>2. ASSUME \A c \in Conns : /\ saved'[c].fingerprint \in {saved[c].fingerprint, None}
                              /\ committed'[c] \in {committed[c], None},
             ~Record
      PROVE  DriftStep
  BY <1>2, NoDrift DEF DriftStep
<1>3. CASE Activate
  <2>1. committed'[at] = bundle.conns[at] /\ \A c \in Conns \ {at} : committed'[c] = committed[c]
    BY <1>1, <1>3 DEF Activate, DeployInv
  <2>2. DeployInv' BY <1>3, <2>1 DEF Activate, DeployInv
  <2>3. DriftStep BY <1>3, <2>1 DEF Activate, DriftStep, Drifted, Record
  <2> QED BY <2>2, <2>3
<1>4. CASE Record
  <2>1. pc = "record" /\ pc' = "apply" /\ committed' = committed /\ SetConn(at) /\ at \in Conns
    BY <1>1, <1>4 DEF Record
  <2>2. /\ saved'[at].fingerprint = bundle.conns[at]
        /\ \A c \in Conns \ {at} : saved'[c] = saved[c]
    BY <1>1, <2>1 DEF SetConn
  <2>3. DeployInv' BY <2>1 DEF DeployInv
  <2>4. committed[at] \in {bundle.conns[at], None} BY <2>1 DEF DeployInv
  <2>5. ASSUME NEW c \in Conns, c = at PROVE ~Drifted(c)'
    BY <2>1, <2>2, <2>4, <2>5 DEF Drifted
  <2>6. ASSUME NEW c \in Conns, c # at, Drifted(c)' PROVE Drifted(c)
    BY <2>1, <2>2, <2>6 DEF Drifted
  <2> QED BY <2>3, <2>5, <2>6 DEF DriftStep
<1>5. ASSUME NEW c \in Conns, Keep(c) PROVE DeployInv' /\ DriftStep
  <2>1. saved' = saved \/ SetConn(c) BY <1>5 DEF Keep
  <2>2. pc = "apply" /\ pc' = "apply" /\ committed' = committed /\ saved[c].fingerprint = bundle.conns[c]
    BY <1>5 DEF Keep, Applied
  <2>3. CASE SetConn(c)
    <3>1. /\ saved'[c].fingerprint = bundle.conns[c]
          /\ \A d \in Conns \ {c} : saved'[d] = saved[d]
      BY <1>1, <2>3 DEF SetConn
    <3>2. \A d \in Conns : saved'[d].fingerprint = saved[d].fingerprint BY <2>2, <3>1
    <3> QED BY <1>2, <2>2, <3>2 DEF DeployInv, Record
  <2>4. CASE saved' = saved BY <1>2, <2>2, <2>4 DEF DeployInv, Record
  <2> QED BY <2>1, <2>3, <2>4
<1>6. ASSUME NEW c \in Conns, Redeploy(c) PROVE DeployInv' /\ DriftStep
  BY <1>1, <1>2, <1>6 DEF Redeploy, DeployInv, Record
<1>7. ASSUME NEW c \in Conns, Deploy(c) PROVE DeployInv' /\ DriftStep
  BY <1>1, <1>2, <1>7 DEF Deploy, DeployInv, Record
<1>8. ASSUME NEW c \in Conns, Damage(c) PROVE DeployInv' /\ DriftStep
  <2>1. \A d \in Conns : committed'[d] \in {committed[d], None} BY <1>1, <1>8 DEF Damage
  <2>2. ~Record BY <1>8, <1>1 DEF Damage, Record
  <2> QED BY <1>1, <1>2, <1>8, <2>1, <2>2 DEF Damage, DeployInv
<1>9. CASE Delete \/ RemoveFails
  <2>1. pc' \notin {"activate", "record"} /\ saved' = saved /\ ~Record
    BY <1>9 DEF Delete, RemoveFails, Record
  <2>2. \A d \in Conns : committed'[d] \in {committed[d], None}
    BY <1>1, <1>9 DEF Delete, RemoveFails
  <2> QED BY <1>2, <2>1, <2>2 DEF DeployInv
<1>10. CASE Forget
  <2>1. pc' = "remove" /\ committed' = committed /\ ~Record BY <1>10 DEF Forget, Record
  <2>2. \A d \in Conns : saved'[d].fingerprint \in {saved[d].fingerprint, None}
    BY <1>1, <1>10 DEF Forget, RemoveConn, Unknown
  <2> QED BY <1>2, <2>1, <2>2 DEF DeployInv
<1>11. CASE StateLost
  <2>1. pc' = "idle" /\ committed' = committed /\ ~Record BY <1>11 DEF StateLost, Record
  <2>2. \A d \in Conns : saved'[d].fingerprint = None BY <1>11 DEF StateLost, Unknown
  <2> QED BY <1>2, <2>1, <2>2 DEF DeployInv
<1>12. ASSUME PrepareBinaryFails \/ Blame \/ \E c \in Conns : Reject(c) PROVE DeployInv' /\ DriftStep
  <2>1. pc' \notin {"activate", "record"} /\ committed' = committed /\ ~Record
    BY <1>12 DEF PrepareBinaryFails, Blame, Reject, Record
  <2>2. \A d \in Conns : saved'[d].fingerprint = saved[d].fingerprint
    BY <1>1, <1>12, FailureKeepsFingerprints DEF PrepareBinaryFails, Blame, Reject
  <2> QED BY <1>2, <2>1, <2>2 DEF DeployInv
\* Steps that change neither state.json nor a deployment.
<1>13. ASSUME UNCHANGED <<saved, committed>>, ~Record, \/ pc' \notin {"activate", "record"}
                                                     \/ UNCHANGED <<pc, at, pending, bundle>>
       PROVE  DeployInv' /\ DriftStep
  BY <1>2, <1>13 DEF DeployInv
<1>14. CASE Begin \/ InventoryFails \/ Disable \/ Removed \/ PrepareBinary \/ AllApplied \/ Succeed \/ Fail
  BY <1>13, <1>14
  DEF Begin, InventoryFails, Disable, Removed, PrepareBinary, AllApplied, Succeed, Fail, Record
<1>15. CASE ActivateFails \/ EnableFails \/ PersistFails \/ AgentCrash \/ HostReboot
  <2>1. pc' \in {"idle", "blame", "apply"} /\ UNCHANGED <<saved, committed>>
    BY <1>15 DEF ActivateFails, EnableFails, PersistFails, AgentCrash, HostReboot
  <2>2. DeployInv' BY <2>1 DEF DeployInv
  <2>3. CASE Record BY <1>4, <2>3
  <2> QED BY <1>13, <2>1, <2>3
<1>16. ASSUME NEW c \in Conns, Stop(c) \/ RejectUnrecorded(c) \/ StageFails(c) \/ RecoveryFails(c)
       PROVE  DeployInv' /\ DriftStep
  BY <1>13, <1>16 DEF Stop, RejectUnrecorded, StageFails, RecoveryFails, Record
<1>17. ASSUME Retire \/ UNCHANGED vars \/
              \E c \in Conns : \/ ProcessDies(c) \/ DeleteConnection(c)
                             \/ \E x \in Content \cup {Broken} : Edit(c, x)
       PROVE  DeployInv' /\ DriftStep
  BY <1>13, <1>17 DEF Retire, vars, ProcessDies, DeleteConnection, Edit, Record
<1> QED BY <1>3, <1>4, <1>5, <1>6, <1>7, <1>8, <1>9, <1>10, <1>11, <1>12, <1>14, <1>15, <1>16, <1>17
   DEF Next, Run, Removal, Application, Failure, Environment

LEMMA DeployInvariance == Spec => []DeployInv
<1>1. Init => DeployInv BY DEF Init, DeployInv
<1> QED BY <1>1, DeployPreserved, Invariance, PTL DEF Spec

\* When a success is acknowledged over a deployment of another bundle, state.json has the
\* fingerprint of the bundle for it: the connection drifted (connections.go:85-135).
THEOREM DriftAloneMisleads == Spec => []OnlyDriftMisleads
<1>1. IInv => OnlyDriftMisleads
  BY ConstantsAssumption
  DEF IInv, TypeOK, SuccessIsComplete, InventoryInv, Gone, OnlyDriftMisleads, Drifted
<1> QED BY <1>1, Invariance, PTL

\* A connection drifts only when its generation is activated, and not beyond the step that
\* records it: every lasting drift is a call that stopped or failed between the two.
THEOREM ActivateAloneDrifts == Spec => OnlyActivateDrifts
<1>1. IInv /\ DeployInv /\ [Next]_vars => DriftStep BY DeployPreserved
<1> QED BY <1>1, Invariance, DeployInvariance, PTL DEF Spec, OnlyActivateDrifts, DriftStep

\* If every activation is recorded before anything else happens to the call, a success means
\* that the deployments on disk are those of the bundle: what connections.go:29-30 says.
THEOREM RecordedIsDeployed == Spec /\ [][ActivationsRecorded]_vars => []SuccessIsDeployed
<1> DEFINE Tracked == \A c \in Conns : Drifted(c) => pc = "record" /\ at = c
<1>1. Init => Tracked BY ConstantsAssumption DEF Init, Drifted, Unknown
<1>2. IInv /\ DeployInv /\ Tracked /\ [Next]_vars /\ [ActivationsRecorded]_vars => Tracked'
  <2> SUFFICES ASSUME IInv, DeployInv, Tracked, [Next]_vars, [ActivationsRecorded]_vars,
                      NEW c \in Conns, Drifted(c)'
               PROVE  pc' = "record" /\ at' = c
    OBVIOUS
  <2>1. Drifted(c) \/ (Activate /\ c = at) BY DeployPreserved DEF DriftStep
  <2>2. CASE Activate /\ c = at BY <2>2 DEF Activate, Goto
  <2>3. CASE Drifted(c)
    <3>1. pc = "record" /\ at = c BY <2>3
    <3>2. ~Record BY <3>1, DeployPreserved DEF DriftStep
    <3>3. pc' = "record" BY <3>1, <3>2 DEF ActivationsRecorded, vars
    <3>4. at' = at
      BY <3>1, <3>2, <3>3
      DEF Next, Run, Removal, Application, Failure, Environment, Goto, Return, call,
          Begin, InventoryFails, Stop, Disable, Delete, Forget, RemoveFails, Removed,
          PrepareBinary, PrepareBinaryFails, Reject, RejectUnrecorded, Keep, Redeploy,
          Deploy, RecoveryFails, Activate, StageFails, ActivateFails, EnableFails, Blame, PersistFails,
          AllApplied, Succeed, Fail, Edit, DeleteConnection, Retire, AgentCrash, StateLost,
          HostReboot, ProcessDies, Damage, vars
    <3> QED BY <3>1, <3>3, <3>4
  <2> QED BY <2>1, <2>2, <2>3
<1>3. IInv /\ Tracked => SuccessIsDeployed
  <2> SUFFICES ASSUME IInv, Tracked, outcome = "ok", NEW c \in Conns
               PROVE  committed[c] \in {bundle.conns[c], None}
    BY DEF SuccessIsDeployed
  <2>1. pc = "idle" BY DEF IInv, StepInv
  <2>2. ~Drifted(c) BY <2>1
  <2> QED BY <2>2, ConstantsAssumption
    DEF IInv, TypeOK, SuccessIsComplete, InventoryInv, Gone, Drifted
<1> HIDE DEF Tracked
<1> QED BY <1>1, <1>2, <1>3, Invariance, DeployInvariance, PTL DEF Spec

---------------------------------------------------------------------------
(* One side of ConfigSync.                                                  *)

\* Revisions count from 1.
HasRevision == target # 0

LEMMA TargetStep == IInv /\ HasRevision /\ [Next]_vars => HasRevision'
<1> SUFFICES ASSUME IInv, HasRevision, [Next]_vars PROVE target' \in {target, target + 1}
  BY DEF IInv, TypeOK, HasRevision
<1>1. CASE Retire \/ \E c \in Conns : DeleteConnection(c) \/ \E x \in Content \cup {Broken} : Edit(c, x)
  BY <1>1 DEF Retire, DeleteConnection, Edit
<1>2. CASE UNCHANGED plane BY <1>2 DEF plane
<1> QED
  BY <1>1, <1>2 DEF Next, Run, Failure, Environment, Begin, Succeed, Fail, InventoryFails, PrepareBinaryFails,
     AgentCrash, StateLost, HostReboot, Removal, Disable, Delete, Forget, Removed, Stop, Application,
     PrepareBinary, Activate, Record, Blame, AllApplied, Reject, Keep, Redeploy, Deploy, RecoveryFails,
     RemoveFails, ActivateFails, EnableFails, PersistFails, RejectUnrecorded, StageFails, ProcessDies, Damage, plane, vars

LEMMA SyncStep == IInv /\ HasRevision /\ [Next]_vars => [Sync!Next]_(Sync!vars)
<1> SUFFICES ASSUME IInv, target # 0, [Next]_vars PROVE [Sync!Next]_(Sync!vars)
  BY DEF HasRevision
<1>1. target \in Nat /\ bundle.version \in Nat BY DEF IInv, TypeOK
<1>2. CASE Begin
  BY <1>2 DEF Begin, Goto, plane, state, Sync!Next, Sync!Fetch, Sync!numbering
<1>3. CASE Succeed
  <2>1. /\ pc = "save" /\ pc' = "idle" /\ hostVersion' = bundle.version /\ UNCHANGED <<target, retired>>
    BY <1>3 DEF Succeed, Return, plane
  <2>2. CASE bundle.version = 0 BY <2>1, <2>2 DEF Sync!Next, Sync!Drop, Sync!numbering
  <2>3. CASE bundle.version # 0 BY <2>1, <2>3 DEF Sync!Next, Sync!Apply, Sync!numbering
  <2> QED BY <2>2, <2>3
<1>4. CASE Fail \/ InventoryFails \/ PrepareBinaryFails \/ AgentCrash \/ StateLost \/ HostReboot
  BY <1>4 DEF Fail, InventoryFails, PrepareBinaryFails, AgentCrash, StateLost, HostReboot, Return,
     plane, state, Sync!Next, Sync!Drop, Sync!numbering
<1>5. CASE Retire \/ \E c \in Conns : DeleteConnection(c) \/ \E x \in Content \cup {Broken} : Edit(c, x)
  <2>1. ~retired /\ target' = target + 1 /\ UNCHANGED <<pc, bundle, hostVersion>>
    BY <1>5 DEF Retire, DeleteConnection, Edit, call, state
  <2>2. retired' = TRUE \/ retired' = retired BY <1>5 DEF Retire, DeleteConnection, Edit
  <2> QED BY <1>1, <1>5, <2>1, <2>2 DEF Sync!Next, Sync!Edit, Sync!Renumber, Sync!Change, Sync!Increase, Sync!Retire
<1>6. CASE UNCHANGED <<target, retired, bundle, hostVersion>> /\ (pc = "idle" <=> pc' = "idle")
  BY <1>6 DEF Sync!vars
<1>7. CASE Removal \/ Application
  BY <1>6, <1>7 DEF Removal, Disable, Delete, Forget, Removed, Stop, Application, PrepareBinary, Activate,
     Record, Blame, AllApplied, Reject, Keep, Redeploy, Deploy, RecoveryFails,
     Goto, plane, state, call
<1>8. CASE RemoveFails \/ ActivateFails \/ EnableFails \/ PersistFails
           \/ \E c \in Conns : RejectUnrecorded(c) \/ StageFails(c)
  BY <1>6, <1>8 DEF RemoveFails, ActivateFails, EnableFails, PersistFails, RejectUnrecorded, StageFails,
     Goto, plane, state, call
<1>9. CASE \E c \in Conns : ProcessDies(c) \/ Damage(c)
  BY <1>6, <1>9 DEF ProcessDies, Damage, plane, state, call
<1>10. CASE UNCHANGED vars BY <1>6, <1>10 DEF vars
<1> QED BY <1>2, <1>3, <1>4, <1>5, <1>7, <1>8, <1>9, <1>10 DEF Next, Run, Failure, Environment

\* A reconciliation with all its steps, failures and restarts is a delivery of ConfigSync:
\* what it persists is the revision it was handed, and only at its end (connections.go:124-135).
THEOREM ReconcileSyncs == Spec => Syncs
<1>1. Init => Sync!Init /\ HasRevision BY DEF Init, Sync!Init, HasRevision
<1> QED BY <1>1, TargetStep, SyncStep, Invariance, PTL DEF Spec, Syncs, Sync!Spec

LEMMA SyncBounded == Spec => []Sync!NeverAhead
<1>1. Sync!Init => Sync!NeverAhead BY DEF Sync!Init, Sync!NeverAhead
<1>2. Sync!NeverAhead /\ [Sync!Next]_(Sync!vars) => Sync!NeverAhead'
  BY DEF Sync!NeverAhead, Sync!Next, Sync!Edit, Sync!Renumber, Sync!Change, Sync!Increase, Sync!Retire,
     Sync!Fetch, Sync!Apply, Sync!Drop, Sync!numbering, Sync!vars
<1> QED BY <1>1, <1>2, ReconcileSyncs, PTL DEF Syncs, Sync!Spec

\* The host is never behind the revision it has persisted nor set back to an older one,
\* unless state.json is lost.
THEOREM HostNeverOlder == Spec => []Sync!NeverAhead /\ Sync!NeverOlder
<1>1. Sync!NeverAhead /\ [Sync!Next]_(Sync!vars) => [hostVersion' >= hostVersion \/ hostVersion' = 0]_(Sync!vars)
  BY DEF Sync!NeverAhead, Sync!Next, Sync!Edit, Sync!Fetch, Sync!Apply, Sync!Drop, Sync!vars
<1> QED BY <1>1, ReconcileSyncs, SyncBounded, PTL DEF Syncs, Sync!Spec, Sync!NeverOlder

---------------------------------------------------------------------------
(* What a reconciliation leaves alone.                                      *)

\* A connection keeps its deployments, its unit and its process, its bundle and what
\* state.json knows of its content.
Left(c) ==
  /\ bundle' = bundle
  /\ (saved[c].known => saved'[c].known) /\ saved'[c].fingerprint = saved[c].fingerprint
  /\ proc'[c] = proc[c] /\ enabled'[c] = enabled[c]
  /\ committed'[c] = committed[c] /\ pending'[c] = pending[c] /\ stuck'[c] = stuck[c]

LEMMA LeftSettled ==
  ASSUME NEW c \in Conns, Settled(c), Left(c)
  PROVE  /\ Settled(c)'
         /\ <<proc[c], enabled[c], committed[c], pending[c]>>'
              = <<proc[c], enabled[c], committed[c], pending[c]>>
BY DEF Left, Settled, Applied, FilesExist

LEMMA SettledLeft ==
  ASSUME IInv, DeployInv, NEW c \in Conns, pc # "idle", Settled(c), Run \/ Failure
  PROVE  Left(c)
<1> USE ConstantsAssumption DEF Left, plane, state, instance, unit, call, Goto, Return
<1>1. /\ saved \in [Conns -> Entry] /\ committed \in [Conns -> Content \cup {None}]
      /\ pending \in [Conns -> Content \cup {None}] /\ stuck \in [Conns -> BOOLEAN]
      /\ proc \in [Conns -> Content \cup {None}] /\ enabled \in [Conns -> BOOLEAN]
      /\ bundle.conns \in [Conns -> Content \cup {None, Broken}]
  BY DEF IInv, TypeOK, Entry
<1>2. bundle.conns[c] # None BY DEF Settled
\* The call works on another connection when it removes, and when it activates or blames.
<1>3. pc = "remove" => c \notin todo BY <1>2 DEF IInv, StepInv
<1>4. pc \in Removing => at # c BY <1>2 DEF IInv, StepInv, Removing
<1>5. pc \in {"activate", "record", "blame"} =>
        at \in Conns /\ bundle.conns[at] \notin {None, Broken}
  BY DEF IInv, StepInv, Applying
<1>6. pc = "activate" => at # c
  <2> SUFFICES ASSUME pc = "activate", at = c PROVE FALSE
    OBVIOUS
  <2>1. pending[c] # None BY <1>2 DEF DeployInv
  <2> QED BY <1>5, <2>1 DEF Settled, Applied, FilesExist
<1>7. ~Stale(c) BY DEF Stale, Settled
<1>8. ASSUME NEW S \in SUBSET Conns, SetConnFailure(S), bundle' = bundle,
             UNCHANGED <<instance, unit>>
      PROVE  Left(c)
  <2>1. saved'[c].fingerprint = saved[c].fingerprint BY <1>1, <1>8, FailureKeepsFingerprints
  <2>2. saved'[c] = saved[c] \/ saved'[c] = [saved[c] EXCEPT !.known = TRUE, !.error = TRUE]
    BY <1>8 DEF SetConnFailure
  <2>3. saved[c].known => saved'[c].known BY <1>1, <2>2 DEF Entry
  <2> QED BY <1>8, <2>1, <2>3
<1>9. CASE Begin \/ InventoryFails
  BY <1>9 DEF Begin, InventoryFails
<1>10. ASSUME NEW d \in Conns, Stop(d) PROVE Left(c)
  BY <1>1, <1>3, <1>10 DEF Stop
<1>11. CASE Disable \/ Delete \/ Forget
  BY <1>1, <1>4, <1>11 DEF Disable, Delete, Forget, RemoveConn, Removing
<1>12. CASE RemoveFails
  BY <1>1, <1>3, <1>4, <1>12 DEF RemoveFails, Removing
<1>13. CASE Removed \/ PrepareBinary \/ AllApplied \/ Succeed \/ Fail \/ EnableFails \/ PersistFails
  BY <1>13 DEF Removed, PrepareBinary, AllApplied, Succeed, Fail, EnableFails, PersistFails
<1>14. CASE PrepareBinaryFails
  BY <1>8, <1>14 DEF PrepareBinaryFails, Desired
<1>15. CASE Blame
  BY <1>5, <1>8, <1>15 DEF Blame
<1>16. ASSUME NEW d \in Conns, Reject(d) PROVE Left(c)
  BY <1>8, <1>16 DEF Reject
<1>17. CASE Activate \/ ActivateFails
  BY <1>1, <1>5, <1>6, <1>17 DEF Activate, ActivateFails, GoBack
<1>18. CASE Record
  <2>1. at \in Conns /\ SetConn(at) BY <1>5, <1>18 DEF Record
  <2>2. CASE at = c
    <3>1. saved[c].fingerprint = bundle.conns[c] BY <1>5, <1>18, <2>2 DEF Record, Settled, Applied
    <3> QED BY <1>1, <1>18, <2>1, <2>2, <3>1 DEF Record, SetConn, Entry
  <2>3. CASE at # c BY <1>1, <1>18, <2>1, <2>3 DEF Record, SetConn
  <2> QED BY <2>2, <2>3
<1>19. ASSUME NEW d \in Conns, Keep(d) PROVE Left(c)
  <2>1. saved' = saved \/ SetConn(d) BY <1>19 DEF Keep
  <2>2. saved[d].fingerprint = bundle.conns[d] BY <1>19 DEF Keep, Applied
  <2>3. CASE SetConn(d) BY <1>1, <1>19, <2>2, <2>3 DEF Keep, SetConn, Entry
  <2>4. CASE saved' = saved BY <1>19, <2>4 DEF Keep
  <2> QED BY <2>1, <2>3, <2>4
<1>20. ASSUME NEW d \in Conns, Redeploy(d) \/ Deploy(d) \/ RecoveryFails(d) \/ StageFails(d)
       PROVE  Left(c)
  <2>1. d # c BY <1>7, <1>20 DEF Redeploy, Deploy, RecoveryFails, StageFails
  <2> QED BY <1>1, <1>20, <2>1 DEF Redeploy, Deploy, RecoveryFails, StageFails
<1>21. ASSUME NEW d \in Conns, RejectUnrecorded(d) PROVE Left(c)
  BY <1>21 DEF RejectUnrecorded
<1> QED
  BY <1>9, <1>10, <1>11, <1>12, <1>13, <1>14, <1>15, <1>16, <1>17, <1>18, <1>19, <1>20, <1>21
  DEF Run, Failure, Removal, Application

Undisturbed ==
  \A c \in Conns : pc # "idle" /\ Settled(c) /\ (Run \/ Failure) =>
       Settled(c)' /\ <<proc[c], enabled[c], committed[c], pending[c]>>'
                       = <<proc[c], enabled[c], committed[c], pending[c]>>

\* One connection's failure, removal or redeployment leaves alone the connections that need
\* nothing and those that cannot be rendered (connections.go:85-135).
THEOREM SettledUndisturbed == Spec => OnlyChangesDisturb
<1>1. IInv /\ DeployInv => Undisturbed BY SettledLeft, LeftSettled DEF Undisturbed
<1> QED BY <1>1, Invariance, DeployInvariance, PTL DEF Spec, OnlyChangesDisturb, Undisturbed
=============================================================================
