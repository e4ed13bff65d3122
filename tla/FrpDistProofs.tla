---------------------------- MODULE FrpDistProofs ----------------------------
(* Proofs about FrpDist, for any archives, any number of administrators, of      *)
(* operations and of faults.                                                *)
EXTENDS FrpDist, TLAPS

LEMMA InvariantInitially == Init => IInv
<1> SUFFICES ASSUME Init PROVE IInv
  OBVIOUS
<1> USE ConstantsAssumption DEF ConstantsAssumption, Init, NoRow, NoOp, NoFetch, NoBinary
<1>1. TypeOK
  <2>1. file \in Archives \cup {None, Junk} /\ published \subseteq Archives
        /\ row \in [id : Nat, digest : Archives \cup {None}] /\ ids \in Nat /\ row.id <= ids
    <3>1. CASE file = None /\ row = NoRow /\ ids = 0 /\ published = {} BY <3>1
    <3>2. CASE \E a \in Archives : file = a /\ row = [id |-> 1, digest |-> None] /\ ids = 1 /\ published = {a}
      BY <3>2
    <3> QED BY <3>1, <3>2
  <2>2. fetch \in [step : {"idle", "offer", "bundle", "downloaded"}, digest : Archives \cup {None},
                   content : Archives \cup {None, Junk}]
        /\ installed \in [archive : Archives \cup {None}, checked : BOOLEAN]
    OBVIOUS
  <2>3. op \in [Admins -> [step : {"idle", "rename", "upsert", "remove", "drop"},
                           archive : Archives \cup {None}, id : Nat, alone : BOOLEAN]]
    OBVIOUS
  <2>4. settled \in Archives \cup {None} /\ ops \in 0..MaxOps /\ faults \in 0..MaxFaults
    OBVIOUS
  <2>5. calm \in BOOLEAN OBVIOUS
  <2> HIDE DEF Init
  <2> QED BY <2>1, <2>2, <2>3, <2>4, <2>5 DEF TypeOK
<1>2. DigestInv BY DEF DigestInv
<1>3. InstalledIsPublished BY DEF InstalledIsPublished
<1> QED BY <1>1, <1>2, <1>3 DEF IInv

\* Operations of administrators: what they record is published with it.
LEMMA OperationStep ==
  ASSUME IInv, NEW u \in Admins,
         \/ \E a \in Archives : UploadFRPDist(u, a)
         \/ Operate(u) \/ DeleteFRPDist(u) \/ Abort(u)
  PROVE  IInv'
<1> USE ConstantsAssumption DEF ConstantsAssumption, IInv, NoOp, NoRow
<1>0. op[u] \in [step : {"idle", "rename", "upsert", "remove", "drop"},
                 archive : Archives \cup {None}, id : Nat, alone : BOOLEAN]
  BY DEF TypeOK
<1>1. ASSUME NEW o \in [step : {"rename", "remove"}, archive : Archives \cup {None},
                        id : Nat, alone : BOOLEAN],
             o.step = "rename" => o.archive \in Archives, Begin(u, o)
      PROVE  IInv'
  <2>1. op' \in [Admins -> [step : {"idle", "rename", "upsert", "remove", "drop"},
                            archive : Archives \cup {None}, id : Nat, alone : BOOLEAN]]
    BY <1>1 DEF Begin, TypeOK
  <2>4. ops' \in 0..MaxOps BY <1>1 DEF Begin, TypeOK
  <2>5. TypeOK' BY <1>1, <2>1, <2>4 DEF Begin, TypeOK, agent
  <2>2. DigestInv' BY <1>1 DEF Begin, DigestInv, TypeOK, agent
  <2>3. InstalledIsPublished' BY <1>1 DEF Begin, InstalledIsPublished, agent
  <2> QED BY <2>5, <2>2, <2>3
<1>2. CASE \E a \in Archives : UploadFRPDist(u, a)
  <2>1. PICK a \in Archives : UploadFRPDist(u, a) BY <1>2
  <2> DEFINE o == [step |-> "rename", archive |-> a, id |-> 0, alone |-> \A v \in Admins : op[v].step = "idle"]
  <2>2. o \in [step : {"rename", "remove"}, archive : Archives \cup {None}, id : Nat, alone : BOOLEAN]
    OBVIOUS
  <2> QED BY <1>1, <2>1, <2>2 DEF UploadFRPDist
<1>3. CASE DeleteFRPDist(u)
  BY <1>1, <1>3 DEF DeleteFRPDist, TypeOK
<1>4. CASE Rename(u)
  <2>1. TypeOK' BY <1>4 DEF Rename, Goto, TypeOK, DigestInv, agent
  <2>2. DigestInv' BY <1>4, <1>0 DEF Rename, Goto, DigestInv, TypeOK, agent
  <2>3. InstalledIsPublished' BY <1>4 DEF Rename, InstalledIsPublished, agent
  <2> QED BY <2>1, <2>2, <2>3
<1>5. CASE Upsert(u)
  <2>1. op[u].archive \in Archives BY <1>5 DEF Upsert, DigestInv
  <2>2. TypeOK' BY <1>5, <2>1 DEF Upsert, Upserted, End, TypeOK, agent
  <2>3. DigestInv' BY <1>5, <2>1 DEF Upsert, Upserted, End, DigestInv, TypeOK, agent
  <2>4. InstalledIsPublished' BY <1>5 DEF Upsert, InstalledIsPublished, agent
  <2> QED BY <2>2, <2>3, <2>4
<1>6. CASE RemoveFile(u)
  <2>1. TypeOK' BY <1>6 DEF RemoveFile, Goto, TypeOK, agent
  <2>2. DigestInv' BY <1>6, <1>0 DEF RemoveFile, Goto, DigestInv, TypeOK, agent
  <2>3. InstalledIsPublished' BY <1>6 DEF RemoveFile, InstalledIsPublished, agent
  <2> QED BY <2>1, <2>2, <2>3
<1>7. CASE DropRow(u)
  <2>1. TypeOK' BY <1>7 DEF DropRow, End, TypeOK, agent
  <2>2. DigestInv' BY <1>7 DEF DropRow, End, DigestInv, TypeOK, agent
  <2>3. InstalledIsPublished' BY <1>7 DEF DropRow, InstalledIsPublished, agent
  <2> QED BY <2>1, <2>2, <2>3
<1>8. CASE Abort(u)
  <2>1. TypeOK' BY <1>8 DEF Abort, Fault, End, TypeOK, store, agent
  <2>2. DigestInv' BY <1>8 DEF Abort, End, DigestInv, TypeOK, store, agent
  <2>3. InstalledIsPublished' BY <1>8 DEF Abort, InstalledIsPublished, store, agent
  <2> QED BY <2>1, <2>2, <2>3
<1> QED BY <1>2, <1>3, <1>4, <1>5, <1>6, <1>7, <1>8 DEF Operate

\* The agent, and what may happen to it and to the disk: a digest that is offered was
\* published, and what does not have it is not installed.
LEMMA AgentStep ==
  ASSUME IInv, Damage \/ Calm \/ ReadRow \/ Offer \/ Keep \/ Download \/ Install \/ Interrupt
  PROVE  IInv'
<1> USE ConstantsAssumption DEF ConstantsAssumption, IInv, NoFetch, NoBinary
<1>1. CASE Damage
  <2>4. op' \in [Admins -> [step : {"idle", "rename", "upsert", "remove", "drop"},
                            archive : Archives \cup {None}, id : Nat, alone : BOOLEAN]]
    <3>1. op' = [u \in Admins |-> [op[u] EXCEPT !.alone = FALSE]]
      BY <1>1 DEF Damage
    <3>2. ASSUME NEW u \in Admins
          PROVE  [op[u] EXCEPT !.alone = FALSE] \in
                   [step : {"idle", "rename", "upsert", "remove", "drop"},
                    archive : Archives \cup {None}, id : Nat, alone : BOOLEAN]
      <4>1. op[u] \in [step : {"idle", "rename", "upsert", "remove", "drop"},
                       archive : Archives \cup {None}, id : Nat, alone : BOOLEAN]
        BY DEF TypeOK
      <4> QED BY <4>1
    <3> QED BY <3>1, <3>2
  <2>5. faults' \in 0..MaxFaults BY <1>1 DEF Damage, Fault, TypeOK
  <2>1. TypeOK' BY <1>1, <2>4, <2>5 DEF Damage, TypeOK, agent
  <2>2. DigestInv' BY <1>1 DEF Damage, DigestInv, TypeOK, agent
  <2>3. InstalledIsPublished' BY <1>1 DEF Damage, InstalledIsPublished, agent
  <2> QED BY <2>1, <2>2, <2>3
<1>2. CASE Calm
  BY <1>2 DEF Calm, TypeOK, DigestInv, InstalledIsPublished, store, agent
<1>3. CASE ReadRow
  <2>1. TypeOK' BY <1>3 DEF ReadRow, FetchUnchanged, TypeOK, store
  <2>2. DigestInv' BY <1>3 DEF ReadRow, FetchUnchanged, DigestInv, store
  <2>3. InstalledIsPublished' BY <1>3 DEF ReadRow, FetchUnchanged, InstalledIsPublished, store
  <2> QED BY <2>1, <2>2, <2>3
<1>4. CASE Offer
  <2>1. TypeOK' BY <1>4 DEF Offer, FetchUnchanged, TypeOK, store
  <2>2. DigestInv' BY <1>4 DEF Offer, FetchUnchanged, DigestInv, TypeOK, store
  <2>3. InstalledIsPublished' BY <1>4 DEF Offer, FetchUnchanged, InstalledIsPublished, store
  <2> QED BY <2>1, <2>2, <2>3
<1>5. CASE Keep
  BY <1>5 DEF Keep, FetchUnchanged, TypeOK, DigestInv, InstalledIsPublished, store
<1>6. CASE Download
  <2>1. TypeOK' BY <1>6 DEF Download, FetchUnchanged, TypeOK, store
  <2>2. DigestInv' BY <1>6 DEF Download, FetchUnchanged, DigestInv, TypeOK, store
  <2>3. InstalledIsPublished' BY <1>6 DEF Download, FetchUnchanged, InstalledIsPublished, store
  <2> QED BY <2>1, <2>2, <2>3
<1>7. CASE Install
  <2>1. TypeOK' BY <1>7 DEF Install, Executable, FetchUnchanged, TypeOK, store
  <2>2. DigestInv' BY <1>7 DEF Install, FetchUnchanged, DigestInv, store
  <2>3. InstalledIsPublished'
    BY <1>7 DEF Install, Verified, Executable, FetchUnchanged, InstalledIsPublished, DigestInv, store
  <2> QED BY <2>1, <2>2, <2>3
<1>8. CASE Interrupt
  <2>1. faults' \in 0..MaxFaults BY <1>8 DEF Interrupt, Fault, TypeOK
  <2>5. installed' \in [archive : Archives \cup {None}, checked : BOOLEAN]
        /\ fetch' \in [step : {"idle", "offer", "bundle", "downloaded"}, digest : Archives \cup {None},
                       content : Archives \cup {None, Junk}]
    <3>1. fetch' = NoFetch /\ (installed' = installed \/ installed' = NoBinary)
      BY <1>8 DEF Interrupt
    <3>2. installed' \in [archive : Archives \cup {None}, checked : BOOLEAN]
      <4>1. installed \in [archive : Archives \cup {None}, checked : BOOLEAN] BY DEF TypeOK
      <4>2. NoBinary \in [archive : Archives \cup {None}, checked : BOOLEAN] OBVIOUS
      <4> HIDE DEF NoBinary
      <4> QED BY <3>1, <4>1, <4>2
    <3> QED BY <3>1, <3>2
  <2>2. TypeOK' BY <1>8, <2>1, <2>5 DEF Interrupt, TypeOK, store
  <2>3. DigestInv' BY <1>8 DEF Interrupt, DigestInv, store
  <2>4. InstalledIsPublished' BY <1>8 DEF Interrupt, InstalledIsPublished, store
  <2> QED BY <2>2, <2>3, <2>4
<1> QED BY <1>1, <1>2, <1>3, <1>4, <1>5, <1>6, <1>7, <1>8

LEMMA InvariantStep == IInv /\ [Next]_vars => IInv'
<1> SUFFICES ASSUME IInv, [Next]_vars PROVE IInv'
  OBVIOUS
<1>1. CASE Next BY <1>1, OperationStep, AgentStep DEF Next
<1>2. CASE UNCHANGED vars
  BY <1>2 DEF vars, IInv, TypeOK, DigestInv, InstalledIsPublished
<1> QED BY <1>1, <1>2

\* Types of the variables, in every state that FrpDist reaches.
THEOREM TypeCorrect == Spec => []TypeOK
<1>1. IInv => TypeOK BY DEF IInv
<1> QED BY <1>1, InvariantInitially, InvariantStep, PTL DEF Spec

\* However uploads, deletions, stops and damage interleave with the agent's download, what
\* it installs runs, and comes from a published archive when there was a digest to check
\* (service/frp_dist.go, frp/installer.go:44-92).
THEOREM InstalledPublished == Spec => []InstalledIsPublished
<1>1. IInv => InstalledIsPublished BY DEF IInv
<1> QED BY <1>1, InvariantInitially, InvariantStep, PTL DEF Spec
=============================================================================
