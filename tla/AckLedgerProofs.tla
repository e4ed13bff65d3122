-------------------------- MODULE AckLedgerProofs --------------------------
(* Proofs about AckLedger, for any number of revisions and faults, and for any *)
(* loss, delay and order of the requests.                                   *)
EXTENDS AckLedger, TLAPS

LedgerRow == [applied : Nat, last : Nat, error : BOOLEAN]

\* What holds of a row and is kept by both ways of updating it.
RowInv(r) ==
  /\ r \in LedgerRow
  /\ r.applied <= r.last /\ r.last <= target
  /\ r.error <=> r.applied < r.last

\* A report moves the row forward, to the revision it carries or not at all
\* (service/agent.go:346-357).
LEMMA ReportMovesForward ==
  ASSUME target \in Nat, NEW r, RowInv(r), NEW v \in Nat
  PROVE  /\ RowInv(RecordAppliedVersion(r, v))
         /\ RecordAppliedVersion(r, v).applied \in {r.applied, v}
         /\ r.applied <= RecordAppliedVersion(r, v).applied
         /\ r.last <= RecordAppliedVersion(r, v).last
         /\ RecordAppliedVersion(r, v).error =>
              r.error /\ RecordAppliedVersion(r, v).last = r.last
<1> DEFINE s == RecordAppliedVersion(r, v)
<1>0. r.applied \in Nat /\ r.last \in Nat /\ r.error \in BOOLEAN /\ r.applied <= r.last
      /\ r.last <= target /\ (r.error <=> r.applied < r.last)
  BY DEF RowInv, LedgerRow
<1>1. CASE 0 < v /\ v <= target /\ r.applied < v
  <2> DEFINE l == Larger(r.last, v)
             e == r.error /\ r.last > v
  <2>1. /\ s = [applied |-> v, last |-> l, error |-> e]
        /\ l \in Nat /\ e \in BOOLEAN
    BY <1>0, <1>1 DEF RecordAppliedVersion, Larger
  <2> HIDE DEF l, e
  <2>2. /\ s.applied = v /\ s.last = l /\ s.error = e /\ s \in LedgerRow
    BY <2>1 DEF LedgerRow
  <2>3. /\ r.last <= s.last /\ s.last <= target /\ v <= s.last
        /\ (r.last > v => s.last = r.last) /\ (~(r.last > v) => s.last = v)
    BY <1>0, <1>1, <2>2 DEF l, Larger
  <2> HIDE DEF s
  <2>7. s.error <=> (r.error /\ r.last > v)
    <3>1. s.error = e BY <2>2
    <3> QED BY <3>1, Zenon DEF e
  <2>4. s.error <=> s.applied < s.last
    BY <1>0, <1>1, <2>2, <2>3, <2>7
  <2>5. RowInv(s) BY <2>2, <2>3, <2>4 DEF RowInv
  <2>6. /\ s.applied \in {r.applied, v} /\ r.applied <= s.applied /\ r.last <= s.last
        /\ s.error => r.error /\ s.last = r.last
    BY <1>0, <1>1, <2>2, <2>3, <2>7
  <2> QED BY <2>5, <2>6 DEF s
<1>2. CASE ~(0 < v /\ v <= target /\ r.applied < v)
  <2>1. s = r BY <1>2 DEF RecordAppliedVersion
  <2> QED BY <1>0, <2>1
<1> QED BY <1>1, <1>2

\* An acknowledgement moves the row forward too, and an error it leaves is its own
\* or was there before (service/agent.go:363-383).
LEMMA AckMovesForward ==
  ASSUME target \in Nat, NEW r, RowInv(r), NEW v \in Nat, NEW ok \in BOOLEAN
  PROVE  /\ RowInv(RecordConfigAck(r, v, ok))
         /\ \/ RecordConfigAck(r, v, ok).applied = r.applied
            \/ ok /\ RecordConfigAck(r, v, ok).applied = v
         /\ r.applied <= RecordConfigAck(r, v, ok).applied
         /\ r.last <= RecordConfigAck(r, v, ok).last
         /\ RecordConfigAck(r, v, ok).error =>
              \/ r.error /\ RecordConfigAck(r, v, ok).last = r.last
              \/ ~ok /\ RecordConfigAck(r, v, ok).last = v
<1> DEFINE s == IF ok THEN RecordAppliedVersion(r, v) ELSE r
           accepted == v <= target /\ s.last <= v /\ (s.applied < v \/ (ok /\ s.applied = v))
           q == RecordConfigAck(r, v, ok)
<1>0. RowInv(r) /\ r \in LedgerRow /\ r.applied \in Nat /\ r.last \in Nat
  BY DEF RowInv, LedgerRow
<1>1. /\ RowInv(s) /\ s.applied \in {r.applied, v} /\ r.applied <= s.applied
      /\ r.last <= s.last /\ (s.error => r.error /\ s.last = r.last)
      /\ (~ok => s = r)
  <2>1. CASE ok BY <1>0, <2>1, ReportMovesForward
  <2>2. CASE ~ok BY <1>0, <2>2
  <2> QED BY <2>1, <2>2
<1>2. q = IF accepted THEN [s EXCEPT !.last = v, !.error = ~ok] ELSE s
  BY DEF RecordConfigAck
<1>3. s \in LedgerRow /\ s.applied \in Nat /\ s.last \in Nat /\ s.error \in BOOLEAN
      /\ s.applied <= s.last /\ s.last <= target /\ (s.error <=> s.applied < s.last)
  BY <1>1 DEF RowInv, LedgerRow
<1>4. s.applied = r.applied \/ (ok /\ s.applied = v)
  BY <1>1
<1> HIDE DEF s
<1>5. CASE accepted
  <2>1. /\ q.applied = s.applied /\ q.last = v /\ q \in LedgerRow
        /\ (q.error <=> ~ok)
    BY <1>2, <1>3, <1>5 DEF LedgerRow
  <2>2. v <= target /\ s.last <= v /\ (~ok => s.applied < v) /\ s.applied <= v
    BY <1>3, <1>5
  <2> HIDE DEF q, accepted
  <2>3. ok => s.applied = v
    BY <1>3, <1>4, <1>5, <1>0, <2>2 DEF s, accepted, RecordAppliedVersion
  <2>4. q.error <=> q.applied < q.last
    BY <2>1, <2>2, <2>3, <1>3
  <2>5. RowInv(q) BY <1>3, <2>1, <2>2, <2>4 DEF RowInv
  <2>6. /\ q.applied = r.applied \/ (ok /\ q.applied = v)
        /\ r.applied <= q.applied /\ r.last <= q.last
        /\ q.error => ~ok /\ q.last = v
    BY <1>0, <1>1, <1>3, <1>4, <2>1, <2>2
  <2> QED BY <2>5, <2>6 DEF q
<1>6. CASE ~accepted
  <2>1. q = s BY <1>2, <1>6
  <2> QED BY <1>1, <1>4, <2>1
<1> QED BY <1>5, <1>6

LEMMA InvariantInitially == Init => IInv
<1> SUFFICES ASSUME Init PROVE IInv
  OBVIOUS
<1>1. TypeOK BY DEF Init, TypeOK, Ack
<1>2. AppliedIsReal /\ ErrorIsCurrent /\ RetirementIsReal
  BY DEF Init, AppliedIsReal, ErrorIsCurrent, RetirementIsReal
<1>3. ClaimsInv /\ LedgerInv /\ RetirementInv
  BY DEF Init, ClaimsInv, LedgerInv, RetirementInv
<1> QED BY <1>1, <1>2, <1>3 DEF IInv

\* The inductive step, one case per action.
LEMMA InvariantStep == IInv /\ [Next]_vars => IInv'
<1> SUFFICES ASSUME IInv, [Next]_vars PROVE IInv'
  OBVIOUS
<1> USE DEF IInv
<1>0. RowInv(ledger)
  BY DEF RowInv, LedgerRow, TypeOK, LedgerInv, ErrorIsCurrent
<1>1. CASE Bump
  BY <1>1 DEF Bump, Retired, TypeOK, AppliedIsReal, ErrorIsCurrent, RetirementIsReal,
     ClaimsInv, LedgerInv, RetirementInv, agent, network, history, Ack
<1>2. CASE Retire
  <2>1. retirement' = [retirement EXCEPT !.version = target + 1]
        /\ retirement.version = 0 /\ UNCHANGED <<target, ledger, agent, network, history, faults>>
    BY <1>2 DEF Retire, Retired
  <2>2. ~retirement.completed BY <2>1 DEF RetirementInv
  <2>3. retirement'.version = target + 1 /\ retirement'.completed = retirement.completed
        /\ retirement' \in [version : Nat, completed : BOOLEAN, error : BOOLEAN]
    BY <2>1 DEF TypeOK
  <2>4. TypeOK' BY <2>1, <2>3 DEF TypeOK, agent, network, history
  <2>5. RetirementIsReal' /\ RetirementInv'
    BY <2>1, <2>2, <2>3 DEF RetirementIsReal, RetirementInv, TypeOK
  <2> QED BY <2>1, <2>4, <2>5 DEF AppliedIsReal, ErrorIsCurrent, ClaimsInv, LedgerInv,
             agent, network, history
<1>3. ASSUME NEW a \in acks, DeliverAck(a) PROVE IInv'
  <2>1. a \in Ack /\ a.version \in Nat /\ a.ok \in BOOLEAN /\ a.version # 0
        /\ a.version \in (IF a.ok THEN succeeded ELSE failed)
        /\ acks' = acks \ {a} /\ UNCHANGED <<target, agent, reports, history, faults>>
    BY <1>3 DEF DeliverAck, TypeOK, Ack, ClaimsInv
  <2>2. ClaimsInv' BY <2>1 DEF ClaimsInv, agent, history
  <2>3. CASE ~Retired
    <3> DEFINE q == RecordConfigAck(ledger, a.version, a.ok)
    <3>1. ledger' = q /\ UNCHANGED retirement BY <1>3, <2>3 DEF DeliverAck
    <3>2. /\ RowInv(q) /\ (q.applied = ledger.applied \/ (a.ok /\ q.applied = a.version))
          /\ q.error => \/ ledger.error /\ q.last = ledger.last
                        \/ ~a.ok /\ q.last = a.version
      <4>1. target \in Nat BY DEF TypeOK
      <4> DEFINE ver == a.version  suc == a.ok
      <4>2. ver \in Nat /\ suc \in BOOLEAN BY <2>1
      <4> HIDE DEF ver, suc
      <4>3. /\ RowInv(RecordConfigAck(ledger, ver, suc))
            /\ \/ RecordConfigAck(ledger, ver, suc).applied = ledger.applied
               \/ suc /\ RecordConfigAck(ledger, ver, suc).applied = ver
            /\ RecordConfigAck(ledger, ver, suc).error =>
                 \/ ledger.error /\ RecordConfigAck(ledger, ver, suc).last = ledger.last
                 \/ ~suc /\ RecordConfigAck(ledger, ver, suc).last = ver
        BY <1>0, <4>1, <4>2, AckMovesForward
      <4> QED BY <4>3 DEF ver, suc
    <3> HIDE DEF q
    <3>3. TypeOK' BY <2>1, <3>1, <3>2 DEF TypeOK, RowInv, LedgerRow, agent, history
    <3>4. AppliedIsReal' /\ ErrorIsCurrent' /\ LedgerInv'
      BY <2>1, <3>1, <3>2 DEF AppliedIsReal, ErrorIsCurrent, LedgerInv, RowInv, LedgerRow,
         TypeOK, history
    <3> QED BY <2>1, <2>2, <3>1, <3>3, <3>4 DEF RetirementIsReal, RetirementInv, history
  <2>4. CASE Retired
    <3>1. retirement' = RecordRetirementAck(retirement, a.version, a.ok) /\ UNCHANGED ledger
      BY <1>3, <2>4 DEF DeliverAck
    <3>2. CASE a.version # retirement.version \/ retirement.completed
      <4>1. UNCHANGED retirement BY <3>1, <3>2 DEF RecordRetirementAck
      <4> QED BY <2>1, <2>2, <3>1, <4>1 DEF TypeOK, AppliedIsReal, ErrorIsCurrent,
                 RetirementIsReal, LedgerInv, RetirementInv, agent, history
    <3>3. CASE ~(a.version # retirement.version \/ retirement.completed)
      <4>1. retirement' = [retirement EXCEPT !.completed = a.ok, !.error = ~a.ok]
        BY <3>1, <3>3 DEF RecordRetirementAck
      <4>2. retirement' \in [version : Nat, completed : BOOLEAN, error : BOOLEAN]
            /\ retirement'.version = retirement.version
            /\ retirement'.completed = a.ok /\ retirement'.error = ~a.ok
        BY <2>1, <4>1 DEF TypeOK
      <4>3. TypeOK' BY <2>1, <3>1, <4>2 DEF TypeOK, agent, history
      <4>4. RetirementIsReal' /\ RetirementInv'
        BY <2>1, <2>4, <3>3, <4>2 DEF RetirementIsReal, RetirementInv, Retired, history
      <4> QED BY <2>1, <2>2, <3>1, <4>3, <4>4 DEF AppliedIsReal, ErrorIsCurrent,
                 LedgerInv, history
    <3> QED BY <3>2, <3>3
  <2> QED BY <2>3, <2>4
<1>4. ASSUME NEW v \in reports, DeliverReport(v) PROVE IInv'
  <2>1. v \in Nat /\ v \in succeeded \cup {0} /\ reports' = reports \ {v}
        /\ UNCHANGED <<target, retirement, agent, acks, history, faults>>
    BY <1>4 DEF DeliverReport, TypeOK, ClaimsInv
  <2> DEFINE q == IF Retired THEN ledger ELSE RecordAppliedVersion(ledger, v)
  <2>2. ledger' = q BY <1>4 DEF DeliverReport
  <2>3. /\ RowInv(q) /\ q.applied \in {ledger.applied, v}
        /\ q.error => ledger.error /\ q.last = ledger.last
    BY <1>0, <2>1, ReportMovesForward DEF TypeOK
  <2> HIDE DEF q
  <2>4. TypeOK' BY <2>1, <2>2, <2>3 DEF TypeOK, RowInv, LedgerRow, agent, history
  <2>5. AppliedIsReal' /\ ErrorIsCurrent' /\ LedgerInv'
    BY <2>1, <2>2, <2>3 DEF AppliedIsReal, ErrorIsCurrent, LedgerInv, RowInv, LedgerRow,
       TypeOK, history
  <2> QED BY <2>1, <2>4, <2>5 DEF ClaimsInv, RetirementIsReal, RetirementInv, agent, history
<1>5. CASE Lose
  BY <1>5 DEF Lose, TypeOK, AppliedIsReal, ErrorIsCurrent, RetirementIsReal, ClaimsInv,
     LedgerInv, RetirementInv, plane, agent, history
<1>6. CASE Fetch
  BY <1>6 DEF Fetch, Retired, TypeOK, AppliedIsReal, ErrorIsCurrent, RetirementIsReal,
     ClaimsInv, LedgerInv, RetirementInv, plane, network, history
<1>7. CASE Applied
  BY <1>7 DEF Applied, TypeOK, AppliedIsReal, ErrorIsCurrent, RetirementIsReal, ClaimsInv,
     LedgerInv, RetirementInv, plane, network
<1>8. CASE Acknowledge
  <2> DEFINE a == [version |-> doing, ok |-> TRUE]
  <2>1. a \in Ack /\ a.version = doing /\ a.ok = TRUE
    BY DEF TypeOK, Ack
  <2>2. acks' = acks \cup {a} /\ doing \in succeeded /\ doing # 0 /\ step' = "idle"
        /\ UNCHANGED <<plane, doing, local, reports, history, faults>>
    BY <1>8 DEF Acknowledge, ClaimsInv
  <2> HIDE DEF a
  <2>3. TypeOK' BY <2>1, <2>2 DEF TypeOK, plane, history
  <2>4. ClaimsInv' BY <2>1, <2>2 DEF ClaimsInv, history
  <2> QED BY <2>2, <2>3, <2>4 DEF AppliedIsReal, ErrorIsCurrent, RetirementIsReal,
             LedgerInv, RetirementInv, plane, history
<1>9. CASE ApplyFails
  <2> DEFINE a == [version |-> doing, ok |-> FALSE]
  <2>1. a \in Ack /\ a.version = doing /\ a.ok = FALSE
    BY DEF TypeOK, Ack
  <2>2. /\ acks' = acks \cup {a} /\ failed' = failed \cup {doing} /\ doing # 0
        /\ step' = "idle" /\ faults' \in Nat
        /\ UNCHANGED <<plane, doing, local, reports, succeeded>>
    BY <1>9 DEF ApplyFails, Fault, ClaimsInv, TypeOK
  <2> HIDE DEF a
  <2>3. TypeOK' BY <2>1, <2>2 DEF TypeOK, plane
  <2>4. ClaimsInv' BY <2>1, <2>2 DEF ClaimsInv
  <2> QED BY <2>2, <2>3, <2>4 DEF AppliedIsReal, ErrorIsCurrent, RetirementIsReal,
             LedgerInv, RetirementInv, plane
<1>10. CASE Report
  BY <1>10 DEF Report, TypeOK, AppliedIsReal, ErrorIsCurrent, RetirementIsReal, ClaimsInv,
     LedgerInv, RetirementInv, plane, agent, history
<1>11. CASE Crash
  BY <1>11 DEF Crash, Fault, TypeOK, AppliedIsReal, ErrorIsCurrent, RetirementIsReal,
     ClaimsInv, LedgerInv, RetirementInv, plane, network, history
<1>12. CASE UNCHANGED vars
  BY <1>12 DEF vars, TypeOK, AppliedIsReal, ErrorIsCurrent, RetirementIsReal, ClaimsInv,
     LedgerInv, RetirementInv
<1> QED BY <1>1, <1>2, <1>3, <1>4, <1>5, <1>6, <1>7, <1>8, <1>9, <1>10, <1>11, <1>12 DEF Next

LEMMA Invariance == Spec => []IInv
BY InvariantInitially, InvariantStep, PTL DEF Spec

\* Every variable keeps its kind, whatever is lost or delayed.
THEOREM TypeCorrect == Spec => []TypeOK
<1>1. IInv => TypeOK BY DEF IInv
<1> QED BY <1>1, Invariance, PTL

\* The applied revision the control plane shows was applied by the agent and is
\* not newer than the target (service/agent.go:344-357).
THEOREM AppliedReal == Spec => []AppliedIsReal
<1>1. IInv => AppliedIsReal BY DEF IInv
<1> QED BY <1>1, Invariance, PTL

\* The error it shows belongs to the newest revision tried, which has not been
\* applied since (service/agent.go:354,375-382).
THEOREM ErrorCurrent == Spec => []ErrorIsCurrent
<1>1. IInv => ErrorIsCurrent BY DEF IInv
<1> QED BY <1>1, Invariance, PTL

\* A completed retirement is that of an agent that has stopped everything
\* (retirement.go:34-50).
THEOREM RetirementReal == Spec => []RetirementIsReal
<1>1. IInv => RetirementIsReal BY DEF IInv
<1> QED BY <1>1, Invariance, PTL

\* No request, however late, moves the ledger back (service/agent.go:346-384).
THEOREM LedgerMovesForward == Spec => NoRegression
<1> DEFINE Forward == /\ ledger.applied <= ledger'.applied /\ ledger.last <= ledger'.last
                      /\ retirement.completed => retirement'.completed
<1>1. IInv /\ [Next]_vars => [Forward]_vars
  <2> SUFFICES ASSUME IInv, Next PROVE Forward
    OBVIOUS
  <2>1. RowInv(ledger) /\ target \in Nat /\ ledger.applied \in Nat /\ ledger.last \in Nat
    BY DEF IInv, RowInv, LedgerRow, TypeOK, LedgerInv, ErrorIsCurrent
  <2>2. ASSUME NEW a \in acks, DeliverAck(a) PROVE Forward
    <3>1. a.version \in Nat /\ a.ok \in BOOLEAN BY DEF IInv, TypeOK, Ack
    <3>2. CASE Retired
      BY <2>1, <2>2, <3>2, <3>1 DEF DeliverAck, RecordRetirementAck, IInv, TypeOK
    <3>3. CASE ~Retired
      BY <2>1, <2>2, <3>1, <3>3, AckMovesForward DEF DeliverAck
    <3> QED BY <3>2, <3>3
  <2>3. ASSUME NEW v \in reports, DeliverReport(v) PROVE Forward
    <3>1. v \in Nat BY DEF IInv, TypeOK
    <3>2. UNCHANGED retirement
          /\ ledger' = IF Retired THEN ledger ELSE RecordAppliedVersion(ledger, v)
      BY <2>3 DEF DeliverReport
    <3>3. /\ ledger.applied <= RecordAppliedVersion(ledger, v).applied
          /\ ledger.last <= RecordAppliedVersion(ledger, v).last
      BY <2>1, <3>1, ReportMovesForward
    <3> QED BY <2>1, <3>2, <3>3
  <2>4. CASE Retire
    BY <2>1, <2>4 DEF Retire, IInv, TypeOK
  <2>5. CASE Bump \/ Lose \/ Fetch \/ Applied \/ Acknowledge \/ ApplyFails \/ Report \/ Crash
    <3>1. UNCHANGED <<ledger, retirement>>
      BY <2>5 DEF Bump, Lose, Fetch, Applied, Acknowledge, ApplyFails, Report, Crash, plane
    <3> QED BY <2>1, <3>1
  <2> QED BY <2>2, <2>3, <2>4, <2>5 DEF Next
<1> QED BY <1>1, Invariance, PTL DEF Spec, NoRegression

---------------------------------------------------------------------------
(* One side of ConfigSync.                                                  *)

LEMMA SyncStep == IInv /\ [Next]_vars => [Sync!Next]_(Sync!vars)
<1> SUFFICES ASSUME IInv, [Next]_vars PROVE [Sync!Next]_(Sync!vars)
  OBVIOUS
<1>1. target \in Nat /\ retirement.version \in Nat BY DEF IInv, TypeOK
<1>2. CASE Bump
  BY <1>1, <1>2 DEF Bump, Retired, agent, Sync!Next, Sync!Edit, Sync!Renumber, Sync!Change, Sync!Increase
<1>3. CASE Retire
  <2>1. /\ retirement.version = 0 /\ retirement'.version = target + 1 /\ target # 0
        /\ UNCHANGED <<target, step, doing, local>>
    BY <1>3 DEF Retire, Retired, agent, IInv, TypeOK, RetirementInv
  <2> QED BY <1>1, <2>1 DEF Retired, Sync!Next, Sync!Edit, Sync!Renumber, Sync!Increase, Sync!Retire
<1>4. ASSUME NEW a \in acks, DeliverAck(a) PROVE UNCHANGED Sync!vars
  <2>1. retirement'.version = retirement.version
    BY <1>4 DEF DeliverAck, RecordRetirementAck, IInv, TypeOK
  <2> QED BY <1>4, <2>1 DEF DeliverAck, agent, Retired, Sync!vars
<1>5. CASE Fetch
  BY <1>5 DEF Fetch, plane, Retired, Sync!Next, Sync!Fetch, Sync!numbering
<1>6. CASE Applied
  BY <1>6 DEF Applied, plane, Retired, IInv, ClaimsInv, Sync!Next, Sync!Apply, Sync!numbering
<1>7. CASE ApplyFails \/ Crash
  BY <1>7 DEF ApplyFails, Crash, plane, Retired, Sync!Next, Sync!Drop, Sync!numbering
<1>8. CASE Lose \/ Acknowledge \/ Report \/ \E v \in reports : DeliverReport(v)
  BY <1>8 DEF Lose, Acknowledge, Report, DeliverReport, plane, agent, Retired, Sync!vars
<1>9. CASE UNCHANGED vars BY <1>9 DEF vars, Retired, Sync!vars
<1> QED BY <1>2, <1>3, <1>4, <1>5, <1>6, <1>7, <1>8, <1>9 DEF Next

\* The agent of the ledger is one that ConfigSync allows, whatever is lost or delayed on
\* its way back (runner.go:224-254, retirement.go:22-32).
THEOREM LedgerSyncs == Spec => Syncs
<1>1. Init => Sync!Init BY DEF Init, Retired, Sync!Init
<1> QED BY <1>1, SyncStep, Invariance, PTL DEF Spec, Syncs, Sync!Spec

LEMMA SyncBounded == Spec => []Sync!NeverAhead
<1>1. Sync!Init => Sync!NeverAhead BY DEF Sync!Init, Sync!NeverAhead
<1>2. Sync!NeverAhead /\ [Sync!Next]_(Sync!vars) => Sync!NeverAhead'
  BY DEF Sync!NeverAhead, Sync!Next, Sync!Edit, Sync!Renumber, Sync!Change, Sync!Increase, Sync!Retire,
     Sync!Fetch, Sync!Apply, Sync!Drop, Sync!numbering, Sync!vars
<1> QED BY <1>1, <1>2, LedgerSyncs, PTL DEF Syncs, Sync!Spec

\* The agent persists no revision that is newer than the newest, and replaces what it has
\* persisted by an older one only when its state file is lost.
THEOREM LedgerNeverOlder == Spec => []Sync!NeverAhead /\ Sync!NeverOlder
<1>1. Sync!NeverAhead /\ [Sync!Next]_(Sync!vars) => [local' >= local \/ local' = 0]_(Sync!vars)
  BY DEF Sync!NeverAhead, Sync!Next, Sync!Edit, Sync!Fetch, Sync!Apply, Sync!Drop, Sync!vars
<1> QED BY <1>1, LedgerSyncs, SyncBounded, PTL DEF Syncs, Sync!Spec, Sync!NeverOlder
=============================================================================
