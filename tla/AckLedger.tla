----------------------------- MODULE AckLedger -----------------------------
(***************************************************************************)
(* What the control plane believes an agent has applied.  The agent applies  *)
(* the target revision, persists it, and acknowledges it; its heartbeats and *)
(* status reports repeat the persisted revision.  Each of these requests may *)
(* be lost, and one the agent gave up on may still be served much later      *)
(* (internal/service/agent.go, RecordAppliedVersion and RecordConfigAck;     *)
(* internal/service/retirement.go; internal/agent/runner.go).                *)
(***************************************************************************)
EXTENDS Naturals

CONSTANTS
  MaxVersion, \* bound: revisions of the configuration
  MaxFaults   \* bound: failed applies, agent crashes, lost state files

ASSUME ConstantsAssumption == MaxVersion \in Nat \ {0} /\ MaxFaults \in Nat

VARIABLES
  target,     \* config_version of the agent's row
  ledger,     \* rt_applied_config_version, rt_last_apply_version and _error
  retirement, \* the agent's retirement: 0 or its revision, completed_at, last_error
  step, doing,\* the agent: its next step, the revision it is working on
  local,      \* the revision persisted in state.json
  acks,       \* acknowledgements on their way
  reports,    \* heartbeats and status reports on their way
  succeeded, failed, \* history: revisions applied, revisions that failed once
  faults      \* faults so far

vars == <<target, ledger, retirement, step, doing, local, acks, reports,
          succeeded, failed, faults>>

plane   == <<target, ledger, retirement>>
network == <<acks, reports>>
agent   == <<step, doing, local>>
history == <<succeeded, failed>>

Retired == retirement.version # 0

Fault == faults < MaxFaults /\ faults' = faults + 1

Larger(a, b) == IF a < b THEN b ELSE a

Init ==
  /\ target = 1
  /\ ledger = [applied |-> 0, last |-> 0, error |-> FALSE]
  /\ retirement = [version |-> 0, completed |-> FALSE, error |-> FALSE]
  /\ step = "idle" /\ doing = 0 /\ local = 0
  /\ acks = {} /\ reports = {}
  /\ succeeded = {} /\ failed = {} /\ faults = 0

---------------------------------------------------------------------------
(* The control plane.                                                       *)

Bump ==
  /\ ~Retired /\ target < MaxVersion
  /\ target' = target + 1
  /\ UNCHANGED <<ledger, retirement, agent, network, history, faults>>

\* retireAgentTx: the row goes and the retirement gets the next revision.
Retire ==
  /\ ~Retired
  /\ retirement' = [retirement EXCEPT !.version = target + 1]
  /\ UNCHANGED <<target, ledger, agent, network, history, faults>>

\* Mutant of RecordAppliedVersion: it leaves the error of an older attempt.
RecordAppliedKeepingError(r, v) ==
  IF 0 < v /\ v <= target /\ r.applied < v
  THEN [applied |-> v, last |-> Larger(r.last, v), error |-> r.error]
  ELSE r

\* The row after a report of revision v.
RecordAppliedVersion(r, v) ==
  IF 0 < v /\ v <= target /\ r.applied < v
  THEN [applied |-> v, last |-> Larger(r.last, v), error |-> r.error /\ r.last > v]
  ELSE r

\* Mutant of RecordConfigAck: every attempt counts as applied.
RecordAttemptAsApplied(r, v, ok) ==
  LET s == RecordAppliedVersion(r, v)
      accepted == v <= target /\ s.last <= v /\ (s.applied < v \/ (ok /\ s.applied = v))
  IN  IF accepted THEN [s EXCEPT !.last = v, !.error = ~ok] ELSE s

\* Mutant of RecordConfigAck: a failure may be older than a success.
RecordLateFailure(r, v, ok) ==
  LET s == IF ok THEN RecordAppliedVersion(r, v) ELSE r
      accepted == v <= target /\ s.last <= v
  IN  IF accepted THEN [s EXCEPT !.last = v, !.error = ~ok] ELSE s

\* The row after the acknowledgement of v, a success or a failure.
RecordConfigAck(r, v, ok) ==
  LET s == IF ok THEN RecordAppliedVersion(r, v) ELSE r
      accepted == v <= target /\ s.last <= v /\ (s.applied < v \/ (ok /\ s.applied = v))
  IN  IF accepted THEN [s EXCEPT !.last = v, !.error = ~ok] ELSE s

\* Mutant of RecordRetirementAck: any revision is taken for the retirement's.
RecordAnyRetirementAck(r, v, ok) ==
  IF r.completed THEN r ELSE [r EXCEPT !.completed = ok, !.error = ~ok]

\* Mutant of RecordRetirementAck: a delayed failure erases the shutdown.
RecordLateRetirementAck(r, v, ok) ==
  IF v # r.version THEN r ELSE [r EXCEPT !.completed = ok, !.error = ~ok]

\* A delayed failure cannot erase a successful shutdown.
RecordRetirementAck(r, v, ok) ==
  IF v # r.version \/ r.completed THEN r
  ELSE [r EXCEPT !.completed = ok, !.error = ~ok]

DeliverAck(a) ==
  /\ a \in acks /\ acks' = acks \ {a}
  /\ IF Retired
     THEN /\ retirement' = RecordRetirementAck(retirement, a.version, a.ok)
          /\ UNCHANGED ledger
     ELSE /\ ledger' = RecordConfigAck(ledger, a.version, a.ok)
          /\ UNCHANGED retirement
  /\ UNCHANGED <<target, agent, reports, history, faults>>

\* A retired agent's heartbeats and reports are answered and ignored.
DeliverReport(v) ==
  /\ v \in reports /\ reports' = reports \ {v}
  /\ ledger' = IF Retired THEN ledger ELSE RecordAppliedVersion(ledger, v)
  /\ UNCHANGED <<target, retirement, agent, acks, history, faults>>

Lose ==
  /\ \/ \E a \in acks : acks' = acks \ {a} /\ UNCHANGED reports
     \/ \E v \in reports : reports' = reports \ {v} /\ UNCHANGED acks
  /\ UNCHANGED <<plane, agent, history, faults>>

---------------------------------------------------------------------------
(* The agent.  Ack retries nothing: a lost acknowledgement is not repeated.  *)

\* The reply of a poll; a full sync delivers a revision already applied again.
Fetch ==
  /\ step = "idle"
  /\ doing' = IF Retired THEN retirement.version ELSE target
  /\ step' = "apply"
  /\ UNCHANGED <<plane, local, network, history, faults>>

\* Everything the revision asks for is done and State.Save has persisted it.
Applied ==
  /\ step = "apply" /\ step' = "ack"
  /\ local' = doing
  /\ succeeded' = succeeded \cup {doing}
  /\ UNCHANGED <<plane, doing, network, failed, faults>>

Acknowledge ==
  /\ step = "ack" /\ step' = "idle"
  /\ acks' = acks \cup {[version |-> doing, ok |-> TRUE]}
  /\ UNCHANGED <<plane, doing, local, reports, history, faults>>

ApplyFails ==
  /\ step = "apply" /\ step' = "idle"
  /\ Fault
  /\ failed' = failed \cup {doing}
  /\ acks' = acks \cup {[version |-> doing, ok |-> FALSE]}
  /\ UNCHANGED <<plane, doing, local, reports, succeeded>>

\* heartbeatLoop and statusLoop run beside the configuration loop.
Report ==
  /\ reports' = reports \cup {local}
  /\ UNCHANGED <<plane, agent, acks, history, faults>>

\* Mutant of Crash: an unreadable state file counts as revision -1.
CrashUnversioned ==
  /\ Fault
  /\ step' = "idle" /\ local' \in {local, 0 - 1}
  /\ UNCHANGED <<plane, doing, network, history>>

\* The agent restarts, with its state file or with one it cannot read.
Crash ==
  /\ Fault
  /\ step' = "idle" /\ local' \in {local, 0}
  /\ UNCHANGED <<plane, doing, network, history>>

---------------------------------------------------------------------------

Next ==
  \/ Bump \/ Retire \/ Lose
  \/ \E a \in acks : DeliverAck(a)
  \/ \E v \in reports : DeliverReport(v)
  \/ Fetch \/ Applied \/ Acknowledge \/ ApplyFails \/ Report \/ Crash

Spec == Init /\ [][Next]_vars

\* The loops of the agent run on, and a request sent again and again is served in
\* the end.  Of the acknowledgements only that of a retirement is sent again and
\* again, at every 30 second poll; no other one is assumed to arrive.
Fairness ==
  /\ WF_vars(Fetch) /\ WF_vars(Applied) /\ WF_vars(Acknowledge) /\ WF_vars(Report)
  /\ \A v \in 1 .. MaxVersion : SF_vars(DeliverReport(v))
  /\ \A v \in 1 .. MaxVersion + 1 :
       SF_vars(Retired /\ DeliverAck([version |-> v, ok |-> TRUE]))

FairSpec == Spec /\ Fairness

---------------------------------------------------------------------------
(* Properties.                                                              *)

Ack == [version : Nat, ok : BOOLEAN]

\* Every variable holds a value of its kind.
TypeOK ==
  /\ target \in Nat
  /\ ledger \in [applied : Nat, last : Nat, error : BOOLEAN]
  /\ retirement \in [version : Nat, completed : BOOLEAN, error : BOOLEAN]
  /\ step \in {"idle", "apply", "ack"} /\ doing \in Nat /\ local \in Nat
  /\ acks \in SUBSET Ack /\ reports \in SUBSET Nat
  /\ succeeded \in SUBSET Nat /\ failed \in SUBSET Nat /\ faults \in Nat

\* The revision shown as applied is one the agent did apply, and never one newer
\* than the target, in whatever order reports and acknowledgements arrive
\* (service/agent.go:344-357).
AppliedIsReal == ledger.applied \in succeeded \cup {0} /\ ledger.applied <= target

\* An error is shown exactly while the newest revision tried is not applied, and
\* it is the error of that revision: neither a late failure brings one back nor a
\* late success of an older revision clears it (service/agent.go:354,375-382).
ErrorIsCurrent ==
  /\ ledger.error <=> ledger.applied < ledger.last
  /\ ledger.error => ledger.last \in failed

\* A retirement is completed only by an agent that has stopped everything, and no
\* late failure shows an error next to it (retirement.go:39-48).
RetirementIsReal ==
  retirement.completed => retirement.version \in succeeded /\ ~retirement.error

\* No late request takes back what is known to be applied or tried, or reopens a
\* completed retirement (service/agent.go:351,375-380; retirement.go:47-48).
NoRegression ==
  [][/\ ledger.applied <= ledger'.applied /\ ledger.last <= ledger'.last
     /\ retirement.completed => retirement'.completed]_vars

\* Once faults and edits cease the control plane knows that the agent has applied
\* its target, with no error left over, though its acknowledgements are all lost:
\* "reports repair lost success ACKs" (service/agent.go:344-345).  A retirement is
\* completed in the end.
Settles ==
  <>[](IF Retired THEN retirement.completed
       ELSE ledger.applied = target /\ ~ledger.error)

---------------------------------------------------------------------------
(* The inductive invariant: what a request on its way claims has happened.   *)

ClaimsInv ==
  /\ local \in succeeded \cup {0}
  /\ reports \subseteq succeeded \cup {0}
  /\ \A a \in acks : a.version # 0 /\ a.version \in (IF a.ok THEN succeeded ELSE failed)
  /\ step = "ack" => doing \in succeeded
  /\ step # "idle" => doing # 0

LedgerInv == ledger.applied <= ledger.last /\ ledger.last <= target

RetirementInv ==
  /\ retirement.version # 0 => retirement.version = target + 1
  /\ retirement.version = 0 => ~retirement.completed /\ target # 0

IInv == TypeOK /\ AppliedIsReal /\ ErrorIsCurrent /\ RetirementIsReal
        /\ ClaimsInv /\ LedgerInv /\ RetirementInv

---------------------------------------------------------------------------
(* Each side of the ledger is one side of ConfigSync.                        *)

Sync == INSTANCE ConfigSync WITH
  revision <- IF Retired THEN retirement.version ELSE target,
  retired  <- Retired,
  working  <- IF step = "apply" THEN doing ELSE 0

\* The agent works on what was the newest revision when it asked, persists that or nothing,
\* and is told of its retirement under a revision it has not seen (retirement.go:22-32).
Syncs == Sync!Spec
=============================================================================
