------------------------------ MODULE AgentLife ------------------------------
(***************************************************************************)
(* The life of one agent in the eyes of the control plane: the tokens that    *)
(* enroll it (service/enrollment.go, install.go, scripts/install-agent.sh.tmpl),*)
(* the authorization of its requests (api/middleware/agent.go), its heartbeats  *)
(* and reports (handler/agent.go, service/agent.go), the reaper that takes a    *)
(* silent agent for offline, and its deletion, which leaves a retirement.       *)
(* Every statement of a request is a step of its own unless a transaction       *)
(* holds it; the control plane serves several requests at once.                *)
(*                                                                         *)
(* Time is a number of ticks: each clock counts how long ago something was.     *)
(* `seen' is what the agent reports of frp: the status of a connection for an   *)
(* frpc host, whether the process runs for an frps node.                      *)
(***************************************************************************)
EXTENDS Naturals, Sequences

CONSTANTS
  Tokens,     \* enrollment tokens, each issued at most once
  Requests,   \* requests of the agent served at once
  Nobody,     \* no token
  Timeout,    \* LivenessTimeout
  ProcessTtl, \* how long the observation of an frps process lasts
  StatusTtls, \* how long the status of a connection lasts (connectionStatusTTL)
  ReapEvery,  \* the reaper's period
  Attempts,   \* how often the installer sends its enrollment
  MaxTtl,     \* the longest of these times
  MaxDelay,   \* bound: how long a statement waits for the database connection
  MaxFaults   \* bound: statements of the reaper that fail

ASSUME ConstantsAssumption ==
  /\ Timeout \in Nat /\ ReapEvery \in Nat \ {0} /\ MaxDelay \in Nat /\ MaxFaults \in Nat
  /\ MaxDelay <= ReapEvery /\ MaxDelay <= Timeout /\ Attempts \in Nat \ {0}
  /\ ProcessTtl \in Nat /\ StatusTtls \subseteq Nat /\ StatusTtls # {} /\ \A t \in StatusTtls : t >= Timeout
  /\ MaxTtl \in Nat /\ \A t \in StatusTtls \cup {ProcessTtl, Timeout} : t <= MaxTtl
  /\ Nobody \notin Tokens

VARIABLES
  kind,      \* "frps" or "frpc"
  row,       \* the agent's row: its status, the age of last_heartbeat
  heard,     \* how long ago a heartbeat or a report was recorded (not stored)
  seen,      \* what was reported of frp: known or not, how long ago, for how long it lasts
  retired,   \* a retirement of the agent exists
  tokens,    \* the enrollment tokens
  installer, \* the installation script on the agent's machine
  request,   \* requests being served
  reaper,    \* the pass under way: next statement, how long ago it began
  sinceReap, \* how long ago the last pass began
  faults

identity == <<retired, tokens, installer>>
status   == <<row, heard, seen>>
vars     == <<kind, row, heard, seen, retired, tokens, installer, request, reaper, sinceReap, faults>>

Slack   == (1 + MaxFaults) * ReapEvery + MaxDelay
Horizon == MaxTtl + Slack + MaxDelay + 1

Later(age) == IF age < Horizon THEN age + 1 ELSE age

Ttls == IF kind = "frps" THEN {ProcessTtl} ELSE StatusTtls

Free     == [step |-> "free", enrolled |-> FALSE, age |-> 0]
NoScript == [step |-> "none", token |-> Nobody, tries |-> 0]
Exists   == row.status # "deleted"
Enrolled == \E t \in Tokens : tokens[t].used

Init ==
  /\ kind \in {"frps", "frpc"} /\ row = [status |-> "pending", beat |-> 0] /\ heard = 0
  /\ seen \in [known : {FALSE}, age : {0}, ttl : Ttls] /\ retired = FALSE
  /\ tokens = [t \in Tokens |-> [issued |-> FALSE, used |-> FALSE, expired |-> FALSE]]
  /\ installer = NoScript /\ request = [r \in Requests |-> Free]
  /\ reaper = [step |-> "idle", age |-> 0] /\ sinceReap = 0 /\ faults = 0

---------------------------------------------------------------------------
(* Enrollment.                                                             *)

\* The target was looked up before; it may have been deleted since.
CreateEnrollment(t) ==
  /\ ~tokens[t].issued /\ tokens' = [tokens EXCEPT ![t].issued = TRUE]
  /\ UNCHANGED <<kind, status, retired, installer, request, reaper, sinceReap, faults>>

Expire(t) ==
  /\ tokens[t].issued /\ ~tokens[t].expired /\ tokens' = [tokens EXCEPT ![t].expired = TRUE]
  /\ UNCHANGED <<kind, status, retired, installer, request, reaper, sinceReap, faults>>

\* The installation command downloads the script, for which the token is only peeked at.
RenderInstallScript(t) ==
  /\ installer.step \in {"none", "refused", "gaveUp", "installed"}
  /\ tokens[t].issued /\ ~tokens[t].used /\ ~tokens[t].expired /\ Exists
  /\ installer' = [step |-> "enrolling", token |-> t, tries |-> 0]
  /\ UNCHANGED <<kind, status, retired, tokens, request, reaper, sinceReap, faults>>

\* Mutant of Valid: a token that was used is of no use any more.
ValidOnce(t) == tokens[t].issued /\ ~tokens[t].expired /\ Exists /\ ~tokens[t].used

\* The same enrollment again, after a lost reply, is as good as the first.
Valid(t) == tokens[t].issued /\ ~tokens[t].expired /\ Exists

\* Mutant of LastTry: one attempt too many.
NoTryLeft == installer.tries >= Attempts

LastTry == installer.tries + 1 >= Attempts

\* The script sends the enrollment; the reply may be lost, and then it is sent again.
ConsumeEnrollment ==
  LET t == installer.token IN
  /\ installer.step = "enrolling"
  /\ tokens' = IF Valid(t) THEN [tokens EXCEPT ![t].used = TRUE] ELSE tokens
  /\ \/ installer' = [installer EXCEPT !.tries = 0, !.step = IF Valid(t) THEN "installed" ELSE "refused"]
     \/ installer' = IF LastTry THEN [NoScript EXCEPT !.step = "gaveUp"] ELSE [installer EXCEPT !.tries = @ + 1]
  /\ UNCHANGED <<kind, status, retired, request, reaper, sinceReap, faults>>

\* The row goes and the retirement comes in one transaction, connections included.
Delete ==
  /\ Exists
  /\ row' = [status |-> "deleted", beat |-> 0] /\ heard' = 0
  /\ seen' = [seen EXCEPT !.known = FALSE, !.age = 0]
  /\ retired' = TRUE
  /\ UNCHANGED <<kind, tokens, installer, request, reaper, sinceReap, faults>>

---------------------------------------------------------------------------
(* Requests of the agent: authorization, then the handler.                    *)

Goto(r, step) == request' = [request EXCEPT ![r].step = step]

Admit(r)  == request' = [request EXCEPT ![r] = [Free EXCEPT !.step = "handler"]]
Answer(r) == request' = [request EXCEPT ![r] = Free]

Reads == UNCHANGED <<kind, status, identity, reaper, sinceReap, faults>>

\* The machine may have its files from before: a request is not proof of an enrollment.
Arrive(r) ==
  /\ request[r].step = "free"
  /\ request' = [request EXCEPT ![r] = [step |-> "tokens", enrolled |-> Enrolled, age |-> 0]]
  /\ Reads

CheckTokens(r) ==
  /\ request[r].step = "tokens" /\ Goto(r, IF Enrolled THEN "first" ELSE "refused") /\ Reads

\* Mutant of Lookups: the retirement is looked for before the row.
LookupsSwapped == <<"retirement", "row">>

Lookups == <<"row", "retirement">>

Found(table) == IF table = "row" THEN Exists ELSE retired

LookFirst(r) ==
  /\ request[r].step = "first"
  /\ (IF Found(Lookups[1]) THEN Admit(r) ELSE Goto(r, "second")) /\ Reads

LookSecond(r) ==
  /\ request[r].step = "second"
  /\ (IF Found(Lookups[2]) THEN Admit(r) ELSE Goto(r, "refused")) /\ Reads

\* The handlers of heartbeats and reports answer a retired agent without more ado.  The
\* time of a heartbeat is read next, before its statement has the database connection.
AgentRetirement(r) ==
  /\ request[r].step = "handler"
  /\ IF retired THEN Answer(r) ELSE \E s \in {"heartbeat", "report"} : Goto(r, s)
  /\ Reads

\* Mutant of updateAgentLiveness: the row is saved, and created if it is not there.
saveAgentLiveness(age) == row' = [status |-> "online", beat |-> age] /\ heard' = 0

updateAgentLiveness(age) ==
  IF Exists THEN row' = [status |-> "online", beat |-> age] /\ heard' = 0 ELSE UNCHANGED <<row, heard>>

RecordHeartbeat(r) ==
  /\ request[r].step = "heartbeat"
  /\ updateAgentLiveness(request[r].age) /\ Answer(r)
  /\ UNCHANGED <<kind, seen, identity, reaper, sinceReap, faults>>

\* One transaction, whose time is read inside.  A report may say nothing of a connection:
\* what it says is not recorded when a newer revision was.
RecordStatus(r) ==
  /\ request[r].step = "report"
  /\ updateAgentLiveness(0) /\ Answer(r)
  /\ IF Exists THEN \/ seen' \in [known : BOOLEAN, age : {0}, ttl : Ttls]
                    \/ kind = "frpc" /\ UNCHANGED seen
     ELSE UNCHANGED seen
  /\ UNCHANGED <<kind, identity, reaper, sinceReap, faults>>

\* The request ends: it was answered, its connection broke, or a statement failed.
Leave(r) == request[r].step # "free" /\ request' = [request EXCEPT ![r] = Free] /\ Reads

Serve(r) ==
  \/ Arrive(r) \/ CheckTokens(r) \/ LookFirst(r) \/ LookSecond(r) \/ AgentRetirement(r)
  \/ RecordHeartbeat(r) \/ RecordStatus(r) \/ Leave(r)

---------------------------------------------------------------------------
(* The reaper: one statement for the agents, then one for what they report       *)
(* (processes of nodes, connections of hosts), and no transaction around them.   *)

StartPass ==
  /\ reaper.step = "idle" \/ reaper.step = "broken"
  /\ sinceReap >= ReapEvery
  /\ reaper' = [step |-> "agents", age |-> 0] /\ sinceReap' = 0
  /\ UNCHANGED <<kind, status, identity, request, faults>>

\* Mutant of Stale: the clock is off by one.
StaleEarly(age, ttl) == age >= ttl + reaper.age

\* The cutoff was computed when the pass began.
Stale(age, ttl) == age > ttl + reaper.age

ReapAgents ==
  /\ reaper.step = "agents" /\ reaper' = [reaper EXCEPT !.step = "seen"]
  /\ row' = IF row.status = "online" /\ Stale(row.beat, Timeout) THEN [row EXCEPT !.status = "offline"] ELSE row
  /\ UNCHANGED <<kind, heard, seen, identity, request, sinceReap, faults>>

\* Mutant of Outlived: an observation has a lease of its own and no more.
OutlivedAlone == Stale(seen.age, seen.ttl)

\* An observation expires on its own or with the agent.
Outlived == Stale(seen.age, seen.ttl) \/ row.status = "offline"

ReapSeen ==
  /\ reaper.step = "seen" /\ reaper' = [reaper EXCEPT !.step = "idle"]
  /\ seen' = IF seen.known /\ Outlived THEN [seen EXCEPT !.known = FALSE] ELSE seen
  /\ UNCHANGED <<kind, row, heard, identity, request, sinceReap, faults>>

\* A statement that fails is not repeated before the next pass.
FailReap ==
  /\ reaper.step \in {"agents", "seen"} /\ faults < MaxFaults /\ faults' = faults + 1
  /\ reaper' = [reaper EXCEPT !.step = IF @ = "agents" THEN "seen" ELSE "broken"]
  /\ UNCHANGED <<kind, status, identity, request, sinceReap>>

\* A tick, once there is something to time: the reaper begins its passes on time, and no
\* statement waits longer than MaxDelay.
Tick ==
  /\ row.status \in {"online", "offline"}
  /\ reaper.step \in {"idle", "broken"} => sinceReap < ReapEvery
  /\ reaper.step \in {"agents", "seen"} => reaper.age < MaxDelay
  /\ \A r \in Requests : request[r].step = "heartbeat" => request[r].age < MaxDelay
  /\ row' = [row EXCEPT !.beat = Later(@)] /\ heard' = Later(heard)
  /\ seen' = [seen EXCEPT !.age = Later(@)]
  /\ request' = [r \in Requests |->
       IF request[r].step = "heartbeat" THEN [request[r] EXCEPT !.age = @ + 1] ELSE request[r]]
  /\ reaper' = IF reaper.step \in {"agents", "seen"} THEN [reaper EXCEPT !.age = @ + 1] ELSE reaper
  /\ sinceReap' = IF sinceReap < ReapEvery THEN sinceReap + 1 ELSE sinceReap
  /\ UNCHANGED <<kind, identity, faults>>

Next ==
  \/ \E t \in Tokens : CreateEnrollment(t) \/ Expire(t) \/ RenderInstallScript(t)
  \/ ConsumeEnrollment \/ Delete \/ \E r \in Requests : Serve(r)
  \/ StartPass \/ ReapAgents \/ ReapSeen \/ FailReap \/ Tick

Spec == Init /\ [][Next]_vars

---------------------------------------------------------------------------
Steps == {"free", "tokens", "first", "second", "refused", "handler", "heartbeat", "report"}

\* Types of the variables.
TypeOK ==
  /\ kind \in {"frps", "frpc"}
  /\ row \in [status : {"pending", "online", "offline", "deleted"}, beat : 0..Horizon]
  /\ heard \in 0..Horizon
  /\ seen \in [known : BOOLEAN, age : 0..Horizon, ttl : {ProcessTtl} \cup StatusTtls]
  /\ retired \in BOOLEAN
  /\ tokens \in [Tokens -> [issued : BOOLEAN, used : BOOLEAN, expired : BOOLEAN]]
  /\ installer \in [step : {"none", "enrolling", "installed", "refused", "gaveUp"},
                    token : Tokens \cup {Nobody}, tries : 0..(Attempts - 1)]
  /\ request \in [Requests -> [step : Steps, enrolled : BOOLEAN, age : 0..MaxDelay]]
  /\ reaper \in [step : {"idle", "agents", "seen", "broken"}, age : 0..MaxDelay]
  /\ sinceReap \in 0..ReapEvery /\ faults \in 0..MaxFaults

\* An enrolled agent is answered whatever happens between the three statements of its
\* authorization: after its deletion it still learns that it is retired, and is not
\* refused; and nobody else gets as far as a handler.
NeverLockedOut ==
  \A r \in Requests :
    /\ request[r].step = "refused" => ~request[r].enrolled
    /\ request[r].step \in {"handler", "heartbeat", "report"} => Enrolled

\* The installer is refused only when its token has expired or its target is gone; in
\* particular not because the reply to an earlier attempt was lost.
RefusedForReason ==
  installer.step = "refused" => tokens[installer.token].expired \/ ~Exists

\* After a complete pass nothing is known of what an offline agent runs.
OfflineIsUnknown == row.status \in {"offline", "deleted"} /\ reaper.step = "idle" => ~seen.known

AgentLease == INSTANCE Lease WITH
  held <- row.status = "online", age <- heard, due <- Timeout, ended <- row.status = "deleted",
  Terms <- {Timeout}, Grace <- Timeout - MaxDelay, Slack <- Slack, Horizon <- Horizon

SeenLease == INSTANCE Lease WITH
  held <- seen.known, age <- seen.age, due <- seen.ttl, ended <- row.status = "deleted",
  Terms <- {ProcessTtl} \cup StatusTtls, Grace <- Timeout - MaxDelay, Slack <- Slack, Horizon <- Horizon

\* "online" and what is known of frp are leases: neither ends early however requests and
\* the reaper interleave (but for the time a heartbeat waited to be recorded, by which it
\* looks older than it is), neither outlives its term by more than the passes that failed
\* and one, and a deleted agent has neither again, late heartbeats notwithstanding.
HonoursLeases == AgentLease!Spec /\ SeenLease!Spec

---------------------------------------------------------------------------
(* An inductive invariant.                                                   *)

\* What each step of an authorization has seen, and what cannot be undone since.
AuthorizedInv ==
  /\ ~Exists => retired /\ ~seen.known
  /\ \A r \in Requests :
       /\ request[r].enrolled => Enrolled
       /\ request[r].step \in {"first", "second", "handler", "heartbeat", "report"} => Enrolled
       /\ request[r].step = "second" => ~Exists

InstallerInv ==
  installer.step \in {"enrolling", "refused"} =>
    installer.token \in Tokens /\ tokens[installer.token].issued

\* How the clocks are tied: a heartbeat looks at most MaxDelay older than it is, nothing is
\* known from before the last report, and a pass is as old as its clock says.
ClockInv ==
  /\ heard <= row.beat /\ row.beat <= heard + MaxDelay
  /\ seen.known => heard <= seen.age
  /\ row.status = "offline" => heard > Timeout - MaxDelay
  /\ reaper.step \in {"agents", "seen"} => reaper.age = sinceReap

\* A term is overdue by a period for each statement that failed, the time since the last
\* pass began, and a period more while that pass has not come to its statement.
Overdue(steps) == faults * ReapEvery + sinceReap + (IF reaper.step \in steps THEN ReapEvery ELSE 0)

LeaseInv ==
  /\ row.status = "online" => heard <= Timeout + Overdue({"agents"})
  /\ seen.known => seen.age <= seen.ttl + Overdue({"agents", "seen"})

IInv ==
  /\ TypeOK /\ NeverLockedOut /\ RefusedForReason /\ OfflineIsUnknown
  /\ AuthorizedInv /\ InstallerInv /\ ClockInv /\ LeaseInv
=============================================================================
