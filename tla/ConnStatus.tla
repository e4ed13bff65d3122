----------------------------- MODULE ConnStatus -----------------------------
(***************************************************************************)
(* What the control plane says of one frpc connection and of its mappings:    *)
(* the edits that give the connection a new revision, the agent that deploys  *)
(* revisions and reports what the frp process says of its proxies             *)
(* (internal/agent/status.go, frpstatus.go), and the handler that records a    *)
(* report (internal/service/agent.go, recordConnectionStatuses).  Reports are  *)
(* delayed, lost and recorded in any order: one that the agent gave up after   *)
(* 15 seconds may still wait for the one database connection of the server.    *)
(*                                                                         *)
(* A definition of a mapping is the revision of the edit that made it, so that *)
(* `def' of a row can be compared with `ran', the definition the frp process   *)
(* really had when it was observed; the program stores no such thing.          *)
(* Agents from before the report channel name no revision, so that nothing can  *)
(* be promised of what they report; their reports are left out.               *)
(* A connection that state.json records runs what was delivered for its version:  *)
(* HostReconcile, run host_revert, has the one history in which it does not.      *)
(* What time does to a status (leases, the reaper) is in AgentLife; here a      *)
(* status may expire whenever it is known.                                   *)
(***************************************************************************)
EXTENDS Naturals, FiniteSets

CONSTANTS
  Names,      \* names of mappings
  MaxVersion, \* bound: revisions of the connection
  MaxReports  \* bound: reports on their way at once

ASSUME ConstantsAssumption == MaxVersion \in Nat \ {0} /\ MaxReports \in Nat

VARIABLES
  conn,   \* the connection's row: config_version, applied_config_version, status
  rows,   \* its mappings: definition (0: no row), inactive, observed state, what ran
  entry,  \* the version state.json records for the connection, 0 for none
  proc,   \* the frp process: the version it was deployed for, the definitions it runs
  sample, \* the collection under way: the version read first, or none
  flight, \* reports sent and neither recorded nor lost
  calm    \* from now on: nothing fails, every proxy runs

server == <<conn, rows>>
agent  == <<entry, proc, sample>>
vars   == <<conn, rows, entry, proc, sample, flight, calm>>

Versions == 0..MaxVersion
Observed == {"unknown", "running", "failed"}
NoSample == [on |-> FALSE, version |-> 0]

NewRow(version, inactive) == [def |-> version, inactive |-> inactive, seen |-> "unknown", ran |-> 0]

NoRow == NewRow(0, FALSE)

Exists(n) == rows[n].def # 0
Active(n) == Exists(n) /\ ~rows[n].inactive

\* A connection is created with its mappings.
Init ==
  /\ conn = [version |-> 1, applied |-> 0, status |-> "pending"]
  /\ rows \in [Names -> {NoRow, NewRow(1, FALSE), NewRow(1, TRUE)}]
  /\ entry = 0 /\ proc = [version |-> 0, runs |-> [n \in Names |-> 0]]
  /\ sample = NoSample /\ flight = {} /\ calm = FALSE

---------------------------------------------------------------------------
(* Edits: a transaction that changes the rows and takes the next revision.     *)

Revise ==
  /\ conn.version < MaxVersion
  /\ conn' = [conn EXCEPT !.version = @ + 1]
  /\ UNCHANGED <<agent, flight, calm>>

\* Settings of the connection or of its node, or a renewed certificate.
UpdateConnection == Revise /\ UNCHANGED rows

AddProxy(n, inactive) ==
  /\ ~Exists(n) /\ Revise
  /\ rows' = [rows EXCEPT ![n] = NewRow(conn.version + 1, inactive)]

\* Mutant of UpdateProxy: only the columns the form has are written.
UpdateFormColumns(n, new, inactive) ==
  /\ Exists(n) /\ (new # n => ~Exists(new)) /\ Revise
  /\ rows' = [rows EXCEPT ![n] = NoRow,
                          ![new] = [rows[n] EXCEPT !.def = conn.version + 1, !.inactive = inactive]]

\* The whole row is saved from the form, so what was observed is gone.
UpdateProxy(n, new, inactive) ==
  /\ Exists(n) /\ (new # n => ~Exists(new)) /\ Revise
  /\ rows' = [rows EXCEPT ![n] = NoRow, ![new] = NewRow(conn.version + 1, inactive)]

DeleteProxy(n) == Exists(n) /\ Revise /\ rows' = [rows EXCEPT ![n] = NoRow]

\* A port that a report of the node shows to be free again.
ReevaluateOccupancy(n) ==
  Exists(n) /\ rows[n].inactive /\ Revise /\ rows' = [rows EXCEPT ![n].inactive = FALSE]

Edit ==
  \/ UpdateConnection
  \/ \E n \in Names : DeleteProxy(n) \/ ReevaluateOccupancy(n)
  \/ \E n \in Names, inactive \in BOOLEAN :
       AddProxy(n, inactive) \/ \E new \in Names : UpdateProxy(n, new, inactive)

---------------------------------------------------------------------------
(* The agent.                                                              *)

Rendered == [n \in Names |-> IF Active(n) THEN rows[n].def ELSE 0]

\* A bundle is fetched and deployed.  (An edit between the two is one after both: only
\* the process sees the bundle, and what it reports says which version was recorded.)
Deploy ==
  /\ entry # conn.version
  /\ proc' = [version |-> conn.version, runs |-> Rendered]
  /\ UNCHANGED <<server, entry, sample, flight, calm>>

SetConn ==
  /\ entry' = proc.version
  /\ UNCHANGED <<server, proc, sample, flight, calm>>

\* The agent restarts, with state.json or without it; the process goes on.
Restart ==
  /\ ~calm /\ entry' \in {entry, 0} /\ sample' = NoSample
  /\ UNCHANGED <<server, proc, flight, calm>>

\* Versions are copied first, processes and proxies are asked afterwards.
StartSample ==
  /\ ~sample.on
  /\ sample' = [on |-> TRUE, version |-> entry]
  /\ UNCHANGED <<server, entry, proc, flight, calm>>

\* The process is asked and the report is sent.  It carries what ran; what was seen of
\* that is drawn when the report is recorded, unless all was well.
Report ==
  LET r == [version |-> sample.version, ran |-> proc.runs, calm |-> calm] IN
  /\ sample.on /\ sample' = NoSample
  /\ r \in flight \/ Cardinality(flight) < MaxReports
  /\ flight' = flight \cup {r}
  /\ UNCHANGED <<server, entry, proc, calm>>

\* What may be seen of a process: that it is dead, nothing of its proxies (systemd or
\* the admin API does not answer), or what the admin API lists, which a process that has
\* just started may not yet do in full.  "failed" is a proxy that does not run or whose
\* target is unreachable.
Lists(r) == {l \in [Names -> {"absent", "running", "failed"}] :
               \A n \in Names : r.ran[n] = 0 => l[n] = "absent"}

NoList == [n \in Names |-> "absent"]

Sights(r) == IF r.calm
  THEN {[seen |-> "full", list |-> [n \in Names |-> IF r.ran[n] = 0 THEN "absent" ELSE "running"]]}
  ELSE [seen : {"full"}, list : Lists(r)] \cup [seen : {"dead", "blind"}, list : {NoList}]

Lose(r) == ~calm /\ flight' = flight \ {r} /\ UNCHANGED <<server, agent, calm>>

---------------------------------------------------------------------------
(* Recording a report (one transaction).                                     *)

Listed(s) == {n \in Names : s.list[n] # "absent"}

Available(s) == s.seen = "full"

Health(s) ==
  CASE s.seen = "dead"                                       -> "offline"
    [] Available(s) /\ \E n \in Names : s.list[n] = "failed" -> "degraded"
    [] Available(s) /\ Listed(s) = {}                        -> "idle"
    [] Available(s) /\ Listed(s) # {} /\ \A n \in Names : s.list[n] # "failed" -> "online"
    [] OTHER                                                 -> "unknown"

\* Mutant of Current: the version compared is the last one applied.
CurrentIfApplied(r) == r.version >= conn.applied

\* A report for an older revision must not be attached to today's definitions.
Current(r) == r.version = conn.version

\* Mutant of Outdated: a report for the revision already recorded adds nothing.
NotNewer(r) == 0 < r.version /\ r.version <= conn.applied

Outdated(r) == 0 < r.version /\ r.version < conn.applied

\* Mutant of Observe: a mapping the list lacks is set from the list as well.
ObserveAll(r, s) ==
  [n \in Names |-> IF Exists(n) /\ Current(r) /\ Available(s)
                   THEN [rows[n] EXCEPT !.seen = s.list[n], !.ran = r.ran[n]] ELSE rows[n]]

\* All mappings are reset to "unknown", then the listed ones set by name.
Observe(r, s) ==
  [n \in Names |->
    IF Exists(n) /\ Current(r) /\ Available(s) /\ n \in Listed(s)
    THEN [rows[n] EXCEPT !.seen = s.list[n], !.ran = r.ran[n]]
    ELSE [rows[n] EXCEPT !.seen = "unknown", !.ran = 0]]

\* Mutants of Missing: every row counts, no row counts.
AnyMissing(r, s)  == \E n \in Names : Exists(n) /\ Observe(r, s)[n].seen = "unknown"
NoneMissing(r, s) == FALSE

Missing(r, s) == \E n \in Names : Active(n) /\ Observe(r, s)[n].seen = "unknown"

Status(r, s) ==
  IF Current(r) /\ ~(Health(s) \in {"online", "idle"} /\ Missing(r, s)) THEN Health(s) ELSE "unknown"

Ignore(r) == Outdated(r) /\ flight' = flight \ {r} /\ UNCHANGED <<server, agent, calm>>

Record(r, s) ==
  /\ ~Outdated(r)
  /\ conn' = [conn EXCEPT !.status = Status(r, s),
                !.applied = IF r.version \in 1..conn.version THEN r.version ELSE @]
  /\ rows' = Observe(r, s)
  /\ flight' = flight \ {r} /\ UNCHANGED <<agent, calm>>

\* The reaper, once the lease of the status is over or the host is offline.
Expire ==
  /\ conn.status \notin {"pending", "unknown"}
  /\ conn' = [conn EXCEPT !.status = "unknown"]
  /\ UNCHANGED <<rows, agent, flight, calm>>

Calm == ~calm /\ calm' = TRUE /\ UNCHANGED <<server, agent, flight>>

Serve == \E r \in flight : Ignore(r) \/ \E s \in Sights(r) : Record(r, s)

Next ==
  \/ Edit \/ Deploy \/ SetConn \/ Restart \/ StartSample \/ Report \/ Serve \/ Expire \/ Calm
  \/ \E r \in flight : Lose(r)

Spec == Init /\ [][Next]_vars

\* Fairness: the agent's loops poll, deploy and report for ever, and a request that is
\* not lost is served.
FairSpec ==
  /\ Spec
  /\ WF_vars(Deploy) /\ WF_vars(SetConn) /\ WF_vars(StartSample)
  /\ WF_vars(Report) /\ WF_vars(Serve)

---------------------------------------------------------------------------
Reports == [version : Versions, ran : [Names -> Versions], calm : BOOLEAN]

\* Types of the variables.
TypeOK ==
  /\ conn \in [version : Versions \ {0}, applied : Versions,
               status : {"pending", "unknown", "offline", "idle", "online", "degraded"}]
  /\ rows \in [Names -> [def : Versions, inactive : BOOLEAN, seen : Observed, ran : Versions]]
  /\ entry \in Versions
  /\ proc \in [version : Versions, runs : [Names -> Versions]]
  /\ sample \in [on : BOOLEAN, version : Versions]
  /\ flight \subseteq Reports /\ calm \in BOOLEAN

\* What a mapping is said to do was observed of the definition it has now, however late
\* the report came, and whether or not the name was deleted, renamed or used again since
\* ("A report for an older config must not be attached to today's proxy definitions",
\* service/agent.go:433).
RunningIsDefined ==
  \A n \in Names : rows[n].seen # "unknown" => rows[n].ran = rows[n].def

\* A connection shown as online or idle, with its newest revision applied, has every
\* active mapping observed as running, and is idle only when it has no active mapping
\* ("An empty snapshot on reconnect is unknown, never evidence of a working proxy").
OnlineIsComplete ==
  conn.status \in {"online", "idle"} /\ conn.applied = conn.version =>
    /\ \A n \in Names : Active(n) => rows[n].seen = "running"
    /\ conn.status = "idle" => \A n \in Names : ~Active(n)

\* Everything is deployed, recorded and seen to run.
Healthy ==
  /\ conn.applied = conn.version
  /\ conn.status = IF \E n \in Names : Active(n) THEN "online" ELSE "idle"
  /\ \A n \in Names : Active(n) => rows[n].seen = "running"

\* Once nothing fails any more, the status recovers whatever was lost, reordered or
\* reported by mistake before: inactive mappings do not count as missing, and an equal
\* version is recorded again.
Recovers == calm ~> Healthy

---------------------------------------------------------------------------
(* An inductive invariant.                                                   *)

\* What is read first is never newer than what is read after it.
OrderInv ==
  /\ conn.applied <= conn.version
  /\ entry <= proc.version /\ sample.version <= proc.version /\ proc.version <= conn.version
  /\ \A r \in flight : r.version <= conn.version

\* A process or a report of the newest revision has the definitions of today.
CurrentInv ==
  /\ proc.version = conn.version => proc.runs = Rendered
  /\ \A r \in flight : Current(r) => r.ran = Rendered

IInv == TypeOK /\ OrderInv /\ CurrentInv /\ RunningIsDefined /\ OnlineIsComplete

---------------------------------------------------------------------------
\* A late report never takes back the applied revision, and no step shows a revision as
\* applied that the connection does not have yet (service/agent.go:402-432).
AppliedForward ==
  [][conn.applied <= conn'.applied /\ conn'.applied <= conn'.version]_vars
=============================================================================
