--------------------------- MODULE ConnStatusProofs ---------------------------
(* Proofs about ConnStatus, for any names, any number of revisions and reports,   *)
(* and for any loss, delay and order of the reports.                            *)
EXTENDS ConnStatus, TLAPS

Row == [def : Versions, inactive : BOOLEAN, seen : Observed, ran : Versions]

\* What relates the rows to the connection's status.
StatusInv == RunningIsDefined /\ OnlineIsComplete

\* A row that was just made or changed is well typed and has not been observed.
LEMMA FreshRow ==
  ASSUME NEW v \in Versions, NEW i \in BOOLEAN
  PROVE  NewRow(v, i) \in Row /\ NewRow(v, i).seen = "unknown"
<1>2. 0 \in Versions BY ConstantsAssumption DEF Versions, ConstantsAssumption
<1> QED BY <1>2 DEF NewRow, Row, Observed

LEMMA InvariantInitially == Init => IInv
<1> SUFFICES ASSUME Init PROVE IInv
  OBVIOUS
<1> USE ConstantsAssumption DEF Init, ConstantsAssumption, Versions
<1>0. 0 \in Versions /\ 1 \in Versions OBVIOUS
<1>1. /\ NoRow \in Row /\ NoRow.seen = "unknown"
      /\ NewRow(1, FALSE) \in Row /\ NewRow(1, FALSE).seen = "unknown"
      /\ NewRow(1, TRUE) \in Row /\ NewRow(1, TRUE).seen = "unknown"
  <2> FALSE \in BOOLEAN /\ TRUE \in BOOLEAN OBVIOUS
  <2> QED BY <1>0, FreshRow, Zenon DEF NoRow
<1>2. rows \in [Names -> Row] /\ \A n \in Names : rows[n].seen = "unknown"
  <2>1. \A n \in Names : rows[n] \in {NoRow, NewRow(1, FALSE), NewRow(1, TRUE)} OBVIOUS
  <2>2. ASSUME NEW n \in Names PROVE rows[n] \in Row /\ rows[n].seen = "unknown"
    <3>1. rows[n] = NoRow \/ rows[n] = NewRow(1, FALSE) \/ rows[n] = NewRow(1, TRUE) BY <2>1
    <3> HIDE DEF Init
    <3> QED BY <1>1, <3>1
  <2> QED BY <2>2
<1>3. TypeOK
  <2>1. conn \in [version : Versions \ {0}, applied : Versions,
                  status : {"pending", "unknown", "offline", "idle", "online", "degraded"}]
    OBVIOUS
  <2>2. entry \in Versions /\ proc \in [version : Versions, runs : [Names -> Versions]] OBVIOUS
  <2>3. sample \in [on : BOOLEAN, version : Versions] BY DEF NoSample
  <2>4. flight \subseteq Reports OBVIOUS
  <2>5. calm \in BOOLEAN OBVIOUS
  <2> HIDE DEF Init
  <2> QED BY <1>2, <2>1, <2>2, <2>3, <2>4, <2>5 DEF TypeOK, Row
<1>4. OrderInv /\ CurrentInv BY DEF OrderInv, CurrentInv, NoSample
<1>5. RunningIsDefined /\ OnlineIsComplete
  BY <1>2 DEF RunningIsDefined, OnlineIsComplete
<1> QED BY <1>3, <1>4, <1>5 DEF IInv

\* An edit leaves every process and report behind, whatever it does to the rows, as long
\* as what was observed goes with the definition it was observed of.
LEMMA EditStep ==
  ASSUME IInv, Revise, rows' \in [Names -> Row], RunningIsDefined'
  PROVE  IInv'
<1> USE ConstantsAssumption DEF ConstantsAssumption, Versions
<1>1. /\ conn' = [conn EXCEPT !.version = @ + 1] /\ conn.version < MaxVersion
      /\ UNCHANGED <<entry, proc, sample, flight, calm>>
  BY DEF Revise, agent
<1>2. conn \in [version : Versions \ {0}, applied : Versions,
                status : {"pending", "unknown", "offline", "idle", "online", "degraded"}]
  BY DEF IInv, TypeOK
<1>3. /\ conn'.version = conn.version + 1 /\ conn'.applied = conn.applied /\ conn'.status = conn.status
      /\ conn.version \in Nat /\ conn.applied \in Nat
      /\ conn' \in [version : Versions \ {0}, applied : Versions,
                    status : {"pending", "unknown", "offline", "idle", "online", "degraded"}]
  BY <1>1, <1>2
<1>4. TypeOK' BY <1>1, <1>3 DEF IInv, TypeOK, Row
<1>5. entry \in Nat /\ proc.version \in Nat /\ sample.version \in Nat /\ \A r \in flight : r.version \in Nat
  BY DEF IInv, TypeOK, Reports
<1>6. OrderInv' BY <1>1, <1>3, <1>5 DEF IInv, OrderInv
<1>7. CurrentInv' BY <1>1, <1>3, <1>5 DEF IInv, OrderInv, CurrentInv, Current
<1>8. OnlineIsComplete' BY <1>1, <1>3 DEF IInv, OrderInv, OnlineIsComplete
<1> QED BY <1>4, <1>6, <1>7, <1>8 DEF IInv

LEMMA EditsStep == IInv /\ Edit => IInv'
<1> SUFFICES ASSUME IInv, Edit PROVE IInv'
  OBVIOUS
<1>0. /\ rows \in [Names -> Row] /\ RunningIsDefined /\ NoRow \in Row /\ NoRow.seen = "unknown"
      /\ Revise => conn.version + 1 \in Versions
  <2>1. 0 \in Versions /\ (Revise => conn.version + 1 \in Versions)
    BY ConstantsAssumption DEF ConstantsAssumption, IInv, TypeOK, Versions, Revise
  <2>2. FALSE \in BOOLEAN OBVIOUS
  <2>3. NoRow \in Row /\ NoRow.seen = "unknown" BY <2>1, <2>2, FreshRow, Zenon DEF NoRow
  <2> QED BY <2>1, <2>3 DEF IInv, TypeOK, Row
<1>1. CASE UpdateConnection
  BY <1>0, <1>1, EditStep DEF UpdateConnection, RunningIsDefined
<1>2. ASSUME NEW n \in Names, DeleteProxy(n) PROVE IInv'
  BY <1>0, <1>2, EditStep DEF DeleteProxy, RunningIsDefined
<1>3. ASSUME NEW n \in Names, ReevaluateOccupancy(n) PROVE IInv'
  <2>1. rows[n] \in Row BY <1>0
  <2>2. [rows[n] EXCEPT !.inactive = FALSE] \in Row BY <2>1 DEF Row
  <2>3. rows' = [rows EXCEPT ![n] = [rows[n] EXCEPT !.inactive = FALSE]] /\ Revise
    BY <1>3 DEF ReevaluateOccupancy
  <2>4. \A m \in Names : rows'[m].seen = rows[m].seen /\ rows'[m].ran = rows[m].ran /\ rows'[m].def = rows[m].def
    BY <1>0, <2>1, <2>3 DEF Row
  <2> QED BY <1>0, <2>2, <2>3, <2>4, EditStep DEF RunningIsDefined
<1>4. ASSUME NEW n \in Names, NEW i \in BOOLEAN, AddProxy(n, i) PROVE IInv'
  <2>1. rows' = [rows EXCEPT ![n] = NewRow(conn.version + 1, i)] /\ Revise
    BY <1>4 DEF AddProxy
  <2>2. NewRow(conn.version + 1, i) \in Row /\ NewRow(conn.version + 1, i).seen = "unknown"
    BY <1>0, <2>1, FreshRow
  <2> QED BY <1>0, <2>1, <2>2, EditStep DEF RunningIsDefined
<1>5. ASSUME NEW n \in Names, NEW i \in BOOLEAN, NEW new \in Names, UpdateProxy(n, new, i) PROVE IInv'
  <2>1. rows' = [rows EXCEPT ![n] = NoRow, ![new] = NewRow(conn.version + 1, i)] /\ Revise
    BY <1>5 DEF UpdateProxy
  <2>2. NewRow(conn.version + 1, i) \in Row /\ NewRow(conn.version + 1, i).seen = "unknown"
    BY <1>0, <2>1, FreshRow
  <2> QED BY <1>0, <2>1, <2>2, EditStep DEF RunningIsDefined
<1> QED BY <1>1, <1>2, <1>3, <1>4, <1>5 DEF Edit

\* The agent: what it reports of the newest revision is what that revision renders to.
LEMMA AgentStep ==
  ASSUME IInv, Deploy \/ SetConn \/ Restart \/ StartSample \/ Report
  PROVE  IInv'
<1> USE ConstantsAssumption DEF ConstantsAssumption, Versions
<1>0. /\ entry \in Nat /\ proc.version \in Nat /\ sample.version \in Nat /\ conn.version \in Nat
      /\ conn.version \in Versions /\ Rendered \in [Names -> Versions]
      /\ proc \in [version : Versions, runs : [Names -> Versions]]
      /\ sample \in [on : BOOLEAN, version : Versions]
      /\ \A r \in flight : r.version \in Nat
  BY DEF IInv, TypeOK, Reports, Rendered
<1>1. StatusInv' /\ Rendered' = Rendered /\ UNCHANGED server
  <2>1. UNCHANGED server BY DEF Deploy, SetConn, Restart, StartSample, Report
  <2>2. UNCHANGED <<conn, rows>> BY <2>1 DEF server
  <2> QED BY <2>1, <2>2 DEF IInv, StatusInv, RunningIsDefined, OnlineIsComplete, Rendered, Active, Exists
<1>2. UNCHANGED <<conn, rows>> BY <1>1 DEF server
<1>3. CASE Deploy
  <2>1. proc' = [version |-> conn.version, runs |-> Rendered] /\ UNCHANGED <<entry, sample, flight, calm>>
    BY <1>3 DEF Deploy
  <2>2. TypeOK' BY <1>0, <1>2, <2>1 DEF IInv, TypeOK
  <2>3. OrderInv' BY <1>0, <1>2, <2>1 DEF IInv, OrderInv
  <2>4. CurrentInv' BY <1>1, <1>2, <2>1 DEF IInv, CurrentInv, Current
  <2> QED BY <1>1, <2>2, <2>3, <2>4 DEF IInv, StatusInv
<1>4. CASE SetConn
  <2>1. TypeOK' BY <1>0, <1>2, <1>4 DEF SetConn, IInv, TypeOK
  <2>2. OrderInv' BY <1>0, <1>2, <1>4 DEF SetConn, IInv, OrderInv
  <2>3. CurrentInv' BY <1>1, <1>2, <1>4 DEF SetConn, IInv, CurrentInv, Current
  <2> QED BY <1>1, <2>1, <2>2, <2>3 DEF IInv, StatusInv
<1>5. CASE Restart
  <2>1. TypeOK' BY <1>0, <1>2, <1>5 DEF Restart, NoSample, IInv, TypeOK
  <2>2. OrderInv' BY <1>0, <1>2, <1>5 DEF Restart, NoSample, IInv, OrderInv
  <2>3. CurrentInv' BY <1>1, <1>2, <1>5 DEF Restart, IInv, CurrentInv, Current
  <2> QED BY <1>1, <2>1, <2>2, <2>3 DEF IInv, StatusInv
<1>6. CASE StartSample
  <2>1. TypeOK' BY <1>0, <1>2, <1>6 DEF StartSample, IInv, TypeOK
  <2>2. OrderInv' BY <1>0, <1>2, <1>6 DEF StartSample, IInv, OrderInv
  <2>3. CurrentInv' BY <1>1, <1>2, <1>6 DEF StartSample, IInv, CurrentInv, Current
  <2> QED BY <1>1, <2>1, <2>2, <2>3 DEF IInv, StatusInv
<1>7. CASE Report
  <2> DEFINE r == [version |-> sample.version, ran |-> proc.runs, calm |-> calm]
  <2>1. flight' = flight \cup {r} /\ sample' = NoSample /\ UNCHANGED <<entry, proc, calm>>
    BY <1>7 DEF Report
  <2>2. r \in Reports /\ calm \in BOOLEAN BY <1>0 DEF Reports, IInv, TypeOK
  <2>3. r.version <= conn.version /\ (Current(r) => r.ran = Rendered)
    BY <1>0 DEF IInv, OrderInv, CurrentInv, Current
  <2> HIDE DEF r
  <2>4. TypeOK' BY <1>0, <1>2, <2>1, <2>2 DEF IInv, TypeOK, NoSample
  <2>5. OrderInv' BY <1>0, <1>2, <2>1, <2>3 DEF IInv, OrderInv, NoSample
  <2>6. CurrentInv' BY <1>1, <1>2, <2>1, <2>3 DEF IInv, CurrentInv, Current
  <2> QED BY <1>1, <2>4, <2>5, <2>6 DEF IInv, StatusInv
<1> QED BY <1>3, <1>4, <1>5, <1>6, <1>7

\* What can be seen of a process: nothing of a mapping it does not run.
LEMMA SightsType ==
  ASSUME NEW r \in Reports, NEW s \in Sights(r)
  PROVE  /\ s.seen \in {"full", "dead", "blind"}
         /\ s.list \in [Names -> {"absent", "running", "failed"}]
         /\ \A n \in Names : r.ran[n] = 0 => s.list[n] = "absent"
<1>1. CASE r.calm BY <1>1 DEF Sights
<1>2. CASE ~r.calm
  <2>1. CASE s \in [seen : {"full"}, list : Lists(r)] BY <2>1 DEF Lists
  <2>2. CASE s \in [seen : {"dead", "blind"}, list : {NoList}] BY <2>2 DEF NoList
  <2> QED BY <1>2, <2>1, <2>2 DEF Sights
<1> QED BY <1>1, <1>2

\* Recording a report (service/agent.go:402-470).
LEMMA RecordStep ==
  ASSUME IInv, NEW r \in flight, NEW s \in Sights(r), Record(r, s)
  PROVE  IInv'
<1> USE ConstantsAssumption DEF ConstantsAssumption, Versions
<1>0. /\ r \in Reports /\ r.version \in Nat /\ r.ran \in [Names -> Versions]
      /\ rows \in [Names -> Row] /\ conn.version \in Nat /\ conn.applied \in Nat
      /\ conn \in [version : Versions \ {0}, applied : Versions,
                   status : {"pending", "unknown", "offline", "idle", "online", "degraded"}]
  BY DEF IInv, TypeOK, Reports, Row
<1>1. /\ s.seen \in {"full", "dead", "blind"}
      /\ s.list \in [Names -> {"absent", "running", "failed"}]
      /\ \A n \in Names : r.ran[n] = 0 => s.list[n] = "absent"
  BY <1>0, SightsType
<1>2. /\ rows' = Observe(r, s) /\ flight' = flight \ {r} /\ UNCHANGED <<entry, proc, sample, calm>>
      /\ conn' = [conn EXCEPT !.status = Status(r, s),
                    !.applied = IF r.version \in 1..conn.version THEN r.version ELSE @]
  BY DEF Record, agent
<1>3. Health(s) \in {"unknown", "offline", "idle", "online", "degraded"}
  BY DEF Health
<1>4. Status(r, s) \in {"unknown", "offline", "idle", "online", "degraded"}
  BY <1>3 DEF Status
<1>5. /\ conn'.version = conn.version /\ conn'.status = Status(r, s)
      /\ conn'.applied \in {conn.applied, r.version} /\ conn'.applied <= conn.version
      /\ conn' \in [version : Versions \ {0}, applied : Versions,
                    status : {"pending", "unknown", "offline", "idle", "online", "degraded"}]
  <2>1. conn.applied <= conn.version /\ r.version <= conn.version BY DEF IInv, OrderInv
  <2> DEFINE a == IF r.version \in 1..conn.version THEN r.version ELSE conn.applied
  <2>2. a \in {conn.applied, r.version} /\ a <= conn.version /\ a \in Versions BY <1>0, <2>1
  <2>3. conn' = [conn EXCEPT !.status = Status(r, s), !.applied = a] BY <1>2
  <2> HIDE DEF a
  <2> QED BY <1>0, <1>4, <2>2, <2>3
<1> DEFINE new(n) == IF Exists(n) /\ Current(r) /\ Available(s) /\ n \in Listed(s)
                     THEN [rows[n] EXCEPT !.seen = s.list[n], !.ran = r.ran[n]]
                     ELSE [rows[n] EXCEPT !.seen = "unknown", !.ran = 0]
<1>6. ASSUME NEW n \in Names
      PROVE  /\ rows'[n] \in Row
             /\ rows'[n].def = rows[n].def /\ rows'[n].inactive = rows[n].inactive
             /\ rows'[n].seen # "unknown" => /\ Exists(n) /\ Current(r) /\ Available(s) /\ n \in Listed(s)
                                             /\ rows'[n].seen = s.list[n] /\ rows'[n].ran = r.ran[n]
  <2>1. rows'[n] = new(n) BY <1>2 DEF Observe
  <2>2. rows[n] \in Row /\ r.ran[n] \in Versions /\ 0 \in Versions BY <1>0
  <2>3. CASE Exists(n) /\ Current(r) /\ Available(s) /\ n \in Listed(s)
    <3>1. rows'[n] = [rows[n] EXCEPT !.seen = s.list[n], !.ran = r.ran[n]] BY <2>1, <2>3
    <3>2. s.list[n] \in {"running", "failed"} BY <1>1, <2>3 DEF Listed
    <3> QED BY <2>2, <2>3, <3>1, <3>2 DEF Row, Observed
  <2>4. CASE ~(Exists(n) /\ Current(r) /\ Available(s) /\ n \in Listed(s))
    <3>1. rows'[n] = [rows[n] EXCEPT !.seen = "unknown", !.ran = 0] BY <2>1, <2>4
    <3> QED BY <2>2, <3>1 DEF Row, Observed
  <2> QED BY <2>3, <2>4
<1>7. rows' \in [Names -> Row]
  <2>1. rows' = [n \in Names |-> rows'[n]] BY <1>2 DEF Observe
  <2> QED BY <1>6, <2>1
<1>8. TypeOK' BY <1>2, <1>5, <1>7 DEF IInv, TypeOK, Row
<1>9. OrderInv' BY <1>2, <1>5 DEF IInv, OrderInv
<1>10. \A n \in Names : Active(n)' = Active(n) BY <1>6 DEF Active, Exists
<1>11. CurrentInv'
  <2>1. Rendered' = Rendered BY <1>6, <1>10 DEF Rendered
  <2> QED BY <1>2, <1>5, <2>1 DEF IInv, CurrentInv, Current
<1>12. RunningIsDefined'
  <2> SUFFICES ASSUME NEW n \in Names, rows'[n].seen # "unknown" PROVE rows'[n].ran = rows'[n].def
    BY DEF RunningIsDefined
  <2>1. r.ran[n] # 0 /\ r.ran = Rendered BY <1>1, <1>6 DEF Listed, IInv, CurrentInv
  <2> QED BY <1>6, <2>1 DEF Rendered
<1>13. OnlineIsComplete'
  <2> SUFFICES ASSUME Status(r, s) \in {"online", "idle"}
               PROVE  /\ \A n \in Names : Active(n) => rows'[n].seen = "running"
                      /\ Status(r, s) = "idle" => \A n \in Names : ~Active(n)
    BY <1>5, <1>10 DEF OnlineIsComplete
  <2>1. Current(r) /\ Status(r, s) = Health(s) /\ ~Missing(r, s) BY DEF Status
  <2>2. Available(s) /\ (\A n \in Names : s.list[n] # "failed") /\ (Health(s) = "idle" => Listed(s) = {})
    <3>1. Health(s) \in {"online", "idle"} BY <2>1
    <3>2. CASE s.seen = "dead"
      <4>1. Health(s) = "offline" BY <3>2 DEF Health, Available
      <4> QED BY <3>1, <4>1
    <3>3. CASE s.seen # "dead" /\ ~Available(s)
      <4>1. Health(s) = "unknown" BY <3>3 DEF Health
      <4> QED BY <3>1, <4>1
    <3>4. CASE Available(s) /\ \E n \in Names : s.list[n] = "failed"
      <4>1. Health(s) = "degraded" BY <3>4 DEF Health, Available, Listed
      <4> QED BY <3>1, <4>1
    <3>5. CASE Available(s) /\ \A n \in Names : s.list[n] # "failed"
      <4>1. CASE Listed(s) # {}
        <5>1. Health(s) = "online" BY <3>5, <4>1 DEF Health, Available
        <5> QED BY <3>5, <5>1
      <4> QED BY <3>5, <4>1
    <3> QED BY <3>2, <3>3, <3>4, <3>5
  <2>3. ASSUME NEW n \in Names, Active(n) PROVE n \in Listed(s) /\ rows'[n].seen = "running"
    <3>1. rows'[n].seen # "unknown" BY <2>1, <2>3, <1>2 DEF Missing
    <3>2. n \in Listed(s) /\ rows'[n].seen = s.list[n] BY <3>1, <1>6
    <3> QED BY <1>1, <2>2, <3>2 DEF Listed
  <2> QED BY <2>1, <2>2, <2>3
<1> QED BY <1>8, <1>9, <1>11, <1>12, <1>13 DEF IInv

LEMMA InvariantStep == IInv /\ [Next]_vars => IInv'
<1> SUFFICES ASSUME IInv, [Next]_vars PROVE IInv'
  OBVIOUS
<1>1. CASE Edit BY <1>1, EditsStep
<1>2. CASE Deploy \/ SetConn \/ Restart \/ StartSample \/ Report BY <1>2, AgentStep
<1>3. ASSUME NEW r \in flight, NEW s \in Sights(r), Record(r, s) PROVE IInv'
  BY <1>3, RecordStep
<1>4. ASSUME NEW r \in flight, Lose(r) \/ Ignore(r) PROVE IInv'
  <2>1. flight' = flight \ {r} /\ UNCHANGED <<conn, rows, entry, proc, sample, calm>>
    BY <1>4 DEF Lose, Ignore, server, agent
  <2> QED BY <2>1 DEF IInv, TypeOK, OrderInv, CurrentInv, Current, Rendered, Active, Exists,
        RunningIsDefined, OnlineIsComplete
<1>5. CASE Expire
  <2>1. /\ conn' = [conn EXCEPT !.status = "unknown"]
        /\ UNCHANGED <<rows, entry, proc, sample, flight, calm>>
    BY <1>5 DEF Expire, agent
  <2>2. /\ conn'.version = conn.version /\ conn'.applied = conn.applied /\ conn'.status = "unknown"
        /\ conn' \in [version : Versions \ {0}, applied : Versions,
                      status : {"pending", "unknown", "offline", "idle", "online", "degraded"}]
    BY <2>1 DEF IInv, TypeOK
  <2> QED BY <2>1, <2>2 DEF IInv, TypeOK, OrderInv, CurrentInv, Current, Rendered, Active, Exists,
        RunningIsDefined, OnlineIsComplete
<1>6. CASE Calm
  BY <1>6 DEF Calm, server, agent, IInv, TypeOK, OrderInv, CurrentInv, Current, Rendered, Active, Exists,
     RunningIsDefined, OnlineIsComplete
<1>7. CASE UNCHANGED vars
  BY <1>7 DEF vars, IInv, TypeOK, OrderInv, CurrentInv, Current, Rendered, Active, Exists,
     RunningIsDefined, OnlineIsComplete
<1> QED BY <1>1, <1>2, <1>3, <1>4, <1>5, <1>6, <1>7 DEF Next, Serve

LEMMA Invariance == Spec => []IInv
BY InvariantInitially, InvariantStep, PTL DEF Spec

\* Types of the variables, in every state that ConnStatus reaches.
THEOREM TypeCorrect == Spec => []TypeOK
<1>1. IInv => TypeOK BY DEF IInv
<1> QED BY <1>1, Invariance, PTL

\* What a mapping is said to do was observed of its present definition, however late the
\* report came (service/agent.go:433-456).
THEOREM ObservedOfPresent == Spec => []RunningIsDefined
<1>1. IInv => RunningIsDefined BY DEF IInv
<1> QED BY <1>1, Invariance, PTL

\* "online" and "idle" leave no active mapping out (service/agent.go:448-467).
THEOREM OnlineComplete == Spec => []OnlineIsComplete
<1>1. IInv => OnlineIsComplete BY DEF IInv
<1> QED BY <1>1, Invariance, PTL

AppliedStep == conn.applied <= conn'.applied /\ conn'.applied <= conn'.version

\* The revision shown as applied only grows and stays one the connection has had, in
\* whatever order the reports come (service/agent.go:402-432).
THEOREM AppliedNeverBack == Spec => AppliedForward
<1>1. IInv /\ [Next]_vars => conn.applied <= conn'.applied
  <2> SUFFICES ASSUME IInv, [Next]_vars PROVE conn.applied <= conn'.applied
    OBVIOUS
  <2>1. /\ conn \in [version : Versions \ {0}, applied : Versions,
                     status : {"pending", "unknown", "offline", "idle", "online", "degraded"}]
        /\ conn.applied \in Nat /\ \A r \in flight : r.version \in Nat
    BY ConstantsAssumption DEF IInv, TypeOK, Versions, Reports
  <2>2. ASSUME NEW r \in flight, NEW s \in Sights(r), Record(r, s) PROVE conn.applied <= conn'.applied
    <3>1. CASE r.version \in 1..conn.version
      <4>1. conn'.applied = r.version BY <2>1, <2>2, <3>1 DEF Record
      <4> QED BY <2>1, <2>2, <3>1, <4>1 DEF Record, Outdated
    <3>2. CASE r.version \notin 1..conn.version
      <4>1. conn'.applied = conn.applied BY <2>1, <2>2, <3>2 DEF Record
      <4> QED BY <2>1, <4>1
    <3> QED BY <3>1, <3>2
  <2>3. CASE Edit \/ Expire
    <3>1. conn'.applied = conn.applied
      BY <2>1, <2>3 DEF Edit, UpdateConnection, DeleteProxy, ReevaluateOccupancy, AddProxy, UpdateProxy, Revise, Expire
    <3> QED BY <2>1, <3>1
  <2>4. CASE conn' = conn BY <2>1, <2>4
  <2> QED BY <2>2, <2>3, <2>4
    DEF Next, Serve, Ignore, Lose, Deploy, SetConn, Restart, StartSample, Report, Calm, server, vars
<1>2. IInv' => conn'.applied <= conn'.version BY DEF IInv, OrderInv
<1>3. IInv /\ [Next]_vars => AppliedStep
  BY <1>1, <1>2, InvariantStep DEF AppliedStep
<1> QED BY <1>3, Invariance, PTL DEF Spec, AppliedForward, AppliedStep
=============================================================================
