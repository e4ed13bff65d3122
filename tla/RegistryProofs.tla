---------------------------- MODULE RegistryProofs ----------------------------
(* Proofs about Registry, for any nodes, hosts, connections, mappings and ports.    *)
EXTENDS Registry, TLAPS

NodeRow    == [status : Statuses, version : Nat, listeners : ListenerChoices,
               settings : Nat, cert : Nat, reported : SUBSET Ports]
HostRow    == [status : Statuses, version : Nat, settings : Nat]
ConnRow    == [status : Statuses, host : Hosts \cup {None}, node : Nodes \cup {None},
               protocol : Protocols \cup {None}, admin : AdminPorts \cup {None},
               version : Nat, cert : Nat]
MappingRow == [status : Statuses, conn : Conns \cup {None}, name : Names \cup {None},
               type : Types \cup {None}, port : Ports \cup {None}, inactive : BOOLEAN]
JobRow     == [node : Nodes \cup {None}, step : {"free", "read", "reactivate"},
               bound : SUBSET Ports, rows : SUBSET [id : Mappings, port : Ports]]

\* The tables, and what the schema says of a live row alone.
TablesOK ==
  /\ nodes \in [Nodes -> NodeRow] /\ hosts \in [Hosts -> HostRow]
  /\ conns \in [Conns -> ConnRow] /\ mappings \in [Mappings -> MappingRow]
  /\ retirements \in [Agents -> Nat]

LiveRowsOK ==
  /\ \A m \in LiveMappings : mappings[m].port = None <=> mappings[m].type \in {"http", "https"}
  /\ \A n \in LiveNodes : nodes[n].listeners["bind"] # None

RestOK ==
  /\ unpublished \subseteq Agents /\ held \in [Nodes -> SUBSET Ports]
  /\ edits \in 0..MaxEdits /\ jobs \in [Slots -> JobRow]

LEMMA TypeParts == TypeOK <=> TablesOK /\ LiveRowsOK /\ RestOK
BY DEF TypeOK, TablesOK, LiveRowsOK, RestOK, NodeRow, HostRow, ConnRow, MappingRow, JobRow

\* The invariants of the runs support each other and need no strengthening: an operation
\* can only be judged by its own guard when no row points to nothing.
IInv == TypeOK /\ Referential /\ NoCollision

---------------------------------------------------------------------------
(* Rows, and what the operations on tables do to them.                         *)

LEMMA EmptyRows ==
  ASSUME NEW s \in Statuses
  PROVE  /\ NoNode(s) \in NodeRow /\ NoHost(s) \in HostRow /\ NoConn(s) \in ConnRow
         /\ NoMapping(s) \in MappingRow /\ NoJob \in JobRow
BY DEF NoNode, NoHost, NoConn, NoMapping, NoJob, NoListeners, ListenerChoices,
       NodeRow, HostRow, ConnRow, MappingRow, JobRow

LEMMA BumpedHosts ==
  ASSUME TablesOK, NEW S, hosts' = bumped(hosts, S)
  PROVE  /\ hosts' \in [Hosts -> HostRow]
         /\ \A h \in Hosts : /\ hosts'[h].status = hosts[h].status /\ hosts'[h].settings = hosts[h].settings
                             /\ h \in S => hosts'[h].version = hosts[h].version + 1
                             /\ h \notin S => hosts'[h] = hosts[h]
<1>1. hosts \in [Hosts -> HostRow] BY DEF TablesOK
<1>2. hosts' = [h \in Hosts |-> IF h \in S THEN [hosts[h] EXCEPT !.version = @ + 1] ELSE hosts[h]]
  BY <1>1 DEF bumped
<1>3. ASSUME NEW h \in Hosts
      PROVE  /\ hosts'[h] \in HostRow
             /\ hosts'[h].status = hosts[h].status /\ hosts'[h].settings = hosts[h].settings
             /\ h \in S => hosts'[h].version = hosts[h].version + 1
             /\ h \notin S => hosts'[h] = hosts[h]
  <2>1. hosts[h] \in HostRow BY <1>1
  <2>2. CASE h \in S
    <3>1. hosts'[h] = [hosts[h] EXCEPT !.version = @ + 1] BY <1>2, <2>2
    <3> QED BY <2>1, <2>2, <3>1 DEF HostRow
  <2>3. CASE h \notin S BY <1>2, <2>1, <2>3
  <2> QED BY <2>2, <2>3
<1>4. hosts' = [h \in Hosts |-> hosts'[h]] BY <1>2
<1> QED BY <1>3, <1>4

LEMMA BumpedConns ==
  ASSUME TablesOK, NEW S, conns' = bumped(conns, S)
  PROVE  /\ conns' \in [Conns -> ConnRow]
         /\ \A c \in Conns :
              /\ conns'[c].status = conns[c].status /\ conns'[c].host = conns[c].host
              /\ conns'[c].node = conns[c].node /\ conns'[c].admin = conns[c].admin
              /\ c \in S => conns'[c].version = conns[c].version + 1
              /\ c \notin S => conns'[c] = conns[c]
<1>1. conns \in [Conns -> ConnRow] BY DEF TablesOK
<1>2. conns' = [c \in Conns |-> IF c \in S THEN [conns[c] EXCEPT !.version = @ + 1] ELSE conns[c]]
  BY <1>1 DEF bumped
<1>3. ASSUME NEW c \in Conns
      PROVE  /\ conns'[c] \in ConnRow
             /\ conns'[c].status = conns[c].status /\ conns'[c].host = conns[c].host
             /\ conns'[c].node = conns[c].node /\ conns'[c].admin = conns[c].admin
             /\ c \in S => conns'[c].version = conns[c].version + 1
             /\ c \notin S => conns'[c] = conns[c]
  <2>1. conns[c] \in ConnRow BY <1>1
  <2>2. CASE c \in S
    <3>1. conns'[c] = [conns[c] EXCEPT !.version = @ + 1] BY <1>2, <2>2
    <3> QED BY <2>1, <2>2, <3>1 DEF ConnRow
  <2>3. CASE c \notin S BY <1>2, <2>1, <2>3
  <2> QED BY <2>2, <2>3
<1>4. conns' = [c \in Conns |-> conns'[c]] BY <1>2
<1> QED BY <1>3, <1>4

LEMMA DeletedRows ==
  ASSUME NEW I, NEW Row, NEW table \in [I -> Row], NEW S, NEW empty \in Row
  PROVE  /\ deleted(table, S, empty) \in [I -> Row]
         /\ \A r \in I : /\ r \in S => deleted(table, S, empty)[r] = empty
                         /\ r \notin S => deleted(table, S, empty)[r] = table[r]
BY DEF deleted

LEMMA MappingRows ==
  ASSUME NEW c \in Conns, NEW in \in Inputs, NEW external
  PROVE  /\ row(c, in, external) \in MappingRow /\ row(c, in, external).status = "live"
         /\ row(c, in, external).port = None <=> row(c, in, external).type \in {"http", "https"}
         /\ row(c, in, external).conn = c /\ row(c, in, external).name = in.name
         /\ row(c, in, external).port = in.port
<1>1. /\ in.name \in Names /\ in.type \in Types /\ in.port \in Ports \cup {None}
      /\ in.port = None <=> in.type \in {"http", "https"}
  BY ConstantsAssumption DEF Inputs, ConstantsAssumption
<1> QED BY <1>1 DEF row, MappingRow, Statuses

---------------------------------------------------------------------------
(* The graph of rows.                                                      *)

\* Every live connection and mapping was there before, at the same place.
NothingNew ==
  /\ \A c \in LiveConns' : /\ c \in LiveConns /\ conns'[c].host = conns[c].host
                           /\ conns'[c].node = conns[c].node /\ conns'[c].admin = conns[c].admin
  /\ \A m \in LiveMappings' : /\ m \in LiveMappings /\ mappings'[m].conn = mappings[m].conn
                              /\ mappings'[m].name = mappings[m].name /\ mappings'[m].port = mappings[m].port

NothingLost == LiveNodes \subseteq LiveNodes' /\ LiveHosts \subseteq LiveHosts' /\ LiveConns \subseteq LiveConns'

LEMMA FewerCollide == ASSUME NoCollision, NothingNew PROVE NoCollision'
<1>1. \A n \in Nodes : \A m \in MappingsOfNode(n)' :
        /\ m \in MappingsOfNode(n) /\ mappings'[m].port = mappings[m].port
  BY DEF NothingNew, MappingsOfNode, ConnsOfNode
<1>2. \A c \in LiveConns' : \A m \in MappingsOfConn(c)' :
        /\ m \in MappingsOfConn(c) /\ mappings'[m].name = mappings[m].name
  BY DEF NothingNew, MappingsOfConn
<1>3. \A n \in Nodes : \A m, k \in MappingsOfNode(n)' :
        m # k /\ mappings'[m].port # None => mappings'[m].port # mappings'[k].port
  BY <1>1 DEF NoCollision
<1>4. \A c \in LiveConns' : \A m, k \in MappingsOfConn(c)' :
        m # k => mappings'[m].name # mappings'[k].name
  BY <1>2 DEF NoCollision, NothingNew
<1>5. \A c, d \in LiveConns' : c # d /\ conns'[c].host = conns'[d].host => conns'[c].admin # conns'[d].admin
  BY DEF NoCollision, NothingNew
<1> QED BY <1>3, <1>4, <1>5 DEF NoCollision

LEMMA SameGraph ==
  ASSUME Referential, NoCollision, NothingNew, NothingLost PROVE Referential' /\ NoCollision'
<1>1. Referential' BY DEF Referential, NothingNew, NothingLost
<1> QED BY <1>1, FewerCollide

LEMMA SameLiveRows ==
  ASSUME LiveRowsOK,
         \A m \in LiveMappings' : /\ m \in LiveMappings /\ mappings'[m].port = mappings[m].port
                                  /\ mappings'[m].type = mappings[m].type,
         \A n \in LiveNodes' : n \in LiveNodes /\ nodes'[n].listeners = nodes[n].listeners
  PROVE  LiveRowsOK'
BY DEF LiveRowsOK

LEMMA RestAfterEdit ==
  ASSUME RestOK, Edit, NEW A \in SUBSET Agents, unpublished' = unpublished \cup A, UNCHANGED <<held, jobs>>
  PROVE  RestOK'
<1>1. edits' \in 0..MaxEdits BY ConstantsAssumption DEF RestOK, Edit, ConstantsAssumption
<1> QED BY <1>1 DEF RestOK

---------------------------------------------------------------------------
(* What a step changes of what the agents are delivered.                       *)

VersionedStep ==
  /\ \A h \in LiveHosts :
       IF h \in LiveHosts' THEN HostConfig(h)' # HostConfig(h) => hosts'[h].version > hosts[h].version
                           ELSE retirements'[h] > hosts[h].version
  /\ \A c \in LiveConns : c \in LiveConns' /\ ConnectionConfig(c)' # ConnectionConfig(c) =>
       conns'[c].version > conns[c].version
  /\ \A n \in LiveNodes :
       IF n \in LiveNodes' THEN NodeConfig(n)' # NodeConfig(n) => nodes'[n].version > nodes[n].version
                           ELSE retirements'[n] > nodes[n].version

AnnouncedStep ==
  /\ \A h \in LiveHosts :
       h \in unpublished' \/ (h \in LiveHosts' /\ HostConfig(h)' = HostConfig(h))
  /\ \A n \in LiveNodes :
       n \in unpublished' \/ (n \in LiveNodes' /\ NodeConfig(n)' = NodeConfig(n))

\* A step touches at most the nodes N, the hosts H and the connections C, mappings included:
\* among them the hosts of these connections, and the connections of these nodes when what
\* they dial changes.
Touches(N, H, C) ==
  /\ \A n \in Nodes \ N : /\ nodes'[n].status = nodes[n].status /\ nodes'[n].cert = nodes[n].cert
                          /\ nodes'[n].listeners = nodes[n].listeners
                          /\ nodes'[n].settings = nodes[n].settings
  /\ \A h \in Hosts \ H : hosts'[h] = hosts[h]
  /\ \A c \in Conns \ C : conns'[c] = conns[c]
  /\ \A m \in Mappings : \/ mappings'[m] = mappings[m]
                         \/ /\ m \in LiveMappings => mappings[m].conn \in C
                            /\ m \in LiveMappings' => mappings'[m].conn \in C
  /\ \A c \in C : /\ c \in LiveConns => conns[c].host \in H
                  /\ c \in LiveConns' => conns'[c].host \in H
  /\ \A c \in LiveConns \ C : /\ nodes'[conns[c].node].listeners = nodes[conns[c].node].listeners
                              /\ nodes'[conns[c].node].settings = nodes[conns[c].node].settings

\* It raises the revisions of what it touches, and leaves those agents to be notified.
Raises(N, H, C) ==
  /\ \A h \in LiveHosts \cap H :
       /\ h \in unpublished'
       /\ IF h \in LiveHosts' THEN hosts'[h].version > hosts[h].version ELSE retirements'[h] > hosts[h].version
  /\ \A n \in LiveNodes \cap N :
       /\ n \in unpublished'
       /\ IF n \in LiveNodes' THEN nodes'[n].version > nodes[n].version ELSE retirements'[n] > nodes[n].version
  /\ \A c \in LiveConns \cap C : c \in LiveConns' => conns'[c].version > conns[c].version

LEMMA SameConnection ==
  ASSUME NEW c, conns'[c] = conns[c],
         nodes'[conns[c].node].listeners = nodes[conns[c].node].listeners,
         nodes'[conns[c].node].settings = nodes[conns[c].node].settings,
         MappingsOfConn(c)' = MappingsOfConn(c),
         \A m \in MappingsOfConn(c) : mappings'[m] = mappings[m]
  PROVE  ConnectionConfig(c)' = ConnectionConfig(c)
<1>1. \A p : /\ nodeOffersProtocol(conns[c].node, p)' = nodeOffersProtocol(conns[c].node, p)
             /\ serverPortFor(conns[c].node, p)' = serverPortFor(conns[c].node, p)
  BY DEF nodeOffersProtocol, serverPortFor
<1> DEFINE proxies == {[name |-> mappings[m].name, type |-> mappings[m].type, port |-> mappings[m].port] :
                         m \in {k \in MappingsOfConn(c) : ~mappings[k].inactive}}
<1>2. proxies' = proxies OBVIOUS
<1> QED BY <1>1, <1>2 DEF ConnectionConfig

\* What is not touched is delivered as before.
LEMMA Untouched ==
  ASSUME IInv, NEW N, NEW H, NEW C \in SUBSET Conns, Touches(N, H, C)
  PROVE  /\ \A c \in LiveConns \ C : c \in LiveConns' /\ ConnectionConfig(c)' = ConnectionConfig(c)
         /\ \A h \in LiveHosts \ H : h \in LiveHosts' /\ HostConfig(h)' = HostConfig(h)
         /\ \A n \in LiveNodes \ N : n \in LiveNodes' /\ NodeConfig(n)' = NodeConfig(n)
<1>1. ASSUME NEW c \in LiveConns \ C
      PROVE  /\ c \in LiveConns' /\ conns'[c] = conns[c]
             /\ ConnectionConfig(c)' = ConnectionConfig(c)
  <2>1. conns'[c] = conns[c] /\ c \in LiveConns' BY DEF Touches, LiveConns
  <2>2. \A m \in Mappings : mappings'[m] = mappings[m] \/ (m \notin MappingsOfConn(c) /\ m \notin MappingsOfConn(c)')
    BY DEF Touches, MappingsOfConn
  <2>3. MappingsOfConn(c)' = MappingsOfConn(c) BY <2>2 DEF MappingsOfConn, LiveMappings
  <2>4. \A m \in MappingsOfConn(c) : mappings'[m] = mappings[m] BY <2>2 DEF MappingsOfConn, LiveMappings
  <2>5. /\ nodes'[conns[c].node].listeners = nodes[conns[c].node].listeners
        /\ nodes'[conns[c].node].settings = nodes[conns[c].node].settings
    BY DEF Touches
  <2> QED BY <2>1, <2>3, <2>4, <2>5, SameConnection
<1>2. ASSUME NEW h \in LiveHosts \ H PROVE h \in LiveHosts' /\ HostConfig(h)' = HostConfig(h)
  <2>1. hosts'[h] = hosts[h] /\ h \in LiveHosts' BY DEF Touches, LiveHosts
  <2>2. \A c \in ConnsOfHost(h) : c \in LiveConns \ C BY DEF Touches, ConnsOfHost
  <2>3. \A c \in ConnsOfHost(h)' : c \in LiveConns
    <3>1. SUFFICES ASSUME NEW c \in ConnsOfHost(h)' PROVE c \in LiveConns
      OBVIOUS
    <3>2. c \in LiveConns' /\ c \in Conns /\ conns'[c].host = h BY DEF ConnsOfHost, LiveConns
    <3>3. c \notin C BY <3>2 DEF Touches
    <3> QED BY <3>2, <3>3 DEF Touches, LiveConns
  <2>4. \A c \in ConnsOfHost(h)' : c \notin C BY DEF Touches, ConnsOfHost, LiveConns
  <2>5. ConnsOfHost(h)' = ConnsOfHost(h)
    BY <1>1, <2>2, <2>3, <2>4 DEF ConnsOfHost
  <2>6. \A c \in ConnsOfHost(h) :
          /\ ConnectionConfig(c)' = ConnectionConfig(c) /\ conns'[c].version = conns[c].version
    BY <1>1, <2>2
  <2> DEFINE connections == {<<c, conns[c].version, ConnectionConfig(c)>> : c \in ConnsOfHost(h)}
  <2>7. connections' = connections
    <3> HIDE DEF ConnectionConfig
    <3> QED BY <2>5, <2>6
  <2> QED BY <2>1, <2>7 DEF HostConfig
<1>3. ASSUME NEW n \in LiveNodes \ N PROVE n \in LiveNodes' /\ NodeConfig(n)' = NodeConfig(n)
  BY DEF Touches, LiveNodes, NodeConfig
<1> QED BY <1>1, <1>2, <1>3

LEMMA Delivered ==
  ASSUME IInv, NEW N, NEW H, NEW C \in SUBSET Conns, Touches(N, H, C), Raises(N, H, C)
  PROVE  VersionedStep /\ AnnouncedStep
<1>1. /\ \A c \in LiveConns \ C : c \in LiveConns' /\ ConnectionConfig(c)' = ConnectionConfig(c)
      /\ \A h \in LiveHosts \ H : h \in LiveHosts' /\ HostConfig(h)' = HostConfig(h)
      /\ \A n \in LiveNodes \ N : n \in LiveNodes' /\ NodeConfig(n)' = NodeConfig(n)
  BY Untouched
<1>2. VersionedStep BY <1>1 DEF VersionedStep, Raises
<1>3. AnnouncedStep BY <1>1 DEF AnnouncedStep, Raises
<1> QED BY <1>2, <1>3

---------------------------------------------------------------------------
(* The actions.                                                            *)

LEMMA Parts == IInv => TablesOK /\ LiveRowsOK /\ RestOK /\ Referential /\ NoCollision
BY TypeParts DEF IInv

LEMMA Whole == TablesOK' /\ LiveRowsOK' /\ RestOK' /\ Referential' /\ NoCollision' => IInv'
<1>1. TypeOK' <=> TablesOK' /\ LiveRowsOK' /\ RestOK'
  BY DEF TypeOK, TablesOK, LiveRowsOK, RestOK, NodeRow, HostRow, ConnRow, MappingRow, JobRow
<1> QED BY <1>1 DEF IInv

\* A step that leaves the tables alone.
LEMMA NoTable ==
  ASSUME IInv, UNCHANGED tables, RestOK' PROVE IInv' /\ VersionedStep /\ AnnouncedStep
<1>1. UNCHANGED <<nodes, hosts, conns, mappings, retirements>> BY DEF tables
<1>2. /\ UNCHANGED <<LiveNodes, LiveHosts, LiveConns, LiveMappings>>
      /\ NothingNew /\ NothingLost
  BY <1>1 DEF LiveNodes, LiveHosts, LiveConns, LiveMappings, NothingNew, NothingLost
<1>3. TablesOK' /\ LiveRowsOK' BY <1>1, <1>2, Parts DEF TablesOK, LiveRowsOK
<1>4. Referential' /\ NoCollision' BY <1>2, Parts, SameGraph
<1>5. Touches({}, {}, {}) /\ Raises({}, {}, {}) BY <1>1 DEF Touches, Raises
<1> QED BY <1>3, <1>4, <1>5, Whole, Delivered

LEMMA CreateFRPSStep ==
  ASSUME IInv, NEW n \in Nodes, NEW ls \in ListenerChoices, CreateFRPS(n, ls)
  PROVE  IInv' /\ VersionedStep /\ AnnouncedStep
<1> DEFINE q == [NoNode("live") EXCEPT !.version = 1, !.listeners = ls]
<1>1. /\ nodes' = [nodes EXCEPT ![n] = q] /\ nodes[n].status = "unused" /\ ls["bind"] # None /\ Edit
      /\ UNCHANGED <<hosts, conns, mappings, retirements, unpublished, held, jobs>>
  BY DEF CreateFRPS, validListeners
<1>2. q \in NodeRow /\ q.status = "live" /\ q.listeners = ls
  BY EmptyRows DEF NoNode, NodeRow, Statuses
<1> HIDE DEF q
<1>3. TablesOK /\ nodes \in [Nodes -> NodeRow] BY Parts DEF TablesOK
<1>4. /\ nodes' \in [Nodes -> NodeRow] /\ nodes'[n] = q
      /\ \A k \in Nodes \ {n} : nodes'[k] = nodes[k]
  BY <1>1, <1>2, <1>3
<1>5. TablesOK' BY <1>1, <1>3, <1>4 DEF TablesOK
<1>6. LiveRowsOK'
  <2>1. \A m \in LiveMappings' : mappings'[m].port = None <=> mappings'[m].type \in {"http", "https"}
    BY <1>1, Parts DEF LiveRowsOK, LiveMappings
  <2>2. \A k \in LiveNodes' : nodes'[k].listeners["bind"] # None
    BY <1>1, <1>2, <1>4, Parts DEF LiveRowsOK, LiveNodes
  <2> QED BY <2>1, <2>2 DEF LiveRowsOK
<1>7. RestOK'
  <2>1. unpublished' = unpublished \cup {} /\ {} \in SUBSET Agents BY <1>1
  <2> QED BY <1>1, <2>1, RestAfterEdit, Parts
<1>8. NothingNew /\ NothingLost
  BY <1>1, <1>2, <1>4 DEF NothingNew, NothingLost, LiveNodes, LiveHosts, LiveConns, LiveMappings
<1>9. n \notin LiveNodes /\ \A c \in LiveConns : conns[c].node \in Nodes \ {n}
  BY <1>1, Parts DEF Referential, LiveNodes
<1>10. Touches({n}, {}, {}) /\ Raises({n}, {}, {})
  BY <1>1, <1>4, <1>9 DEF Touches, Raises
<1> QED BY <1>5, <1>6, <1>7, <1>8, <1>10, Parts, SameGraph, Whole, Delivered

LEMMA UpdateFRPSStep ==
  ASSUME IInv, NEW n \in Nodes, NEW ls \in ListenerChoices, UpdateFRPS(n, ls)
  PROVE  IInv' /\ VersionedStep /\ AnnouncedStep
<1> DEFINE clients == {conns[c].host : c \in ConnsOfNode(n)}
           q == [nodes[n] EXCEPT !.listeners = ls, !.settings = @ + 1, !.version = @ + 1]
<1>1. /\ n \in LiveNodes /\ ls["bind"] # None /\ Edit
      /\ nodes' = [nodes EXCEPT ![n].listeners = ls, ![n].settings = @ + 1, ![n].version = @ + 1]
      /\ conns' = bumped(conns, ConnsOfNode(n)) /\ hosts' = bumped(hosts, clients)
      /\ unpublished' = unpublished \cup ({n} \cup clients)
      /\ UNCHANGED <<mappings, retirements, held, jobs>>
  BY DEF UpdateFRPS, validListeners, Notify
<1>2. TablesOK /\ nodes \in [Nodes -> NodeRow] /\ nodes[n] \in NodeRow BY Parts DEF TablesOK
<1>3. /\ q \in NodeRow /\ q.status = nodes[n].status /\ q.listeners = ls /\ q.version = nodes[n].version + 1
  <2>1. nodes[n].settings + 1 \in Nat /\ nodes[n].version + 1 \in Nat BY <1>2 DEF NodeRow
  <2> QED BY <1>2, <2>1 DEF NodeRow
<1>4. nodes' = [nodes EXCEPT ![n] = q] BY <1>1, <1>2
<1> HIDE DEF q
<1>5. /\ nodes' \in [Nodes -> NodeRow] /\ nodes'[n] = q
      /\ \A k \in Nodes \ {n} : nodes'[k] = nodes[k]
  BY <1>2, <1>3, <1>4
<1>6. ConnsOfNode(n) \subseteq LiveConns /\ clients \subseteq LiveHosts
  BY Parts DEF Referential, ConnsOfNode
<1>7. /\ hosts' \in [Hosts -> HostRow]
      /\ \A h \in Hosts : /\ hosts'[h].status = hosts[h].status /\ hosts'[h].settings = hosts[h].settings
                          /\ h \in clients => hosts'[h].version = hosts[h].version + 1
                          /\ h \notin clients => hosts'[h] = hosts[h]
  <2> HIDE DEF clients
  <2> QED BY <1>1, <1>2, BumpedHosts
<1>8. /\ conns' \in [Conns -> ConnRow]
      /\ \A c \in Conns :
           /\ conns'[c].status = conns[c].status /\ conns'[c].host = conns[c].host
           /\ conns'[c].node = conns[c].node /\ conns'[c].admin = conns[c].admin
           /\ c \in ConnsOfNode(n) => conns'[c].version = conns[c].version + 1
           /\ c \notin ConnsOfNode(n) => conns'[c] = conns[c]
  BY <1>1, <1>2, BumpedConns
<1>9. TablesOK' BY <1>1, <1>2, <1>5, <1>7, <1>8 DEF TablesOK
<1>10. LiveRowsOK'
  <2>1. \A m \in LiveMappings' : mappings'[m].port = None <=> mappings'[m].type \in {"http", "https"}
    BY <1>1, Parts DEF LiveRowsOK, LiveMappings
  <2>2. \A k \in LiveNodes' : nodes'[k].listeners["bind"] # None
    BY <1>1, <1>3, <1>5, Parts DEF LiveRowsOK, LiveNodes
  <2> QED BY <2>1, <2>2 DEF LiveRowsOK
<1>11. RestOK'
  <2>1. {n} \cup clients \in SUBSET Agents BY <1>1, <1>6 DEF Agents, LiveHosts
  <2> HIDE DEF clients
  <2> QED BY <1>1, <2>1, RestAfterEdit, Parts
<1>12. NothingNew /\ NothingLost
  BY <1>1, <1>3, <1>5, <1>7, <1>8 DEF NothingNew, NothingLost, LiveNodes, LiveHosts, LiveConns, LiveMappings
<1>13. Touches({n}, clients, ConnsOfNode(n))
  <2>1. \A c \in LiveConns \ ConnsOfNode(n) : conns[c].node \in Nodes \ {n}
    BY Parts DEF Referential, LiveNodes, ConnsOfNode
  <2>2. \A h \in Hosts \ clients : hosts'[h] = hosts[h] BY <1>7
  <2>3. \A c \in ConnsOfNode(n) : conns[c].host \in clients /\ conns'[c].host \in clients
    BY <1>6, <1>8 DEF LiveConns
  <2> HIDE DEF clients
  <2> QED BY <1>1, <1>5, <1>8, <2>1, <2>2, <2>3 DEF Touches
<1>14. Raises({n}, clients, ConnsOfNode(n))
  <2>1. \A h \in LiveHosts : hosts[h].version \in Nat BY <1>2 DEF TablesOK, HostRow, LiveHosts
  <2>2. \A c \in LiveConns : conns[c].version \in Nat BY <1>2 DEF TablesOK, ConnRow, LiveConns
  <2>3. nodes[n].version \in Nat BY <1>2 DEF NodeRow
  <2>4. n \in LiveNodes' /\ LiveHosts' = LiveHosts BY <1>1, <1>3, <1>5, <1>7 DEF LiveNodes, LiveHosts
  <2>5. \A h \in LiveHosts \cap clients : h \in unpublished' /\ h \in LiveHosts' /\ hosts'[h].version > hosts[h].version
    <3>1. \A h \in LiveHosts : h \in Hosts BY DEF LiveHosts
    <3> HIDE DEF clients
    <3> QED BY <1>1, <1>7, <2>1, <2>4, <3>1
  <2>6. n \in unpublished' /\ nodes'[n].version > nodes[n].version BY <1>1, <1>3, <1>5, <2>3
  <2>7. \A c \in LiveConns \cap ConnsOfNode(n) : conns'[c].version > conns[c].version
    BY <1>8, <2>2 DEF LiveConns
  <2> HIDE DEF clients
  <2> QED BY <2>4, <2>5, <2>6, <2>7 DEF Raises
<1>15. ConnsOfNode(n) \in SUBSET Conns BY <1>6 DEF LiveConns
<1> HIDE DEF clients
<1> QED BY <1>9, <1>10, <1>11, <1>12, <1>13, <1>14, <1>15, Parts, SameGraph, Whole, Delivered

LEMMA DeleteFRPSStep ==
  ASSUME IInv, NEW n \in Nodes, DeleteFRPS(n)
  PROVE  IInv' /\ VersionedStep /\ AnnouncedStep
<1>1. /\ n \in LiveNodes /\ ConnsOfNode(n) = {} /\ Edit
      /\ retirements' = [retirements EXCEPT ![n] = nodes[n].version + 1]
      /\ nodes' = [nodes EXCEPT ![n] = NoNode("deleted")]
      /\ unpublished' = unpublished \cup {n} /\ {n} \in SUBSET Agents
      /\ UNCHANGED <<hosts, conns, mappings, held, jobs>>
  BY DEF DeleteFRPS, Notify, Agents
<1>2. TablesOK /\ nodes \in [Nodes -> NodeRow] /\ nodes[n].version \in Nat
  BY Parts DEF TablesOK, NodeRow
<1>3. NoNode("deleted") \in NodeRow /\ NoNode("deleted").status = "deleted"
  BY EmptyRows DEF Statuses, NoNode
<1>4. /\ nodes' \in [Nodes -> NodeRow] /\ nodes'[n].status = "deleted"
      /\ \A k \in Nodes \ {n} : nodes'[k] = nodes[k]
  BY <1>1, <1>2, <1>3
<1>5. retirements' \in [Agents -> Nat] /\ retirements'[n] = nodes[n].version + 1
  BY <1>1, <1>2 DEF TablesOK, Agents
<1>6. TablesOK' BY <1>1, <1>2, <1>4, <1>5 DEF TablesOK
<1>7. LiveRowsOK'
  <2>1. \A m \in LiveMappings' : mappings'[m].port = None <=> mappings'[m].type \in {"http", "https"}
    BY <1>1, Parts DEF LiveRowsOK, LiveMappings
  <2>2. \A k \in LiveNodes' : nodes'[k].listeners["bind"] # None
    BY <1>4, Parts DEF LiveRowsOK, LiveNodes
  <2> QED BY <2>1, <2>2 DEF LiveRowsOK
<1>8. RestOK' BY <1>1, RestAfterEdit, Parts
<1>9. NothingNew BY <1>1 DEF NothingNew, LiveConns, LiveMappings
<1>10. \A c \in LiveConns : conns[c].node \in LiveNodes /\ conns[c].node # n
  BY <1>1, Parts DEF Referential, ConnsOfNode
<1>11. Referential'
  BY <1>1, <1>4, <1>10, Parts DEF Referential, LiveNodes, LiveHosts, LiveConns, LiveMappings
<1>12. Touches({n}, {}, {})
  <2>1. \A c \in LiveConns : conns[c].node \in Nodes \ {n} BY <1>10 DEF LiveNodes
  <2> QED BY <1>1, <1>4, <2>1 DEF Touches
<1>13. Raises({n}, {}, {})
  <2>1. n \notin LiveNodes' /\ n \in unpublished' /\ retirements'[n] > nodes[n].version
    BY <1>1, <1>2, <1>4, <1>5 DEF LiveNodes
  <2> QED BY <2>1 DEF Raises
<1> QED BY <1>6, <1>7, <1>8, <1>9, <1>11, <1>12, <1>13, Parts, FewerCollide, Whole, Delivered

LEMMA RenewNodeStep ==
  ASSUME IInv, NEW n \in Nodes, RenewNode(n)
  PROVE  IInv' /\ VersionedStep /\ AnnouncedStep
<1> DEFINE q == [nodes[n] EXCEPT !.cert = @ + 1, !.version = @ + 1]
<1>1. /\ n \in LiveNodes /\ Edit
      /\ nodes' = [nodes EXCEPT ![n].cert = @ + 1, ![n].version = @ + 1]
      /\ unpublished' = unpublished \cup {n} /\ {n} \in SUBSET Agents
      /\ UNCHANGED <<hosts, conns, mappings, retirements, held, jobs>>
  BY DEF RenewNode, Notify, Agents
<1>2. TablesOK /\ nodes \in [Nodes -> NodeRow] /\ nodes[n] \in NodeRow /\ nodes[n].version \in Nat
  BY Parts DEF TablesOK, NodeRow
<1>3. /\ q \in NodeRow /\ q.status = nodes[n].status /\ q.version = nodes[n].version + 1
      /\ q.listeners = nodes[n].listeners /\ q.settings = nodes[n].settings
  <2>1. nodes[n].cert + 1 \in Nat /\ nodes[n].version + 1 \in Nat BY <1>2 DEF NodeRow
  <2> QED BY <1>2, <2>1 DEF NodeRow
<1>4. nodes' = [nodes EXCEPT ![n] = q] BY <1>1, <1>2
<1> HIDE DEF q
<1>5. /\ nodes' \in [Nodes -> NodeRow] /\ nodes'[n] = q
      /\ \A k \in Nodes \ {n} : nodes'[k] = nodes[k]
  BY <1>2, <1>3, <1>4
<1>6. TablesOK' BY <1>1, <1>2, <1>5 DEF TablesOK
<1>7. NothingNew /\ NothingLost /\ UNCHANGED LiveNodes
  BY <1>1, <1>3, <1>5 DEF NothingNew, NothingLost, LiveNodes, LiveHosts, LiveConns, LiveMappings
<1>8. LiveRowsOK'
  <2>1. \A m \in LiveMappings' : mappings'[m].port = None <=> mappings'[m].type \in {"http", "https"}
    BY <1>1, Parts DEF LiveRowsOK, LiveMappings
  <2>2. \A k \in LiveNodes' : nodes'[k].listeners["bind"] # None
    BY <1>3, <1>5, <1>7, Parts DEF LiveRowsOK, LiveNodes
  <2> QED BY <2>1, <2>2 DEF LiveRowsOK
<1>9. RestOK' BY <1>1, RestAfterEdit, Parts
<1>10. Touches({n}, {}, {})
  <2>1. \A c \in LiveConns : conns[c].node \in Nodes BY Parts DEF Referential, LiveNodes
  <2>2. \A k \in Nodes : nodes'[k].listeners = nodes[k].listeners /\ nodes'[k].settings = nodes[k].settings
    BY <1>3, <1>5
  <2> QED BY <1>1, <1>5, <2>1, <2>2 DEF Touches
<1>11. Raises({n}, {}, {})
  <2>1. n \in LiveNodes' /\ n \in unpublished' /\ nodes'[n].version > nodes[n].version
    BY <1>1, <1>2, <1>3, <1>5, <1>7
  <2> QED BY <2>1 DEF Raises
<1> QED BY <1>6, <1>7, <1>8, <1>9, <1>10, <1>11, Parts, SameGraph, Whole, Delivered

LEMMA RecordStatusStep ==
  ASSUME IInv, NEW s \in Slots, NEW n \in Nodes, RecordStatus(s, n)
  PROVE  IInv' /\ VersionedStep /\ AnnouncedStep
<1> DEFINE q == [nodes[n] EXCEPT !.reported = held[n]]
           j == [node |-> n, step |-> "read", bound |-> held[n], rows |-> {}]
<1>1. /\ nodes' = [nodes EXCEPT ![n].reported = held[n]] /\ jobs' = [jobs EXCEPT ![s] = j]
      /\ UNCHANGED <<hosts, conns, mappings, retirements, unpublished, held, edits>>
  BY DEF RecordStatus
<1>2. /\ TablesOK /\ nodes \in [Nodes -> NodeRow] /\ nodes[n] \in NodeRow
      /\ held[n] \in SUBSET Ports /\ jobs \in [Slots -> JobRow]
  BY Parts DEF TablesOK, RestOK
<1>3. /\ q \in NodeRow /\ q.status = nodes[n].status /\ q.cert = nodes[n].cert
      /\ q.listeners = nodes[n].listeners /\ q.settings = nodes[n].settings
  BY <1>2 DEF NodeRow
<1>4. nodes' = [nodes EXCEPT ![n] = q] BY <1>1, <1>2
<1> HIDE DEF q
<1>5. /\ nodes' \in [Nodes -> NodeRow]
      /\ \A k \in Nodes : /\ nodes'[k].status = nodes[k].status /\ nodes'[k].cert = nodes[k].cert
                          /\ nodes'[k].listeners = nodes[k].listeners
                          /\ nodes'[k].settings = nodes[k].settings
  BY <1>2, <1>3, <1>4
<1>6. TablesOK' BY <1>1, <1>2, <1>5 DEF TablesOK
<1>7. NothingNew /\ NothingLost /\ UNCHANGED LiveNodes
  BY <1>1, <1>5 DEF NothingNew, NothingLost, LiveNodes, LiveHosts, LiveConns, LiveMappings
<1>8. LiveRowsOK'
  <2>1. \A m \in LiveMappings' : mappings'[m].port = None <=> mappings'[m].type \in {"http", "https"}
    BY <1>1, Parts DEF LiveRowsOK, LiveMappings
  <2>2. \A k \in LiveNodes' : nodes'[k].listeners["bind"] # None
    BY <1>5, <1>7, Parts DEF LiveRowsOK, LiveNodes
  <2> QED BY <2>1, <2>2 DEF LiveRowsOK
<1>9. RestOK'
  <2>1. j \in JobRow BY <1>2 DEF JobRow
  <2> HIDE DEF j
  <2> QED BY <1>1, <1>2, <2>1, Parts DEF RestOK
<1>10. Touches({}, {}, {})
  <2>1. \A c \in LiveConns : conns[c].node \in Nodes BY Parts DEF Referential, LiveNodes
  <2> QED BY <1>1, <1>5, <2>1 DEF Touches
<1>11. Raises({}, {}, {}) BY DEF Raises
<1> QED BY <1>6, <1>7, <1>8, <1>9, <1>10, <1>11, Parts, SameGraph, Whole, Delivered

\* A host is created, or edited.
LEMMA HostStep ==
  ASSUME IInv, NEW h \in Hosts, CreateFRPCHost(h) \/ UpdateFRPCHost(h)
  PROVE  IInv' /\ VersionedStep /\ AnnouncedStep
<1>1. TablesOK /\ hosts \in [Hosts -> HostRow] /\ hosts[h] \in HostRow /\ hosts[h].version \in Nat
  BY Parts DEF TablesOK, HostRow
<1>2. PICK q \in HostRow :
        /\ hosts' = [hosts EXCEPT ![h] = q] /\ q.status = "live"
        /\ h \in LiveHosts => q.version > hosts[h].version
  <2>1. CASE CreateFRPCHost(h)
    <3> DEFINE q == [NoHost("live") EXCEPT !.version = 1]
    <3>1. q \in HostRow /\ q.status = "live" BY EmptyRows DEF NoHost, HostRow, Statuses
    <3>2. hosts' = [hosts EXCEPT ![h] = q] /\ h \notin LiveHosts BY <2>1 DEF CreateFRPCHost, LiveHosts
    <3> HIDE DEF q
    <3> QED BY <3>1, <3>2
  <2>2. CASE UpdateFRPCHost(h)
    <3> DEFINE q == [hosts[h] EXCEPT !.settings = @ + 1, !.version = @ + 1]
    <3>1. hosts[h].settings + 1 \in Nat /\ hosts[h].version + 1 \in Nat BY <1>1 DEF HostRow
    <3>2. h \in LiveHosts /\ hosts[h].status = "live" BY <2>2 DEF UpdateFRPCHost, LiveHosts
    <3>3. q \in HostRow /\ q.status = "live" /\ q.version = hosts[h].version + 1
      BY <1>1, <3>1, <3>2 DEF HostRow
    <3>4. hosts' = [hosts EXCEPT ![h] = q] BY <1>1, <2>2 DEF UpdateFRPCHost
    <3> HIDE DEF q
    <3>5. q.version > hosts[h].version BY <1>1, <3>3
    <3> QED BY <3>3, <3>4, <3>5
  <2> QED BY <2>1, <2>2
<1>3. /\ Edit /\ UNCHANGED <<nodes, conns, mappings, retirements, held, jobs>>
      /\ \/ unpublished' = unpublished /\ h \notin LiveHosts
         \/ unpublished' = unpublished \cup {h}
  BY DEF CreateFRPCHost, UpdateFRPCHost, Notify, LiveHosts
<1>4. /\ hosts' \in [Hosts -> HostRow] /\ hosts'[h] = q
      /\ \A k \in Hosts \ {h} : hosts'[k] = hosts[k]
  BY <1>1, <1>2
<1>5. TablesOK' BY <1>1, <1>3, <1>4 DEF TablesOK
<1>6. NothingNew /\ NothingLost /\ h \in LiveHosts'
  BY <1>2, <1>3, <1>4 DEF NothingNew, NothingLost, LiveNodes, LiveHosts, LiveConns, LiveMappings
<1>7. LiveRowsOK' BY <1>3, Parts DEF LiveRowsOK, LiveMappings, LiveNodes
<1>8. RestOK'
  <2>1. {} \in SUBSET Agents /\ {h} \in SUBSET Agents BY DEF Agents
  <2>2. unpublished' = unpublished \cup {} \/ unpublished' = unpublished \cup {h} BY <1>3
  <2> QED BY <1>3, <2>1, <2>2, RestAfterEdit, Parts
<1>9. Touches({}, {h}, {}) BY <1>3, <1>4 DEF Touches
<1>10. Raises({}, {h}, {}) BY <1>2, <1>3, <1>4, <1>6 DEF Raises
<1> QED BY <1>5, <1>6, <1>7, <1>8, <1>9, <1>10, Parts, SameGraph, Whole, Delivered

\* Mappings change only if they belong, before and after, to the connections C.
MappingsOf(C) ==
  \A m \in Mappings : \/ mappings'[m] = mappings[m]
                      \/ /\ m \in LiveMappings => mappings[m].conn \in C
                         /\ m \in LiveMappings' => mappings'[m].conn \in C

\* A step that changes connections of one host, mappings included, and bumps the host.
LEMMA OneHost ==
  ASSUME IInv, NEW h \in LiveHosts, NEW C \in SUBSET Conns,
         bumpHost(h), UNCHANGED <<nodes, retirements>>,
         conns' \in [Conns -> ConnRow], mappings' \in [Mappings -> MappingRow], MappingsOf(C),
         \A c \in Conns \ C : conns'[c] = conns[c],
         \A c \in C : /\ c \in LiveConns => conns[c].host = h
                      /\ c \in LiveConns' => conns'[c].host = h
                      /\ c \in LiveConns /\ c \in LiveConns' => conns'[c].version > conns[c].version
  PROVE  /\ TablesOK' /\ VersionedStep /\ AnnouncedStep
         /\ LiveHosts' = LiveHosts /\ LiveNodes' = LiveNodes
         /\ unpublished' = unpublished \cup {h} /\ {h} \in SUBSET Agents
<1>1. TablesOK /\ hosts' = bumped(hosts, {h}) /\ unpublished' = unpublished \cup {h}
  BY Parts DEF bumpHost, Notify
<1>2. /\ hosts' \in [Hosts -> HostRow]
      /\ \A k \in Hosts : /\ hosts'[k].status = hosts[k].status
                          /\ k = h => hosts'[k].version = hosts[k].version + 1
                          /\ k # h => hosts'[k] = hosts[k]
  <2> DEFINE S == {h}
  <2>1. \A k \in Hosts : k \in S <=> k = h OBVIOUS
  <2>2. hosts' = bumped(hosts, S) BY <1>1
  <2> HIDE DEF S
  <2> QED BY <1>1, <2>1, <2>2, BumpedHosts
<1>3. LiveHosts' = LiveHosts /\ LiveNodes' = LiveNodes BY <1>2 DEF LiveHosts, LiveNodes
<1>4. TablesOK' BY <1>1, <1>2 DEF TablesOK
<1>5. Touches({}, {h}, C) BY <1>2 DEF Touches, MappingsOf
<1>6. Raises({}, {h}, C)
  <2>1. hosts[h].version \in Nat /\ h \in Hosts BY <1>1 DEF TablesOK, HostRow, LiveHosts
  <2>2. hosts'[h].version > hosts[h].version BY <1>2, <2>1
  <2> QED BY <1>1, <1>3, <2>2 DEF Raises
<1>7. {h} \in SUBSET Agents BY DEF LiveHosts, Agents
<1> QED BY <1>1, <1>3, <1>4, <1>5, <1>6, <1>7, Delivered

LEMMA DeleteFRPCHostStep ==
  ASSUME IInv, NEW h \in Hosts, DeleteFRPCHost(h)
  PROVE  IInv' /\ VersionedStep /\ AnnouncedStep
<1> DEFINE gone == UNION {MappingsOfConn(c) : c \in ConnsOfHost(h)}
<1>1. /\ h \in LiveHosts /\ Edit
      /\ mappings' = deleted(mappings, gone, NoMapping("deleted"))
      /\ conns' = deleted(conns, ConnsOfHost(h), NoConn("deleted"))
      /\ retirements' = [retirements EXCEPT ![h] = hosts[h].version + 1]
      /\ hosts' = [hosts EXCEPT ![h] = NoHost("deleted")]
      /\ unpublished' = unpublished \cup {h} /\ {h} \in SUBSET Agents
      /\ UNCHANGED <<nodes, held, jobs>>
  BY DEF DeleteFRPCHost, Notify, Agents
<1>2. /\ TablesOK /\ hosts \in [Hosts -> HostRow] /\ hosts[h].version \in Nat
      /\ conns \in [Conns -> ConnRow] /\ mappings \in [Mappings -> MappingRow]
  BY Parts DEF TablesOK, HostRow
<1>3. /\ NoHost("deleted") \in HostRow /\ NoConn("deleted") \in ConnRow /\ NoMapping("deleted") \in MappingRow
      /\ NoHost("deleted").status = "deleted" /\ NoConn("deleted").status = "deleted"
      /\ NoMapping("deleted").status = "deleted"
  BY EmptyRows DEF Statuses, NoHost, NoConn, NoMapping
<1>4. /\ hosts' \in [Hosts -> HostRow] /\ hosts'[h].status = "deleted"
      /\ \A k \in Hosts \ {h} : hosts'[k] = hosts[k]
  BY <1>1, <1>2, <1>3
<1>5. /\ conns' \in [Conns -> ConnRow]
      /\ \A c \in Conns : /\ c \in ConnsOfHost(h) => conns'[c].status = "deleted"
                          /\ c \notin ConnsOfHost(h) => conns'[c] = conns[c]
  BY <1>1, <1>2, <1>3, DeletedRows
<1>6. /\ mappings' \in [Mappings -> MappingRow]
      /\ \A m \in Mappings : /\ m \in gone => mappings'[m].status = "deleted"
                             /\ m \notin gone => mappings'[m] = mappings[m]
  <2> HIDE DEF gone
  <2> DEFINE empty == NoMapping("deleted")
  <2>1. empty \in MappingRow /\ empty.status = "deleted" /\ mappings' = deleted(mappings, gone, empty)
    BY <1>1, <1>3
  <2> HIDE DEF empty
  <2>2. /\ deleted(mappings, gone, empty) \in [Mappings -> MappingRow]
        /\ \A m \in Mappings : /\ m \in gone => deleted(mappings, gone, empty)[m] = empty
                               /\ m \notin gone => deleted(mappings, gone, empty)[m] = mappings[m]
    BY <1>2, <2>1 DEF deleted
  <2> QED BY <2>1, <2>2
<1>7. retirements' \in [Agents -> Nat] /\ retirements'[h] = hosts[h].version + 1
  BY <1>1, <1>2 DEF TablesOK, Agents
<1>8. TablesOK' BY <1>1, <1>2, <1>4, <1>5, <1>6, <1>7 DEF TablesOK
<1>9. \A m \in Mappings : m \in gone <=> m \in LiveMappings /\ mappings[m].conn \in ConnsOfHost(h)
  BY DEF MappingsOfConn
<1> HIDE DEF gone
<1>10. NothingNew
  BY <1>5, <1>6 DEF NothingNew, LiveConns, LiveMappings
<1>11. Referential'
  <2>1. \A c \in LiveConns' : c \in LiveConns /\ c \notin ConnsOfHost(h) /\ conns'[c] = conns[c]
    BY <1>5 DEF LiveConns
  <2>2. \A c \in LiveConns' : conns'[c].host \in LiveHosts' /\ conns'[c].node \in LiveNodes'
    BY <1>1, <1>4, <2>1, Parts DEF Referential, ConnsOfHost, LiveHosts, LiveNodes
  <2>3. \A m \in LiveMappings' : m \in LiveMappings /\ m \notin gone /\ mappings'[m] = mappings[m]
    BY <1>6 DEF LiveMappings
  <2>4. \A m \in LiveMappings' : mappings'[m].conn \in LiveConns'
    <3>1. \A c \in LiveConns : c \notin ConnsOfHost(h) => c \in LiveConns' BY <1>5 DEF LiveConns
    <3>2. \A m \in LiveMappings : m \in Mappings BY DEF LiveMappings
    <3> QED BY <1>9, <2>3, <3>1, <3>2, Parts DEF Referential
  <2> QED BY <2>2, <2>4 DEF Referential
<1>12. LiveRowsOK'
  <2>1. \A m \in LiveMappings' : m \in LiveMappings /\ mappings'[m] = mappings[m] BY <1>6 DEF LiveMappings
  <2>2. \A k \in LiveNodes' : k \in LiveNodes /\ nodes'[k] = nodes[k] BY <1>1 DEF LiveNodes
  <2> QED BY <2>1, <2>2, Parts, SameLiveRows
<1>13. RestOK' BY <1>1, RestAfterEdit, Parts
<1>14. Touches({}, {h}, ConnsOfHost(h))
  <2>1. \A m \in Mappings : \/ mappings'[m] = mappings[m]
                            \/ (m \in LiveMappings /\ mappings[m].conn \in ConnsOfHost(h) /\ m \notin LiveMappings')
    BY <1>6, <1>9 DEF LiveMappings
  <2>2. \A c \in ConnsOfHost(h) : c \in Conns /\ conns[c].host = h /\ c \notin LiveConns'
    BY <1>5 DEF ConnsOfHost, LiveConns
  <2> QED BY <1>1, <1>4, <1>5, <2>1, <2>2 DEF Touches
<1>15. Raises({}, {h}, ConnsOfHost(h))
  <2>1. h \notin LiveHosts' /\ h \in unpublished' /\ retirements'[h] > hosts[h].version
    BY <1>1, <1>2, <1>4, <1>7 DEF LiveHosts
  <2>2. \A c \in ConnsOfHost(h) : c \notin LiveConns' BY <1>5 DEF ConnsOfHost, LiveConns
  <2> QED BY <2>1, <2>2 DEF Raises
<1>16. ConnsOfHost(h) \in SUBSET Conns BY DEF ConnsOfHost, LiveConns
<1> QED BY <1>8, <1>10, <1>11, <1>12, <1>13, <1>14, <1>15, <1>16, Parts, FewerCollide, Whole, Delivered

LEMMA RenewHostStep ==
  ASSUME IInv, NEW h \in Hosts, NEW due \in SUBSET Conns, RenewHost(h, due)
  PROVE  IInv' /\ VersionedStep /\ AnnouncedStep
<1>1. /\ h \in LiveHosts /\ Edit /\ due \subseteq ConnsOfHost(h) /\ bumpHost(h)
      /\ conns' = [c \in Conns |->
           IF c \in due THEN [conns[c] EXCEPT !.cert = @ + 1, !.version = @ + 1] ELSE conns[c]]
      /\ UNCHANGED <<nodes, mappings, retirements, held, jobs>>
  BY DEF RenewHost
<1>2. TablesOK /\ conns \in [Conns -> ConnRow] /\ mappings \in [Mappings -> MappingRow]
  BY Parts DEF TablesOK
<1>3. ASSUME NEW c \in Conns
      PROVE  /\ conns'[c] \in ConnRow /\ conns'[c].status = conns[c].status
             /\ conns'[c].host = conns[c].host /\ conns'[c].node = conns[c].node
             /\ conns'[c].admin = conns[c].admin
             /\ c \in due => conns'[c].version > conns[c].version
             /\ c \notin due => conns'[c] = conns[c]
  <2>1. conns[c] \in ConnRow /\ conns[c].version \in Nat /\ conns[c].cert \in Nat BY <1>2 DEF ConnRow
  <2>2. CASE c \in due
    <3>1. conns'[c] = [conns[c] EXCEPT !.cert = @ + 1, !.version = @ + 1] BY <1>1, <2>2
    <3>2. conns[c].cert + 1 \in Nat /\ conns[c].version + 1 \in Nat BY <2>1
    <3>3. conns'[c].version = conns[c].version + 1 BY <2>1, <3>1 DEF ConnRow
    <3>4. /\ conns'[c] \in ConnRow /\ conns'[c].status = conns[c].status
          /\ conns'[c].host = conns[c].host /\ conns'[c].node = conns[c].node
          /\ conns'[c].admin = conns[c].admin
      BY <2>1, <3>1, <3>2 DEF ConnRow
    <3> QED BY <2>1, <2>2, <3>3, <3>4
  <2>3. CASE c \notin due BY <1>1, <2>1, <2>3
  <2> QED BY <2>2, <2>3
<1>4. conns' \in [Conns -> ConnRow]
  <2>1. conns' = [c \in Conns |-> conns'[c]] BY <1>1
  <2> QED BY <1>3, <2>1
<1>5. /\ TablesOK' /\ VersionedStep /\ AnnouncedStep
      /\ LiveHosts' = LiveHosts /\ LiveNodes' = LiveNodes
      /\ unpublished' = unpublished \cup {h} /\ {h} \in SUBSET Agents
  <2>1. \A c \in due : conns[c].host = h /\ conns'[c].host = h BY <1>1, <1>3 DEF ConnsOfHost
  <2>2. MappingsOf(due) BY <1>1 DEF MappingsOf
  <2>3. mappings' \in [Mappings -> MappingRow] BY <1>1, <1>2
  <2> QED BY <1>1, <1>3, <1>4, <2>1, <2>2, <2>3, OneHost
<1>6. NothingNew /\ NothingLost
  BY <1>1, <1>3, <1>5 DEF NothingNew, NothingLost, LiveConns, LiveMappings
<1>7. LiveRowsOK' BY <1>1, Parts DEF LiveRowsOK, LiveMappings, LiveNodes
<1>8. RestOK' BY <1>1, <1>5, RestAfterEdit, Parts
<1> QED BY <1>5, <1>6, <1>7, <1>8, Parts, SameGraph, Whole

LEMMA UpdateConnectionStep ==
  ASSUME IInv, NEW c \in Conns, NEW p \in Protocols, UpdateConnection(c, p)
  PROVE  IInv' /\ VersionedStep /\ AnnouncedStep
<1> DEFINE q == [conns[c] EXCEPT !.protocol = p, !.version = @ + 1]
           h == conns[c].host
<1>1. /\ c \in LiveConns /\ Edit /\ bumpHost(h)
      /\ conns' = [conns EXCEPT ![c].protocol = p, ![c].version = @ + 1]
      /\ UNCHANGED <<nodes, mappings, retirements, held, jobs>>
  BY DEF UpdateConnection
<1>2. /\ TablesOK /\ conns \in [Conns -> ConnRow] /\ mappings \in [Mappings -> MappingRow]
      /\ conns[c] \in ConnRow /\ conns[c].version \in Nat /\ h \in LiveHosts
  BY <1>1, Parts DEF TablesOK, ConnRow, Referential
<1>3. /\ q \in ConnRow /\ q.status = conns[c].status /\ q.host = h /\ q.node = conns[c].node
      /\ q.admin = conns[c].admin /\ q.version > conns[c].version
  <2>1. conns[c].version + 1 \in Nat BY <1>2
  <2>2. q \in ConnRow /\ q.status = conns[c].status /\ q.host = h /\ q.node = conns[c].node /\ q.admin = conns[c].admin
    BY <1>2, <2>1 DEF ConnRow
  <2>3. q.version = conns[c].version + 1 BY <1>2 DEF ConnRow
  <2> QED BY <1>2, <2>2, <2>3
<1>4. conns' = [conns EXCEPT ![c] = q] BY <1>1, <1>2
<1> HIDE DEF q
<1>5. /\ conns' \in [Conns -> ConnRow] /\ conns'[c] = q
      /\ \A d \in Conns \ {c} : conns'[d] = conns[d]
  BY <1>2, <1>3, <1>4
<1>6. \A d \in Conns : /\ conns'[d].status = conns[d].status /\ conns'[d].host = conns[d].host
                       /\ conns'[d].node = conns[d].node /\ conns'[d].admin = conns[d].admin
  BY <1>3, <1>5
<1>7. /\ TablesOK' /\ VersionedStep /\ AnnouncedStep
      /\ LiveHosts' = LiveHosts /\ LiveNodes' = LiveNodes
      /\ unpublished' = unpublished \cup {h} /\ {h} \in SUBSET Agents
  <2>1. MappingsOf({c}) /\ mappings' \in [Mappings -> MappingRow] BY <1>1, <1>2 DEF MappingsOf
  <2>2. \A d \in {c} : conns[d].host = h /\ conns'[d].host = h /\ conns'[d].version > conns[d].version
    BY <1>3, <1>5
  <2> HIDE DEF h
  <2> QED BY <1>1, <1>2, <1>5, <2>1, <2>2, OneHost
<1>8. NothingNew /\ NothingLost
  BY <1>1, <1>6, <1>7 DEF NothingNew, NothingLost, LiveConns, LiveMappings
<1>9. LiveRowsOK' BY <1>1, Parts DEF LiveRowsOK, LiveMappings, LiveNodes
<1>10. RestOK' BY <1>1, <1>7, RestAfterEdit, Parts
<1> QED BY <1>7, <1>8, <1>9, <1>10, Parts, SameGraph, Whole

LEMMA DeleteConnectionStep ==
  ASSUME IInv, NEW c \in Conns, DeleteConnection(c)
  PROVE  IInv' /\ VersionedStep /\ AnnouncedStep
<1> DEFINE h == conns[c].host
<1>1. /\ c \in LiveConns /\ Edit /\ bumpHost(h)
      /\ mappings' = deleted(mappings, MappingsOfConn(c), NoMapping("deleted"))
      /\ conns' = deleted(conns, {c}, NoConn("deleted"))
      /\ UNCHANGED <<nodes, retirements, held, jobs>>
  BY DEF DeleteConnection
<1>2. /\ TablesOK /\ conns \in [Conns -> ConnRow] /\ mappings \in [Mappings -> MappingRow]
      /\ h \in LiveHosts
  BY <1>1, Parts DEF TablesOK, Referential
<1>3. /\ NoConn("deleted") \in ConnRow /\ NoMapping("deleted") \in MappingRow
      /\ NoConn("deleted").status = "deleted" /\ NoMapping("deleted").status = "deleted"
  BY EmptyRows DEF Statuses, NoConn, NoMapping
<1>4. /\ conns' \in [Conns -> ConnRow] /\ conns'[c].status = "deleted"
      /\ \A d \in Conns \ {c} : conns'[d] = conns[d]
  BY <1>1, <1>2, <1>3 DEF deleted
<1>5. /\ mappings' \in [Mappings -> MappingRow]
      /\ \A m \in Mappings : /\ m \in MappingsOfConn(c) => mappings'[m].status = "deleted"
                             /\ m \notin MappingsOfConn(c) => mappings'[m] = mappings[m]
  BY <1>1, <1>2, <1>3 DEF deleted
<1>6. \A m \in LiveMappings' : m \in LiveMappings /\ m \notin MappingsOfConn(c) /\ mappings'[m] = mappings[m]
  BY <1>5 DEF LiveMappings
<1>7. \A d \in LiveConns' : d \in LiveConns /\ d # c /\ conns'[d] = conns[d]
  BY <1>4 DEF LiveConns
<1>8. /\ TablesOK' /\ VersionedStep /\ AnnouncedStep
      /\ LiveHosts' = LiveHosts /\ LiveNodes' = LiveNodes
      /\ unpublished' = unpublished \cup {h} /\ {h} \in SUBSET Agents
  <2>1. MappingsOf({c})
    <3>1. \A m \in MappingsOfConn(c) : m \notin LiveMappings' /\ mappings[m].conn = c
      BY <1>6 DEF MappingsOfConn
    <3> QED BY <1>5, <3>1 DEF MappingsOf
  <2>2. \A d \in {c} : conns[d].host = h /\ d \notin LiveConns' BY <1>7
  <2> HIDE DEF h
  <2> QED BY <1>1, <1>2, <1>4, <1>5, <2>1, <2>2, OneHost
<1>9. NothingNew BY <1>6, <1>7 DEF NothingNew
<1>10. Referential'
  <2>1. \A d \in LiveConns' : conns'[d].host \in LiveHosts' /\ conns'[d].node \in LiveNodes'
    BY <1>7, <1>8, Parts DEF Referential
  <2>2. \A d \in LiveConns \ {c} : d \in LiveConns' BY <1>4 DEF LiveConns
  <2>3. \A m \in LiveMappings' : mappings'[m].conn \in LiveConns'
    BY <1>6, <2>2, Parts DEF Referential, MappingsOfConn
  <2> QED BY <2>1, <2>3 DEF Referential
<1>11. LiveRowsOK'
  <2>1. \A k \in LiveNodes' : k \in LiveNodes /\ nodes'[k] = nodes[k] BY <1>1 DEF LiveNodes
  <2> QED BY <1>6, <2>1, Parts, SameLiveRows
<1>12. RestOK' BY <1>1, <1>8, RestAfterEdit, Parts
<1> QED BY <1>8, <1>9, <1>10, <1>11, <1>12, Parts, FewerCollide, Whole

\* A step that changes mappings of one connection and bumps it.
LEMMA OneConnection ==
  ASSUME IInv, NEW c \in LiveConns, bumpConnection(c), UNCHANGED <<nodes, retirements>>,
         mappings' \in [Mappings -> MappingRow], MappingsOf({c})
  PROVE  /\ TablesOK' /\ VersionedStep /\ AnnouncedStep
         /\ LiveConns' = LiveConns /\ LiveHosts' = LiveHosts /\ LiveNodes' = LiveNodes
         /\ \A d \in Conns : /\ conns'[d].host = conns[d].host /\ conns'[d].node = conns[d].node
                             /\ conns'[d].admin = conns[d].admin
         /\ unpublished' = unpublished \cup {conns[c].host} /\ {conns[c].host} \in SUBSET Agents
<1> DEFINE h == conns[c].host
           S == {c}
<1>1. TablesOK /\ conns' = bumped(conns, S) /\ bumpHost(h) /\ h \in LiveHosts
  BY Parts DEF bumpConnection, Referential
<1>2. \A d \in Conns : d \in S <=> d = c OBVIOUS
<1>3. S \in SUBSET Conns BY DEF LiveConns
<1>4. MappingsOf(S) OBVIOUS
<1> HIDE DEF S
<1>5. /\ conns' \in [Conns -> ConnRow]
      /\ \A d \in Conns :
           /\ conns'[d].status = conns[d].status /\ conns'[d].host = conns[d].host
           /\ conns'[d].node = conns[d].node /\ conns'[d].admin = conns[d].admin
           /\ d \in S => conns'[d].version = conns[d].version + 1
           /\ d \notin S => conns'[d] = conns[d]
  BY <1>1, BumpedConns
<1>6. LiveConns' = LiveConns BY <1>5 DEF LiveConns
<1>7. \A d \in S : conns[d].host = h /\ conns'[d].host = h /\ conns'[d].version > conns[d].version
  <2>1. c \in Conns /\ conns[c].version \in Nat BY <1>1 DEF TablesOK, ConnRow, LiveConns
  <2>2. conns'[c].version > conns[c].version BY <1>2, <1>5, <2>1
  <2> QED BY <1>2, <1>3, <1>5, <2>2
<1> HIDE DEF h
<1>8. /\ TablesOK' /\ VersionedStep /\ AnnouncedStep
      /\ LiveHosts' = LiveHosts /\ LiveNodes' = LiveNodes
      /\ unpublished' = unpublished \cup {h} /\ {h} \in SUBSET Agents
  BY <1>1, <1>3, <1>4, <1>5, <1>7, OneHost
<1> QED BY <1>5, <1>6, <1>8 DEF h

\* A mapping is stored in a connection, under a port and a name that no other has there.
LEMMA PutMapping ==
  ASSUME IInv, NEW c \in LiveConns, NEW m \in Mappings, NEW q \in MappingRow,
         bumpConnection(c), UNCHANGED <<nodes, retirements>>, mappings' = [mappings EXCEPT ![m] = q],
         m \in LiveMappings => mappings[m].conn = c,
         q.status = "live", q.conn = c, q.port = None <=> q.type \in {"http", "https"},
         \A k \in MappingsOfNode(conns[c].node) \ {m} : q.port # None => mappings[k].port # q.port,
         \A k \in MappingsOfConn(c) \ {m} : mappings[k].name # q.name
  PROVE  /\ TablesOK' /\ LiveRowsOK' /\ Referential' /\ NoCollision' /\ VersionedStep /\ AnnouncedStep
         /\ unpublished' = unpublished \cup {conns[c].host} /\ {conns[c].host} \in SUBSET Agents
<1>1. mappings \in [Mappings -> MappingRow] BY Parts DEF TablesOK
<1>2. /\ mappings' \in [Mappings -> MappingRow] /\ mappings'[m] = q
      /\ \A k \in Mappings \ {m} : mappings'[k] = mappings[k]
  BY <1>1
<1>3. MappingsOf({c}) BY <1>2 DEF MappingsOf
<1>4. /\ TablesOK' /\ VersionedStep /\ AnnouncedStep
      /\ LiveConns' = LiveConns /\ LiveHosts' = LiveHosts /\ LiveNodes' = LiveNodes
      /\ \A d \in Conns : /\ conns'[d].host = conns[d].host /\ conns'[d].node = conns[d].node
                          /\ conns'[d].admin = conns[d].admin
      /\ unpublished' = unpublished \cup {conns[c].host} /\ {conns[c].host} \in SUBSET Agents
  BY <1>2, <1>3, OneConnection
<1>5. /\ m \in LiveMappings'
      /\ \A k \in LiveMappings' : k = m \/ (k \in LiveMappings /\ k # m /\ mappings'[k] = mappings[k])
  BY <1>2 DEF LiveMappings
<1>6. LiveRowsOK'
  <2>1. \A k \in LiveMappings' : mappings'[k].port = None <=> mappings'[k].type \in {"http", "https"}
    BY <1>2, <1>5, Parts DEF LiveRowsOK
  <2>2. \A k \in LiveNodes' : nodes'[k].listeners["bind"] # None BY <1>4, Parts DEF LiveRowsOK
  <2> QED BY <2>1, <2>2 DEF LiveRowsOK
<1>7. Referential'
  <2>1. \A d \in LiveConns' : conns'[d].host \in LiveHosts' /\ conns'[d].node \in LiveNodes'
    BY <1>4, Parts DEF Referential, LiveConns
  <2>2. \A k \in LiveMappings' : mappings'[k].conn \in LiveConns'
    BY <1>2, <1>4, <1>5, Parts DEF Referential
  <2> QED BY <2>1, <2>2 DEF Referential
<1>8. NoCollision'
  <2>1. ASSUME NEW n \in Nodes, NEW k \in MappingsOfNode(n)'
        PROVE  \/ k = m /\ n = conns[c].node
               \/ k # m /\ k \in MappingsOfNode(n) /\ mappings'[k] = mappings[k]
    <3>1. k \in LiveMappings' /\ mappings'[k].conn \in LiveConns /\ conns[mappings'[k].conn].node = n
      BY <1>4 DEF MappingsOfNode, ConnsOfNode, LiveConns
    <3>2. CASE k = m BY <1>2, <3>1, <3>2
    <3>3. CASE k # m BY <1>5, <3>1, <3>3 DEF MappingsOfNode, ConnsOfNode
    <3> QED BY <3>2, <3>3
  <2>2. ASSUME NEW n \in Nodes, NEW k \in MappingsOfNode(n)', NEW l \in MappingsOfNode(n)',
               k # l, mappings'[k].port # None
        PROVE  mappings'[k].port # mappings'[l].port
    <3>1. CASE k = m
      <4>1. l \in MappingsOfNode(conns[c].node) \ {m} /\ mappings'[l] = mappings[l] BY <2>1, <2>2, <3>1
      <4> QED BY <1>2, <2>2, <3>1, <4>1
    <3>2. CASE l = m
      <4>1. k \in MappingsOfNode(conns[c].node) \ {m} /\ mappings'[k] = mappings[k] BY <2>1, <2>2, <3>2
      <4> QED BY <1>2, <2>2, <3>2, <4>1
    <3>3. CASE k # m /\ l # m BY <2>1, <2>2, <3>3, Parts DEF NoCollision
    <3> QED BY <3>1, <3>2, <3>3
  <2>3. ASSUME NEW d \in LiveConns', NEW k \in MappingsOfConn(d)'
        PROVE  \/ k = m /\ d = c
               \/ k # m /\ k \in MappingsOfConn(d) /\ mappings'[k] = mappings[k]
    BY <1>2, <1>5 DEF MappingsOfConn
  <2>4. ASSUME NEW d \in LiveConns', NEW k \in MappingsOfConn(d)', NEW l \in MappingsOfConn(d)', k # l
        PROVE  mappings'[k].name # mappings'[l].name
    <3>1. CASE k = m
      <4>1. l \in MappingsOfConn(c) \ {m} /\ mappings'[l] = mappings[l] BY <2>3, <2>4, <3>1
      <4> QED BY <1>2, <3>1, <4>1
    <3>2. CASE l = m
      <4>1. k \in MappingsOfConn(c) \ {m} /\ mappings'[k] = mappings[k] BY <2>3, <2>4, <3>2
      <4> QED BY <1>2, <3>2, <4>1
    <3>3. CASE k # m /\ l # m BY <1>4, <2>3, <2>4, <3>3, Parts DEF NoCollision
    <3> QED BY <3>1, <3>2, <3>3
  <2>5. \A d, e \in LiveConns' : d # e /\ conns'[d].host = conns'[e].host => conns'[d].admin # conns'[e].admin
    BY <1>4, Parts DEF NoCollision, LiveConns
  <2> QED BY <2>2, <2>4, <2>5 DEF NoCollision
<1> QED BY <1>4, <1>6, <1>7, <1>8

LEMMA AddProxyStep ==
  ASSUME IInv, NEW m \in Mappings, NEW c \in Conns, NEW in \in Inputs, AddProxy(m, c, in)
  PROVE  IInv' /\ VersionedStep /\ AnnouncedStep
<1> DEFINE n == conns[c].node
           q == row(c, in, externalPorts(n, usedPorts(n)))
<1>1. /\ Edit /\ mappings[m].status = "unused" /\ c \in LiveConns /\ in.port \notin usedPorts(n)
      /\ uniqueProxyName(c, in, {}) /\ mappings' = [mappings EXCEPT ![m] = q] /\ bumpConnection(c)
      /\ UNCHANGED <<nodes, retirements, held, jobs>>
  BY DEF AddProxy, validProxy
<1>2. /\ q \in MappingRow /\ q.status = "live" /\ (q.port = None <=> q.type \in {"http", "https"})
      /\ q.conn = c /\ q.name = in.name /\ q.port = in.port
  BY MappingRows
<1> HIDE DEF q
<1>3. \A k \in MappingsOfNode(n) : q.port # None => mappings[k].port # q.port BY <1>1, <1>2 DEF usedPorts
<1>4. \A k \in MappingsOfConn(c) : mappings[k].name # q.name BY <1>1, <1>2 DEF uniqueProxyName
<1>5. m \notin LiveMappings BY <1>1 DEF LiveMappings
<1>6. /\ TablesOK' /\ LiveRowsOK' /\ Referential' /\ NoCollision' /\ VersionedStep /\ AnnouncedStep
      /\ unpublished' = unpublished \cup {conns[c].host} /\ {conns[c].host} \in SUBSET Agents
  BY <1>1, <1>2, <1>3, <1>4, <1>5, PutMapping
<1>7. RestOK' BY <1>1, <1>6, RestAfterEdit, Parts
<1> QED BY <1>6, <1>7, Whole

LEMMA UpdateProxyStep ==
  ASSUME IInv, NEW m \in Mappings, NEW in \in Inputs, UpdateProxy(m, in)
  PROVE  IInv' /\ VersionedStep /\ AnnouncedStep
<1> DEFINE c    == mappings[m].conn
           n    == conns[c].node
           used == usedPorts(n) \ {mappings[m].port}
           q    == row(c, in, externalPorts(n, used) \ {mappings[m].port})
<1>1. /\ Edit /\ m \in LiveMappings /\ in.port \notin used
      /\ uniqueProxyName(c, in, {m}) /\ mappings' = [mappings EXCEPT ![m] = q] /\ bumpConnection(c)
      /\ UNCHANGED <<nodes, retirements, held, jobs>>
  BY DEF UpdateProxy, validProxy
<1>2. c \in LiveConns /\ c \in Conns /\ n \in Nodes /\ m \in MappingsOfNode(n)
  BY <1>1, Parts DEF Referential, LiveConns, LiveNodes, MappingsOfNode, ConnsOfNode
<1>3. /\ q \in MappingRow /\ q.status = "live" /\ (q.port = None <=> q.type \in {"http", "https"})
      /\ q.conn = c /\ q.name = in.name /\ q.port = in.port
  BY <1>2, MappingRows
<1> HIDE DEF q
<1>4. \A k \in MappingsOfNode(n) \ {m} : q.port # None => mappings[k].port # q.port
  <2>1. SUFFICES ASSUME NEW k \in MappingsOfNode(n) \ {m}, q.port # None, mappings[k].port = q.port
                 PROVE  FALSE
    OBVIOUS
  <2>2. in.port \in usedPorts(n) BY <1>3, <2>1 DEF usedPorts
  <2>3. mappings[m].port = in.port BY <1>1, <2>2
  <2> QED BY <1>2, <1>3, <2>1, <2>3, Parts DEF NoCollision
<1>5. \A k \in MappingsOfConn(c) \ {m} : mappings[k].name # q.name BY <1>1, <1>3 DEF uniqueProxyName
<1> HIDE DEF used
<1>6. /\ TablesOK' /\ LiveRowsOK' /\ Referential' /\ NoCollision' /\ VersionedStep /\ AnnouncedStep
      /\ unpublished' = unpublished \cup {conns[c].host} /\ {conns[c].host} \in SUBSET Agents
  BY <1>1, <1>2, <1>3, <1>4, <1>5, PutMapping
<1>7. RestOK' BY <1>1, <1>6, RestAfterEdit, Parts
<1> QED BY <1>6, <1>7, Whole

LEMMA DeleteProxyStep ==
  ASSUME IInv, NEW m \in Mappings, DeleteProxy(m)
  PROVE  IInv' /\ VersionedStep /\ AnnouncedStep
<1> DEFINE c == mappings[m].conn
<1>1. /\ Edit /\ m \in LiveMappings /\ mappings' = [mappings EXCEPT ![m] = NoMapping("deleted")]
      /\ bumpConnection(c) /\ UNCHANGED <<nodes, retirements, held, jobs>>
  BY DEF DeleteProxy
<1>2. NoMapping("deleted") \in MappingRow /\ NoMapping("deleted").status = "deleted"
  BY EmptyRows DEF Statuses, NoMapping
<1>3. c \in LiveConns /\ mappings \in [Mappings -> MappingRow]
  BY <1>1, Parts DEF Referential, TablesOK
<1>4. /\ mappings' \in [Mappings -> MappingRow] /\ mappings'[m].status = "deleted"
      /\ \A k \in Mappings \ {m} : mappings'[k] = mappings[k]
  BY <1>1, <1>2, <1>3
<1>5. \A k \in LiveMappings' : k \in LiveMappings /\ mappings'[k] = mappings[k] BY <1>4 DEF LiveMappings
<1>6. MappingsOf({c}) BY <1>4 DEF MappingsOf, LiveMappings
<1> HIDE DEF c
<1>7. /\ TablesOK' /\ VersionedStep /\ AnnouncedStep
      /\ LiveConns' = LiveConns /\ LiveHosts' = LiveHosts /\ LiveNodes' = LiveNodes
      /\ \A d \in Conns : /\ conns'[d].host = conns[d].host /\ conns'[d].node = conns[d].node
                          /\ conns'[d].admin = conns[d].admin
      /\ unpublished' = unpublished \cup {conns[c].host} /\ {conns[c].host} \in SUBSET Agents
  BY <1>1, <1>3, <1>4, <1>6, OneConnection
<1>8. NothingNew /\ NothingLost BY <1>5, <1>7 DEF NothingNew, NothingLost, LiveConns
<1>9. LiveRowsOK'
  <2>1. \A k \in LiveNodes' : k \in LiveNodes /\ nodes'[k] = nodes[k] BY <1>1, <1>7
  <2> QED BY <1>5, <2>1, Parts, SameLiveRows
<1>10. RestOK' BY <1>1, <1>7, RestAfterEdit, Parts
<1> QED BY <1>7, <1>8, <1>9, <1>10, Parts, SameGraph, Whole

LEMMA CreateConnectionStep ==
  ASSUME IInv, NEW c \in Conns, NEW h \in Hosts, NEW n \in Nodes, NEW p \in Protocols,
         NEW ins \in Requests, CreateConnection(c, h, n, p, ins)
  PROVE  IInv' /\ VersionedStep /\ AnnouncedStep
<1>1. PICK S \in SUBSET Mappings : ins \in [S -> Inputs] BY DEF Requests
<1>2. /\ Edit /\ conns[c].status = "unused" /\ h \in LiveHosts /\ n \in LiveNodes /\ bumpHost(h)
      /\ \A m \in S : /\ mappings[m].status = "unused" /\ ins[m].port \notin usedPorts(n)
                      /\ \A o \in S \ {m} : /\ ins[o].name # ins[m].name
                                            /\ ins[o].port # ins[m].port \/ ins[m].port = None
      /\ mappings' = [m \in Mappings |->
           IF m \in S THEN row(c, ins[m], externalPorts(n, usedPorts(n))) ELSE mappings[m]]
      /\ UNCHANGED <<nodes, retirements, held, jobs>>
  BY <1>1 DEF CreateConnection, validProxy
<1>3. PICK port \in nextAdminPort(h) :
        conns' = [conns EXCEPT ![c] = [status |-> "live", host |-> h, node |-> n, protocol |-> p,
                                       admin |-> port, version |-> 1, cert |-> 0]]
  BY DEF CreateConnection
<1> DEFINE q == [status |-> "live", host |-> h, node |-> n, protocol |-> p,
                 admin |-> port, version |-> 1, cert |-> 0]
<1>4. TablesOK /\ conns \in [Conns -> ConnRow] /\ mappings \in [Mappings -> MappingRow]
  BY Parts DEF TablesOK
<1>5. port \in AdminPorts /\ \A d \in LiveConns : conns[d].host = h => conns[d].admin # port
  BY DEF nextAdminPort, freeAdminPorts, ConnsOfHost
<1>6. /\ q \in ConnRow /\ q.status = "live" /\ q.host = h /\ q.node = n /\ q.admin = port
  BY <1>5 DEF ConnRow, Statuses
<1> HIDE DEF q
<1>7. /\ conns' \in [Conns -> ConnRow] /\ conns'[c] = q
      /\ \A d \in Conns \ {c} : conns'[d] = conns[d]
  <2>1. conns' = [conns EXCEPT ![c] = q] BY <1>3 DEF q
  <2> QED BY <1>4, <1>6, <2>1
<1>8. c \notin LiveConns /\ c \in LiveConns' BY <1>2, <1>6, <1>7 DEF LiveConns
<1>9. \A d \in LiveConns' : d = c \/ (d # c /\ d \in LiveConns /\ conns'[d] = conns[d])
  BY <1>7 DEF LiveConns
<1>10. ASSUME NEW m \in Mappings
       PROVE  /\ mappings'[m] \in MappingRow
              /\ m \in S => /\ mappings'[m].status = "live" /\ mappings'[m].conn = c
                            /\ mappings'[m].name = ins[m].name /\ mappings'[m].port = ins[m].port
                            /\ mappings'[m].port = None <=> mappings'[m].type \in {"http", "https"}
              /\ m \notin S => mappings'[m] = mappings[m]
  <2>1. CASE m \in S
    <3>1. mappings'[m] = row(c, ins[m], externalPorts(n, usedPorts(n))) BY <1>2, <2>1
    <3>2. ins[m] \in Inputs BY <1>1, <2>1
    <3> QED BY <2>1, <3>1, <3>2, MappingRows
  <2>2. CASE m \notin S BY <1>2, <1>4, <2>2
  <2> QED BY <2>1, <2>2
<1>11. mappings' \in [Mappings -> MappingRow]
  <2>1. mappings' = [m \in Mappings |-> mappings'[m]] BY <1>2
  <2> QED BY <1>10, <2>1
<1>12. /\ \A m \in S : m \in LiveMappings' /\ m \notin LiveMappings
       /\ \A m \in LiveMappings' : m \in S \/ (m \notin S /\ m \in LiveMappings /\ mappings'[m] = mappings[m])
  BY <1>1, <1>2, <1>10 DEF LiveMappings
<1>13. /\ TablesOK' /\ VersionedStep /\ AnnouncedStep
       /\ LiveHosts' = LiveHosts /\ LiveNodes' = LiveNodes
       /\ unpublished' = unpublished \cup {h} /\ {h} \in SUBSET Agents
  <2>1. MappingsOf({c}) BY <1>10, <1>12 DEF MappingsOf
  <2>2. \A d \in {c} : d \notin LiveConns /\ conns'[d].host = h BY <1>6, <1>7, <1>8
  <2> QED BY <1>2, <1>7, <1>11, <2>1, <2>2, OneHost
<1>14. LiveRowsOK'
  <2>1. \A k \in LiveMappings' : mappings'[k].port = None <=> mappings'[k].type \in {"http", "https"}
    BY <1>10, <1>12, Parts DEF LiveRowsOK
  <2>2. \A k \in LiveNodes' : nodes'[k].listeners["bind"] # None BY <1>2, <1>13, Parts DEF LiveRowsOK
  <2> QED BY <2>1, <2>2 DEF LiveRowsOK
<1>15. \A d \in LiveConns : d \in LiveConns' /\ d # c /\ conns'[d] = conns[d]
  BY <1>7, <1>8 DEF LiveConns
<1>16. Referential'
  <2>1. \A d \in LiveConns' : conns'[d].host \in LiveHosts' /\ conns'[d].node \in LiveNodes'
    BY <1>2, <1>6, <1>7, <1>9, <1>13, Parts DEF Referential
  <2>2. \A k \in LiveMappings' : mappings'[k].conn \in LiveConns'
    BY <1>8, <1>10, <1>12, <1>15, Parts DEF Referential
  <2> QED BY <2>1, <2>2 DEF Referential
<1>17. NoCollision'
  <2>1. ASSUME NEW k \in Nodes, NEW m \in MappingsOfNode(k)'
        PROVE  \/ m \in S /\ k = n
               \/ m \notin S /\ m \in MappingsOfNode(k) /\ mappings'[m] = mappings[m]
    <3>1. m \in LiveMappings' /\ mappings'[m].conn \in LiveConns' /\ conns'[mappings'[m].conn].node = k
      BY DEF MappingsOfNode, ConnsOfNode
    <3>2. CASE m \in S BY <1>1, <1>6, <1>7, <1>10, <3>1, <3>2
    <3>3. CASE m \notin S
      <4>1. m \in LiveMappings /\ mappings'[m] = mappings[m] /\ mappings[m].conn \in LiveConns
        BY <1>12, <3>1, <3>3, Parts DEF Referential
      <4>2. conns[mappings[m].conn].node = k BY <1>15, <3>1, <4>1
      <4> QED BY <3>3, <4>1, <4>2 DEF MappingsOfNode, ConnsOfNode
    <3> QED BY <3>2, <3>3
  <2>2. ASSUME NEW k \in Nodes, NEW m \in MappingsOfNode(k)', NEW l \in MappingsOfNode(k)',
               m # l, mappings'[m].port # None
        PROVE  mappings'[m].port # mappings'[l].port
    <3>1. \A o \in S, r \in MappingsOfNode(n) : ins[o].port # None => mappings[r].port # ins[o].port
      BY <1>2 DEF usedPorts
    <3>2. CASE m \in S /\ l \in S BY <1>1, <1>2, <1>10, <2>2, <3>2
    <3>3. CASE m \in S /\ l \notin S BY <1>1, <1>10, <2>1, <2>2, <3>1, <3>3
    <3>4. CASE m \notin S /\ l \in S BY <1>1, <1>10, <2>1, <2>2, <3>1, <3>4
    <3>5. CASE m \notin S /\ l \notin S BY <2>1, <2>2, <3>5, Parts DEF NoCollision
    <3> QED BY <3>2, <3>3, <3>4, <3>5
  <2>3. ASSUME NEW d \in LiveConns', NEW m \in MappingsOfConn(d)'
        PROVE  \/ m \in S /\ d = c
               \/ m \notin S /\ d # c /\ m \in MappingsOfConn(d) /\ mappings'[m] = mappings[m]
    <3>1. m \in LiveMappings' /\ mappings'[m].conn = d BY DEF MappingsOfConn
    <3>2. CASE m \in S BY <1>1, <1>10, <3>1, <3>2
    <3>3. CASE m \notin S
      <4>1. m \in LiveMappings /\ mappings'[m] = mappings[m] /\ mappings[m].conn \in LiveConns
        BY <1>12, <3>1, <3>3, Parts DEF Referential
      <4> QED BY <1>15, <3>1, <3>3, <4>1 DEF MappingsOfConn
    <3> QED BY <3>2, <3>3
  <2>4. ASSUME NEW d \in LiveConns', NEW m \in MappingsOfConn(d)', NEW l \in MappingsOfConn(d)', m # l
        PROVE  mappings'[m].name # mappings'[l].name
    <3>1. CASE d = c
      <4>1. m \in S /\ l \in S BY <2>3, <3>1
      <4> QED BY <1>1, <1>2, <1>10, <2>4, <4>1
    <3>2. CASE d # c
      <4>1. /\ m \in MappingsOfConn(d) /\ l \in MappingsOfConn(d) /\ d \in LiveConns
            /\ mappings'[m] = mappings[m] /\ mappings'[l] = mappings[l]
        BY <1>9, <2>3, <3>2
      <4> QED BY <2>4, <4>1, Parts DEF NoCollision
    <3> QED BY <3>1, <3>2
  <2>5. ASSUME NEW d \in LiveConns', NEW e \in LiveConns', d # e, conns'[d].host = conns'[e].host
        PROVE  conns'[d].admin # conns'[e].admin
    <3>1. CASE d = c
      <4>1. e \in LiveConns /\ conns'[e] = conns[e] BY <1>9, <2>5, <3>1
      <4> QED BY <1>5, <1>6, <1>7, <2>5, <3>1, <4>1
    <3>2. CASE e = c
      <4>1. d \in LiveConns /\ conns'[d] = conns[d] BY <1>9, <2>5, <3>2
      <4> QED BY <1>5, <1>6, <1>7, <2>5, <3>2, <4>1
    <3>3. CASE d # c /\ e # c BY <1>9, <2>5, <3>3, Parts DEF NoCollision
    <3> QED BY <3>1, <3>2, <3>3
  <2> QED BY <2>2, <2>4, <2>5 DEF NoCollision
<1>18. RestOK' BY <1>2, <1>13, RestAfterEdit, Parts
<1> QED BY <1>13, <1>14, <1>16, <1>17, <1>18, Whole

LEMMA ReactivateStep ==
  ASSUME IInv, NEW s \in Slots, NEW r \in jobs[s].rows, Reactivate(s, r)
  PROVE  IInv' /\ VersionedStep /\ AnnouncedStep
<1> DEFINE left == jobs[s].rows \ {r}
           j == IF left = {} THEN NoJob ELSE [jobs[s] EXCEPT !.rows = left]
<1>1. TablesOK /\ mappings \in [Mappings -> MappingRow] /\ jobs \in [Slots -> JobRow] /\ jobs[s] \in JobRow
  BY Parts DEF TablesOK, RestOK
<1>2. jobs' \in [Slots -> JobRow]
  <2>1. [jobs[s] EXCEPT !.rows = left] \in JobRow BY <1>1 DEF JobRow
  <2>2. j \in JobRow BY <2>1, EmptyRows DEF Statuses
  <2>3. jobs' = [jobs EXCEPT ![s] = j] BY <1>1 DEF Reactivate
  <2> HIDE DEF j
  <2> QED BY <1>1, <2>2, <2>3
<1>3. UNCHANGED <<nodes, retirements, held, edits>> BY DEF Reactivate
<1>4. CASE ~stillInactive(r)
  <2>1. UNCHANGED <<mappings, conns, hosts, unpublished>> BY <1>4 DEF Reactivate
  <2>2. RestOK' BY <1>2, <1>3, <2>1, Parts DEF RestOK
  <2> QED BY <1>3, <2>1, <2>2, NoTable DEF tables
<1>5. CASE stillInactive(r)
  <2> DEFINE m == r.id
             c == mappings[m].conn
             q == [mappings[m] EXCEPT !.inactive = FALSE]
  <2>1. /\ m \in LiveMappings /\ mappings' = [mappings EXCEPT ![m].inactive = FALSE] /\ bumpConnection(c)
    BY <1>5 DEF Reactivate, stillInactive
  <2>2. m \in Mappings /\ c \in LiveConns /\ mappings[m] \in MappingRow
    BY <1>1, <2>1, Parts DEF Referential, LiveMappings
  <2>3. /\ q \in MappingRow /\ q.status = mappings[m].status /\ q.conn = c /\ q.name = mappings[m].name
        /\ q.port = mappings[m].port /\ q.type = mappings[m].type
    BY <2>2 DEF MappingRow
  <2>4. mappings' = [mappings EXCEPT ![m] = q] BY <1>1, <2>1, <2>2
  <2> HIDE DEF q, m
  <2>5. /\ mappings' \in [Mappings -> MappingRow] /\ mappings'[m] = q
        /\ \A k \in Mappings \ {m} : mappings'[k] = mappings[k]
    BY <1>1, <2>2, <2>3, <2>4
  <2>6. MappingsOf({c}) BY <2>1, <2>3, <2>5 DEF MappingsOf
  <2>7. \A k \in LiveMappings' : /\ k \in LiveMappings /\ mappings'[k].conn = mappings[k].conn
                                 /\ mappings'[k].name = mappings[k].name /\ mappings'[k].port = mappings[k].port
                                 /\ mappings'[k].type = mappings[k].type
    BY <2>1, <2>3, <2>5 DEF LiveMappings
  <2> HIDE DEF c
  <2>8. /\ TablesOK' /\ VersionedStep /\ AnnouncedStep
        /\ LiveConns' = LiveConns /\ LiveHosts' = LiveHosts /\ LiveNodes' = LiveNodes
        /\ \A d \in Conns : /\ conns'[d].host = conns[d].host /\ conns'[d].node = conns[d].node
                            /\ conns'[d].admin = conns[d].admin
        /\ unpublished' = unpublished \cup {conns[c].host} /\ {conns[c].host} \in SUBSET Agents
    BY <1>3, <2>1, <2>2, <2>5, <2>6, OneConnection
  <2>9. NothingNew /\ NothingLost BY <2>7, <2>8 DEF NothingNew, NothingLost, LiveConns
  <2>10. LiveRowsOK'
    <3>1. \A k \in LiveNodes' : k \in LiveNodes /\ nodes'[k] = nodes[k] BY <1>3, <2>8
    <3> QED BY <2>7, <3>1, Parts, SameLiveRows
  <2>11. RestOK' BY <1>2, <1>3, <2>8, Parts DEF RestOK
  <2> QED BY <2>8, <2>9, <2>10, <2>11, Parts, SameGraph, Whole
<1> QED BY <1>4, <1>5

\* Steps that leave the tables alone.
LEMMA OtherStep ==
  ASSUME IInv,
         \/ \E s \in Slots : FindInactive(s)
         \/ Restart \/ \E a \in Agents : Publish(a)
         \/ \E n \in Nodes, p \in Ports : Bind(n, p)
         \/ UNCHANGED vars
  PROVE  IInv' /\ VersionedStep /\ AnnouncedStep
<1>1. RestOK /\ TablesOK BY Parts
<1>2. ASSUME NEW s \in Slots, FindInactive(s) PROVE RestOK' /\ UNCHANGED tables
  <2> DEFINE inactive == {m \in MappingsOfNode(jobs[s].node) :
                            mappings[m].inactive /\ mappings[m].port \notin jobs[s].bound \cup {None}}
             found == {[id |-> m, port |-> mappings[m].port] : m \in inactive}
             j == IF found = {} THEN NoJob ELSE [jobs[s] EXCEPT !.step = "reactivate", !.rows = found]
  <2>1. jobs' = [jobs EXCEPT ![s] = j] /\ UNCHANGED <<tables, unpublished, held, edits>>
    BY <1>1, <1>2 DEF FindInactive, RestOK
  <2>2. \A m \in inactive : m \in Mappings /\ mappings[m].port \in Ports
    BY <1>1 DEF TablesOK, MappingRow, MappingsOfNode, LiveMappings
  <2> HIDE DEF inactive
  <2>3. found \in SUBSET [id : Mappings, port : Ports] BY <2>2
  <2> HIDE DEF found
  <2>4. jobs[s] \in JobRow /\ jobs \in [Slots -> JobRow] BY <1>1 DEF RestOK
  <2>5. [jobs[s] EXCEPT !.step = "reactivate", !.rows = found] \in JobRow BY <2>3, <2>4 DEF JobRow
  <2>6. j \in JobRow BY <2>5, EmptyRows DEF Statuses
  <2> HIDE DEF j
  <2> QED BY <1>1, <2>1, <2>4, <2>6 DEF RestOK
<1>3. CASE Restart
  <2>1. edits' \in 0..MaxEdits BY <1>1, <1>3, ConstantsAssumption DEF Restart, Edit, RestOK, ConstantsAssumption
  <2>2. jobs' \in [Slots -> JobRow] BY <1>3, EmptyRows DEF Restart, Statuses
  <2>3. RestOK' /\ UNCHANGED tables BY <1>1, <1>3, <2>1, <2>2 DEF Restart, RestOK
  <2> QED BY <2>3, NoTable
<1>4. ASSUME NEW a \in Agents, Publish(a) PROVE RestOK' /\ UNCHANGED tables
  BY <1>1, <1>4 DEF Publish, RestOK
<1>5. ASSUME NEW n \in Nodes, NEW p \in Ports, Bind(n, p) PROVE RestOK' /\ UNCHANGED tables
  <2>1. edits' \in 0..MaxEdits BY <1>1, <1>5, ConstantsAssumption DEF Bind, Edit, RestOK, ConstantsAssumption
  <2>2. held' \in [Nodes -> SUBSET Ports] BY <1>1, <1>5 DEF Bind, RestOK
  <2> QED BY <1>1, <1>5, <2>1, <2>2 DEF Bind, RestOK
<1>6. CASE UNCHANGED vars
  <2>1. RestOK' /\ UNCHANGED tables BY <1>1, <1>6 DEF vars, tables, RestOK
  <2> QED BY <2>1, NoTable
<1> QED BY <1>2, <1>3, <1>4, <1>5, <1>6, NoTable

---------------------------------------------------------------------------
(* The theorems.                                                           *)

LEMMA InvariantInitially == Init => IInv
<1> SUFFICES ASSUME Init PROVE IInv
  OBVIOUS
<1>1. TablesOK
  <2>1. /\ nodes \in [Nodes -> NodeRow] /\ hosts \in [Hosts -> HostRow]
        /\ conns \in [Conns -> ConnRow] /\ mappings \in [Mappings -> MappingRow]
    BY EmptyRows DEF Init, Statuses
  <2> QED BY <2>1 DEF TablesOK, Init
<1>2. LiveNodes = {} /\ LiveConns = {} /\ LiveMappings = {}
  BY DEF Init, LiveNodes, LiveConns, LiveMappings, NoNode, NoConn, NoMapping
<1>3. LiveRowsOK BY <1>2 DEF LiveRowsOK
<1>4. RestOK
  <2>1. jobs \in [Slots -> JobRow] BY EmptyRows DEF Init, Statuses
  <2> QED BY <2>1, ConstantsAssumption DEF Init, RestOK, ConstantsAssumption
<1>5. Referential BY <1>2 DEF Referential
<1>6. NoCollision BY <1>2 DEF NoCollision, MappingsOfNode, MappingsOfConn
<1> QED BY <1>1, <1>3, <1>4, <1>5, <1>6, TypeParts DEF IInv

LEMMA AdministerStep ==
  ASSUME IInv, Administer PROVE IInv' /\ VersionedStep /\ AnnouncedStep
<1>1. ASSUME NEW n \in Nodes, DeleteFRPS(n) \/ RenewNode(n) PROVE IInv' /\ VersionedStep /\ AnnouncedStep
  BY <1>1, DeleteFRPSStep, RenewNodeStep
<1>2. ASSUME NEW n \in Nodes, NEW ls \in [Listeners -> Ports \cup {None}], CreateFRPS(n, ls) \/ UpdateFRPS(n, ls)
      PROVE  IInv' /\ VersionedStep /\ AnnouncedStep
  BY <1>2, CreateFRPSStep, UpdateFRPSStep DEF ListenerChoices
<1>3. ASSUME NEW h \in Hosts, CreateFRPCHost(h) \/ UpdateFRPCHost(h) \/ DeleteFRPCHost(h)
      PROVE  IInv' /\ VersionedStep /\ AnnouncedStep
  BY <1>3, HostStep, DeleteFRPCHostStep
<1>4. ASSUME NEW h \in Hosts, NEW due \in SUBSET Conns, RenewHost(h, due)
      PROVE  IInv' /\ VersionedStep /\ AnnouncedStep
  BY <1>4, RenewHostStep
<1>5. ASSUME NEW c \in Conns, NEW h \in Hosts, NEW n \in Nodes, NEW p \in Protocols, NEW ins \in Requests,
             CreateConnection(c, h, n, p, ins)
      PROVE  IInv' /\ VersionedStep /\ AnnouncedStep
  BY <1>5, CreateConnectionStep
<1>6. ASSUME NEW c \in Conns, NEW p \in Protocols, UpdateConnection(c, p)
      PROVE  IInv' /\ VersionedStep /\ AnnouncedStep
  BY <1>6, UpdateConnectionStep
<1>7. ASSUME NEW c \in Conns, DeleteConnection(c) PROVE IInv' /\ VersionedStep /\ AnnouncedStep
  BY <1>7, DeleteConnectionStep
<1>8. ASSUME NEW m \in Mappings, NEW c \in Conns, NEW in \in Inputs, AddProxy(m, c, in)
      PROVE  IInv' /\ VersionedStep /\ AnnouncedStep
  BY <1>8, AddProxyStep
<1>9. ASSUME NEW m \in Mappings, NEW in \in Inputs, UpdateProxy(m, in)
      PROVE  IInv' /\ VersionedStep /\ AnnouncedStep
  BY <1>9, UpdateProxyStep
<1>10. ASSUME NEW m \in Mappings, DeleteProxy(m) PROVE IInv' /\ VersionedStep /\ AnnouncedStep
  BY <1>10, DeleteProxyStep
<1> QED BY <1>1, <1>2, <1>3, <1>4, <1>5, <1>6, <1>7, <1>8, <1>9, <1>10 DEF Administer

LEMMA EveryStep == IInv /\ [Next]_vars => IInv' /\ VersionedStep /\ AnnouncedStep
<1> SUFFICES ASSUME IInv, [Next]_vars PROVE IInv' /\ VersionedStep /\ AnnouncedStep
  OBVIOUS
<1>1. CASE Administer BY <1>1, AdministerStep
<1>2. ASSUME NEW s \in Slots, NEW n \in Nodes, RecordStatus(s, n)
      PROVE  IInv' /\ VersionedStep /\ AnnouncedStep
  BY <1>2, RecordStatusStep
<1>3. ASSUME NEW s \in Slots, NEW r \in jobs[s].rows, Reactivate(s, r)
      PROVE  IInv' /\ VersionedStep /\ AnnouncedStep
  BY <1>3, ReactivateStep
<1> QED BY <1>1, <1>2, <1>3, OtherStep DEF Next, Occupancy, Reports

THEOREM Invariant == Spec => []IInv
<1>1. IInv /\ [Next]_vars => IInv' BY EveryStep
<1> QED BY <1>1, InvariantInitially, PTL DEF Spec

\* Rows keep the types of internal/model, whatever is created, edited, deleted or reported.
THEOREM TypeCorrect == Spec => []TypeOK
<1>1. IInv => TypeOK BY DEF IInv
<1> QED BY <1>1, Invariant, PTL

\* No two mappings of a node are given one remote port, no two of a connection one name,
\* no two connections of a host one admin port (usedPortsTx, uniqueProxyName, nextAdminPort).
THEOREM PortsExclusive == Spec => []NoCollision
<1>1. IInv => NoCollision BY DEF IInv
<1> QED BY <1>1, Invariant, PTL

\* No live row points to a row that is gone, in whatever order rows are deleted.
THEOREM ReferencesHold == Spec => []Referential
<1>1. IInv => Referential BY DEF IInv
<1> QED BY <1>1, Invariant, PTL

\* What is delivered to an agent changes only under a greater revision, and a retired agent
\* is told one it has not seen: the revisions in bumpConnectionTx, bumpHostTx and the
\* updates of nodes reach everything that a bundle is rendered from.
THEOREM RevisionsFollow == Spec => Versioned
<1>1. IInv /\ [Next]_vars => VersionedStep BY EveryStep
<1> QED BY <1>1, Invariant, PTL DEF Spec, Versioned, VersionedStep

\* Every agent whose delivery a step changes is left to be notified by that step.
THEOREM ChangesAnnounced == Spec => Announced
<1>1. IInv /\ [Next]_vars => AnnouncedStep BY EveryStep
<1> QED BY <1>1, Invariant, PTL DEF Spec, Announced, AnnouncedStep
---------------------------------------------------------------------------
(* What validation establishes, and the one operation that loses it.           *)

MoveListeners(n) == \E ls \in ListenerChoices : ls # nodes[n].listeners /\ UpdateFRPS(n, ls)

FitStep == \A n \in Nodes : NodeFits(n) => NodeFits(n)' \/ MoveListeners(n)

\* A node that keeps its listeners stays fit if each of its connections and mappings is one
\* it had, unchanged in what matters, or has just been validated.
LEMMA StaysFit ==
  ASSUME NEW n \in Nodes, NodeFits(n), nodes'[n].listeners = nodes[n].listeners,
         \A c \in ConnsOfNode(n)' : \/ c \in ConnsOfNode(n) /\ conns'[c].protocol = conns[c].protocol
                                    \/ nodeOffersProtocol(n, conns'[c].protocol),
         \A m \in MappingsOfNode(n)' :
           \/ /\ m \in MappingsOfNode(n) /\ mappings'[m].port = mappings[m].port
              /\ mappings'[m].type = mappings[m].type
           \/ mappings'[m].port \notin nodeReservedPorts(n) /\ validProxyListener(n, mappings'[m])
  PROVE  NodeFits(n)'
<1>1. \A p : nodeOffersProtocol(n, p)' <=> nodeOffersProtocol(n, p') BY DEF nodeOffersProtocol
<1>2. nodeReservedPorts(n)' = nodeReservedPorts(n) BY DEF nodeReservedPorts
<1>3. \A c \in ConnsOfNode(n)' : nodeOffersProtocol(n, conns[c].protocol)'
  BY DEF NodeFits, nodeOffersProtocol
<1>4. \A m \in MappingsOfNode(n)' :
        mappings'[m].port \notin nodeReservedPorts(n)' /\ validProxyListener(n, mappings[m])'
  BY <1>2 DEF NodeFits, validProxyListener
<1> QED BY <1>3, <1>4 DEF NodeFits

\* A node without live connections has nothing to fit.
LEMMA EmptyFits == ASSUME NEW n, ConnsOfNode(n)' = {} PROVE NodeFits(n)'
BY DEF NodeFits, MappingsOfNode

\* Steps that create no connection and no mapping, and move neither protocols nor ports.
LEMMA NothingToValidate ==
  ASSUME NEW n \in Nodes, NodeFits(n), nodes'[n].listeners = nodes[n].listeners,
         \A c \in LiveConns' : /\ c \in LiveConns /\ conns'[c].node = conns[c].node
                               /\ conns'[c].protocol = conns[c].protocol,
         \A m \in LiveMappings' : /\ m \in LiveMappings /\ mappings'[m].conn = mappings[m].conn
                                  /\ mappings'[m].port = mappings[m].port
                                  /\ mappings'[m].type = mappings[m].type
  PROVE  NodeFits(n)'
<1>1. \A c \in ConnsOfNode(n)' : c \in ConnsOfNode(n) /\ conns'[c].protocol = conns[c].protocol
  BY DEF ConnsOfNode
<1>2. \A m \in MappingsOfNode(n)' : /\ m \in MappingsOfNode(n) /\ mappings'[m].port = mappings[m].port
                                    /\ mappings'[m].type = mappings[m].type
  BY <1>1 DEF MappingsOfNode
<1> QED BY <1>1, <1>2, StaysFit

\* Connections that are bumped keep their protocols.
LEMMA BumpedProtocols ==
  ASSUME TablesOK, NEW S, conns' = bumped(conns, S)
  PROVE  \A c \in Conns : conns'[c].protocol = conns[c].protocol
<1>1. conns \in [Conns -> ConnRow] BY DEF TablesOK
<1>2. conns' = [c \in Conns |-> IF c \in S THEN [conns[c] EXCEPT !.version = @ + 1] ELSE conns[c]]
  BY <1>1 DEF bumped
<1> QED BY <1>1, <1>2 DEF ConnRow

LEMMA FRPSFits ==
  ASSUME IInv, NEW n \in Nodes, NEW ls \in ListenerChoices, NEW k \in Nodes, NodeFits(k),
         CreateFRPS(n, ls) \/ UpdateFRPS(n, ls) \/ DeleteFRPS(n) \/ RenewNode(n)
  PROVE  NodeFits(k)' \/ MoveListeners(k)
<1>1. /\ TablesOK /\ nodes \in [Nodes -> NodeRow] /\ mappings' = mappings
      /\ \A c \in LiveConns : conns[c].node \in LiveNodes
  BY Parts DEF TablesOK, Referential, CreateFRPS, UpdateFRPS, DeleteFRPS, RenewNode
<1>2. \A c \in Conns : /\ conns'[c].status = conns[c].status /\ conns'[c].node = conns[c].node
                       /\ conns'[c].protocol = conns[c].protocol
  BY <1>1, BumpedConns, BumpedProtocols DEF CreateFRPS, UpdateFRPS, DeleteFRPS, RenewNode
<1>3. ConnsOfNode(k)' = ConnsOfNode(k) BY <1>2 DEF ConnsOfNode, LiveConns
<1>4. CASE nodes'[k].listeners = nodes[k].listeners
  <2>1. \A c \in LiveConns' : /\ c \in LiveConns /\ conns'[c].node = conns[c].node
                              /\ conns'[c].protocol = conns[c].protocol
    BY <1>2 DEF LiveConns
  <2>2. \A m \in LiveMappings' : m \in LiveMappings /\ mappings'[m] = mappings[m] BY <1>1 DEF LiveMappings
  <2> QED BY <1>4, <2>1, <2>2, NothingToValidate
<1>5. CASE k # n
  <2>1. nodes'[k] = nodes[k] BY <1>1, <1>5 DEF CreateFRPS, UpdateFRPS, DeleteFRPS, RenewNode
  <2> QED BY <1>4, <2>1
<1>6. CASE k = n /\ UpdateFRPS(n, ls)
  <2>1. nodes'[n].listeners = ls BY <1>1, <1>6 DEF UpdateFRPS, NodeRow
  <2> QED BY <1>4, <1>6, <2>1 DEF MoveListeners
<1>7. CASE k = n /\ RenewNode(n)
  <2>1. nodes'[n].listeners = nodes[n].listeners BY <1>1, <1>7 DEF RenewNode, NodeRow
  <2> QED BY <1>4, <1>7, <2>1
<1>8. CASE k = n /\ (CreateFRPS(n, ls) \/ DeleteFRPS(n))
  <2>1. ConnsOfNode(n) = {} BY <1>1, <1>8 DEF CreateFRPS, DeleteFRPS, ConnsOfNode, LiveNodes
  <2> QED BY <1>3, <1>8, <2>1, EmptyFits
<1> QED BY <1>5, <1>6, <1>7, <1>8

LEMMA HostFits ==
  ASSUME IInv, NEW h \in Hosts, NEW due \in SUBSET Conns, NEW n \in Nodes, NodeFits(n),
         CreateFRPCHost(h) \/ UpdateFRPCHost(h) \/ DeleteFRPCHost(h) \/ RenewHost(h, due)
  PROVE  NodeFits(n)'
<1>1. /\ TablesOK /\ conns \in [Conns -> ConnRow] /\ mappings \in [Mappings -> MappingRow]
      /\ UNCHANGED nodes
  BY Parts DEF TablesOK, CreateFRPCHost, UpdateFRPCHost, DeleteFRPCHost, RenewHost
<1>2. NoConn("deleted").status = "deleted" /\ NoMapping("deleted").status = "deleted" BY DEF NoConn, NoMapping
<1>3. \A c \in LiveConns' : /\ c \in LiveConns /\ conns'[c].node = conns[c].node
                            /\ conns'[c].protocol = conns[c].protocol
  <2>1. CASE DeleteFRPCHost(h)
    <3>1. conns' = deleted(conns, ConnsOfHost(h), NoConn("deleted")) BY <2>1 DEF DeleteFRPCHost
    <3> QED BY <1>1, <1>2, <3>1 DEF LiveConns, deleted
  <2>2. CASE RenewHost(h, due)
    <3>1. \A c \in Conns : conns'[c] = IF c \in due THEN [conns[c] EXCEPT !.cert = @ + 1, !.version = @ + 1]
                                                   ELSE conns[c]
      BY <2>2 DEF RenewHost
    <3> QED BY <1>1, <3>1 DEF LiveConns, ConnRow
  <2>3. CASE CreateFRPCHost(h) \/ UpdateFRPCHost(h)
    BY <2>3 DEF LiveConns, CreateFRPCHost, UpdateFRPCHost
  <2> QED BY <2>1, <2>2, <2>3
<1>4. \A m \in LiveMappings' : m \in LiveMappings /\ mappings'[m] = mappings[m]
  <2>1. CASE DeleteFRPCHost(h)
    <3> DEFINE gone == UNION {MappingsOfConn(c) : c \in ConnsOfHost(h)}
    <3>1. mappings' = deleted(mappings, gone, NoMapping("deleted")) BY <2>1 DEF DeleteFRPCHost
    <3> HIDE DEF gone
    <3> QED BY <1>1, <1>2, <3>1 DEF LiveMappings, deleted
  <2>2. CASE CreateFRPCHost(h) \/ UpdateFRPCHost(h) \/ RenewHost(h, due)
    BY <2>2 DEF LiveMappings, CreateFRPCHost, UpdateFRPCHost, RenewHost
  <2> QED BY <2>1, <2>2
<1> QED BY <1>1, <1>3, <1>4, NothingToValidate

LEMMA ConnectionFits ==
  ASSUME IInv, NEW c \in Conns, NEW p, NEW n \in Nodes, NodeFits(n),
         UpdateConnection(c, p) \/ DeleteConnection(c)
  PROVE  NodeFits(n)'
<1>1. /\ conns \in [Conns -> ConnRow] /\ mappings \in [Mappings -> MappingRow] /\ UNCHANGED nodes
  BY Parts DEF TablesOK, UpdateConnection, DeleteConnection
<1>2. NoConn("deleted").status = "deleted" /\ NoMapping("deleted").status = "deleted" BY DEF NoConn, NoMapping
<1>3. \A d \in LiveConns' :
        /\ d \in LiveConns /\ conns'[d].node = conns[d].node
        /\ conns'[d].protocol = conns[d].protocol \/ nodeOffersProtocol(conns[d].node, conns'[d].protocol)
  BY <1>1, <1>2 DEF LiveConns, ConnRow, UpdateConnection, DeleteConnection, deleted
<1>4. \A m \in LiveMappings' : m \in LiveMappings /\ mappings'[m] = mappings[m]
  BY <1>1, <1>2 DEF LiveMappings, UpdateConnection, DeleteConnection, deleted
<1>5. \A d \in ConnsOfNode(n)' : /\ d \in ConnsOfNode(n)
                                 /\ \/ conns'[d].protocol = conns[d].protocol
                                    \/ nodeOffersProtocol(n, conns'[d].protocol)
  BY <1>3 DEF ConnsOfNode
<1>6. \A m \in MappingsOfNode(n)' : m \in MappingsOfNode(n) /\ mappings'[m] = mappings[m]
  BY <1>4, <1>5 DEF MappingsOfNode
<1> QED BY <1>1, <1>5, <1>6, StaysFit

LEMMA CreateConnectionFits ==
  ASSUME IInv, NEW c \in Conns, NEW h \in Hosts, NEW k \in Nodes, NEW p \in Protocols,
         NEW ins \in Requests, CreateConnection(c, h, k, p, ins), NEW n \in Nodes, NodeFits(n)
  PROVE  NodeFits(n)'
<1> DEFINE S == DOMAIN ins
<1>1. /\ conns \in [Conns -> ConnRow] /\ mappings \in [Mappings -> MappingRow] /\ UNCHANGED nodes
      /\ \A m \in LiveMappings : mappings[m].conn \in LiveConns
      /\ c \notin LiveConns /\ nodeOffersProtocol(k, p)
      /\ \A m \in S : validProxy(k, ins[m], usedPorts(k))
  BY Parts DEF TablesOK, Referential, CreateConnection, LiveConns
<1>2. /\ conns'[c].node = k /\ conns'[c].protocol = p
      /\ \A d \in Conns \ {c} : conns'[d] = conns[d]
  BY <1>1 DEF CreateConnection
<1>3. \A m \in Mappings : IF m \in S THEN /\ mappings'[m].conn = c /\ mappings'[m].port = ins[m].port
                                          /\ mappings'[m].type = ins[m].type
                                     ELSE mappings'[m] = mappings[m]
  BY DEF CreateConnection, row
<1>4. \A d \in ConnsOfNode(n)' : \/ d \in ConnsOfNode(n) /\ conns'[d].protocol = conns[d].protocol
                                 \/ nodeOffersProtocol(n, conns'[d].protocol)
  BY <1>1, <1>2 DEF ConnsOfNode, LiveConns
<1>5. ASSUME NEW m \in MappingsOfNode(n)'
      PROVE  \/ /\ m \in MappingsOfNode(n) /\ mappings'[m].port = mappings[m].port
                /\ mappings'[m].type = mappings[m].type
             \/ mappings'[m].port \notin nodeReservedPorts(n) /\ validProxyListener(n, mappings'[m])
  <2>1. m \in Mappings /\ m \in LiveMappings' /\ mappings'[m].conn \in ConnsOfNode(n)'
    BY DEF MappingsOfNode, LiveMappings
  <2>2. CASE m \in S
    <3>1. n = k BY <1>2, <1>3, <2>1, <2>2 DEF ConnsOfNode
    <3> QED BY <1>1, <1>3, <2>1, <2>2, <3>1 DEF validProxy, validProxyListener, usedPorts
  <2>3. CASE m \notin S
    <3>1. mappings'[m] = mappings[m] /\ m \in LiveMappings BY <1>3, <2>1, <2>3 DEF LiveMappings
    <3>2. mappings[m].conn \in LiveConns \ {c} BY <1>1, <3>1
    <3> QED BY <1>2, <2>1, <3>1, <3>2 DEF MappingsOfNode, ConnsOfNode, LiveConns
  <2> QED BY <2>2, <2>3
<1> QED BY <1>1, <1>4, <1>5, StaysFit

\* A mapping is stored, removed or made active again, in a connection that is bumped.
LEMMA MappingFits ==
  ASSUME IInv, NEW n \in Nodes, NodeFits(n), NEW c \in LiveConns, bumpConnection(c), UNCHANGED nodes,
         NEW m \in Mappings, \A k \in Mappings \ {m} : mappings'[k] = mappings[k],
         m \in LiveMappings' =>
           /\ mappings'[m].conn = c
           /\ \/ m \in LiveMappings /\ mappings[m].conn = c /\ mappings'[m].port = mappings[m].port
                 /\ mappings'[m].type = mappings[m].type
              \/ /\ n = conns[c].node => /\ mappings'[m].port \notin nodeReservedPorts(n)
                                         /\ validProxyListener(n, mappings'[m])
  PROVE  NodeFits(n)'
<1>1. TablesOK BY Parts
<1>2. \A d \in Conns : /\ conns'[d].status = conns[d].status /\ conns'[d].node = conns[d].node
                       /\ conns'[d].protocol = conns[d].protocol
  <2> DEFINE S == {c}
  <2>1. conns' = bumped(conns, S) BY DEF bumpConnection
  <2> HIDE DEF S
  <2> QED BY <1>1, <2>1, BumpedConns, BumpedProtocols
<1>3. ConnsOfNode(n)' = ConnsOfNode(n) /\ \A d \in ConnsOfNode(n) : conns'[d].protocol = conns[d].protocol
  BY <1>2 DEF ConnsOfNode, LiveConns
<1>4. ASSUME NEW k \in MappingsOfNode(n)'
      PROVE  \/ /\ k \in MappingsOfNode(n) /\ mappings'[k].port = mappings[k].port
                /\ mappings'[k].type = mappings[k].type
             \/ mappings'[k].port \notin nodeReservedPorts(n) /\ validProxyListener(n, mappings'[k])
  <2>1. k \in LiveMappings' /\ k \in Mappings /\ mappings'[k].conn \in ConnsOfNode(n)
    BY <1>3 DEF MappingsOfNode, LiveMappings
  <2>2. CASE k = m BY <2>1, <2>2 DEF MappingsOfNode, ConnsOfNode
  <2>3. CASE k # m BY <2>1, <2>3 DEF MappingsOfNode, LiveMappings
  <2> QED BY <2>2, <2>3
<1> QED BY <1>3, <1>4, StaysFit

LEMMA ProxyFits ==
  ASSUME IInv, NEW m \in Mappings, NEW c, NEW in, NEW n \in Nodes, NodeFits(n),
         AddProxy(m, c, in) \/ UpdateProxy(m, in) \/ DeleteProxy(m)
  PROVE  NodeFits(n)'
<1>1. /\ mappings \in [Mappings -> MappingRow] /\ UNCHANGED nodes
      /\ \A k \in LiveMappings : mappings[k].conn \in LiveConns
  BY Parts DEF TablesOK, Referential, AddProxy, UpdateProxy, DeleteProxy
<1>2. CASE AddProxy(m, c, in)
  <2>1. /\ c \in LiveConns /\ bumpConnection(c) /\ validProxy(conns[c].node, in, usedPorts(conns[c].node))
        /\ \A k \in Mappings \ {m} : mappings'[k] = mappings[k]
        /\ mappings'[m].conn = c /\ mappings'[m].port = in.port /\ mappings'[m].type = in.type
    BY <1>1, <1>2 DEF AddProxy, row
  <2>2. n = conns[c].node => /\ mappings'[m].port \notin nodeReservedPorts(n)
                             /\ validProxyListener(n, mappings'[m])
    BY <2>1 DEF validProxy, validProxyListener, usedPorts
  <2> QED BY <1>1, <2>1, <2>2, MappingFits
<1>3. CASE UpdateProxy(m, in)
  <2> DEFINE d == mappings[m].conn
  <2>1. /\ m \in LiveMappings /\ bumpConnection(d)
        /\ validProxy(conns[d].node, in, usedPorts(conns[d].node) \ {mappings[m].port})
        /\ \A k \in Mappings \ {m} : mappings'[k] = mappings[k]
        /\ mappings'[m].conn = d /\ mappings'[m].port = in.port /\ mappings'[m].type = in.type
    BY <1>1, <1>3 DEF UpdateProxy, row
  <2>2. d \in LiveConns BY <1>1, <2>1
  <2>3. n = conns[d].node => /\ mappings'[m].port \notin nodeReservedPorts(n)
                             /\ validProxyListener(n, mappings'[m])
    <3>1. n = conns[d].node => mappings[m].port \notin nodeReservedPorts(n)
      BY <2>1, <2>2 DEF NodeFits, MappingsOfNode, ConnsOfNode
    <3> QED BY <2>1, <3>1 DEF validProxy, validProxyListener, usedPorts
  <2> HIDE DEF d
  <2> QED BY <1>1, <2>1, <2>2, <2>3, MappingFits
<1>4. CASE DeleteProxy(m)
  <2>1. /\ m \in LiveMappings /\ bumpConnection(mappings[m].conn) /\ m \notin LiveMappings'
        /\ \A k \in Mappings \ {m} : mappings'[k] = mappings[k]
    BY <1>1, <1>4 DEF DeleteProxy, LiveMappings, NoMapping
  <2>2. mappings[m].conn \in LiveConns BY <1>1, <2>1
  <2> QED BY <1>1, <2>1, <2>2, MappingFits
<1> QED BY <1>2, <1>3, <1>4

\* The handlers of reports and the other steps store nothing that was not validated.
LEMMA OtherFits ==
  ASSUME IInv, NEW n \in Nodes, NodeFits(n),
         \/ \E s \in Slots : FindInactive(s) \/ \E r \in jobs[s].rows : Reactivate(s, r)
         \/ Reports \/ Restart \/ \E a \in Agents : Publish(a)
         \/ \E k \in Nodes, p \in Ports : Bind(k, p)
         \/ UNCHANGED vars
  PROVE  NodeFits(n)'
<1>1. /\ nodes \in [Nodes -> NodeRow] /\ mappings \in [Mappings -> MappingRow]
      /\ \A k \in LiveMappings : mappings[k].conn \in LiveConns
  BY Parts DEF TablesOK, Referential
<1>2. ASSUME UNCHANGED <<conns, mappings>>, nodes'[n].listeners = nodes[n].listeners PROVE NodeFits(n)'
  BY <1>2, NothingToValidate DEF LiveConns, LiveMappings
<1>3. ASSUME NEW s \in Slots, NEW r \in jobs[s].rows, Reactivate(s, r) PROVE NodeFits(n)'
  <2>1. UNCHANGED nodes BY <1>3 DEF Reactivate
  <2>2. CASE ~stillInactive(r) BY <1>2, <1>3, <2>1, <2>2 DEF Reactivate
  <2>3. CASE stillInactive(r)
    <3>1. /\ r.id \in LiveMappings /\ bumpConnection(mappings[r.id].conn)
          /\ mappings' = [mappings EXCEPT ![r.id].inactive = FALSE]
      BY <1>3, <2>3 DEF Reactivate, stillInactive
    <3>2. r.id \in Mappings /\ mappings[r.id].conn \in LiveConns BY <1>1, <3>1 DEF LiveMappings
    <3>3. /\ \A k \in Mappings \ {r.id} : mappings'[k] = mappings[k]
          /\ mappings'[r.id].conn = mappings[r.id].conn /\ mappings'[r.id].port = mappings[r.id].port
          /\ mappings'[r.id].type = mappings[r.id].type
      BY <1>1, <3>1, <3>2 DEF MappingRow
    <3> QED BY <2>1, <3>1, <3>2, <3>3, MappingFits
  <2> QED BY <2>2, <2>3
<1>4. ASSUME NEW s \in Slots, NEW k \in Nodes, RecordStatus(s, k) PROVE NodeFits(n)'
  <2>1. nodes'[n].listeners = nodes[n].listeners BY <1>1, <1>4 DEF RecordStatus, NodeRow
  <2> QED BY <1>2, <1>4, <2>1 DEF RecordStatus
<1>5. CASE UNCHANGED tables BY <1>2, <1>5 DEF tables
<1> QED BY <1>3, <1>4, <1>5 DEF FindInactive, Reports, Restart, Publish, Bind, tables, vars

LEMMA EveryStepFits == IInv /\ [Next]_vars => FitStep
<1> SUFFICES ASSUME IInv, [Next]_vars, NEW n \in Nodes, NodeFits(n)
             PROVE  NodeFits(n)' \/ MoveListeners(n)
  BY DEF FitStep
<1>1. CASE Administer
  <2>1. ASSUME NEW k \in Nodes, DeleteFRPS(k) \/ RenewNode(k) PROVE NodeFits(n)' \/ MoveListeners(n)
    <3>1. NoListeners \in ListenerChoices BY DEF NoListeners, ListenerChoices
    <3> QED BY <2>1, <3>1, FRPSFits
  <2>2. ASSUME NEW k \in Nodes, NEW ls \in [Listeners -> Ports \cup {None}], CreateFRPS(k, ls) \/ UpdateFRPS(k, ls)
        PROVE  NodeFits(n)' \/ MoveListeners(n)
    BY <2>2, FRPSFits DEF ListenerChoices
  <2>3. ASSUME NEW h \in Hosts, CreateFRPCHost(h) \/ UpdateFRPCHost(h) \/ DeleteFRPCHost(h) PROVE NodeFits(n)'
    <3>1. {} \in SUBSET Conns OBVIOUS
    <3> QED BY <2>3, <3>1, HostFits
  <2>4. ASSUME NEW h \in Hosts, NEW due \in SUBSET Conns, RenewHost(h, due) PROVE NodeFits(n)'
    BY <2>4, HostFits
  <2>5. ASSUME NEW c \in Conns, NEW h \in Hosts, NEW k \in Nodes, NEW p \in Protocols, NEW ins \in Requests,
               CreateConnection(c, h, k, p, ins)
        PROVE  NodeFits(n)'
    BY <2>5, CreateConnectionFits
  <2>6. ASSUME NEW c \in Conns, NEW p \in Protocols, UpdateConnection(c, p) PROVE NodeFits(n)'
    BY <2>6, ConnectionFits
  <2>7. ASSUME NEW c \in Conns, DeleteConnection(c) PROVE NodeFits(n)'
    BY <2>7, ConnectionFits
  <2>8. ASSUME NEW m \in Mappings, NEW c \in Conns, NEW in \in Inputs, AddProxy(m, c, in) PROVE NodeFits(n)'
    BY <2>8, ProxyFits
  <2>9. ASSUME NEW m \in Mappings, NEW in \in Inputs, UpdateProxy(m, in) PROVE NodeFits(n)'
    BY <2>9, ProxyFits
  <2>10. ASSUME NEW m \in Mappings, DeleteProxy(m) PROVE NodeFits(n)'
    BY <2>10, ProxyFits
  <2> QED BY <1>1, <2>1, <2>2, <2>3, <2>4, <2>5, <2>6, <2>7, <2>8, <2>9, <2>10 DEF Administer
<1> QED BY <1>1, OtherFits DEF Next, Occupancy, Reports

\* The protocol, the listener and the port that validation established for a connection or a
\* mapping are lost only when UpdateFRPS moves the listeners of the node under it.
THEOREM OnlyListenersLoseFit == Spec => OnlyListenersUnfit
<1>1. IInv /\ [Next]_vars => FitStep BY EveryStepFits
<1> QED BY <1>1, Invariant, PTL DEF Spec, OnlyListenersUnfit, FitStep, MoveListeners

\* As long as no update moves listeners, no mapping collides with the ports of its node and
\* every connection and mapping is one its node can serve: what transport.go:82-84 says.
THEOREM FixedListenersFree == Spec /\ [][ListenersStay]_vars => [](ListenersFree /\ \A n \in Nodes : NodeFits(n))
<1> DEFINE AllFit == \A n \in Nodes : NodeFits(n)
<1>1. Init => AllFit
  <2> SUFFICES ASSUME Init, NEW n \in Nodes PROVE NodeFits(n)
    OBVIOUS
  <2>1. ConnsOfNode(n) = {} BY DEF Init, ConnsOfNode, LiveConns, NoConn
  <2> QED BY <2>1 DEF NodeFits, MappingsOfNode
<1>2. IInv /\ AllFit /\ [Next]_vars /\ [ListenersStay]_vars => AllFit'
  <2> SUFFICES ASSUME IInv, AllFit, [Next]_vars, [ListenersStay]_vars, NEW n \in Nodes PROVE NodeFits(n)'
    OBVIOUS
  <2>1. CASE UNCHANGED vars BY <2>1, OtherFits
  <2>2. CASE ListenersStay
    <3>1. SUFFICES ASSUME NEW ls \in ListenerChoices, ls # nodes[n].listeners, UpdateFRPS(n, ls) PROVE FALSE
      BY EveryStepFits DEF FitStep, MoveListeners
    <3>2. nodes \in [Nodes -> NodeRow] BY Parts DEF TablesOK
    <3>3. nodes'[n].listeners = ls /\ nodes'[n].status = nodes[n].status BY <3>1, <3>2 DEF UpdateFRPS, NodeRow
    <3>4. n \in LiveNodes /\ n \in LiveNodes' BY <3>1, <3>3 DEF UpdateFRPS, LiveNodes
    <3> QED BY <2>2, <3>1, <3>3, <3>4 DEF ListenersStay
  <2> QED BY <2>1, <2>2
<1>3. AllFit => ListenersFree
  <2>1. \A n \in LiveNodes : n \in Nodes BY DEF LiveNodes
  <2> QED BY <2>1 DEF ListenersFree, NodeFits
<1> HIDE DEF AllFit
<1>4. Spec /\ [][ListenersStay]_vars => []AllFit BY <1>1, <1>2, Invariant, PTL DEF Spec
<1>5. Spec /\ [][ListenersStay]_vars => [](ListenersFree /\ AllFit) BY <1>3, <1>4, PTL
<1> QED BY <1>5 DEF AllFit

---------------------------------------------------------------------------
(* The numbers of the agents.                                               *)

\* What a step does to the row of an agent and to its retirement: the number of the row
\* grows or stays, or the row begins, or it ends and leaves a larger number behind.
Grows(r, q, s, t) ==
  \/ q.status = r.status /\ q.version >= r.version /\ t = s
  \/ r.status = "unused" /\ q.status = "live" /\ q.version = 1
  \/ r.status = "live" /\ q.status = "deleted" /\ t = r.version + 1

NodesGrow == \A n \in Nodes : Grows(nodes[n], nodes'[n], retirements[n], retirements'[n])
HostsGrow == \A h \in Hosts : Grows(hosts[h], hosts'[h], retirements[h], retirements'[h])

\* A live row has a number: the numbers of an agent start at its creation.
LiveNumbered ==
  /\ \A n \in LiveNodes : nodes[n].version # 0
  /\ \A h \in LiveHosts : hosts[h].version # 0

LEMMA NodesStay == ASSUME TablesOK, UNCHANGED <<nodes, retirements>> PROVE NodesGrow
BY DEF TablesOK, NodesGrow, Grows, NodeRow

LEMMA HostsBumped ==
  ASSUME TablesOK, UNCHANGED retirements, NEW S, hosts' = bumped(hosts, S) \/ hosts' = hosts
  PROVE  HostsGrow
<1>1. hosts \in [Hosts -> HostRow] BY DEF TablesOK
<1>2. CASE hosts' = hosts BY <1>1, <1>2 DEF HostsGrow, Grows, HostRow
<1>3. CASE hosts' = bumped(hosts, S)
  <2>1. \A h \in Hosts : /\ hosts'[h].status = hosts[h].status /\ hosts[h].version \in Nat
                         /\ hosts'[h].version = hosts[h].version + 1 \/ hosts'[h] = hosts[h]
    BY <1>1, <1>3, BumpedHosts DEF HostRow
  <2> QED BY <2>1 DEF HostsGrow, Grows
<1> QED BY <1>2, <1>3

\* The operations on nodes.
LEMMA FRPSNumbers ==
  ASSUME IInv, NEW n \in Nodes,
         \/ \E ls \in ListenerChoices : CreateFRPS(n, ls) \/ UpdateFRPS(n, ls)
         \/ DeleteFRPS(n) \/ RenewNode(n) \/ \E s \in Slots : RecordStatus(s, n)
  PROVE  NodesGrow /\ HostsGrow
<1>1. /\ TablesOK /\ nodes \in [Nodes -> NodeRow] /\ hosts \in [Hosts -> HostRow]
      /\ retirements \in [Agents -> Nat] /\ \A k \in Nodes : k \in Agents
  BY Parts DEF TablesOK, Agents
<1>2. \A k \in Nodes : nodes[k].version \in Nat BY <1>1 DEF NodeRow
<1>3. ASSUME UNCHANGED retirements, NEW q, nodes' = [nodes EXCEPT ![n] = q],
             \/ q.status = nodes[n].status /\ q.version >= nodes[n].version
             \/ nodes[n].status = "unused" /\ q.status = "live" /\ q.version = 1
      PROVE  NodesGrow
  <2>1. nodes'[n] = q /\ \A k \in Nodes \ {n} : nodes'[k] = nodes[k] BY <1>1, <1>3
  <2>2. \A k \in Nodes : nodes[k].version >= nodes[k].version BY <1>2
  <2> QED BY <1>3, <2>1, <2>2 DEF NodesGrow, Grows
<1>4. CASE \E ls \in ListenerChoices : CreateFRPS(n, ls)
  <2>1. PICK ls \in ListenerChoices : CreateFRPS(n, ls) BY <1>4
  <2> DEFINE q == [NoNode("live") EXCEPT !.version = 1, !.listeners = ls]
  <2>2. q.status = "live" /\ q.version = 1 BY DEF NoNode
  <2>3. nodes[n].status = "unused" /\ nodes' = [nodes EXCEPT ![n] = q] /\ UNCHANGED <<hosts, retirements>>
    BY <2>1 DEF CreateFRPS
  <2> HIDE DEF q
  <2> QED BY <1>1, <1>3, <2>2, <2>3, HostsBumped
<1>5. CASE \E ls \in ListenerChoices : UpdateFRPS(n, ls)
  <2>1. PICK ls \in ListenerChoices : UpdateFRPS(n, ls) BY <1>5
  <2> DEFINE q == [nodes[n] EXCEPT !.listeners = ls, !.settings = @ + 1, !.version = @ + 1]
  <2>2. nodes[n] \in NodeRow BY <1>1
  <2>3. q.status = nodes[n].status /\ q.version = nodes[n].version + 1 BY <2>2 DEF NodeRow
  <2>4. /\ nodes' = [nodes EXCEPT ![n] = q] /\ UNCHANGED retirements
        /\ hosts' = bumped(hosts, {conns[c].host : c \in ConnsOfNode(n)})
    BY <1>1, <2>1 DEF UpdateFRPS
  <2> HIDE DEF q
  <2>5. q.version >= nodes[n].version BY <1>2, <2>3
  <2> QED BY <1>1, <1>3, <2>3, <2>4, <2>5, HostsBumped
<1>6. CASE DeleteFRPS(n)
  <2>1. /\ n \in LiveNodes /\ retirements' = [retirements EXCEPT ![n] = nodes[n].version + 1]
        /\ nodes' = [nodes EXCEPT ![n] = NoNode("deleted")] /\ UNCHANGED hosts
    BY <1>6 DEF DeleteFRPS
  <2>2. /\ nodes[n].status = "live" /\ nodes'[n].status = "deleted" /\ retirements'[n] = nodes[n].version + 1
        /\ \A k \in Nodes \ {n} : nodes'[k] = nodes[k] /\ retirements'[k] = retirements[k]
    BY <1>1, <2>1 DEF LiveNodes, NoNode
  <2>3. NodesGrow
    <3>1. \A k \in Nodes : nodes[k].version >= nodes[k].version BY <1>2
    <3> QED BY <2>2, <3>1 DEF NodesGrow, Grows
  <2>4. \A h \in Hosts : hosts'[h] = hosts[h] /\ hosts[h].version >= hosts[h].version
                         /\ retirements'[h] = retirements[h]
    <3>1. \A h \in Hosts : h # n /\ h \in Agents BY ConstantsAssumption DEF Agents
    <3>2. \A h \in Hosts : hosts[h].version \in Nat BY <1>1 DEF HostRow
    <3> QED BY <1>1, <2>1, <3>1, <3>2
  <2> QED BY <2>3, <2>4 DEF HostsGrow, Grows
<1>7. CASE RenewNode(n)
  <2> DEFINE q == [nodes[n] EXCEPT !.cert = @ + 1, !.version = @ + 1]
  <2>1. nodes[n] \in NodeRow BY <1>1
  <2>2. q.status = nodes[n].status /\ q.version = nodes[n].version + 1 BY <2>1 DEF NodeRow
  <2>3. nodes' = [nodes EXCEPT ![n] = q] /\ UNCHANGED <<hosts, retirements>> BY <1>1, <1>7 DEF RenewNode
  <2> HIDE DEF q
  <2>4. q.version >= nodes[n].version BY <1>2, <2>2
  <2> QED BY <1>1, <1>3, <2>2, <2>3, <2>4, HostsBumped
<1>8. CASE \E s \in Slots : RecordStatus(s, n)
  <2> DEFINE q == [nodes[n] EXCEPT !.reported = held[n]]
  <2>1. nodes[n] \in NodeRow BY <1>1
  <2>2. q.status = nodes[n].status /\ q.version = nodes[n].version BY <2>1 DEF NodeRow
  <2>3. nodes' = [nodes EXCEPT ![n] = q] /\ UNCHANGED <<hosts, retirements>> BY <1>1, <1>8 DEF RecordStatus
  <2> HIDE DEF q
  <2>4. q.version >= nodes[n].version BY <1>2, <2>2
  <2> QED BY <1>1, <1>3, <2>2, <2>3, <2>4, HostsBumped
<1> QED BY <1>4, <1>5, <1>6, <1>7, <1>8

\* The operations on hosts.
LEMMA HostNumbers ==
  ASSUME IInv, NEW h \in Hosts, CreateFRPCHost(h) \/ UpdateFRPCHost(h) \/ DeleteFRPCHost(h)
  PROVE  NodesGrow /\ HostsGrow
<1>1. /\ TablesOK /\ nodes \in [Nodes -> NodeRow] /\ hosts \in [Hosts -> HostRow]
      /\ retirements \in [Agents -> Nat] /\ \A k \in Hosts : k \in Agents
  BY Parts DEF TablesOK, Agents
<1>2. /\ \A k \in Hosts : hosts[k].version \in Nat /\ hosts[k].version >= hosts[k].version
      /\ hosts[h] \in HostRow
  BY <1>1 DEF HostRow
<1>3. ASSUME UNCHANGED <<nodes, retirements>>, NEW q, hosts' = [hosts EXCEPT ![h] = q],
             \/ q.status = hosts[h].status /\ q.version >= hosts[h].version
             \/ hosts[h].status = "unused" /\ q.status = "live" /\ q.version = 1
      PROVE  NodesGrow /\ HostsGrow
  <2>1. hosts'[h] = q /\ \A k \in Hosts \ {h} : hosts'[k] = hosts[k] BY <1>1, <1>3
  <2> QED BY <1>1, <1>2, <1>3, <2>1, NodesStay DEF HostsGrow, Grows
<1>4. CASE CreateFRPCHost(h)
  <2> DEFINE q == [NoHost("live") EXCEPT !.version = 1]
  <2>1. q.status = "live" /\ q.version = 1 BY DEF NoHost
  <2>2. hosts[h].status = "unused" /\ hosts' = [hosts EXCEPT ![h] = q] /\ UNCHANGED <<nodes, retirements>>
    BY <1>4 DEF CreateFRPCHost
  <2> HIDE DEF q
  <2> QED BY <1>3, <2>1, <2>2
<1>5. CASE UpdateFRPCHost(h)
  <2> DEFINE q == [hosts[h] EXCEPT !.settings = @ + 1, !.version = @ + 1]
  <2>1. q.status = hosts[h].status /\ q.version = hosts[h].version + 1 BY <1>2 DEF HostRow
  <2>2. hosts' = [hosts EXCEPT ![h] = q] /\ UNCHANGED <<nodes, retirements>>
    BY <1>1, <1>5 DEF UpdateFRPCHost
  <2> HIDE DEF q
  <2>3. q.version >= hosts[h].version BY <1>2, <2>1
  <2> QED BY <1>3, <2>1, <2>2, <2>3
<1>6. CASE DeleteFRPCHost(h)
  <2>1. /\ h \in LiveHosts /\ retirements' = [retirements EXCEPT ![h] = hosts[h].version + 1]
        /\ hosts' = [hosts EXCEPT ![h] = NoHost("deleted")] /\ UNCHANGED nodes
    BY <1>6 DEF DeleteFRPCHost
  <2>2. /\ hosts[h].status = "live" /\ hosts'[h].status = "deleted" /\ retirements'[h] = hosts[h].version + 1
        /\ \A k \in Hosts \ {h} : hosts'[k] = hosts[k] /\ retirements'[k] = retirements[k]
    BY <1>1, <2>1 DEF LiveHosts, NoHost
  <2>3. HostsGrow BY <1>2, <2>2 DEF HostsGrow, Grows
  <2>4. \A n \in Nodes : nodes'[n] = nodes[n] /\ nodes[n].version >= nodes[n].version
                         /\ retirements'[n] = retirements[n]
    <3>1. \A n \in Nodes : n # h /\ n \in Agents BY ConstantsAssumption DEF Agents
    <3>2. \A n \in Nodes : nodes[n].version \in Nat BY <1>1 DEF NodeRow
    <3> QED BY <1>1, <2>1, <3>1, <3>2
  <2> QED BY <2>3, <2>4 DEF NodesGrow, Grows
<1> QED BY <1>4, <1>5, <1>6

\* Everything else leaves the nodes alone and bumps hosts at most.
LEMMA OtherNumbers ==
  ASSUME TablesOK, UNCHANGED <<nodes, retirements>>,
         hosts' = hosts \/ \E S \in SUBSET (Hosts \cup {None}) : hosts' = bumped(hosts, S)
  PROVE  NodesGrow /\ HostsGrow
BY NodesStay, HostsBumped

LEMMA EveryStepGrows == IInv /\ [Next]_vars => NodesGrow /\ HostsGrow
<1> SUFFICES ASSUME IInv, [Next]_vars PROVE NodesGrow /\ HostsGrow
  OBVIOUS
<1>1. TablesOK /\ \A c \in Conns : conns[c].host \in Hosts \cup {None}
  BY Parts DEF TablesOK, ConnRow
<1>2. ASSUME NEW h \in Hosts \cup {None}, UNCHANGED <<nodes, retirements>>, bumpHost(h)
      PROVE  NodesGrow /\ HostsGrow
  BY <1>1, <1>2, OtherNumbers DEF bumpHost
<1>3. CASE Administer
  <2>1. ASSUME NEW n \in Nodes, DeleteFRPS(n) \/ RenewNode(n) PROVE NodesGrow /\ HostsGrow
    BY <2>1, FRPSNumbers
  <2>2. ASSUME NEW n \in Nodes, NEW ls \in [Listeners -> Ports \cup {None}], CreateFRPS(n, ls) \/ UpdateFRPS(n, ls)
        PROVE  NodesGrow /\ HostsGrow
    BY <2>2, FRPSNumbers DEF ListenerChoices
  <2>3. ASSUME NEW h \in Hosts, CreateFRPCHost(h) \/ UpdateFRPCHost(h) \/ DeleteFRPCHost(h)
        PROVE  NodesGrow /\ HostsGrow
    BY <2>3, HostNumbers
  <2>4. ASSUME NEW h \in Hosts, NEW due \in SUBSET Conns, RenewHost(h, due) PROVE NodesGrow /\ HostsGrow
    BY <1>2, <2>4 DEF RenewHost
  <2>5. ASSUME NEW c \in Conns, NEW h \in Hosts, NEW n \in Nodes, NEW p \in Protocols, NEW ins \in Requests,
               CreateConnection(c, h, n, p, ins)
        PROVE  NodesGrow /\ HostsGrow
    BY <1>2, <2>5 DEF CreateConnection
  <2>6. ASSUME NEW c \in Conns, NEW p \in Protocols, UpdateConnection(c, p) PROVE NodesGrow /\ HostsGrow
    BY <1>1, <1>2, <2>6 DEF UpdateConnection
  <2>7. ASSUME NEW c \in Conns, DeleteConnection(c) PROVE NodesGrow /\ HostsGrow
    BY <1>1, <1>2, <2>7 DEF DeleteConnection
  <2>8. ASSUME NEW m \in Mappings, NEW c \in Conns, NEW in \in Inputs, AddProxy(m, c, in)
        PROVE  NodesGrow /\ HostsGrow
    BY <1>1, <1>2, <2>8 DEF AddProxy, bumpConnection
  <2>9. ASSUME NEW m \in LiveMappings, \/ \E in \in Inputs : UpdateProxy(m, in)
                                       \/ DeleteProxy(m)
        PROVE  NodesGrow /\ HostsGrow
    <3>1. mappings[m].conn \in Conns BY <2>9, Parts DEF Referential, LiveConns
    <3>2. bumpConnection(mappings[m].conn) /\ UNCHANGED <<nodes, retirements>>
      BY <2>9 DEF UpdateProxy, DeleteProxy
    <3> QED BY <1>1, <1>2, <3>1, <3>2 DEF bumpConnection
  <2>10. ASSUME NEW m \in Mappings, (\E in \in Inputs : UpdateProxy(m, in)) \/ DeleteProxy(m) PROVE m \in LiveMappings
    BY <2>10 DEF UpdateProxy, DeleteProxy
  <2> QED BY <1>3, <2>1, <2>2, <2>3, <2>4, <2>5, <2>6, <2>7, <2>8, <2>9, <2>10 DEF Administer
<1>4. ASSUME NEW s \in Slots, NEW n \in Nodes, RecordStatus(s, n) PROVE NodesGrow /\ HostsGrow
  BY <1>4, FRPSNumbers
<1>5. ASSUME NEW s \in Slots, NEW r \in jobs[s].rows, Reactivate(s, r) PROVE NodesGrow /\ HostsGrow
  <2>1. UNCHANGED <<nodes, retirements>> BY <1>5 DEF Reactivate
  <2>2. CASE ~stillInactive(r) BY <1>1, <1>5, <2>1, <2>2, OtherNumbers DEF Reactivate
  <2>3. CASE stillInactive(r)
    <3>1. r.id \in LiveMappings /\ bumpConnection(mappings[r.id].conn) BY <1>5, <2>3 DEF Reactivate, stillInactive
    <3>2. mappings[r.id].conn \in Conns BY <3>1, Parts DEF Referential, LiveConns
    <3> QED BY <1>1, <1>2, <2>1, <3>1, <3>2 DEF bumpConnection
  <2> QED BY <2>2, <2>3
<1>6. CASE UNCHANGED tables BY <1>1, <1>6, OtherNumbers DEF tables
<1> QED
  BY <1>3, <1>4, <1>5, <1>6
  DEF Next, Occupancy, Reports, FindInactive, Restart, Publish, Bind, tables, vars

LEMMA LiveNumberedStep == IInv /\ LiveNumbered /\ [Next]_vars => LiveNumbered'
<1> SUFFICES ASSUME IInv, LiveNumbered, NodesGrow, HostsGrow PROVE LiveNumbered'
  BY EveryStepGrows
<1>1. /\ \A n \in Nodes : nodes[n].version \in Nat
      /\ \A h \in Hosts : hosts[h].version \in Nat
  BY Parts DEF TablesOK, NodeRow, HostRow
<1>2. ASSUME NEW n \in LiveNodes' PROVE nodes'[n].version # 0
  <2>1. n \in Nodes /\ nodes'[n].status = "live" BY <1>2 DEF LiveNodes
  <2>2. Grows(nodes[n], nodes'[n], retirements[n], retirements'[n]) BY <2>1 DEF NodesGrow
  <2>3. nodes[n].status = "live" => nodes[n].version # 0 BY <2>1 DEF LiveNumbered, LiveNodes
  <2> QED BY <1>1, <2>1, <2>2, <2>3 DEF Grows
<1>3. ASSUME NEW h \in LiveHosts' PROVE hosts'[h].version # 0
  <2>1. h \in Hosts /\ hosts'[h].status = "live" BY <1>3 DEF LiveHosts
  <2>2. Grows(hosts[h], hosts'[h], retirements[h], retirements'[h]) BY <2>1 DEF HostsGrow
  <2>3. hosts[h].status = "live" => hosts[h].version # 0 BY <2>1 DEF LiveNumbered, LiveHosts
  <2> QED BY <1>1, <2>1, <2>2, <2>3 DEF Grows
<1> QED BY <1>2, <1>3 DEF LiveNumbered

NumberStep == \A a \in Agents : [Numbers(a)!Renumber]_(Numbers(a)!numbering)

LEMMA EveryStepNumbers == IInv /\ LiveNumbered /\ [Next]_vars => NumberStep
<1> SUFFICES ASSUME IInv, IInv', LiveNumbered, NodesGrow, HostsGrow, NEW a \in Agents
             PROVE  [Numbers(a)!Renumber]_(Numbers(a)!numbering)
  BY EveryStep, EveryStepGrows DEF NumberStep
<1>0. nodes' \in [Nodes -> NodeRow] /\ hosts' \in [Hosts -> HostRow]
  BY DEF IInv, TypeOK, NodeRow, HostRow
<1> DEFINE r == IF a \in Nodes THEN nodes[a] ELSE hosts[a]
           q == IF a \in Nodes THEN nodes'[a] ELSE hosts'[a]
           s == retirements[a]
           t == retirements'[a]
<1>1. /\ Grows(r, q, s, t)
      /\ r.version \in Nat /\ q.version \in Nat
      /\ r.status \in Statuses
      /\ r.status = "live" => r.version # 0
  <2>1. CASE a \in Nodes
    <3>1. nodes[a] \in NodeRow /\ nodes'[a] \in NodeRow BY <1>0, <2>1, Parts DEF TablesOK
    <3> QED BY <2>1, <3>1 DEF NodesGrow, NodeRow, LiveNumbered, LiveNodes
  <2>2. CASE a \notin Nodes
    <3>1. a \in Hosts BY <2>2 DEF Agents
    <3>2. hosts[a] \in HostRow /\ hosts'[a] \in HostRow BY <1>0, <3>1, Parts DEF TablesOK
    <3> QED BY <2>2, <3>1, <3>2 DEF HostsGrow, HostRow, LiveNumbered, LiveHosts
  <2> QED BY <2>1, <2>2
<1>2. /\ status(a) = r.status /\ status(a)' = q.status
      /\ r.status = "unused" => revisionOf(a) = 0
      /\ r.status = "live" => revisionOf(a) = r.version
      /\ r.status = "deleted" => revisionOf(a) = s
      /\ q.status = "unused" => revisionOf(a)' = 0
      /\ q.status = "live" => revisionOf(a)' = q.version
      /\ q.status = "deleted" => revisionOf(a)' = t
  BY DEF status, revisionOf
<1> HIDE DEF r, q, s, t
<1>3. CASE q.status = r.status /\ q.version >= r.version /\ t = s
  <2>1. CASE r.status = "live" /\ q.version # r.version
    <3>1. q.version > r.version BY <1>1, <1>3, <2>1
    <3> QED BY <1>1, <1>2, <1>3, <2>1, <3>1 DEF Numbers!Renumber, Numbers!Change, Numbers!Increase
  <2>2. CASE r.status # "live" \/ q.version = r.version
    <3>1. status(a)' = status(a) /\ revisionOf(a)' = revisionOf(a)
      BY <1>1, <1>2, <1>3, <2>2 DEF Statuses
    <3> QED BY <3>1 DEF Numbers!numbering
  <2> QED BY <2>1, <2>2
<1>4. CASE r.status = "unused" /\ q.status = "live" /\ q.version = 1
  BY <1>2, <1>4 DEF Numbers!Renumber, Numbers!Change, Numbers!Increase
<1>5. CASE r.status = "live" /\ q.status = "deleted" /\ t = r.version + 1
  BY <1>1, <1>2, <1>5 DEF Numbers!Renumber, Numbers!Retire, Numbers!Increase
<1> QED BY <1>1, <1>3, <1>4, <1>5 DEF Grows

\* The rows of every agent implement Revisions: the number a poll is compared with only
\* grows while the agent lives, and the number of its retirement is larger than all of
\* them and the last (retirement.go:22-32, the bumps of frps.go, host.go and frpc.go).
THEOREM RevisionsNumbered == Spec => AgentsNumbered
<1>1. Init => LiveNumbered /\ \A a \in Agents : Numbers(a)!Unnumbered
  BY DEF Init, LiveNumbered, LiveNodes, LiveHosts, NoNode, NoHost, Agents,
     Numbers!Unnumbered, status, revisionOf
<1>2. IInv /\ LiveNumbered /\ [Next]_vars => NumberStep BY EveryStepNumbers
<1> DEFINE First == \A a \in Agents : Numbers(a)!Unnumbered
<1>3. Init => First BY <1>1
<1> HIDE DEF First
<1>4. Spec => First /\ [][NumberStep]_vars
  BY <1>1, <1>2, <1>3, LiveNumberedStep, Invariant, PTL DEF Spec
<1> QED BY <1>4 DEF First, AgentsNumbered, NumberStep
=============================================================================
