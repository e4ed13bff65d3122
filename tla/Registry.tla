------------------------------ MODULE Registry ------------------------------
(***************************************************************************)
(* The rows of the control plane and the operations of its web API on them:   *)
(* frps nodes, hosts, the frpc connections of a host and their port mappings  *)
(* (internal/service/frps.go, host.go, frpc.go, proxy.go, transport.go).      *)
(* An operation is one transaction, and a transaction is one action: the      *)
(* database has a single connection (store.go:49).  Publishing to the agents  *)
(* concerned comes after the commit, and so does the reactivation of mappings *)
(* whose port a status report shows to be free, one row at a time.            *)
(*                                                                         *)
(* What else an administrator sets (names, addresses, credentials, the frp    *)
(* release) is the `settings' of a row, and its leaf certificate its `cert':   *)
(* numbers that change whenever any of it does.                             *)
(***************************************************************************)
EXTENDS Naturals, FiniteSets

CONSTANTS
  Nodes, Hosts, Conns, Mappings, \* identifiers; each is used once
  Ports,                         \* remote ports and node listeners
  AdminPorts,                    \* localhost ports of the frpc admin API
  Names,                         \* names of mappings
  Listeners,                     \* the listeners a node may have, "bind" among them
  Protocols,                     \* transports a client may ask for
  Types,                         \* types of mappings
  Slots,                         \* status reports handled at once
  None,                          \* no port, no row
  MaxEdits                       \* bound: operations and changes on the node's machine

ASSUME ConstantsAssumption ==
  /\ None \notin Ports \cup Nodes \cup Hosts \cup Conns
  /\ Nodes \cap Hosts = {}
  /\ AdminPorts \subseteq Nat
  /\ "bind" \in Listeners /\ Listeners \subseteq {"bind", "dashboard", "kcp", "quic", "http", "https"}
  /\ Protocols \subseteq {"tcp", "websocket", "kcp", "quic", "wss"}
  /\ Types \subseteq {"tcp", "udp", "http", "https"}
  /\ MaxEdits \in Nat

VARIABLES
  nodes, hosts, conns, mappings, \* the tables
  retirements,                   \* the revision of each retired agent, 0 for the others
  unpublished,                   \* agents to be notified of a committed change
  held,                          \* ports bound on the machine of each node
  jobs,                          \* reports whose occupancy check is not finished
  edits                          \* operations so far

tables == <<nodes, hosts, conns, mappings, retirements>>
vars   == <<nodes, hosts, conns, mappings, retirements, unpublished, held, jobs, edits>>

Agents == Nodes \cup Hosts

LiveNodes    == {n \in Nodes : nodes[n].status = "live"}
LiveHosts    == {h \in Hosts : hosts[h].status = "live"}
LiveConns    == {c \in Conns : conns[c].status = "live"}
LiveMappings == {m \in Mappings : mappings[m].status = "live"}

ConnsOfHost(h)    == {c \in LiveConns : conns[c].host = h}
ConnsOfNode(n)    == {c \in LiveConns : conns[c].node = n}
MappingsOfConn(c) == {m \in LiveMappings : mappings[m].conn = c}
MappingsOfNode(n) == {m \in LiveMappings : mappings[m].conn \in ConnsOfNode(n)}

NoListeners == [l \in Listeners |-> None]
NoNode(status)    == [status |-> status, version |-> 0, listeners |-> NoListeners,
                      settings |-> 0, cert |-> 0, reported |-> {}]
NoHost(status)    == [status |-> status, version |-> 0, settings |-> 0]
NoConn(status)    == [status |-> status, host |-> None, node |-> None, protocol |-> None,
                      admin |-> None, version |-> 0, cert |-> 0]
NoMapping(status) == [status |-> status, conn |-> None, name |-> None, type |-> None,
                      port |-> None, inactive |-> FALSE]
NoJob == [node |-> None, step |-> "free", bound |-> {}, rows |-> {}]

Edit == edits < MaxEdits /\ edits' = edits + 1

Notify(agents) == unpublished' = unpublished \cup agents

Init ==
  /\ nodes = [n \in Nodes |-> NoNode("unused")] /\ hosts = [h \in Hosts |-> NoHost("unused")]
  /\ conns = [c \in Conns |-> NoConn("unused")] /\ mappings = [m \in Mappings |-> NoMapping("unused")]
  /\ retirements = [a \in Agents |-> 0] /\ unpublished = {}
  /\ held = [n \in Nodes |-> {}] /\ jobs = [s \in Slots |-> NoJob] /\ edits = 0

---------------------------------------------------------------------------
(* Validation (transport.go, proxy.go).                                     *)

\* Listeners of a node differ, except that KCP (UDP) may reuse the bind port.
validListeners(ls) ==
  /\ ls["bind"] # None
  /\ \A a, b \in Listeners : a # b /\ ls[a] = ls[b] /\ ls[a] # None => {a, b} = {"bind", "kcp"}

nodeOffersProtocol(n, p) ==
  p \in {"tcp", "websocket"} \/ (p \in {"kcp", "quic"} \cap Listeners /\ nodes[n].listeners[p] # None)

nodeReservedPorts(n) == {nodes[n].listeners[l] : l \in Listeners} \ {None}

\* Mutant of usedPorts: a mapping that is not active reserves no port.
usedPortsOfActive(n) ==
  nodeReservedPorts(n) \cup
  ({mappings[m].port : m \in {k \in MappingsOfNode(n) : ~mappings[k].inactive}} \ {None})

usedPorts(n) == nodeReservedPorts(n) \cup ({mappings[m].port : m \in MappingsOfNode(n)} \ {None})

\* Mutant of Inputs: the form field that is hidden is stored.
InputsAsSent == [name : Names, type : Types, port : Ports]

\* toModel drops the remote port of an http or https mapping.
Inputs == [name : Names, type : Types \cap {"tcp", "udp"}, port : Ports]
          \cup [name : Names, type : Types \cap {"http", "https"}, port : {None}]

validProxyListener(n, in) ==
  in.type \in {"http", "https"} =>
    in.type \in Listeners /\ nodes[n].listeners[in.type] # None

validProxy(n, in, used) == validProxyListener(n, in) /\ in.port \notin used

uniqueProxyName(c, in, exclude) ==
  \A m \in MappingsOfConn(c) \ exclude : mappings[m].name # in.name

\* A mapping whose port the machine of the node reports as bound, by something that
\* is no port of ours, is saved as inactive and not rendered.
row(c, in, external) ==
  [status |-> "live", conn |-> c, name |-> in.name, type |-> in.type, port |-> in.port,
   inactive |-> in.port \in external]

externalPorts(n, used) == nodes[n].reported \ used

---------------------------------------------------------------------------
(* Revisions: of a connection, and of the host that aggregates them.         *)

bumped(table, rows) ==
  [r \in DOMAIN table |-> IF r \in rows THEN [table[r] EXCEPT !.version = @ + 1] ELSE table[r]]

bumpHost(h) == hosts' = bumped(hosts, {h}) /\ Notify({h})

bumpConnection(c) == conns' = bumped(conns, {c}) /\ bumpHost(conns[c].host)

---------------------------------------------------------------------------
(* frps nodes.                                                              *)

CreateFRPS(n, ls) ==
  /\ Edit /\ nodes[n].status = "unused" /\ validListeners(ls)
  /\ nodes' = [nodes EXCEPT ![n] = [NoNode("live") EXCEPT !.version = 1, !.listeners = ls]]
  /\ UNCHANGED <<hosts, conns, mappings, retirements, unpublished, held, jobs>>

\* An update leaves a dashboard port as it is or moves it, and never removes it.
keepsDashboard(n, ls) ==
  "dashboard" \in Listeners /\ ls["dashboard"] = None => nodes[n].listeners["dashboard"] = None

\* Mutant of UpdateFRPS: the revisions of the connections stay.
UpdateFRPSAlone(n, ls) ==
  /\ Edit /\ n \in LiveNodes /\ validListeners(ls) /\ keepsDashboard(n, ls)
  /\ nodes' = [nodes EXCEPT ![n].listeners = ls, ![n].settings = @ + 1, ![n].version = @ + 1]
  /\ Notify({n} \cup {conns[c].host : c \in ConnsOfNode(n)})
  /\ UNCHANGED <<hosts, conns, mappings, retirements, held, jobs>>

\* Mutant of UpdateFRPS: only the node is notified.
UpdateFRPSQuietly(n, ls) ==
  /\ Edit /\ n \in LiveNodes /\ validListeners(ls) /\ keepsDashboard(n, ls)
  /\ nodes' = [nodes EXCEPT ![n].listeners = ls, ![n].settings = @ + 1, ![n].version = @ + 1]
  /\ conns' = bumped(conns, ConnsOfNode(n))
  /\ hosts' = bumped(hosts, {conns[c].host : c \in ConnsOfNode(n)}) /\ Notify({n})
  /\ UNCHANGED <<mappings, retirements, held, jobs>>

\* Every connection to the node is rendered anew, on every host.
UpdateFRPS(n, ls) ==
  /\ Edit /\ n \in LiveNodes /\ validListeners(ls) /\ keepsDashboard(n, ls)
  /\ nodes' = [nodes EXCEPT ![n].listeners = ls, ![n].settings = @ + 1, ![n].version = @ + 1]
  /\ conns' = bumped(conns, ConnsOfNode(n))
  /\ LET clients == {conns[c].host : c \in ConnsOfNode(n)}
     IN  hosts' = bumped(hosts, clients) /\ Notify({n} \cup clients)
  /\ UNCHANGED <<mappings, retirements, held, jobs>>

\* Mutant of DeleteFRPS: connections to the node are not looked for.
DeleteFRPSInUse(n) ==
  /\ Edit /\ n \in LiveNodes
  /\ retirements' = [retirements EXCEPT ![n] = nodes[n].version + 1]
  /\ nodes' = [nodes EXCEPT ![n] = NoNode("deleted")]
  /\ Notify({n})
  /\ UNCHANGED <<hosts, conns, mappings, held, jobs>>

DeleteFRPS(n) ==
  /\ Edit /\ n \in LiveNodes /\ ConnsOfNode(n) = {}
  /\ retirements' = [retirements EXCEPT ![n] = nodes[n].version + 1]
  /\ nodes' = [nodes EXCEPT ![n] = NoNode("deleted")]
  /\ Notify({n})
  /\ UNCHANGED <<hosts, conns, mappings, held, jobs>>

---------------------------------------------------------------------------
(* Hosts.                                                                   *)

CreateFRPCHost(h) ==
  /\ Edit /\ hosts[h].status = "unused"
  /\ hosts' = [hosts EXCEPT ![h] = [NoHost("live") EXCEPT !.version = 1]]
  /\ UNCHANGED <<nodes, conns, mappings, retirements, unpublished, held, jobs>>

UpdateFRPCHost(h) ==
  /\ Edit /\ h \in LiveHosts
  /\ hosts' = [hosts EXCEPT ![h].settings = @ + 1, ![h].version = @ + 1]
  /\ Notify({h})
  /\ UNCHANGED <<nodes, conns, mappings, retirements, held, jobs>>

deleted(table, rows, empty) == [r \in DOMAIN table |-> IF r \in rows THEN empty ELSE table[r]]

DeleteFRPCHost(h) ==
  /\ Edit /\ h \in LiveHosts
  /\ mappings' = deleted(mappings, UNION {MappingsOfConn(c) : c \in ConnsOfHost(h)}, NoMapping("deleted"))
  /\ conns' = deleted(conns, ConnsOfHost(h), NoConn("deleted"))
  /\ retirements' = [retirements EXCEPT ![h] = hosts[h].version + 1]
  /\ hosts' = [hosts EXCEPT ![h] = NoHost("deleted")]
  /\ Notify({h})
  /\ UNCHANGED <<nodes, held, jobs>>

---------------------------------------------------------------------------
(* Connections.                                                             *)

freeAdminPorts(h) == AdminPorts \ {conns[c].admin : c \in ConnsOfHost(h)}

\* The lowest of them; none when they are all used.
nextAdminPort(h) == {p \in freeAdminPorts(h) : \A q \in freeAdminPorts(h) : p <= q}

\* A connection is created together with the mappings of the request, `ins'.
CreateConnection(c, h, n, p, ins) ==
  /\ Edit /\ conns[c].status = "unused" /\ h \in LiveHosts /\ n \in LiveNodes
  /\ nodeOffersProtocol(n, p)
  /\ \A m \in DOMAIN ins :
       /\ mappings[m].status = "unused" /\ validProxy(n, ins[m], usedPorts(n))
       /\ \A o \in DOMAIN ins \ {m} :
            /\ ins[o].name # ins[m].name
            /\ ins[o].port # ins[m].port \/ ins[m].port = None
  /\ \E port \in nextAdminPort(h) :
       conns' = [conns EXCEPT ![c] = [status |-> "live", host |-> h, node |-> n, protocol |-> p,
                                      admin |-> port, version |-> 1, cert |-> 0]]
  /\ mappings' = [m \in Mappings |->
       IF m \in DOMAIN ins THEN row(c, ins[m], externalPorts(n, usedPorts(n))) ELSE mappings[m]]
  /\ bumpHost(h)
  /\ UNCHANGED <<nodes, retirements, held, jobs>>

\* The update may name the protocol it has, or none: then only its name changes.
UpdateConnection(c, p) ==
  /\ Edit /\ c \in LiveConns
  /\ p = conns[c].protocol \/ nodeOffersProtocol(conns[c].node, p)
  /\ conns' = [conns EXCEPT ![c].protocol = p, ![c].version = @ + 1]
  /\ bumpHost(conns[c].host)
  /\ UNCHANGED <<nodes, mappings, retirements, held, jobs>>

DeleteConnection(c) ==
  /\ Edit /\ c \in LiveConns
  /\ mappings' = deleted(mappings, MappingsOfConn(c), NoMapping("deleted"))
  /\ conns' = deleted(conns, {c}, NoConn("deleted"))
  /\ bumpHost(conns[c].host)
  /\ UNCHANGED <<nodes, retirements, held, jobs>>

---------------------------------------------------------------------------
(* Port mappings.                                                           *)

AddProxy(m, c, in) ==
  /\ Edit /\ mappings[m].status = "unused" /\ c \in LiveConns
  /\ LET n == conns[c].node
     IN  /\ validProxy(n, in, usedPorts(n)) /\ uniqueProxyName(c, in, {})
         /\ mappings' = [mappings EXCEPT ![m] = row(c, in, externalPorts(n, usedPorts(n)))]
  /\ bumpConnection(c)
  /\ UNCHANGED <<nodes, retirements, held, jobs>>

\* Its own port is neither used by another mapping nor held by another process.
UpdateProxy(m, in) ==
  /\ Edit /\ m \in LiveMappings
  /\ LET c    == mappings[m].conn
         n    == conns[c].node
         used == usedPorts(n) \ {mappings[m].port}
     IN  /\ validProxy(n, in, used) /\ uniqueProxyName(c, in, {m})
         /\ mappings' = [mappings EXCEPT ![m] =
              row(c, in, externalPorts(n, used) \ {mappings[m].port})]
         /\ bumpConnection(c)
  /\ UNCHANGED <<nodes, retirements, held, jobs>>

DeleteProxy(m) ==
  /\ Edit /\ m \in LiveMappings
  /\ mappings' = [mappings EXCEPT ![m] = NoMapping("deleted")]
  /\ bumpConnection(mappings[m].conn)
  /\ UNCHANGED <<nodes, retirements, held, jobs>>

---------------------------------------------------------------------------
(* MaybeRenewCert: leaf certificates close to expiry are replaced.           *)

RenewNode(n) ==
  /\ Edit /\ n \in LiveNodes
  /\ nodes' = [nodes EXCEPT ![n].cert = @ + 1, ![n].version = @ + 1]
  /\ Notify({n})
  /\ UNCHANGED <<hosts, conns, mappings, retirements, held, jobs>>

RenewHost(h, due) ==
  /\ Edit /\ h \in LiveHosts /\ due # {} /\ due \subseteq ConnsOfHost(h)
  /\ conns' = [c \in Conns |->
       IF c \in due THEN [conns[c] EXCEPT !.cert = @ + 1, !.version = @ + 1] ELSE conns[c]]
  /\ bumpHost(h)
  /\ UNCHANGED <<nodes, mappings, retirements, held, jobs>>

---------------------------------------------------------------------------
(* Status reports of a node and what they reveal about its ports.            *)

\* The rows the report may reactivate are read after the report is saved.
RecordStatus(s, n) ==
  /\ jobs[s].step = "free" /\ n \in LiveNodes
  /\ nodes' = [nodes EXCEPT ![n].reported = held[n]]
  /\ jobs' = [jobs EXCEPT ![s] = [node |-> n, step |-> "read", bound |-> held[n], rows |-> {}]]
  /\ UNCHANGED <<hosts, conns, mappings, retirements, unpublished, held, edits>>

\* Mutant of FindInactive: the ports of our own mappings count as bound.
FindInactiveUnassigned(s) ==
  /\ jobs[s].step = "read"
  /\ LET n     == jobs[s].node
         rows  == {m \in MappingsOfNode(n) : mappings[m].inactive}
         found == {[id |-> m, port |-> mappings[m].port] :
                     m \in {k \in rows : mappings[k].port \notin jobs[s].bound \cup usedPorts(n)}}
     IN  jobs' = [jobs EXCEPT ![s] = IF found = {} THEN NoJob
                                     ELSE [@ EXCEPT !.step = "reactivate", !.rows = found]]
  /\ UNCHANGED <<tables, unpublished, held, edits>>

FindInactive(s) ==
  /\ jobs[s].step = "read"
  /\ LET inactive == {m \in MappingsOfNode(jobs[s].node) :
                        mappings[m].inactive /\ mappings[m].port \notin jobs[s].bound \cup {None}}
         found    == {[id |-> m, port |-> mappings[m].port] : m \in inactive}
     IN  jobs' = [jobs EXCEPT ![s] = IF found = {} THEN NoJob
                                     ELSE [@ EXCEPT !.step = "reactivate", !.rows = found]]
  /\ UNCHANGED <<tables, unpublished, held, edits>>

stillInactive(r) ==
  r.id \in LiveMappings /\ mappings[r.id].inactive /\ mappings[r.id].port = r.port

Reactivate(s, r) ==
  /\ jobs[s].step = "reactivate" /\ r \in jobs[s].rows
  /\ LET left == jobs[s].rows \ {r}
     IN  jobs' = [jobs EXCEPT ![s] = IF left = {} THEN NoJob ELSE [@ EXCEPT !.rows = left]]
  /\ IF stillInactive(r)
     THEN /\ mappings' = [mappings EXCEPT ![r.id].inactive = FALSE]
          /\ bumpConnection(mappings[r.id].conn)
     ELSE UNCHANGED <<mappings, conns, hosts, unpublished>>
  /\ UNCHANGED <<nodes, retirements, held, edits>>

Publish(a) ==
  /\ a \in unpublished /\ unpublished' = unpublished \ {a}
  /\ UNCHANGED <<tables, held, jobs, edits>>

\* The control plane stops: nothing is published, and no report is worked on.
Restart ==
  /\ Edit
  /\ unpublished' = {} /\ jobs' = [s \in Slots |-> NoJob]
  /\ UNCHANGED <<tables, held>>

\* A process on the machine of the node, frps included, binds or frees a port.
Bind(n, p) ==
  /\ Edit /\ n \in LiveNodes
  /\ held' = [held EXCEPT ![n] = IF p \in @ THEN @ \ {p} ELSE @ \cup {p}]
  /\ UNCHANGED <<tables, unpublished, jobs>>

---------------------------------------------------------------------------

Requests == UNION {[S -> Inputs] : S \in SUBSET Mappings}

Administer ==
  \/ \E n \in Nodes : DeleteFRPS(n) \/ RenewNode(n)
  \/ \E n \in Nodes, ls \in [Listeners -> Ports \cup {None}] : CreateFRPS(n, ls) \/ UpdateFRPS(n, ls)
  \/ \E h \in Hosts : CreateFRPCHost(h) \/ UpdateFRPCHost(h) \/ DeleteFRPCHost(h)
  \/ \E h \in Hosts, due \in SUBSET Conns : RenewHost(h, due)
  \/ \E c \in Conns, h \in Hosts, n \in Nodes, p \in Protocols, ins \in Requests :
       CreateConnection(c, h, n, p, ins)
  \/ \E c \in Conns, p \in Protocols : UpdateConnection(c, p)
  \/ \E c \in Conns : DeleteConnection(c)
  \/ \E m \in Mappings, c \in Conns, in \in Inputs : AddProxy(m, c, in)
  \/ \E m \in Mappings, in \in Inputs : UpdateProxy(m, in)
  \/ \E m \in Mappings : DeleteProxy(m)

Occupancy ==
  \E s \in Slots : FindInactive(s) \/ \E r \in jobs[s].rows : Reactivate(s, r)

Reports == \E s \in Slots, n \in Nodes : RecordStatus(s, n)

Next ==
  \/ Administer \/ Occupancy \/ Reports \/ Restart
  \/ \E a \in Agents : Publish(a)
  \/ \E n \in Nodes, p \in Ports : Bind(n, p)

Spec == Init /\ [][Next]_vars

\* A node's agent reports its ports again and again, and a handler runs to its end.
Fairness ==
  /\ \A n \in Nodes : SF_vars(\E s \in Slots : RecordStatus(s, n))
  /\ \A s \in Slots : WF_vars(FindInactive(s) \/ \E r \in jobs[s].rows : Reactivate(s, r))

FairSpec == Spec /\ Fairness

---------------------------------------------------------------------------
(* What the agents are delivered (buildHostConfigSnapshot, config_renderer.go). *)

serverPortFor(n, p) ==
  IF p \in {"kcp", "quic"} \cap Listeners /\ nodes[n].listeners[p] # None
  THEN nodes[n].listeners[p] ELSE nodes[n].listeners["bind"]

\* A connection to a node that no longer offers its protocol is delivered with an error.
ConnectionConfig(c) ==
  LET n == conns[c].node
  IN  [admin |-> conns[c].admin, cert |-> conns[c].cert, protocol |-> conns[c].protocol,
       node |-> <<n, nodes[n].settings>>, server |-> serverPortFor(n, conns[c].protocol),
       error |-> ~nodeOffersProtocol(n, conns[c].protocol),
       proxies |-> {[name |-> mappings[m].name, type |-> mappings[m].type, port |-> mappings[m].port] :
                      m \in {k \in MappingsOfConn(c) : ~mappings[k].inactive}}]

HostConfig(h) ==
  [settings |-> hosts[h].settings,
   connections |-> {<<c, conns[c].version, ConnectionConfig(c)>> : c \in ConnsOfHost(h)}]

NodeConfig(n) == <<nodes[n].listeners, nodes[n].settings, nodes[n].cert>>

---------------------------------------------------------------------------
(* Properties.                                                              *)

ListenerChoices == [Listeners -> Ports \cup {None}]

Statuses == {"unused", "live", "deleted"}

\* Every row is one the schema of internal/model allows; only the mappings that need a
\* remote port have one (toModel, proxy.go:26-27), and a node always listens.
TypeOK ==
  /\ nodes \in [Nodes -> [status : Statuses, version : Nat, listeners : ListenerChoices,
                          settings : Nat, cert : Nat, reported : SUBSET Ports]]
  /\ hosts \in [Hosts -> [status : Statuses, version : Nat, settings : Nat]]
  /\ conns \in [Conns -> [status : Statuses, host : Hosts \cup {None}, node : Nodes \cup {None},
                          protocol : Protocols \cup {None}, admin : AdminPorts \cup {None},
                          version : Nat, cert : Nat]]
  /\ mappings \in [Mappings -> [status : Statuses, conn : Conns \cup {None}, name : Names \cup {None},
                                type : Types \cup {None}, port : Ports \cup {None}, inactive : BOOLEAN]]
  /\ \A m \in LiveMappings : mappings[m].port = None <=> mappings[m].type \in {"http", "https"}
  /\ \A n \in LiveNodes : nodes[n].listeners["bind"] # None
  /\ retirements \in [Agents -> Nat] /\ unpublished \subseteq Agents
  /\ held \in [Nodes -> SUBSET Ports] /\ edits \in 0..MaxEdits
  /\ jobs \in [Slots -> [node : Nodes \cup {None}, step : {"free", "read", "reactivate"},
                         bound : SUBSET Ports, rows : SUBSET [id : Mappings, port : Ports]]]

\* The operations on two hosts never give two mappings of one node the same remote
\* port (whether or not they are active, for an inactive one may be healed at any
\* time), two mappings of a connection one name, or two frpc processes of a machine
\* one admin port (usedPortsTx, uniqueProxyName, nextAdminPort).
NoCollision ==
  /\ \A n \in Nodes : \A m, k \in MappingsOfNode(n) :
       m # k /\ mappings[m].port # None => mappings[m].port # mappings[k].port
  /\ \A c \in LiveConns : \A m, k \in MappingsOfConn(c) :
       m # k => mappings[m].name # mappings[k].name
  /\ \A c, d \in LiveConns :
       c # d /\ conns[c].host = conns[d].host => conns[c].admin # conns[d].admin

\* Whatever is deleted, and in whatever order, no row is left pointing to nothing: a
\* bundle is always built (agent.go:190-193 fails it for a missing node).
Referential ==
  /\ \A c \in LiveConns : conns[c].host \in LiveHosts /\ conns[c].node \in LiveNodes
  /\ \A m \in LiveMappings : mappings[m].conn \in LiveConns

\* What would be delivered to an agent never changes without its revision growing, be
\* it by an edit of its own rows, of a node it dials, or by a report of that node; and
\* a retired agent is told a revision it has not seen.  A poll compares nothing else.
Versioned ==
  [][/\ \A h \in LiveHosts :
          IF h \in LiveHosts' THEN HostConfig(h)' # HostConfig(h) => hosts'[h].version > hosts[h].version
                              ELSE retirements'[h] > hosts[h].version
     /\ \A c \in LiveConns : c \in LiveConns' /\ ConnectionConfig(c)' # ConnectionConfig(c) =>
          conns'[c].version > conns[c].version
     /\ \A n \in LiveNodes :
          IF n \in LiveNodes' THEN NodeConfig(n)' # NodeConfig(n) => nodes'[n].version > nodes[n].version
                              ELSE retirements'[n] > nodes[n].version
    ]_vars

\* Every agent whose delivery a step changes, and every agent it retires, is left to be
\* notified: the hosts of a node that is edited, and not only the node.
Announced ==
  [][/\ \A h \in LiveHosts :
          h \in unpublished' \/ (h \in LiveHosts' /\ HostConfig(h)' = HostConfig(h))
     /\ \A n \in LiveNodes :
          n \in unpublished' \/ (n \in LiveNodes' /\ NodeConfig(n)' = NodeConfig(n))
    ]_vars

Blocked(m) ==
  /\ m \in LiveMappings /\ mappings[m].inactive
  /\ mappings[m].port \notin held[conns[mappings[m].conn].node]

\* A mapping does not stay inactive once its port is free for good (proxy.go:228-231,
\* "would otherwise stay unrendered forever once the port frees").
Heals == \A m \in Mappings : []<>~Blocked(m)

\* What validation makes sure of, of ports, listeners and protocols, when a connection or a
\* mapping is stored: its node offers the protocol, has the listener the type needs, and does
\* not use the port itself.  That a mapping with a subdomain needs a subdomain_host of its
\* node (transport.go:162-164) is not told apart from the other settings of a node.
NodeFits(n) ==
  /\ \A c \in ConnsOfNode(n) : nodeOffersProtocol(n, conns[c].protocol)
  /\ \A m \in MappingsOfNode(n) :
       mappings[m].port \notin nodeReservedPorts(n) /\ validProxyListener(n, mappings[m])

\* That is lost in one way only: the listeners of the node are moved under the connections
\* it has (UpdateFRPS, which validates the listeners alone).
\* No connection or mapping that is created, edited, deleted or reactivated breaks it.
OnlyListenersUnfit ==
  [][\A n \in Nodes : NodeFits(n) =>
       NodeFits(n)' \/ \E ls \in ListenerChoices : ls # nodes[n].listeners /\ UpdateFRPS(n, ls)]_vars

\* An update that leaves the listeners of every node where they are.
ListenersStay == \A n \in LiveNodes : n \in LiveNodes' => nodes'[n].listeners = nodes[n].listeners

---------------------------------------------------------------------------
(* The rows number what an agent is delivered, and what comes after them.    *)

status(a) == IF a \in Nodes THEN nodes[a].status ELSE hosts[a].status

\* The number a poll of the agent is answered with.
revisionOf(a) ==
  CASE status(a) = "unused"  -> 0
    [] status(a) = "live"    -> IF a \in Nodes THEN nodes[a].version ELSE hosts[a].version
    [] status(a) = "deleted" -> retirements[a]

Numbers(a) == INSTANCE Revisions WITH revision <- revisionOf(a), retired <- status(a) = "deleted"

\* Whatever is done to the rows of the others, and in whatever order, no number of an agent
\* comes twice, and after its retirement there is no other (retirement.go:22-32).  This is
\* Numbers(a)!Numbered for every agent a, with the quantifier inside the box.
AgentsNumbered ==
  /\ \A a \in Agents : Numbers(a)!Unnumbered
  /\ [][\A a \in Agents : [Numbers(a)!Renumber]_(Numbers(a)!numbering)]_vars

---------------------------------------------------------------------------
(* A statement of the repository that the code does not keep.                *)

\* transport.go:82-84: the reserved ports are "used so a proxy remote_port can't
\* collide with the node's own listeners".  UpdateFRPS does not look at the mappings.
ListenersFree ==
  \A n \in LiveNodes : \A m \in MappingsOfNode(n) : mappings[m].port \notin nodeReservedPorts(n)
=============================================================================
