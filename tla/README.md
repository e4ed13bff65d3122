# service-edge, in TLA+

service-edge manages frp tunnels. A *control plane* (`cmd/server`) keeps the wanted
configuration in SQLite; an *agent* (`cmd/agent`) on every machine long-polls for it, deploys it
as systemd units, and reports back. A *node* runs one `frps`, a *host* runs one `frpc` process
per *connection*, and a connection carries the port *mappings* of the host to one node.

The modules here model the code that decides what is deployed, when, and what the control plane
believes about it. TLC checks them on small instances; TLAPS proves the main results for every
value of the constants. `PROJECT.json` lists every run, the source lines of every definition, a
mutation of the code for every property, and the hazards the properties are aimed at.

## The system

| component | code | state | operations | what is hard |
| --- | --- | --- | --- | --- |
| atomic deployment | `agent/applier.go`, `frp/systemd.go`, `frp/process.go` | generation directories, the `current` and `previous` links, the `.activated` marks, the unit | `Apply` with recovery, fast path, staging, switch, activation, rollback | a crash, a reboot or a failing call between any two steps; a failing rollback |
| host reconciler | `agent/connections.go`, `agent/state.go` | `state.json`, the instance directories, the units | `reconcile`, `decommission` | connections are committed one by one; state and reality drift apart |
| configuration loop | `agent/runner.go`, `agent/client.go` | version applied, time of the next full sync | poll, apply, acknowledge, report | lost replies, retries, a revision that means something else after a restore |
| long poll, notifier | `api/handler/agent.go`, `service/notifier.go` | one channel per waiting handler | `AgentConfig`, `Subscribe`, `Publish` | lost wakeups, leaked channels, a row that changes between two statements |
| record of revisions | `service/agent.go`, `service/retirement.go` | applied and tried revision, last error, retirement | `RecordAppliedVersion`, `RecordConfigAck`, `RecordRetirementAck` | late, lost and reordered requests |
| registry | `service/frps.go`, `host.go`, `frpc.go`, `proxy.go`, `transport.go` | the tables of nodes, hosts, connections, mappings, retirements | create, update, delete, certificate renewal, occupancy | revisions that must follow every dependency; port pools; stale port reports |
| rendering | `service/config_renderer.go` | none | `RenderFRPSConfig`, `RenderFRPCConfig` | what a rendered file depends on |
| connection status | `service/agent.go`, `agent/status.go`, `agent/frpstatus.go` | status of each connection, what was observed of each mapping | `collectConnections`, `recordConnectionStatuses` | a report is built, sent and recorded while the connection is edited |
| liveness | `service/agent.go`, `api/handler/agent.go`, `cmd/server/main.go` | `last_heartbeat`, `status`, when an observation expires | `RecordHeartbeat`, `RecordStatus`, `ReapStaleAgents` | several statements in no transaction; requests that meet the deletion of their agent |
| release archives | `service/frp_dist.go`, `frp/archive.go`, `frp/installer.go` | a file and a row per archive, the agent's executable | upload, delete, offer, download, install | file and row are written one after the other; the file changes between the offer and the download |
| enrollment | `service/enrollment.go`, `service/install.go`, `api/middleware/agent.go` | one-time tokens | create, peek, consume, authorize | lost replies and retries, deletion of the target between two statements |
| PKI, login, settings, audit, web frontend, installation scripts | `pki`, `auth.go`, `settings.go`, `web`, `scripts` | | | |

The components meet in five places: an operation of the registry commits a revision and then
calls `Publish`; the handler woken by it delivers a bundle built from the tables; the agent
deploys it through the applier, alone (frps) or once per connection (frpc); and the
acknowledgement and every heartbeat and report carry the revision back into the record. The
bundle names a release archive that the agent downloads from the control plane. The
database has a single connection (`store.go:49`), so a transaction is atomic and is one action;
two statements outside a transaction are two actions.

Correctness, component by component: a deployment is all or nothing and survives a reboot; a
success means what it says; no process runs that the agent does not know; an agent learns of
every change without anybody retrying by hand; what the control plane shows as applied was
applied; no two mappings fight for a port; no delivery changes under an unchanged revision; what is
shown as running was seen to run and is forgotten in time; what is installed was published.

## Modules

| module | models | checked by | proved in |
| --- | --- | --- | --- |
| `Applier` | `Apply` call by call, systemd, crashes and reboots | `MCApplier` | `ApplierProofs` |
| `Deployment` | what `Apply` promises (abstract) | refined by `Applier` (`AllOrNothing`) | |
| `HostReconcile` | `reconcile`, `decommission`, `state.json` | `HostReconcile.cfg` | `HostReconcileProofs` |
| `LongPoll` | `AgentConfig`, `Notifier`, polling loop of one agent | `LongPoll.cfg` | `LongPollProofs` |
| `AckLedger` | acknowledgements, reports, retirement of one agent | `AckLedger.cfg` | `AckLedgerProofs` |
| `Registry` | tables and operations of the control plane | `MCRegistry` | `RegistryProofs` |
| `ConnStatus` | reports on one connection and their recording | `ConnStatus.cfg` | `ConnStatusProofs` |
| `AgentLife` | enrollment, authorization, heartbeats, reaper, deletion of one agent | `MCAgentLife` | `AgentLifeProofs` |
| `Lease` | what a status that lives on reports promises (abstract) | refined twice by `AgentLife` (`HonoursLeases`) | `AgentLifeProofs` |
| `FrpDist` | one release archive, from its upload to the agent's executable | `FrpDist.cfg` | `FrpDistProofs` |
| `Revisions` | what the number of an agent's configuration promises (abstract) | | `RegistryProofs` |
| `ConfigSync` | what passes between control plane and agent (abstract) | | `LongPollProofs`, `AckLedgerProofs`, `HostReconcileProofs` |

### Applier and Deployment

A generation is a name with a content (the fingerprint of configuration, binary and
certificates), an `activated` mark, and a place on disk. `current` and `previous` are the two
links; a legacy installation has plain files instead and is `Legacy`. Each action is one step of
`Apply` in the order of the code (`pc` names the next); every call that can fail has an action
that fails, which spends one of `MaxFaults`. The unit has the generation it was started from
(`ExecStart` follows `current`), whether it is enabled at boot, and whether systemd will start it
again. `AgentCrash` and `HostReboot` may happen between any two steps.

`Deployment` lets a call end with the content committed before or the new one and nothing else.
`Applier` implements it under the mapping in `MCApplier`: the committed content is the one of the
generation that recovery would end with, or the legacy deployment as long as the unit starts it.
One exception is part of the promise, because the code makes it: the first migration from a legacy
deployment rewrites the unit (`applier.go:130`, `Uproot`) before it switches to a generation
(`applier.go:133`, `Adopt`). A crash, or an error of the switch, in between leaves a unit that
follows a `current` which does not exist, and `recoverPending` restores nothing
(`applier.go:295-298`), although the copy that `snapshotLegacy` made is on disk ("Preserve a legacy
deployment on first migration", `applier.go:114`). The old process runs on, but a reboot there
leaves the host without a tunnel until a later call of `Apply` gets past the switch. From the first
switch on, and on a host without a legacy deployment always, the promise has no exception. It is
the variable `old` of `Deployment` that tells.

Runs: `applier` (two contents, three bundles, three faults, so that a fault in an activation, one
in its rollback and one in the next recovery occur together) and `applier_stale`.
`MCApplier` gives new generations the smallest unused name, which breaks the symmetry of names
without losing a behaviour: ten names are more than three bundles with three faults use.

### HostReconcile

Two connections, two contents and a `Broken` one that the control plane delivers with a
`ConfigError`. `Apply` appears through what `Deployment` promises of it: per connection a
committed deployment and maybe a pending one. `todo` holds the connections a loop has still to
visit, and since Go's map order is unspecified any is next. `managedConnections` is, as in the
code, the union of `state.json` and the directories. Identifiers are UUIDs, so a deleted
connection never comes back (`deleted`). Connections start without a legacy deployment.

Files of a generation can disappear (`Damage`). A full sync repairs that as long as
`recoverPending` can still tell where to go back to; when the directory, or `activated` and
`previous` both, are gone it returns the read error of `previous` (`applier.go:302-310`) on every
call of `Apply`, and nothing else repairs the pointer: the connection is `stuck`. A snapshot of a
legacy deployment, which has no `previous`, is when `activated` alone is gone. "To repair missing
files" (`runner.go:149-150`) is therefore kept for every other loss and not for this one, and
`Converges` says what holds instead: the error of a stuck connection stays recorded and the
host's revision is not acknowledged, while every other connection converges.

Runs: `host` (two connections, four revisions, two faults) and `host_revert`.

### LongPoll

One agent and the handlers of its requests: the current one and any older one whose client has
gone away. A handler takes one action per statement of `AgentConfig`. `row.version` is what the
code compares; `row.rev` is a serial number of the configuration itself, so that a restored
database can be told from the one it replaced. `unpublished` counts commits whose `Publish` is
still to come, the window in which a wakeup could be lost. The buffered channel of a waiter
(`make(chan struct{}, 1)`) is its membership in `woken`.

Run: `long_poll` (two handlers, three configurations, one fault). Two handlers are enough for one to be abandoned while another serves
the agent, and three configurations for a restore to reuse a revision number; the safety
properties are proved for any number of either.

### AckLedger

Requests are sets: one is delivered in any order, late, or never. The history variables
`succeeded` and `failed` hold what the agent really did; only the properties read them. A retired
agent's requests are routed to its retirement by the handlers and so by `DeliverAck` and
`DeliverReport`.

Run: `ack_ledger` (two revisions and the retirement's, two faults), enough for a late answer
about the older one to meet the newer; the safety properties are proved for any number.

### Registry

Tables are functions from identifiers to rows; an identifier is used once. What the properties do
not tell apart is a number per row: `settings` for what an administrator sets, `cert` for the
leaf certificate. Ports matter one by one: the listeners of a node, remote ports, admin ports.
`ConnectionConfig`, `HostConfig` and `NodeConfig` are what a rendered bundle depends on, read off
`buildHostConfigSnapshot` and the two render functions, and `Versioned` compares them before and
after every step. A status report is three steps, as in the code: the ports are saved, the
inactive mappings are read, and each is reactivated in a transaction of its own that looks again.
A mapping keeps the node of its connection for life, so that reading a node's connections and
then their mappings, two statements in the code, is one step here.

Runs: `registry` (two nodes with three kinds of listeners, two hosts, five operations),
`registry_live` (six operations) and `registry_ports`. Five operations create a node, a host and
two connections with mappings and still edit one, or make a port busy and two mappings want it.
They never use up the admin ports of a host: that a pool of any size gives no port twice is shown
by the theorem `PortsExclusive` alone.
`CHECK_DEADLOCK FALSE`: with the operations bounded the system stops when they are used up and
nothing is left to publish.

### ConnStatus

One connection, its mappings by name, and its agent. A definition of a mapping is the number of
the revision that made it, so that `ran`, which no program stores, can be compared with `def`.
The agent copies the revisions of state.json (`StartSample`) before it asks the process
(`Report`), so a report may name an older revision than the process it saw, never a newer one; a
connection that is recorded is assumed to run what was delivered for its revision, to which
`host_revert` is the exception. What the administration interface of frp answers is drawn when the
report is recorded (`Sights`): a list in which proxies may be absent or failing, nothing, or a
process that is not there. A report on several connections touches disjoint rows, so one
connection is enough. `Expire` is the reaper, at any time.

Run: `conn_status` (two names, two revisions, two reports on their way). Two names let a mapping
take the name of another, two reports come in the wrong order, and a revision more changes nothing
that a comparison of two can tell.

### AgentLife and Lease

One agent, as a node or as a host with one connection (`kind`). A request is a small program of
its own (`request[r].step`): the middleware's statements one by one, the handler's search for a
retirement, and the statement or transaction that records it. The deletion of the agent, which is
one transaction, may fall between any two. `Lookups` names the order of the two last statements of
`AuthorizeAgent`. The installation script repeats its enrollment as `curl --retry` does.

Time is counted in ticks, and clocks stop at `Horizon`, past which nothing compares them. Three
assumptions tie steps to time: the reaper begins a pass every `ReapEvery`, a statement waits at
most `MaxDelay` for the database connection, and at most `MaxFaults` statements of the reaper fail.
`heard` is the time since anything was recorded of the agent, which the database does not hold.

`Lease` is what an administrator is promised of a status: it lasts while reports come in, it does
not lapse while the last one is recent, it ends within a slack of its term, and it never returns
after a deletion. `AgentLife` implements it twice: the agent's `online` (term `LivenessTimeout`)
and what is known of frp (the term of a process or of a connection status).

Run: `agent_life` (one token, two requests, `LivenessTimeout` 2, terms of 1 to 3, one failing
statement). Two requests are enough for one to overtake another; the terms are below, at and above
the liveness timeout, as 45 s, 60 s and up to 540 s are in the code. Requests are symmetric;
everything checked with that symmetry is safety.

### Revisions and ConfigSync

The modules above each model one side of the exchange of configurations and simplify the other:
`HostReconcile` and `AckLedger` take it that a poll returns the newest revision at once,
`LongPoll` that a configuration is committed under the next number. These two modules are what the
sides must have in common for that to be right. `Revisions` is the number of an agent: it grows
with every change, and the number of the retirement is the last. `ConfigSync` adds the reply the
agent is working on and the revision it has persisted: `Fetch` is the newest revision at one
moment, `Apply` persists it, `Drop` loses it, and `Rewind` is a restored backup. Each model is
proved to implement them (see below), so what one assumes of the other is what the other does.

### FrpDist

One file name, its row and an agent that wants it. An archive stands for its bytes, its digest and
its executables; `Good` are those whose executable runs and has the version of the name, which the
upload does not look at. All archives have the same size, so that the check of the size decides
nothing and the digest has to. Operations are two steps each, the file and the row; any of them
may be cut off in between (`Abort`), and the file may be lost or damaged. The agent's poll reads
the row, then the file, and the agent downloads what is there by then.

Run: `frp_dist` (three archives, one of them without a working executable, two administrators,
three operations, two faults): two operations can cross and a third repair what they left.

## What the runs show

* **Safety of a deployment** (`Recoverable`, `SuccessIsCommitted`, `SurvivesReboot`,
  `ActivationIsObserved`, `AllOrNothing`): through failures, crashes and reboots a complete
  generation is always there to run; success is told only of a committed one; a call certifies a
  generation only after it saw that generation's own process running. All or nothing has the one
  exception described above, in the first migration from a legacy deployment.
* **Nothing unmanaged, nothing forgotten** (`NoOrphan`, `SuccessIsComplete`, `Converges`): the last
  with the exception described above, which is reported for ever instead of repaired.
* **No lost wakeup** (`NoLostWakeup`, `NoLeakedWaiter`): the handler subscribes
  before it compares, and the tests would need the right microsecond to see it.
* **Convergence in spite of restores** (`Converges` of `LongPoll`, `CertIsRenewed`).
* **The record is true** (`AppliedIsReal`, `ErrorIsCurrent`, `RetirementIsReal`, `NoRegression`,
  `Settles`).
* **The tables are consistent and agents hear of them** (`NoCollision`, `Referential`,
  `Versioned`, `Announced`, `Heals`).

* **Status is about what is there** (`RunningIsDefined`, `OnlineIsComplete`): no report, however
  late, makes a mapping look as if it ran that has another definition now or another owner of its
  name; `online` leaves no active mapping out. `Recovers`: a wrong or lost report is repaired by
  the next ones.
* **Nobody is locked out or kept alive** (`NeverLockedOut`, `RefusedForReason`, `HonoursLeases`,
  `OfflineIsUnknown`): deletion moves an agent from its row to its retirement under the feet of
  its requests, which still end in one of them; a late heartbeat brings nothing back; an error in
  one pass of the reaper costs one period.
* **What is installed was published** (`InstalledIsPublished`, `UploadReaches`): two uploads that
  cross can leave the digest of one beside the file of the other; the archive is then withheld, not
  installed, until it is uploaded again.

Three runs end in a counterexample; each is a statement of the repository that the code does not
keep.

1. `applier_stale`: after a rollback whose restart failed, the fast path of a later `Apply`
   reports success while the process still runs the abandoned generation
   (`systemd.go:95-96`: "ExecStart follows the atomically switched generation").
2. `host_revert`: a configuration that was activated but not recorded, then reverted, stays
   deployed; the skip compares the recorded fingerprint (`connections.go:29-30`: "interrupted
   partial upgrades cannot skip old processes").
3. `registry_ports`: `UpdateFRPS` moves a listener onto the remote port of a mapping
   (`transport.go:82-84`: "so a proxy remote_port can't collide with the node's own listeners").
   In the same way it switches off an HTTP entry that mappings use.

## Fairness

Weak fairness of a step means that a goroutine that can go on does. Beyond it:

* `Applier`, `HostReconcile`: the configuration loop retries after every failure and syncs in
  full every five minutes (`runner.go:138-219`); failures are bounded by `MaxFaults`, for
  nothing converges while everything fails.
* `LongPoll`: the timer of the handler and the agent's loop, and strong fairness of the full
  sync, because polls that are not full syncs come between two of them. That the signal alone
  would do, without the timer, is the invariant `NoLostWakeup`.
* `AckLedger`: strong fairness of delivering a *report* and a retirement's acknowledgement, which
  are sent again and again; no other acknowledgement is assumed to arrive at all.
* `Registry`: strong fairness of a report of each node, since agents report periodically and the
  handler they reach may be busy (`Slots`), and weak fairness of the handler itself.

* `ConnStatus`: the agent's loops poll, deploy, record and report for ever, every 10 seconds, and a
  request that was not lost is served. From `calm` on no report is lost and every proxy runs.
* `FrpDist`: the agent polls again after every failure and goes on with what it was given.
* `AgentLife` has no liveness: what must happen in time is in `Lease!Pass`, which cannot be taken
  when a status has outlived its term. The assumptions on time above take the place of fairness.

## What is proved

For every value of the constants that meets the assumptions, bounds included, TLAPS checks:

* `ApplierProofs`: `TypeOK`, `Recoverable`, `SuccessIsCommitted`, `SurvivesReboot`,
  `ActivationIsObserved`, and the refinement `AllOrNothing` of `Deployment`.
* `LongPollProofs`: `TypeOK`, `NoLostWakeup`, `NoLeakedWaiter`, `OneAnswer`.
* `AckLedgerProofs`: `TypeOK`, `AppliedIsReal`, `ErrorIsCurrent`, `RetirementIsReal`,
  `NoRegression`.
* `HostReconcileProofs`: `TypeOK`, `NoOrphan`, `SuccessIsComplete`, and `OnlyChangesDisturb`: a
  call leaves alone, step by step, every connection that needs nothing or cannot be rendered,
  whatever happens to the others.
* `ConnStatusProofs`: `TypeOK`, `RunningIsDefined`, `OnlineIsComplete`, and `AppliedForward`: the
  applied revision never goes back, in whatever order reports come.
* `FrpDistProofs`: `TypeOK`, `InstalledIsPublished`.
* `AgentLifeProofs`: `TypeOK`, `NeverLockedOut`, `RefusedForReason`, `OfflineIsUnknown`, and the
  refinement `HonoursLeases`: from the assumptions that tie steps to time, with any periods.
* `RegistryProofs`: `TypeOK`, `NoCollision`, `Referential`, and the action properties `Versioned`
  and `Announced`.

**How far the three counterexamples reach.** A counterexample shows that a statement can fail; a
theorem says how it can, and that nothing else breaks it.

| run | theorem | what it says |
| --- | --- | --- |
| `applier_stale` | `StaleByFastPathOnly` | only the fast path that finds a process active loses `SuccessRunsCurrent`; every other success leaves the current generation's process or none |
| `host_revert` | `DriftAloneMisleads` | a success over another deployment means a drifted connection: `state.json` has the fingerprint of the bundle, the disk has another |
| | `ActivateAloneDrifts` | only `Activate` makes a connection drift, and `Record` ends it |
| | `RecordedIsDeployed` | if every activation is recorded before anything else happens to the call (`ActivationsRecorded`), the statement holds |
| `registry_ports` | `OnlyListenersLoseFit` | only `UpdateFRPS` with other listeners takes away what validation ensured of ports, listeners and protocols (a subdomain's need of a `subdomain_host`, `transport.go:162-164`, is not modelled) |
| | `FixedListenersFree` | if no node's listeners move (`ListenersStay`), the statement holds |

**The two sides agree.** `Registry` implements `Revisions` for every agent (`RevisionsNumbered`).
`HostReconcile` and `AckLedger` implement `ConfigSync` (`ReconcileSyncs`, `LedgerSyncs`): a
reconciliation with all its steps and restarts is one delivery. `LongPoll` implements it with
`Rewind` (`DeliversFresh`, over the serial numbers of configurations): every answer is a
configuration that was in the database, in one piece, while its request was served, although the
handler compares, sleeps and builds in different transactions and a backup may be restored in
between. `Rewind` is needed there because a restore takes the rows back behind an agent that has
already applied what came after. Without restores (`NoRestore`) it implements `ConfigSync` itself
(`DeliversInOrder`), and the numbers the code compares are the serial numbers
(`NumbersIdentified`), which is what makes comparing them enough. From `ConfigSync` follow
`NeverAhead` and `NeverOlder` (`LedgerNeverOlder`, `HostNeverOlder`, `DeliversInOrder`): an agent
is never ahead of the control plane, and what it has applied is never replaced by
something older unless its state file is lost.

The hypotheses `ActivationsRecorded`, `ListenersStay` and `NoRestore` are action formulas: each
excludes steps the code can take, and behaviours with none of those steps exist in every run.

Each rests on an inductive invariant `IInv`. In `Registry` it is the conjunction of what the runs
check; elsewhere, at the end of the module, it has to say more:

* `Applier`: what each step knows (`CallInv`: which generation is staged, which is the fallback),
  what the disk holds (`GenerationInv`), what the unit may run (`ServiceInv`). Without `CallInv` a
  rollback could start from a `previous` that does not exist. The refinement adds, in `MCApplier`,
  `HistoryInv` (with the history variable: nothing is decided before the switch, and the
  generation a rollback returns to holds what the call goes back to) and `MigrationInv` (a
  migration goes back to the copy it made, and with one on disk no call returns to no generation).
* `LongPoll`: `WakeupInv` extends the claim from `wait` back to `compare`: between subscribing and
  comparing, whatever the handler has checked still holds or a signal is in its channel or to come.
* `AckLedger`: `ClaimsInv` says that every request on its way is true of the past, which is why its
  order cannot matter; `LedgerInv` orders the three revisions.
* `HostReconcile`: `InventoryInv` (a process, a unit and a deployment imply a directory or a record),
  `StepInv` (what the connection being worked on has in between), `DoneInv` (the part of the
  bundle already visited is done, or `errs` is set).
* `ConnStatus`: `OrderInv` (what is read first is never newer than what is read after it: the
  revision a report names, what the process runs, what was delivered, what is defined) and
  `CurrentInv` (a mapping observed at its present definition is one that ran). A report that is
  late can then only name too old a revision, and is not attached.
* `FrpDist`: `DigestInv`: every digest that is recorded or offered is one of a published archive,
  whatever lies at the path by now.
* `AgentLife`: `AuthorizedInv` (each step of an authorization remembers that it found a token, or
  no row; neither comes back), `ClockInv` (how far the clocks of one event can be apart) and
  `LeaseInv`: a status is overdue by at most a period for each failed statement, the age of the
  last pass, and a period more while that pass has not come to its statement. From the last,
  every step maps to one of `Lease`.

The later theorems add to `IInv` only what they are about: `ProcessInv` (what runs when a call is
about to return nil), `DeployInv` (what the candidate and the committed deployment are when
`Activate` and `Record` find them), `CommittedInv` (a reply is a configuration that was committed)
and, in the proofs, `NumberInv` of `LongPoll` (the row in the database is the last one committed)
and `LiveNumbered` of `Registry` (a live agent has a number from 1 on).

The two action properties of `Registry` follow from one lemma (`Delivered`): a step has a footprint
of nodes, hosts and connections (`Touches`), what lies outside it is delivered as before, and what
lies inside it has its revision raised and its agents left to be notified (`Raises`). Each
operation then only has to name its footprint.

Model-checked only: the liveness properties `EventuallyCommitted`, the two `Converges`,
`CertIsRenewed`, `Settles`, `Heals`, `Recovers` and `UploadReaches`. The prover handles neither
fairness nor `ENABLED`. What TLC shows of them holds for the instances of the runs.

Proved and in no run: the theorems of the table above, those about `Revisions` and `ConfigSync`,
`OneAnswer`, `OnlyChangesDisturb` and `AppliedForward`. Each is a definition of the module it is
about, so that TLC can be asked about it on any of the configurations.

## Plan

Done: every module above, with its proofs, and the interfaces between registry, polls, ledger and
hosts. What is left is one step further along the same line: the lease of a status against the
registry's rows, and "every live agent eventually runs what its rows say" as one liveness property
over `ConfigSync`, which only TLC can check.

## Not modelled

The text of rendered files, certificates and keys, HTTP authentication, login and settings, the
audit log, the web frontend, installation scripts but for their enrollment, and what is collected
of the machine for display. They carry no control state of the tunnels; where one can fail
(issuing a certificate, an archive that is missing) the action that uses it may fail. Time is
ticks in `AgentLife`; elsewhere it appears only as timers that may fire.

Left out of the modules that come near it:

* Reports of agents from before the report channel, which name no revision: nothing can be said of
  the definitions they observed (`agent.go:434` takes them as current).
* In `ConnStatus`, a database restored from a backup, where an old report may name a revision that
  was handed out again (`LongPoll` has restores).
* A second token for one agent: it adds nothing that the first, used or expired, does not show.
* An archive uploaded again under the same version does not replace an executable an agent has
  (`PrepareBinary` keeps one of the right version). `FrpDist` has this as `Keep`; no property asks
  for more, since the code means it so (`agent.go:226-228`).
* A deleted archive also stops the delivery of configurations that change nothing of frp, since
  `frpBinary` fails for every bundle that names it: `LongPoll` has this as a handler that fails
  (`HandlerFails`), and it is why `UploadReaches` matters.
