------------------------------ MODULE LongPoll ------------------------------
(***************************************************************************)
(* How one agent learns of a new configuration: the long-poll requests the  *)
(* control plane serves (internal/api/handler/agent.go, AgentConfig), the   *)
(* Notifier that wakes them (internal/service/notifier.go), the operations   *)
(* that commit a new revision and publish it afterwards, and the polling     *)
(* loop of the agent (internal/agent/runner.go, configSyncLoop).  A handler  *)
(* reads the database in several statements, and anything may happen between *)
(* two of them.                                                             *)
(*                                                                         *)
(* `revs' numbers the configurations ever committed, so that row.rev is the  *)
(* configuration itself; row.version is the config_version the agent sees.   *)
(* They differ once the database is restored from a backup.                  *)
(***************************************************************************)
EXTENDS Naturals

CONSTANTS
  Handlers,  \* requests the control plane may be serving at once
  None,      \* no request
  MaxRevs,   \* bound: configurations committed
  MaxFaults  \* bound: failing calls, lost connections, crashes, restores

ASSUME ConstantsAssumption ==
  None \notin Handlers /\ MaxRevs \in Nat \ {0} /\ MaxFaults \in Nat

VARIABLES
  kind,        \* the agent's type
  row,         \* its database row: version, configuration, retired or not
  backup,      \* a backup of the database
  revs,        \* configurations committed so far
  certDue,     \* its certificate is close to expiry
  unpublished, \* commits whose Notifier.Publish is still to come
  waiters,     \* Notifier.waiters: handlers with a registered channel
  woken,       \* those whose channel holds a signal
  pc, asked,   \* each handler: its next step, its current_version parameter
  poll,        \* the handler of the agent's outstanding request, or None
  reply,       \* the reply the agent has received and not yet handled
  local,       \* what the agent has applied
  faults       \* faults so far

database == <<kind, row, backup, revs, certDue>>
server   == <<unpublished, waiters, woken, pc, asked>>
agent    == <<poll, reply, local>>
vars     == <<kind, row, backup, revs, certDue, unpublished, waiters, woken, pc,
              asked, poll, reply, local, faults>>

NoReply    == [status |-> "none", version |-> 0, rev |-> 0]
Failed     == [status |-> "error", version |-> 0, rev |-> 0]
Unchanged  == [status |-> "notModified", version |-> 0, rev |-> 0]
Target     == [status |-> IF row.retired THEN "decommission" ELSE "bundle",
               version |-> row.version, rev |-> row.rev]

Fault == faults < MaxFaults /\ faults' = faults + 1

Init ==
  /\ kind \in {"frps", "frpc"}
  /\ row = [version |-> 1, rev |-> 1, retired |-> FALSE] /\ backup = row
  /\ revs = 1 /\ certDue = FALSE
  /\ unpublished = 0 /\ waiters = {} /\ woken = {}
  /\ pc = [h \in Handlers |-> "free"] /\ asked = [h \in Handlers |-> 0]
  /\ poll = None /\ reply = NoReply
  /\ local = [version |-> 0, rev |-> 0]
  /\ faults = 0

---------------------------------------------------------------------------
(* Operations of the control plane: a transaction, then Notifier.Publish.    *)

\* The bound leaves room for the renewal of a certificate that is due.
Room == revs + (IF certDue THEN 1 ELSE 0) < MaxRevs

NewRow(retired) ==
  /\ revs' = revs + 1
  /\ row' = [version |-> row.version + 1, rev |-> revs + 1, retired |-> retired]

Commit ==
  /\ ~row.retired /\ Room /\ NewRow(FALSE)
  /\ unpublished' = unpublished + 1
  /\ UNCHANGED <<kind, backup, certDue, waiters, woken, pc, asked, agent, faults>>

\* The agent's row is deleted and a retirement with the next revision stays.
Retire ==
  /\ ~row.retired /\ Room /\ NewRow(TRUE)
  /\ unpublished' = unpublished + 1
  /\ UNCHANGED <<kind, backup, certDue, waiters, woken, pc, asked, agent, faults>>

\* Mutant of Publish: the channels have no buffer, and a handler that has compared the
\* versions may not be receiving yet.
PublishUnbuffered ==
  /\ unpublished > 0 /\ unpublished' = unpublished - 1
  /\ \E receiving \in SUBSET {h \in waiters : pc[h] = "wait"} : woken' = woken \cup receiving
  /\ UNCHANGED <<database, waiters, pc, asked, agent, faults>>

\* Mutant of Publish: one commit is published again and again.
PublishUncounted ==
  /\ revs > 1 /\ unpublished' = unpublished - 1
  /\ woken' = woken \cup waiters
  /\ UNCHANGED <<database, waiters, pc, asked, agent, faults>>

Publish ==
  /\ unpublished > 0 /\ unpublished' = unpublished - 1
  /\ woken' = woken \cup waiters
  /\ UNCHANGED <<database, waiters, pc, asked, agent, faults>>

CertExpires ==
  /\ ~row.retired /\ ~certDue /\ Room /\ certDue' = TRUE
  /\ UNCHANGED <<kind, row, backup, revs, server, agent, faults>>

---------------------------------------------------------------------------
(* The handler of one request.  Respond ends it and unsubscribes its channel. *)

At(h, step) == pc[h] = step

Continue(h, step) == pc' = [pc EXCEPT ![h] = step]

\* Mutant of Respond: the channel stays registered.
RespondSubscribed(h, answer) ==
  /\ Continue(h, "free")
  /\ UNCHANGED <<waiters, woken>>
  /\ reply' = IF poll = h THEN answer ELSE reply

Respond(h, answer) ==
  /\ Continue(h, "free")
  /\ waiters' = waiters \ {h} /\ woken' = woken \ {h}
  /\ reply' = IF poll = h THEN answer ELSE reply

RetirementCheck == {"start", "check", "recheck"}

AfterCheck(step) ==
  CASE step = "start" -> "renew" [] step = "check" -> "compare" [] step = "recheck" -> "recompare"

TellRetired(h) ==
  /\ pc[h] \in RetirementCheck /\ row.retired
  /\ Respond(h, Target)
  /\ UNCHANGED <<database, unpublished, asked, poll, local, faults>>

NotRetired(h) ==
  /\ pc[h] \in RetirementCheck /\ ~row.retired
  /\ Continue(h, AfterCheck(pc[h]))
  /\ UNCHANGED <<database, unpublished, waiters, woken, asked, agent, faults>>

\* MaybeRenewCert: the new certificate and the next revision are one transaction.
Renew(h) ==
  /\ At(h, "renew") /\ ~row.retired /\ certDue
  /\ NewRow(FALSE) /\ certDue' = FALSE
  /\ Continue(h, "publish")
  /\ UNCHANGED <<kind, backup, unpublished, waiters, woken, asked, agent, faults>>

PublishRenewal(h) ==
  /\ At(h, "publish")
  /\ woken' = woken \cup waiters
  /\ Continue(h, "subscribe")
  /\ UNCHANGED <<database, unpublished, waiters, asked, agent, faults>>

\* Mutant of NothingToRenew: a renewal that is due may be skipped.
SkipRenewal(h) ==
  /\ At(h, "renew")
  /\ ~row.retired \/ kind = "frpc"
  /\ Continue(h, "subscribe")
  /\ UNCHANGED <<database, unpublished, waiters, woken, asked, agent, faults>>

\* A host whose row is gone has no connection left to renew a certificate of.
NothingToRenew(h) ==
  /\ At(h, "renew")
  /\ \/ ~row.retired /\ ~certDue
     \/ row.retired /\ kind = "frpc"
  /\ Continue(h, "subscribe")
  /\ UNCHANGED <<database, unpublished, waiters, woken, asked, agent, faults>>

Subscribe(h) ==
  /\ At(h, "subscribe")
  /\ waiters' = waiters \cup {h}
  /\ Continue(h, "check")
  /\ UNCHANGED <<database, unpublished, woken, asked, agent, faults>>

Different(h) ==
  /\ pc[h] \in {"compare", "recompare"} /\ ~row.retired /\ row.version # asked[h]
  /\ Continue(h, "build")
  /\ UNCHANGED <<database, unpublished, waiters, woken, asked, agent, faults>>

SameVersion(h) ==
  /\ At(h, "compare") /\ ~row.retired /\ row.version = asked[h]
  /\ Continue(h, "wait")
  /\ UNCHANGED <<database, unpublished, waiters, woken, asked, agent, faults>>

NotModified(h) ==
  /\ At(h, "recompare") /\ ~row.retired /\ row.version = asked[h]
  /\ Respond(h, Unchanged)
  /\ UNCHANGED <<database, unpublished, asked, poll, local, faults>>

Wake(h) ==
  /\ At(h, "wait") /\ h \in woken
  /\ woken' = woken \ {h}
  /\ Continue(h, "recheck")
  /\ UNCHANGED <<database, unpublished, waiters, asked, agent, faults>>

Timeout(h) ==
  /\ At(h, "wait")
  /\ Continue(h, "recheck")
  /\ UNCHANGED <<database, unpublished, waiters, woken, asked, agent, faults>>

ClientGone(h) ==
  /\ At(h, "wait") /\ poll # h
  /\ Respond(h, Unchanged)
  /\ UNCHANGED <<database, unpublished, asked, poll, local, faults>>

\* The bundle is read again, from a row that may have moved since Different.
Build(h) ==
  /\ At(h, "build") /\ ~row.retired
  /\ Respond(h, Target)
  /\ UNCHANGED <<database, unpublished, asked, poll, local, faults>>

\* Retired between two statements: the row a later one looks for is gone.
RowGone(h) ==
  /\ row.retired
  /\ pc[h] \in {"compare", "recompare", "build"} \/ (At(h, "renew") /\ kind = "frps")
  /\ Respond(h, Failed)
  /\ UNCHANGED <<database, unpublished, asked, poll, local, faults>>

\* A database error, a certificate that cannot be issued, a missing frp archive.
HandlerFails(h) ==
  /\ pc[h] \in RetirementCheck \cup {"renew", "compare", "recompare", "build"}
  /\ Fault /\ Respond(h, Failed)
  /\ UNCHANGED <<database, unpublished, asked, poll, local>>

---------------------------------------------------------------------------
(* The agent: one outstanding request, then the reply is handled.            *)

Ask(h, version) ==
  /\ poll = None /\ At(h, "free")
  /\ poll' = h
  /\ asked' = [asked EXCEPT ![h] = version]
  /\ Continue(h, "start")
  /\ UNCHANGED <<database, unpublished, waiters, woken, reply, local, faults>>

Poll(h) == Ask(h, local.version)

\* Mutant of FullSync: it asks for what is newer, like any poll.
FullSyncOfNewer(h) == Ask(h, local.version)

\* At startup, and five minutes after the last success, until the next one.
FullSync(h) == Ask(h, 0)

Handled == poll' = None /\ reply' = NoReply

\* Applying the bundle, or stopping everything, persists the revision it had.
Apply ==
  /\ reply.status \in {"bundle", "decommission"}
  /\ local' = [version |-> reply.version, rev |-> reply.rev]
  /\ Handled
  /\ UNCHANGED <<database, server, faults>>

ApplyFails ==
  /\ reply.status \in {"bundle", "decommission"}
  /\ Fault /\ Handled
  /\ UNCHANGED <<database, server, local>>

Retry ==
  /\ reply.status \in {"error", "notModified"}
  /\ Handled
  /\ UNCHANGED <<database, server, local, faults>>

\* The request times out or its connection breaks, or the agent crashes: whatever
\* the handler answers is lost.
Abandon ==
  /\ poll # None /\ Fault /\ Handled
  /\ UNCHANGED <<database, server, local>>

---------------------------------------------------------------------------
(* The control plane stops: handlers, channels and pending publications go.  *)

Stopped ==
  /\ Fault
  /\ pc' = [h \in Handlers |-> "free"] /\ waiters' = {} /\ woken' = {}
  /\ unpublished' = 0
  /\ reply' = IF poll # None /\ reply = NoReply THEN Failed ELSE reply

ServerRestart ==
  /\ Stopped
  /\ UNCHANGED <<database, asked, poll, local>>

BackUp ==
  /\ backup # row /\ backup' = row
  /\ UNCHANGED <<kind, row, revs, certDue, server, agent, faults>>

\* The operator restores the database: revisions are handed out a second time.
Restore ==
  /\ backup # row /\ Stopped
  /\ row' = backup
  /\ UNCHANGED <<kind, backup, revs, certDue, asked, poll, local>>

---------------------------------------------------------------------------

Serve(h) ==
  \/ TellRetired(h) \/ NotRetired(h) \/ Renew(h) \/ PublishRenewal(h)
  \/ NothingToRenew(h) \/ Subscribe(h) \/ Different(h) \/ SameVersion(h)
  \/ NotModified(h) \/ Wake(h) \/ Build(h) \/ RowGone(h)

Agent == Apply \/ Retry \/ ApplyFails \/ Abandon

Operate == Commit \/ Retire \/ Publish \/ CertExpires \/ BackUp
           \/ ServerRestart \/ Restore

Next ==
  \/ \E h \in Handlers : \/ Serve(h) \/ Timeout(h) \/ ClientGone(h) \/ HandlerFails(h)
                         \/ Poll(h) \/ FullSync(h)
  \/ Agent \/ Operate

Spec == Init /\ [][Next]_vars

\* Handlers run, their 15 second timer fires, and the operation that committed
\* publishes.  The agent handles each reply and polls again, and while a full sync is
\* due every poll of its is one (runner.go:148-154,187-190).
Fairness ==
  /\ \A h \in Handlers : WF_vars(Serve(h)) /\ WF_vars(Timeout(h))
  /\ WF_vars(Publish)
  /\ WF_vars(Apply) /\ WF_vars(Retry)
  /\ WF_vars(\E h \in Handlers : Poll(h) \/ FullSync(h))
  /\ SF_vars(\E h \in Handlers : FullSync(h))

FairSpec == Spec /\ Fairness

---------------------------------------------------------------------------
(* Properties.                                                              *)

Steps == {"free", "start", "renew", "publish", "subscribe", "check", "compare",
          "wait", "recheck", "recompare", "build"}

Replies == [status : {"none", "error", "notModified", "bundle", "decommission"},
            version : Nat, rev : Nat]

\* Every variable holds a value of its kind.
TypeOK ==
  /\ kind \in {"frps", "frpc"}
  /\ row \in [version : Nat, rev : Nat, retired : BOOLEAN]
  /\ backup \in [version : Nat, rev : Nat, retired : BOOLEAN]
  /\ revs \in Nat /\ certDue \in BOOLEAN
  /\ unpublished \in Nat
  /\ waiters \in SUBSET Handlers /\ woken \in SUBSET Handlers
  /\ pc \in [Handlers -> Steps] /\ asked \in [Handlers -> Nat]
  /\ poll \in Handlers \cup {None} /\ reply \in Replies
  /\ local \in [version : Nat, rev : Nat] /\ faults \in Nat

\* Somebody has committed a revision and has not published it yet.
PublicationPending ==
  unpublished > 0 \/ \E h \in Handlers : pc[h] = "publish"

\* A handler never sleeps on a version that is no longer the current one, nor
\* through a retirement, unless a signal is in its channel or on its way: "the
\* long poll subscribes before it checks the version"
\* (docs/frp-stability-fixes.md:17; handler/agent.go:130-152).  The timer is only a
\* safety net: the signal alone ends the sleep.
NoLostWakeup ==
  \A h \in Handlers : pc[h] = "wait" =>
    \/ row.version = asked[h] /\ ~row.retired
    \/ h \in woken \/ PublicationPending

\* A channel is registered exactly while its handler lives: none is left behind
\* for Publish to signal, on any of the ways out (notifier.go:30-39).
NoLeakedWaiter ==
  waiters = {h \in Handlers :
               pc[h] \in {"check", "compare", "wait", "recheck", "recompare", "build"}}

\* Once faults and edits cease the agent has applied the configuration in the
\* database, or its retirement, even though a restored database reuses revision
\* numbers: a different version is delivered whichever is larger, and the full
\* sync repairs an equal one (docs/agent-control-plane.md:18).
Converges ==
  <>[](local = [version |-> row.version, rev |-> row.rev])

\* A certificate close to expiry is replaced without anybody editing the
\* configuration: an idle agent still polls again (handler/agent.go:91,145).
CertIsRenewed == certDue ~> (~certDue \/ row.retired)

---------------------------------------------------------------------------
(* The inductive invariant behind NoLostWakeup: what a subscribed handler has *)
(* seen of the row still holds, or a signal will reach it.                   *)

WakeupInv ==
  \A h \in Handlers :
    /\ pc[h] = "compare" =>
         ~row.retired \/ h \in woken \/ PublicationPending
    /\ pc[h] = "wait" =>
         \/ row.version = asked[h] /\ ~row.retired
         \/ h \in woken \/ PublicationPending

IInv == TypeOK /\ NoLeakedWaiter /\ WakeupInv

---------------------------------------------------------------------------
(* The long poll implements the delivery the other modules take for granted.  *)

Deliveries == {"bundle", "decommission"}

Sync == INSTANCE ConfigSync WITH
  revision <- row.rev,
  retired  <- row.retired,
  working  <- IF reply.status \in Deliveries THEN reply.rev ELSE 0,
  local    <- local.rev

\* Whatever happens between the statements of a handler, and whatever is restored, what the
\* agent applies was in the database, complete, at a moment at which its request was served.
Fresh == Sync!RewindingSpec

NoRestore == ~Restore

\* While nothing is restored the number the agent compares identifies the configuration.
NumbersIdentify ==
  /\ row.version = row.rev /\ local.version = local.rev
  /\ reply.version = reply.rev

\* An answer is given exactly once: the outstanding request has a handler that works on it,
\* or its answer, and not both.
OneAnswer ==
  /\ poll = None => reply = NoReply
  /\ poll # None => (reply = NoReply <=> pc[poll] # "free")

\* Revisions count from 1, and no configuration is in the database before it was committed.
CommittedInv ==
  /\ row.rev \in 1..revs /\ backup.rev \in 1..revs
  /\ reply.status \in Deliveries => reply.rev # 0
=============================================================================
