--------------------------- MODULE LongPollProofs ---------------------------
(* Proofs about LongPoll, for any number of concurrent requests, revisions and *)
(* faults.                                                                  *)
EXTENDS LongPoll, TLAPS

Rows == [version : Nat, rev : Nat, retired : BOOLEAN]

Subscribed == {"check", "compare", "wait", "recheck", "recompare", "build"}

LEMMA Answers ==
  ASSUME row \in Rows
  PROVE  NoReply \in Replies /\ Failed \in Replies /\ Unchanged \in Replies /\ Target \in Replies
BY DEF Rows, NoReply, Failed, Unchanged, Target, Replies

LEMMA InvariantInitially == Init => IInv
<1> SUFFICES ASSUME Init PROVE IInv
  OBVIOUS
<1>1. row \in Rows /\ reply \in Replies /\ local \in [version : Nat, rev : Nat]
  BY Answers DEF Init, Rows, NoReply, Replies
<1>2. TypeOK BY <1>1 DEF Init, TypeOK, Rows, Steps
<1>3. NoLeakedWaiter /\ WakeupInv BY DEF Init, NoLeakedWaiter, WakeupInv
<1> QED BY <1>2, <1>3 DEF IInv

\* A handler that moves on keeps its channel.
LEMMA ContinueStep ==
  ASSUME IInv, NEW h \in Handlers, NEW to \in Steps,
         Continue(h, to), to \in Subscribed <=> pc[h] \in Subscribed, UNCHANGED waiters
  PROVE  pc' \in [Handlers -> Steps] /\ NoLeakedWaiter'
BY DEF IInv, TypeOK, NoLeakedWaiter, Continue, Subscribed

\* A handler that answers gives it back, and the request of the others go on.
LEMMA RespondStep ==
  ASSUME IInv, NEW h \in Handlers, NEW answer \in Replies, Respond(h, answer),
         pc[h] # "publish", UNCHANGED <<database, unpublished, asked, poll, local>>,
         faults' \in Nat
  PROVE  IInv'
<1>1. /\ pc' \in [Handlers -> Steps] /\ reply' \in Replies
      /\ waiters' = waiters \ {h} /\ woken' = woken \ {h} /\ pc'[h] = "free"
      /\ \A k \in Handlers \ {h} : pc'[k] = pc[k]
  BY DEF IInv, TypeOK, Respond, Continue, Steps
<1>2. TypeOK' BY <1>1 DEF IInv, TypeOK, database
<1>3. NoLeakedWaiter' BY <1>1 DEF IInv, NoLeakedWaiter
<1>4. PublicationPending => PublicationPending'
  BY <1>1 DEF PublicationPending
<1>5. WakeupInv' BY <1>1, <1>4 DEF IInv, WakeupInv, database
<1> QED BY <1>2, <1>3, <1>5 DEF IInv

\* Everybody with a channel has a signal after a publication.
LEMMA PublicationWakes ==
  ASSUME IInv, woken' = woken \cup waiters,
         \A k \in Handlers : pc'[k] \in {"compare", "wait"} => pc'[k] = pc[k]
  PROVE  WakeupInv'
BY DEF IInv, NoLeakedWaiter, WakeupInv

\* Everybody is covered by a publication that is still to come.
LEMMA PendingCovers == ASSUME PublicationPending' PROVE WakeupInv'
BY DEF WakeupInv

LEMMA InvariantStep == IInv /\ [Next]_vars => IInv'
<1> SUFFICES ASSUME IInv, [Next]_vars PROVE IInv'
  OBVIOUS
<1>0. row \in Rows /\ unpublished \in Nat /\ Target \in Replies /\ Failed \in Replies
      /\ Unchanged \in Replies /\ NoReply \in Replies
  BY Answers DEF IInv, TypeOK, Rows
<1>1. ASSUME NEW retired \in BOOLEAN, NewRow(retired) PROVE row' \in Rows /\ revs' \in Nat
  BY <1>0, <1>1 DEF NewRow, IInv, TypeOK, Rows
<1>2. CASE Commit \/ Retire
  <2>1. row' \in Rows /\ revs' \in Nat /\ unpublished' = unpublished + 1
        /\ UNCHANGED <<kind, backup, certDue, waiters, woken, pc, asked, agent, faults>>
    BY <1>1, <1>2 DEF Commit, Retire
  <2>2. TypeOK' BY <1>0, <2>1 DEF IInv, TypeOK, Rows, agent
  <2>3. NoLeakedWaiter' BY <2>1 DEF IInv, NoLeakedWaiter
  <2>4. PublicationPending' BY <1>0, <2>1 DEF PublicationPending
  <2> QED BY <2>2, <2>3, <2>4, PendingCovers DEF IInv
<1>3. CASE Publish
  <2>1. /\ unpublished' \in Nat /\ woken' = woken \cup waiters
        /\ UNCHANGED <<database, waiters, pc, asked, agent, faults>>
    BY <1>0, <1>3 DEF Publish
  <2>2. TypeOK' BY <2>1 DEF IInv, TypeOK, database, agent
  <2>3. NoLeakedWaiter' BY <2>1 DEF IInv, NoLeakedWaiter
  <2>4. WakeupInv' BY <2>1, PublicationWakes
  <2> QED BY <2>2, <2>3, <2>4 DEF IInv
<1>4. CASE CertExpires \/ BackUp
  <2>1. /\ backup' \in Rows /\ certDue' \in BOOLEAN
        /\ UNCHANGED <<kind, row, revs, server, agent, faults>>
    BY <1>0, <1>4 DEF CertExpires, BackUp, IInv, TypeOK, Rows
  <2>2. TypeOK' BY <2>1 DEF IInv, TypeOK, Rows, server, agent
  <2>3. NoLeakedWaiter' /\ WakeupInv'
    BY <2>1 DEF IInv, NoLeakedWaiter, WakeupInv, PublicationPending, server
  <2> QED BY <2>2, <2>3 DEF IInv
<1>5. CASE ServerRestart \/ Restore
  <2>1. /\ row' \in Rows /\ Stopped /\ UNCHANGED <<kind, backup, revs, certDue, asked, poll, local>>
    BY <1>0, <1>5 DEF ServerRestart, Restore, database, IInv, TypeOK, Rows
  <2>2. /\ pc' = [h \in Handlers |-> "free"] /\ waiters' = {} /\ woken' = {}
        /\ unpublished' = 0 /\ reply' \in Replies /\ faults' \in Nat
    BY <1>0, <2>1 DEF Stopped, Fault, IInv, TypeOK
  <2>3. TypeOK' BY <2>1, <2>2 DEF IInv, TypeOK, Rows, Steps
  <2>4. NoLeakedWaiter' /\ WakeupInv' BY <2>2 DEF NoLeakedWaiter, WakeupInv
  <2> QED BY <2>3, <2>4 DEF IInv
<1>6. CASE Agent
  <2>1. /\ poll' \in Handlers \cup {None} /\ reply' \in Replies
        /\ local' \in [version : Nat, rev : Nat] /\ faults' \in Nat
        /\ UNCHANGED <<database, server>>
    BY <1>0, <1>6 DEF Agent, Apply, ApplyFails, Retry, Abandon, Handled, Fault, IInv, TypeOK, Replies
  <2>2. TypeOK' BY <2>1 DEF IInv, TypeOK, database, server
  <2>3. NoLeakedWaiter' /\ WakeupInv'
    BY <2>1 DEF IInv, NoLeakedWaiter, WakeupInv, PublicationPending, database, server
  <2> QED BY <2>2, <2>3 DEF IInv
<1>7. ASSUME NEW h \in Handlers, Poll(h) \/ FullSync(h) PROVE IInv'
  <2>1. PICK version \in Nat : Ask(h, version)
    BY <1>7 DEF Poll, FullSync, IInv, TypeOK
  <2>2. /\ pc' = [pc EXCEPT ![h] = "start"] /\ pc[h] = "free"
        /\ asked' = [asked EXCEPT ![h] = version] /\ poll' = h
        /\ UNCHANGED <<database, unpublished, waiters, woken, reply, local, faults>>
    BY <2>1 DEF Ask, Continue, At
  <2>3. TypeOK' BY <2>2 DEF IInv, TypeOK, database, Steps
  <2>4. /\ pc'[h] = "start" /\ \A k \in Handlers \ {h} : pc'[k] = pc[k] /\ asked'[k] = asked[k]
    BY <2>2 DEF IInv, TypeOK
  <2>5. NoLeakedWaiter' BY <2>2, <2>4 DEF IInv, NoLeakedWaiter
  <2>6. PublicationPending => PublicationPending' BY <2>2, <2>4 DEF PublicationPending
  <2>7. WakeupInv' BY <2>2, <2>4, <2>6 DEF IInv, WakeupInv, database
  <2> QED BY <2>3, <2>5, <2>7 DEF IInv
<1>8. ASSUME NEW h \in Handlers,
             TellRetired(h) \/ NotModified(h) \/ ClientGone(h) \/ Build(h) \/ RowGone(h) \/ HandlerFails(h)
      PROVE  IInv'
  <2>1. PICK answer \in Replies : Respond(h, answer)
    BY <1>0, <1>8 DEF TellRetired, NotModified, ClientGone, Build, RowGone, HandlerFails
  <2>2. pc[h] # "publish" /\ faults' \in Nat /\ UNCHANGED <<database, unpublished, asked, poll, local>>
    BY <1>8 DEF TellRetired, NotModified, ClientGone, Build, RowGone, HandlerFails, At,
       RetirementCheck, Fault, IInv, TypeOK
  <2> QED BY <2>1, <2>2, RespondStep
<1>9. ASSUME NEW h \in Handlers,
             NotRetired(h) \/ NothingToRenew(h) \/ Different(h) \/ SameVersion(h)
             \/ Wake(h) \/ Timeout(h)
      PROVE  IInv'
  <2>1. /\ UNCHANGED <<database, unpublished, waiters, asked, agent, faults>>
        /\ woken' \in {woken, woken \ {h}} /\ pc[h] # "publish"
    BY <1>9 DEF NotRetired, NothingToRenew, Different, SameVersion, Wake, Timeout, At, RetirementCheck
  <2>2. PICK to \in Steps : /\ Continue(h, to) /\ (to \in Subscribed <=> pc[h] \in Subscribed)
                            /\ to = "compare" => ~row.retired /\ woken' = woken
                            /\ to = "wait" => ~row.retired /\ row.version = asked[h] /\ woken' = woken
    BY <1>9 DEF NotRetired, NothingToRenew, Different, SameVersion, Wake, Timeout, At,
       RetirementCheck, AfterCheck, Steps, Subscribed
  <2>3. pc' \in [Handlers -> Steps] /\ NoLeakedWaiter'
    BY <2>1, <2>2, ContinueStep
  <2>4. TypeOK' BY <2>1, <2>3 DEF IInv, TypeOK, database, agent
  <2>5. pc'[h] = to /\ \A k \in Handlers \ {h} : pc'[k] = pc[k]
    BY <2>2 DEF Continue, IInv, TypeOK
  <2>6. PublicationPending => PublicationPending' BY <2>1, <2>5 DEF PublicationPending
  <2>7. WakeupInv' BY <2>1, <2>2, <2>5, <2>6 DEF IInv, WakeupInv, database
  <2> QED BY <2>3, <2>4, <2>7 DEF IInv
<1>10. ASSUME NEW h \in Handlers, Renew(h) PROVE IInv'
  <2>1. /\ row' \in Rows /\ revs' \in Nat /\ certDue' = FALSE /\ Continue(h, "publish")
        /\ UNCHANGED <<kind, backup, unpublished, waiters, woken, asked, agent, faults>>
        /\ pc[h] = "renew"
    BY <1>1, <1>10 DEF Renew, At
  <2>2. pc' \in [Handlers -> Steps] /\ NoLeakedWaiter'
    BY <2>1, ContinueStep DEF Steps, Subscribed
  <2>3. TypeOK' BY <2>1, <2>2 DEF IInv, TypeOK, Rows, agent
  <2>4. PublicationPending' BY <2>1 DEF PublicationPending, Continue, IInv, TypeOK
  <2> QED BY <2>2, <2>3, <2>4, PendingCovers DEF IInv
<1>11. ASSUME NEW h \in Handlers, PublishRenewal(h) PROVE IInv'
  <2>1. /\ Continue(h, "subscribe") /\ pc[h] = "publish" /\ woken' = woken \cup waiters
        /\ UNCHANGED <<database, unpublished, waiters, asked, agent, faults>>
    BY <1>11 DEF PublishRenewal, At
  <2>2. pc' \in [Handlers -> Steps] /\ NoLeakedWaiter'
    BY <2>1, ContinueStep DEF Steps, Subscribed
  <2>3. TypeOK' BY <2>1, <2>2 DEF IInv, TypeOK, database, agent
  <2>4. \A k \in Handlers : pc'[k] \in {"compare", "wait"} => pc'[k] = pc[k]
    BY <2>1 DEF Continue, IInv, TypeOK
  <2> QED BY <2>1, <2>2, <2>3, <2>4, PublicationWakes DEF IInv
<1>12. ASSUME NEW h \in Handlers, Subscribe(h) PROVE IInv'
  <2>1. /\ pc' = [pc EXCEPT ![h] = "check"] /\ pc[h] = "subscribe" /\ waiters' = waiters \cup {h}
        /\ UNCHANGED <<database, unpublished, woken, asked, agent, faults>>
    BY <1>12 DEF Subscribe, Continue, At
  <2>2. pc'[h] = "check" /\ \A k \in Handlers \ {h} : pc'[k] = pc[k]
    BY <2>1 DEF IInv, TypeOK
  <2>3. TypeOK' BY <2>1 DEF IInv, TypeOK, database, agent, Steps
  <2>4. NoLeakedWaiter' BY <2>1, <2>2 DEF IInv, NoLeakedWaiter
  <2>5. PublicationPending => PublicationPending' BY <2>1, <2>2 DEF PublicationPending
  <2>6. WakeupInv' BY <2>1, <2>2, <2>5 DEF IInv, WakeupInv, database
  <2> QED BY <2>3, <2>4, <2>6 DEF IInv
<1>13. CASE UNCHANGED vars
  BY <1>13 DEF vars, IInv, TypeOK, NoLeakedWaiter, WakeupInv, PublicationPending
<1> QED
  BY <1>2, <1>3, <1>4, <1>5, <1>6, <1>7, <1>8, <1>9, <1>10, <1>11, <1>12, <1>13
  DEF Next, Serve, Operate

LEMMA Invariance == Spec => []IInv
BY InvariantInitially, InvariantStep, PTL DEF Spec

\* Every variable keeps its kind, for any number of requests.
THEOREM TypeCorrect == Spec => []TypeOK
<1>1. IInv => TypeOK BY DEF IInv
<1> QED BY <1>1, Invariance, PTL

\* No request sleeps through a revision or a retirement that nobody is about to
\* publish to it: subscribing before checking is enough, whatever other requests,
\* edits, renewals and restarts do in between (handler/agent.go:130-152).
THEOREM WakeupNeverLost == Spec => []NoLostWakeup
<1>1. IInv => NoLostWakeup BY DEF IInv, WakeupInv, NoLostWakeup
<1> QED BY <1>1, Invariance, PTL

\* The notifier holds the channels of the live requests and no other one
\* (notifier.go:19-40, handler/agent.go:130-131).
THEOREM WaitersNeverLeak == Spec => []NoLeakedWaiter
<1>1. IInv => NoLeakedWaiter BY DEF IInv
<1> QED BY <1>1, Invariance, PTL
---------------------------------------------------------------------------
(* What the agent is handed.                                                *)

LEMMA AnswerFacts ==
  /\ NoReply.status = "none" /\ Failed.status = "error" /\ Unchanged.status = "notModified"
  /\ Target.status \in Deliveries /\ Target.rev = row.rev /\ Target.version = row.version
  /\ \A a \in {NoReply, Failed, Unchanged} : a.status \notin Deliveries /\ a.version = a.rev
BY DEF NoReply, Failed, Unchanged, Target, Deliveries

DeliveryInv == OneAnswer /\ CommittedInv

DeliveryStep ==
  DeliveryInv' /\ ([Sync!Next]_(Sync!vars) \/ (Restore /\ Sync!Rewind))

\* A handler that moves on is still working, and the agent is handed nothing.
LEMMA ContinueDelivers ==
  ASSUME IInv, DeliveryInv, NEW h \in Handlers, NEW to \in Steps \ {"free"}, Continue(h, to), pc[h] # "free",
         UNCHANGED <<row, backup, revs, poll, reply, local>>
  PROVE  DeliveryStep
<1>1. \A k \in Handlers : pc'[k] = "free" <=> pc[k] = "free"
  BY DEF Continue, IInv, TypeOK
<1>2. DeliveryInv' BY <1>1 DEF DeliveryInv, OneAnswer, CommittedInv, IInv, TypeOK
<1> QED BY <1>2 DEF DeliveryStep, Sync!vars

\* A handler that answers hands the row over as it is at that moment, if the agent is
\* still waiting for it.
LEMMA RespondDelivers ==
  ASSUME IInv, DeliveryInv, NEW h \in Handlers, NEW answer \in {Target, Failed, Unchanged},
         Respond(h, answer), pc[h] # "free", UNCHANGED <<row, backup, revs, poll, local>>
  PROVE  DeliveryStep
<1>1. /\ pc'[h] = "free" /\ \A k \in Handlers \ {h} : pc'[k] = pc[k]
      /\ reply' = IF poll = h THEN answer ELSE reply
  BY DEF Respond, Continue, IInv, TypeOK
<1>2. answer # NoReply BY AnswerFacts DEF Deliveries
<1>3. answer.status \in Deliveries => answer = Target BY AnswerFacts
<1>4. CASE poll = h
  <2>1. reply = NoReply /\ reply' = answer /\ poll # None
    BY <1>1, <1>4, ConstantsAssumption DEF DeliveryInv, OneAnswer
  <2>2. OneAnswer' BY <1>1, <1>2, <1>4, <2>1 DEF OneAnswer
  <2>3. answer.status \in Deliveries => answer.rev # 0
    BY <1>3, AnswerFacts DEF DeliveryInv, CommittedInv
  <2>4. CommittedInv' BY <2>1, <2>3 DEF DeliveryInv, CommittedInv
  <2>5. reply.status \notin Deliveries BY <2>1, AnswerFacts
  <2>6. CASE answer.status \in Deliveries
    BY <1>3, <2>1, <2>2, <2>4, <2>5, <2>6, AnswerFacts DEF Sync!Next, Sync!Fetch, Sync!numbering, DeliveryStep,
       DeliveryInv, Sync!vars
  <2>7. CASE answer.status \notin Deliveries
    BY <2>1, <2>2, <2>4, <2>5, <2>7 DEF DeliveryStep, DeliveryInv, Sync!vars
  <2> QED BY <2>2, <2>4, <2>6, <2>7 DEF DeliveryStep, DeliveryInv
<1>5. CASE poll # h
  <2>1. UNCHANGED reply BY <1>1, <1>5
  <2>2. DeliveryInv' BY <1>1, <1>5, <2>1 DEF DeliveryInv, OneAnswer, CommittedInv, IInv, TypeOK
  <2> QED BY <2>1, <2>2 DEF DeliveryStep, Sync!vars
<1> QED BY <1>4, <1>5

LEMMA EveryStepDelivers == IInv /\ DeliveryInv /\ [Next]_vars => DeliveryStep
<1> SUFFICES ASSUME IInv, DeliveryInv, [Next]_vars PROVE DeliveryStep
  OBVIOUS
<1>0. /\ row \in Rows /\ backup \in Rows /\ revs \in Nat /\ row.rev \in 1..revs /\ backup.rev \in 1..revs
      /\ pc \in [Handlers -> Steps] /\ poll \in Handlers \cup {None}
  BY DEF IInv, TypeOK, Rows, DeliveryInv, CommittedInv
<1>1. ASSUME NEW retired \in BOOLEAN, NewRow(retired), ~row.retired
      PROVE  /\ row'.rev \in 1..revs' /\ backup.rev \in 1..revs' /\ row'.rev > row.rev
             /\ row'.retired = retired
  BY <1>0, <1>1 DEF NewRow, Rows
<1>2. CASE Commit
  <2>1. /\ NewRow(FALSE) /\ ~row.retired /\ UNCHANGED <<backup, pc, poll, reply, local>>
    BY <1>2 DEF Commit, agent
  <2>2. /\ row'.rev \in 1..revs' /\ backup.rev \in 1..revs' /\ row'.rev > row.rev
        /\ row'.retired = row.retired /\ ~row.retired
    BY <1>0, <1>1, <2>1 DEF Rows
  <2>3. DeliveryInv' BY <2>1, <2>2 DEF DeliveryInv, OneAnswer, CommittedInv
  <2>4. Sync!Edit BY <1>0, <2>1, <2>2 DEF Sync!Edit, Sync!Renumber, Sync!Change, Sync!Increase, Rows
  <2> QED BY <2>3, <2>4 DEF DeliveryStep, Sync!Next
<1>3. CASE Retire
  <2>1. /\ NewRow(TRUE) /\ ~row.retired /\ UNCHANGED <<backup, pc, poll, reply, local>>
    BY <1>3 DEF Retire, agent
  <2>2. /\ row'.rev \in 1..revs' /\ backup.rev \in 1..revs' /\ row'.rev > row.rev /\ row'.retired
    BY <1>1, <2>1
  <2>3. DeliveryInv' BY <2>1, <2>2 DEF DeliveryInv, OneAnswer, CommittedInv
  <2>4. Sync!Edit BY <1>0, <2>1, <2>2 DEF Sync!Edit, Sync!Renumber, Sync!Retire, Sync!Increase, Rows
  <2> QED BY <2>3, <2>4 DEF DeliveryStep, Sync!Next
<1>4. CASE Publish \/ CertExpires \/ BackUp
  <2>1. /\ backup' \in {backup, row} /\ UNCHANGED <<row, revs, pc, poll, reply, local>>
    BY <1>4 DEF Publish, CertExpires, BackUp, database, server, agent
  <2>2. DeliveryInv' BY <1>0, <2>1 DEF DeliveryInv, OneAnswer, CommittedInv
  <2> QED BY <2>1, <2>2 DEF DeliveryStep, Sync!vars
<1>5. CASE ServerRestart \/ Restore
  <2>1. /\ Stopped /\ UNCHANGED <<backup, revs, poll, local>>
        /\ (row' = row \/ (Restore /\ row' = backup))
    BY <1>5 DEF ServerRestart, Restore, database
  <2>2. /\ \A h \in Handlers : pc'[h] = "free"
        /\ reply' = IF poll # None /\ reply = NoReply THEN Failed ELSE reply
    BY <2>1 DEF Stopped
  <2>3. /\ OneAnswer'
        /\ reply'.status \in Deliveries <=> reply.status \in Deliveries
        /\ reply'.status \in Deliveries => reply' = reply
    BY <1>0, <2>1, <2>2, AnswerFacts DEF DeliveryInv, OneAnswer, Deliveries
  <2>4. DeliveryInv' BY <1>0, <2>1, <2>3 DEF DeliveryInv, CommittedInv
  <2>5. CASE row' = row BY <2>1, <2>3, <2>4, <2>5 DEF DeliveryStep, Sync!vars
  <2>6. CASE Restore /\ row' = backup
    <3>1. Sync!Rewind BY <1>0, <2>1, <2>3, <2>6 DEF Sync!Rewind, Rows
    <3> QED BY <2>4, <2>6, <3>1 DEF DeliveryStep
  <2> QED BY <2>1, <2>5, <2>6
<1>6. CASE Agent
  <2>1. Handled /\ UNCHANGED <<row, backup, revs>>
    BY <1>6 DEF Agent, Apply, ApplyFails, Retry, Abandon, database
  <2>2. reply'.status \notin Deliveries /\ DeliveryInv'
    BY <2>1, AnswerFacts DEF Handled, DeliveryInv, OneAnswer, CommittedInv
  <2>3. CASE Apply
    <3>1. reply.status \in Deliveries /\ reply.rev # 0 /\ local'.rev = reply.rev
      BY <2>3 DEF Apply, Deliveries, DeliveryInv, CommittedInv
    <3> QED BY <2>1, <2>2, <3>1 DEF DeliveryStep, Sync!Next, Sync!Apply, Sync!numbering
  <2>4. CASE UNCHANGED local
    BY <2>1, <2>2, <2>4 DEF DeliveryStep, Sync!Next, Sync!Drop, Sync!numbering
  <2> QED BY <1>6, <2>3, <2>4 DEF Agent, ApplyFails, Retry, Abandon
<1>7. ASSUME NEW h \in Handlers, Poll(h) \/ FullSync(h) PROVE DeliveryStep
  <2>1. PICK version \in Nat : Ask(h, version) BY <1>7 DEF Poll, FullSync, IInv, TypeOK
  <2>2. /\ poll = None /\ poll' = h /\ pc'[h] = "start" /\ UNCHANGED <<row, backup, revs, reply, local>>
    BY <1>0, <2>1 DEF Ask, Continue, database
  <2>3. DeliveryInv' BY <2>2, ConstantsAssumption DEF DeliveryInv, OneAnswer, CommittedInv
  <2> QED BY <2>2, <2>3 DEF DeliveryStep, Sync!vars
<1>8. ASSUME NEW h \in Handlers,
             TellRetired(h) \/ NotModified(h) \/ ClientGone(h) \/ Build(h) \/ RowGone(h) \/ HandlerFails(h)
      PROVE  DeliveryStep
  <2>1. PICK answer \in {Target, Failed, Unchanged} : Respond(h, answer)
    BY <1>8 DEF TellRetired, NotModified, ClientGone, Build, RowGone, HandlerFails
  <2>2. pc[h] # "free" /\ UNCHANGED <<row, backup, revs, poll, local>>
    BY <1>8 DEF TellRetired, NotModified, ClientGone, Build, RowGone, HandlerFails, At,
       RetirementCheck, database
  <2> QED BY <2>1, <2>2, RespondDelivers
<1>9. ASSUME NEW h \in Handlers,
             NotRetired(h) \/ NothingToRenew(h) \/ Different(h) \/ SameVersion(h)
             \/ Wake(h) \/ Timeout(h) \/ PublishRenewal(h) \/ Subscribe(h)
      PROVE  DeliveryStep
  <2>1. PICK to \in Steps \ {"free"} : Continue(h, to)
    BY <1>9 DEF NotRetired, NothingToRenew, Different, SameVersion, Wake, Timeout, PublishRenewal,
       Subscribe, RetirementCheck, AfterCheck, Steps
  <2>2. pc[h] # "free" /\ UNCHANGED <<row, backup, revs, poll, reply, local>>
    BY <1>9 DEF NotRetired, NothingToRenew, Different, SameVersion, Wake, Timeout, PublishRenewal,
       Subscribe, RetirementCheck, At, database, agent
  <2> QED BY <2>1, <2>2, ContinueDelivers
<1>10. ASSUME NEW h \in Handlers, Renew(h) PROVE DeliveryStep
  <2>1. /\ NewRow(FALSE) /\ ~row.retired /\ pc[h] = "renew" /\ pc' = [pc EXCEPT ![h] = "publish"]
        /\ UNCHANGED <<backup, poll, reply, local>>
    BY <1>10 DEF Renew, At, Continue, agent
  <2>2. /\ row'.rev \in 1..revs' /\ backup.rev \in 1..revs' /\ row'.rev > row.rev
        /\ row'.retired = row.retired /\ ~row.retired
    BY <1>0, <1>1, <2>1 DEF Rows
  <2>3. \A k \in Handlers : pc'[k] = "free" <=> pc[k] = "free" BY <1>0, <2>1
  <2>4. DeliveryInv' BY <1>0, <2>1, <2>2, <2>3 DEF DeliveryInv, OneAnswer, CommittedInv
  <2>5. Sync!Edit BY <1>0, <2>1, <2>2 DEF Sync!Edit, Sync!Renumber, Sync!Change, Sync!Increase, Rows
  <2> QED BY <2>4, <2>5 DEF DeliveryStep, Sync!Next
<1>11. CASE UNCHANGED vars
  BY <1>11 DEF vars, DeliveryStep, DeliveryInv, OneAnswer, CommittedInv, Sync!vars
<1> QED
  BY <1>2, <1>3, <1>4, <1>5, <1>6, <1>7, <1>8, <1>9, <1>10, <1>11
  DEF Next, Serve, Operate

LEMMA DeliveryInvariance == Spec => []DeliveryInv
<1>1. Init => DeliveryInv
  BY ConstantsAssumption, AnswerFacts DEF Init, DeliveryInv, OneAnswer, CommittedInv
<1>2. IInv /\ DeliveryInv /\ [Next]_vars => DeliveryInv' BY EveryStepDelivers DEF DeliveryStep
<1> QED BY <1>1, <1>2, Invariance, PTL DEF Spec

\* No request of the agent is answered twice or left behind: there is always one handler
\* that works on it or one answer to it (handler/agent.go:130-152).
THEOREM AnsweredOnce == Spec => []OneAnswer
<1>1. DeliveryInv => OneAnswer BY DEF DeliveryInv
<1> QED BY <1>1, DeliveryInvariance, PTL

\* What the agent is handed was in the database while its request was served, in one piece,
\* though the handler compared, slept and was woken for another revision before it built
\* the answer, and though the database was restored meanwhile (handler/agent.go:94-152).
THEOREM DeliversFresh == Spec => Fresh
<1>1. Init => Sync!Init BY AnswerFacts DEF Init, Sync!Init
<1>2. IInv /\ DeliveryInv /\ [Next]_vars => [Sync!Next \/ Sync!Rewind]_(Sync!vars)
  BY EveryStepDelivers DEF DeliveryStep
<1> QED BY <1>1, <1>2, Invariance, DeliveryInvariance, PTL DEF Spec, Fresh, Sync!RewindingSpec

---------------------------------------------------------------------------
(* While nothing is restored.                                               *)

NumberInv == NumbersIdentify /\ row.rev = revs

LEMMA NumberStep == IInv /\ NumberInv /\ [Next]_vars /\ [NoRestore]_vars => NumberInv'
<1> SUFFICES ASSUME IInv, NumberInv, [Next]_vars, [NoRestore]_vars PROVE NumberInv'
  OBVIOUS
<1>0. row \in Rows /\ revs \in Nat /\ row.rev = revs /\ row.version = row.rev
      /\ local.version = local.rev /\ reply.version = reply.rev
  BY DEF IInv, TypeOK, Rows, NumberInv, NumbersIdentify
<1>1. CASE /\ row'.rev = revs' /\ row'.version = row'.rev /\ UNCHANGED local
           /\ reply' \in {reply, NoReply, Failed, Unchanged, Target}
  BY <1>0, <1>1, AnswerFacts DEF NumberInv, NumbersIdentify
<1>2. ASSUME NEW retired \in BOOLEAN, NewRow(retired)
      PROVE  row'.rev = revs' /\ row'.version = row'.rev
  BY <1>0, <1>2 DEF NewRow
<1>3. CASE Commit \/ Retire
  BY <1>1, <1>2, <1>3 DEF Commit, Retire, agent
<1>4. ASSUME NEW h \in Handlers, Renew(h) PROVE NumberInv'
  BY <1>1, <1>2, <1>4 DEF Renew, agent
<1>5. CASE Restore
  <2>1. UNCHANGED vars BY <1>5 DEF NoRestore
  <2> QED BY <1>0, <1>1, <2>1 DEF vars
<1>6. CASE Apply
  BY <1>0, <1>6, AnswerFacts DEF Apply, Handled, database, NumberInv, NumbersIdentify
<1>7. CASE ApplyFails \/ Retry \/ Abandon
  BY <1>0, <1>1, <1>7 DEF ApplyFails, Retry, Abandon, Handled, database
<1>8. CASE Publish \/ CertExpires \/ BackUp \/ ServerRestart
  BY <1>0, <1>1, <1>8 DEF Publish, CertExpires, BackUp, ServerRestart, Stopped, database, server, agent
<1>9. ASSUME NEW h \in Handlers,
             Poll(h) \/ FullSync(h) \/ NotRetired(h) \/ NothingToRenew(h) \/ Different(h) \/ SameVersion(h)
             \/ Wake(h) \/ Timeout(h) \/ PublishRenewal(h) \/ Subscribe(h)
      PROVE  NumberInv'
  BY <1>0, <1>1, <1>9 DEF Poll, FullSync, Ask, NotRetired, NothingToRenew, Different, SameVersion,
     Wake, Timeout, PublishRenewal, Subscribe, database, agent
<1>10. ASSUME NEW h \in Handlers,
              TellRetired(h) \/ NotModified(h) \/ ClientGone(h) \/ Build(h) \/ RowGone(h) \/ HandlerFails(h)
       PROVE  NumberInv'
  BY <1>0, <1>1, <1>10 DEF TellRetired, NotModified, ClientGone, Build, RowGone, HandlerFails, Respond,
     database
<1>11. CASE UNCHANGED vars BY <1>0, <1>1, <1>11 DEF vars
<1> QED
  BY <1>3, <1>4, <1>5, <1>6, <1>7, <1>8, <1>9, <1>10, <1>11 DEF Next, Serve, Agent, Operate

\* As long as no backup is restored, the number an agent compares is the configuration: two
\* configurations never share one, in the database, on their way or with the agent.
THEOREM NumbersIdentified == Spec /\ [][NoRestore]_vars => []NumbersIdentify
<1>1. Init => NumberInv BY AnswerFacts DEF Init, NumberInv, NumbersIdentify
<1>2. NumberInv => NumbersIdentify BY DEF NumberInv
<1> QED BY <1>1, <1>2, NumberStep, Invariance, PTL DEF Spec

\* And then the long poll is the delivery that the models of the agent take for granted, so
\* that no agent is ahead of the database or set back to an older configuration.
THEOREM DeliversInOrder ==
  Spec /\ [][NoRestore]_vars => Sync!Spec /\ []Sync!NeverAhead /\ Sync!NeverOlder
<1>1. Init => Sync!Init BY AnswerFacts DEF Init, Sync!Init
<1>2. IInv /\ DeliveryInv /\ [Next]_vars /\ [NoRestore]_vars => [Sync!Next]_(Sync!vars)
  <2> SUFFICES ASSUME Restore, [NoRestore]_vars PROVE UNCHANGED Sync!vars
    BY EveryStepDelivers DEF DeliveryStep
  <2>1. UNCHANGED vars BY DEF NoRestore
  <2> QED BY <2>1 DEF vars, Sync!vars
<1>3. Sync!Init => Sync!NeverAhead BY DEF Sync!Init, Sync!NeverAhead
<1>4. Sync!NeverAhead /\ [Sync!Next]_(Sync!vars) => Sync!NeverAhead'
  BY DEF Sync!NeverAhead, Sync!Next, Sync!Edit, Sync!Renumber, Sync!Change, Sync!Increase, Sync!Retire,
     Sync!Fetch, Sync!Apply, Sync!Drop, Sync!numbering, Sync!vars
<1>5. Sync!NeverAhead /\ [Sync!Next]_(Sync!vars) =>
        [local.rev' >= local.rev \/ local.rev' = 0]_(Sync!vars)
  BY DEF Sync!NeverAhead, Sync!Next, Sync!Edit, Sync!Fetch, Sync!Apply, Sync!Drop, Sync!vars
<1>6. Spec /\ [][NoRestore]_vars => Sync!Spec
  BY <1>1, <1>2, Invariance, DeliveryInvariance, PTL DEF Spec, Sync!Spec
<1>7. Sync!Spec => []Sync!NeverAhead /\ Sync!NeverOlder
  BY <1>3, <1>4, <1>5, PTL DEF Sync!Spec, Sync!NeverOlder
<1> QED BY <1>6, <1>7
=============================================================================
