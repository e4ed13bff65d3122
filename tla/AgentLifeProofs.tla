---------------------------- MODULE AgentLifeProofs ----------------------------
(* Proofs about AgentLife, for any tokens and requests, any periods and terms, and  *)
(* any number of failing statements of the reaper; and that it keeps both leases.   *)
EXTENDS AgentLife, TLAPS

TokenRow == [issued : BOOLEAN, used : BOOLEAN, expired : BOOLEAN]
RequestRow == [step : Steps, enrolled : BOOLEAN, age : 0..MaxDelay]
InstallerRow == [step : {"none", "enrolling", "installed", "refused", "gaveUp"},
                 token : Tokens \cup {Nobody}, tries : 0..(Attempts - 1)]

\* The bounds are numbers, and the horizon is past every term.
LEMMA Bounds ==
  /\ Slack \in Nat /\ Horizon \in Nat /\ Timeout \in Nat /\ MaxDelay \in Nat
  /\ ReapEvery \in Nat /\ MaxFaults \in Nat /\ MaxTtl \in Nat
  /\ Timeout <= MaxTtl /\ MaxDelay <= ReapEvery /\ MaxDelay <= Timeout /\ ReapEvery > 0
  /\ Horizon = MaxTtl + Slack + MaxDelay + 1
  /\ \A t \in {ProcessTtl} \cup StatusTtls : t \in Nat /\ t <= MaxTtl
<1> USE ConstantsAssumption DEF ConstantsAssumption
<1>1. (1 + MaxFaults) * ReapEvery \in Nat OBVIOUS
<1>2. Slack \in Nat BY <1>1 DEF Slack
<1> QED BY <1>2 DEF Horizon

\* What failures cost so far is at most what they may cost, and the next costs one period.
LEMMA Overdues ==
  ASSUME NEW f \in Nat, f <= MaxFaults
  PROVE  /\ f * ReapEvery \in Nat /\ (f + 1) * ReapEvery = f * ReapEvery + ReapEvery
         /\ f * ReapEvery + ReapEvery + MaxDelay <= Slack
<1> USE Bounds
<1>1. f * ReapEvery \in Nat /\ (f + 1) * ReapEvery = f * ReapEvery + ReapEvery
  OBVIOUS
<1>2. f * ReapEvery <= MaxFaults * ReapEvery
  OBVIOUS
<1>3. (1 + MaxFaults) * ReapEvery = MaxFaults * ReapEvery + ReapEvery
  OBVIOUS
<1> QED BY <1>1, <1>2, <1>3 DEF Slack

LEMMA OverdueIsNumber == ASSUME TypeOK, NEW steps PROVE Overdue(steps) \in Nat
<1>1. faults \in Nat /\ faults <= MaxFaults /\ sinceReap \in Nat BY Bounds DEF TypeOK
<1>2. faults * ReapEvery \in Nat BY <1>1, Overdues
<1>3. \A c \in Nat : faults * ReapEvery + sinceReap + c \in Nat BY <1>1, <1>2
<1> QED BY <1>3, Bounds DEF Overdue

LEMMA InvariantInitially == Init => IInv
<1> SUFFICES ASSUME Init PROVE IInv
  OBVIOUS
<1> USE Bounds, ConstantsAssumption DEF Init, Exists
<1>1. TypeOK
  <2>1. /\ kind \in {"frps", "frpc"} /\ heard \in 0..Horizon /\ sinceReap \in 0..ReapEvery
        /\ faults \in 0..MaxFaults /\ row \in [status : {"pending", "online", "offline", "deleted"}, beat : 0..Horizon]
        /\ reaper \in [step : {"idle", "agents", "seen", "broken"}, age : 0..MaxDelay]
    OBVIOUS
  <2>2. seen \in [known : BOOLEAN, age : 0..Horizon, ttl : {ProcessTtl} \cup StatusTtls]
    <3>1. PICK k \in {FALSE}, a \in {0}, t \in Ttls : seen = [known |-> k, age |-> a, ttl |-> t]
      OBVIOUS
    <3>2. t \in {ProcessTtl} \cup StatusTtls BY DEF Ttls
    <3>3. 0 \in 0..Horizon OBVIOUS
    <3> HIDE DEF Init
    <3> QED BY <3>1, <3>2, <3>3
  <2>3. tokens \in [Tokens -> [issued : BOOLEAN, used : BOOLEAN, expired : BOOLEAN]] OBVIOUS
  <2>4. installer \in InstallerRow
    <3>1. 0 \in 0..(Attempts - 1) BY DEF ConstantsAssumption
    <3> QED BY <3>1 DEF NoScript, InstallerRow
  <2>5. request \in [Requests -> RequestRow]
    <3>1. 0 \in 0..MaxDelay OBVIOUS
    <3> QED BY <3>1 DEF Free, RequestRow, Steps
  <2>6. retired \in BOOLEAN OBVIOUS
  <2> HIDE DEF Init
  <2> QED BY <2>1, <2>2, <2>3, <2>4, <2>5, <2>6 DEF TypeOK, InstallerRow, RequestRow
<1>2. ~seen.known OBVIOUS
<1>3. NeverLockedOut /\ RefusedForReason /\ InstallerInv
  BY DEF NeverLockedOut, RefusedForReason, InstallerInv, NoScript, Free
<1>4. AuthorizedInv BY <1>2 DEF AuthorizedInv, Free
<1>5. ClockInv /\ LeaseInv /\ OfflineIsUnknown BY <1>2 DEF ClockInv, LeaseInv, OfflineIsUnknown
<1> QED BY <1>1, <1>3, <1>4, <1>5 DEF IInv

---------------------------------------------------------------------------
(* Enrollment.                                                             *)

\* Tokens are only ever issued, used and expired, so that nothing that was seen of them
\* is taken back.
LEMMA TokensGrow ==
  ASSUME IInv, tokens' \in [Tokens -> TokenRow], installer' \in InstallerRow,
         \A t \in Tokens : /\ tokens[t].issued => tokens'[t].issued
                           /\ tokens[t].used => tokens'[t].used
                           /\ tokens[t].expired => tokens'[t].expired,
         RefusedForReason', InstallerInv',
         UNCHANGED <<kind, status, retired, request, reaper, sinceReap, faults>>
  PROVE  IInv'
<1>0. UNCHANGED <<kind, row, heard, seen, retired, request, reaper, sinceReap, faults>>
  BY DEF status
<1>1. TypeOK' BY <1>0 DEF IInv, TypeOK, TokenRow, InstallerRow
<1>2. Enrolled => Enrolled' BY DEF Enrolled
<1>3. NeverLockedOut' BY <1>0, <1>2 DEF IInv, NeverLockedOut
<1>4. AuthorizedInv' BY <1>0, <1>2 DEF IInv, AuthorizedInv, Exists
<1>5. OfflineIsUnknown' /\ ClockInv' /\ LeaseInv'
  BY <1>0 DEF IInv, OfflineIsUnknown, ClockInv, LeaseInv, Overdue
<1> QED BY <1>1, <1>3, <1>4, <1>5 DEF IInv

LEMMA EnrollmentStep ==
  ASSUME IInv,
         \/ \E t \in Tokens : CreateEnrollment(t) \/ Expire(t) \/ RenderInstallScript(t)
         \/ ConsumeEnrollment
  PROVE  IInv'
<1>0. /\ tokens \in [Tokens -> TokenRow] /\ installer \in InstallerRow
      /\ RefusedForReason /\ InstallerInv
  BY DEF IInv, TypeOK, TokenRow, InstallerRow
<1>1. ASSUME NEW t \in Tokens, CreateEnrollment(t) PROVE IInv'
  <2>1. /\ tokens' = [tokens EXCEPT ![t].issued = TRUE]
        /\ UNCHANGED <<kind, status, retired, installer, request, reaper, sinceReap, faults>>
    BY <1>1 DEF CreateEnrollment
  <2>2. tokens[t] \in TokenRow BY <1>0
  <2>3. [tokens[t] EXCEPT !.issued = TRUE] \in TokenRow BY <2>2 DEF TokenRow
  <2>4. tokens' \in [Tokens -> TokenRow] BY <1>0, <2>1, <2>3
  <2>5. \A u \in Tokens : /\ tokens[u].issued => tokens'[u].issued
                          /\ tokens[u].used => tokens'[u].used
                          /\ tokens[u].expired => tokens'[u].expired
    BY <1>0, <2>1, <2>2 DEF TokenRow
  <2>6. RefusedForReason' /\ InstallerInv'
    BY <1>0, <2>1, <2>5 DEF RefusedForReason, InstallerInv, Exists, status
  <2> QED BY <1>0, <2>1, <2>4, <2>5, <2>6, TokensGrow
<1>2. ASSUME NEW t \in Tokens, Expire(t) PROVE IInv'
  <2>1. /\ tokens' = [tokens EXCEPT ![t].expired = TRUE]
        /\ UNCHANGED <<kind, status, retired, installer, request, reaper, sinceReap, faults>>
    BY <1>2 DEF Expire
  <2>2. tokens[t] \in TokenRow BY <1>0
  <2>3. [tokens[t] EXCEPT !.expired = TRUE] \in TokenRow BY <2>2 DEF TokenRow
  <2>4. tokens' \in [Tokens -> TokenRow] BY <1>0, <2>1, <2>3
  <2>5. \A u \in Tokens : /\ tokens[u].issued => tokens'[u].issued
                          /\ tokens[u].used => tokens'[u].used
                          /\ tokens[u].expired => tokens'[u].expired
    BY <1>0, <2>1, <2>2 DEF TokenRow
  <2>6. RefusedForReason' /\ InstallerInv'
    BY <1>0, <2>1, <2>5 DEF RefusedForReason, InstallerInv, Exists, status
  <2> QED BY <1>0, <2>1, <2>4, <2>5, <2>6, TokensGrow
<1>3. ASSUME NEW t \in Tokens, RenderInstallScript(t) PROVE IInv'
  <2>1. /\ installer' = [step |-> "enrolling", token |-> t, tries |-> 0] /\ tokens[t].issued
        /\ UNCHANGED <<kind, status, retired, tokens, request, reaper, sinceReap, faults>>
    BY <1>3 DEF RenderInstallScript
  <2>2. 0 \in 0..(Attempts - 1) BY ConstantsAssumption DEF ConstantsAssumption
  <2>3. installer' \in InstallerRow BY <2>1, <2>2 DEF InstallerRow
  <2>4. RefusedForReason' /\ InstallerInv' BY <2>1 DEF RefusedForReason, InstallerInv
  <2> QED BY <1>0, <2>1, <2>3, <2>4, TokensGrow
<1>4. CASE ConsumeEnrollment
  <2> DEFINE t == installer.token
  <2>1. /\ installer.step = "enrolling"
        /\ tokens' = IF Valid(t) THEN [tokens EXCEPT ![t].used = TRUE] ELSE tokens
        /\ UNCHANGED <<kind, status, retired, request, reaper, sinceReap, faults>>
    BY <1>4 DEF ConsumeEnrollment
  <2>2. t \in Tokens /\ tokens[t].issued /\ tokens[t] \in TokenRow BY <1>0, <2>1 DEF InstallerInv
  <2>3. [tokens[t] EXCEPT !.used = TRUE] \in TokenRow BY <2>2 DEF TokenRow
  <2> HIDE DEF t
  <2>4. tokens' \in [Tokens -> TokenRow] BY <1>0, <2>1, <2>2, <2>3
  <2>5. \A u \in Tokens : /\ tokens[u].issued => tokens'[u].issued
                          /\ tokens[u].used => tokens'[u].used
                          /\ tokens[u].expired => tokens'[u].expired
    BY <1>0, <2>1, <2>2 DEF TokenRow
  <2>6. 0 \in 0..(Attempts - 1) BY ConstantsAssumption DEF ConstantsAssumption
  <2>7. CASE installer' = [installer EXCEPT !.tries = 0, !.step = IF Valid(t) THEN "installed" ELSE "refused"]
    <3>1. /\ installer' \in InstallerRow /\ installer'.token = t
          /\ installer'.step = IF Valid(t) THEN "installed" ELSE "refused"
      BY <1>0, <2>6, <2>7 DEF InstallerRow, t
    <3>2. RefusedForReason'
      BY <2>1, <2>2, <2>5, <3>1 DEF RefusedForReason, Valid, Exists, status
    <3>3. InstallerInv' BY <2>2, <2>5, <3>1 DEF InstallerInv
    <3> QED BY <2>1, <2>4, <2>5, <3>1, <3>2, <3>3, TokensGrow
  <2>8. CASE installer' = IF LastTry THEN [NoScript EXCEPT !.step = "gaveUp"] ELSE [installer EXCEPT !.tries = @ + 1]
    <3>1. CASE LastTry
      <4>1. installer' = [step |-> "gaveUp", token |-> Nobody, tries |-> 0] BY <2>8, <3>1 DEF NoScript
      <4>2. installer' \in InstallerRow BY <4>1, <2>6 DEF InstallerRow
      <4>3. RefusedForReason' /\ InstallerInv' BY <4>1 DEF RefusedForReason, InstallerInv
      <4> QED BY <2>1, <2>4, <2>5, <4>2, <4>3, TokensGrow
    <3>2. CASE ~LastTry
      <4>1. installer' = [installer EXCEPT !.tries = @ + 1] BY <2>8, <3>2
      <4>2. installer.tries + 1 \in 0..(Attempts - 1)
        BY <1>0, <3>2, ConstantsAssumption DEF InstallerRow, LastTry, ConstantsAssumption
      <4>3. installer' \in InstallerRow /\ installer'.token = t /\ installer'.step = "enrolling"
        BY <1>0, <2>1, <4>1, <4>2 DEF InstallerRow, t
      <4>4. RefusedForReason' /\ InstallerInv' BY <2>2, <2>5, <4>3 DEF RefusedForReason, InstallerInv
      <4> QED BY <2>1, <2>4, <2>5, <4>3, <4>4, TokensGrow
    <3> QED BY <3>1, <3>2
  <2> QED BY <1>4, <2>7, <2>8 DEF ConsumeEnrollment, t
<1> QED BY <1>1, <1>2, <1>3, <1>4

\* The row goes for good, and with it what was known; who was authorized stays so.
LEMMA DeleteStep == ASSUME IInv, Delete PROVE IInv'
<1>1. /\ row' = [status |-> "deleted", beat |-> 0] /\ heard' = 0 /\ retired' = TRUE
      /\ seen' = [seen EXCEPT !.known = FALSE, !.age = 0]
      /\ UNCHANGED <<kind, tokens, installer, request, reaper, sinceReap, faults>>
  BY DEF Delete
<1>2. TypeOK /\ 0 \in 0..Horizon BY Bounds DEF IInv
<1>3. seen' \in [known : BOOLEAN, age : 0..Horizon, ttl : {ProcessTtl} \cup StatusTtls] /\ ~seen'.known
  BY <1>1, <1>2 DEF TypeOK
<1>4. TypeOK' BY <1>1, <1>2, <1>3 DEF TypeOK
<1>5. ~Exists' BY <1>1 DEF Exists
<1>6. Enrolled' = Enrolled BY <1>1 DEF Enrolled
<1>7. NeverLockedOut' /\ InstallerInv' BY <1>1, <1>6 DEF IInv, NeverLockedOut, InstallerInv
<1>8. RefusedForReason' BY <1>5 DEF RefusedForReason
<1>9. AuthorizedInv' BY <1>1, <1>3, <1>5, <1>6 DEF IInv, AuthorizedInv
<1>10. OfflineIsUnknown' BY <1>3 DEF OfflineIsUnknown
<1>11. ClockInv'
  <2>1. reaper.step \in {"agents", "seen"} => reaper.age = sinceReap BY DEF IInv, ClockInv
  <2>2. 0 <= 0 + MaxDelay BY Bounds
  <2> QED BY <1>1, <1>3, <2>1, <2>2 DEF ClockInv
<1>12. LeaseInv' BY <1>1, <1>3 DEF LeaseInv
<1> QED BY <1>4, <1>7, <1>8, <1>9, <1>10, <1>11, <1>12 DEF IInv

---------------------------------------------------------------------------
(* Requests.                                                               *)

\* What the authorization of the request q has to remember to be right.
Remembers(q) ==
  /\ q.step = "refused" => ~q.enrolled
  /\ q.enrolled => Enrolled
  /\ q.step \in {"first", "second", "handler", "heartbeat", "report"} => Enrolled
  /\ q.step = "second" => ~Exists

\* A step of one request keeps what the authorizations remember, when it remembers its
\* part and neither enrolls nor deletes anybody.
LEMMA OneRequest ==
  ASSUME IInv, NEW r \in Requests, NEW q \in RequestRow, Remembers(q),
         request' = [request EXCEPT ![r] = q],
         Exists' = Exists, retired' = retired, (~Exists => seen' = seen),
         UNCHANGED <<tokens, installer>>
  PROVE  /\ request' \in [Requests -> RequestRow]
         /\ NeverLockedOut' /\ AuthorizedInv' /\ RefusedForReason' /\ InstallerInv'
<1>1. request \in [Requests -> RequestRow] BY DEF IInv, TypeOK, RequestRow
<1>2. request' \in [Requests -> RequestRow] BY <1>1
<1>3. Enrolled' = Enrolled BY DEF Enrolled
<1>4. \A u \in Requests : request'[u] = q \/ request'[u] = request[u] BY <1>1
<1>5. NeverLockedOut' BY <1>3, <1>4 DEF IInv, NeverLockedOut, Remembers
<1>6. AuthorizedInv' BY <1>3, <1>4 DEF IInv, AuthorizedInv, Remembers
<1>7. RefusedForReason' /\ InstallerInv' BY DEF IInv, RefusedForReason, InstallerInv
<1> QED BY <1>2, <1>5, <1>6, <1>7

LEMMA ReadingStep ==
  ASSUME IInv, NEW r \in Requests, NEW q \in RequestRow, Remembers(q),
         request' = [request EXCEPT ![r] = q], Reads
  PROVE  IInv'
<1>1. UNCHANGED <<kind, row, heard, seen, retired, tokens, installer, reaper, sinceReap, faults>>
  BY DEF Reads, status, identity
<1>2. Exists' = Exists BY <1>1 DEF Exists
<1>3. /\ request' \in [Requests -> RequestRow]
      /\ NeverLockedOut' /\ AuthorizedInv' /\ RefusedForReason' /\ InstallerInv'
  BY <1>1, <1>2, OneRequest
<1>4. TypeOK' BY <1>1, <1>3 DEF IInv, TypeOK, RequestRow
<1>5. OfflineIsUnknown' /\ ClockInv' /\ LeaseInv'
  BY <1>1 DEF IInv, OfflineIsUnknown, ClockInv, LeaseInv, Overdue
<1> QED BY <1>3, <1>4, <1>5 DEF IInv

\* The steps of a request up to its handler, and its end.
LEMMA AuthorizationStep ==
  ASSUME IInv, NEW r \in Requests,
         \/ Arrive(r) \/ CheckTokens(r) \/ LookFirst(r) \/ LookSecond(r) \/ AgentRetirement(r)
         \/ Leave(r)
  PROVE  IInv'
<1>1. request \in [Requests -> RequestRow] /\ request[r] \in RequestRow
  BY DEF IInv, TypeOK, RequestRow
<1>2. 0 \in 0..MaxDelay BY Bounds
<1>3. Enrolled \in BOOLEAN BY DEF Enrolled
<1>4. Remembers(request[r]) BY DEF IInv, NeverLockedOut, AuthorizedInv, Remembers
<1>5. Free \in RequestRow /\ Remembers(Free) BY <1>2 DEF Free, RequestRow, Steps, Remembers
<1>6. \A s \in Steps : [request[r] EXCEPT !.step = s] \in RequestRow
  BY <1>1 DEF RequestRow
<1>7. ASSUME NEW s \in Steps, Goto(r, s), Remembers([request[r] EXCEPT !.step = s]), Reads PROVE IInv'
  <2>1. request' = [request EXCEPT ![r] = [request[r] EXCEPT !.step = s]] BY <1>1, <1>7 DEF Goto
  <2> QED BY <1>6, <1>7, <2>1, ReadingStep
<1>8. ASSUME Admit(r), Reads, Enrolled PROVE IInv'
  <2>1. [Free EXCEPT !.step = "handler"] \in RequestRow /\ Remembers([Free EXCEPT !.step = "handler"])
    BY <1>2, <1>8 DEF Free, RequestRow, Steps, Remembers
  <2> QED BY <1>8, <2>1, ReadingStep DEF Admit
<1>9. CASE Arrive(r)
  <2> DEFINE q == [step |-> "tokens", enrolled |-> Enrolled, age |-> 0]
  <2>1. q \in RequestRow /\ Remembers(q) BY <1>2, <1>3 DEF RequestRow, Steps, Remembers
  <2>2. request' = [request EXCEPT ![r] = q] /\ Reads BY <1>9 DEF Arrive
  <2> HIDE DEF q
  <2> QED BY <2>1, <2>2, ReadingStep
<1>10. CASE CheckTokens(r)
  <2>1. CASE Enrolled
    <3>1. Goto(r, "first") /\ Reads BY <1>10, <2>1 DEF CheckTokens
    <3>2. Remembers([request[r] EXCEPT !.step = "first"]) BY <1>1, <1>4, <2>1 DEF Remembers, RequestRow
    <3> QED BY <1>7, <3>1, <3>2 DEF Steps
  <2>2. CASE ~Enrolled
    <3>1. Goto(r, "refused") /\ Reads BY <1>10, <2>2 DEF CheckTokens
    <3>2. Remembers([request[r] EXCEPT !.step = "refused"]) BY <1>1, <1>4, <2>2 DEF Remembers, RequestRow
    <3> QED BY <1>7, <3>1, <3>2 DEF Steps
  <2> QED BY <2>1, <2>2
<1>11. CASE LookFirst(r)
  <2>1. request[r].step = "first" /\ Reads /\ Enrolled BY <1>4, <1>11 DEF LookFirst, Remembers
  <2>2. CASE Exists BY <1>8, <1>11, <2>1, <2>2 DEF LookFirst, Lookups, Found
  <2>3. CASE ~Exists
    <3>1. Goto(r, "second") BY <1>11, <2>3 DEF LookFirst, Lookups, Found
    <3>2. Remembers([request[r] EXCEPT !.step = "second"])
      BY <1>1, <1>4, <2>1, <2>3 DEF Remembers, RequestRow
    <3> QED BY <1>7, <2>1, <3>1, <3>2 DEF Steps
  <2> QED BY <2>2, <2>3
<1>12. CASE LookSecond(r)
  <2>1. request[r].step = "second" /\ Reads /\ Enrolled /\ ~Exists
    BY <1>4, <1>12 DEF LookSecond, Remembers
  <2>2. retired BY <2>1 DEF IInv, AuthorizedInv
  <2> QED BY <1>8, <1>12, <2>1, <2>2 DEF LookSecond, Lookups, Found
<1>13. CASE AgentRetirement(r)
  <2>1. request[r].step = "handler" /\ Reads /\ Enrolled BY <1>4, <1>13 DEF AgentRetirement, Remembers
  <2>2. CASE retired BY <1>5, <1>13, <2>1, <2>2, ReadingStep DEF AgentRetirement, Answer
  <2>3. CASE ~retired
    <3>1. PICK s \in {"heartbeat", "report"} : Goto(r, s) BY <1>13, <2>3 DEF AgentRetirement
    <3>2. Remembers([request[r] EXCEPT !.step = s]) BY <1>1, <1>4, <2>1 DEF Remembers, RequestRow
    <3> QED BY <1>7, <2>1, <3>1, <3>2 DEF Steps
  <2> QED BY <2>2, <2>3
<1>14. CASE Leave(r) BY <1>5, <1>14, ReadingStep DEF Leave
<1> QED BY <1>9, <1>10, <1>11, <1>12, <1>13, <1>14

\* A heartbeat is recorded with the age it has got while it waited; the last thing heard
\* is then new, and looks at most that old.
LEMMA HeartbeatStep == ASSUME IInv, NEW r \in Requests, RecordHeartbeat(r) PROVE IInv'
<1>1. /\ TypeOK /\ request[r] \in RequestRow /\ request[r].age \in 0..MaxDelay
      /\ row \in [status : {"pending", "online", "offline", "deleted"}, beat : 0..Horizon]
  BY DEF IInv, TypeOK, RequestRow
<1>2. /\ updateAgentLiveness(request[r].age) /\ request' = [request EXCEPT ![r] = Free]
      /\ UNCHANGED <<kind, seen, retired, tokens, installer, reaper, sinceReap, faults>>
  BY DEF RecordHeartbeat, Answer, identity
<1>3. 0 \in 0..MaxDelay /\ 0 \in 0..Horizon BY Bounds
<1>4. Free \in RequestRow /\ Remembers(Free) BY <1>3 DEF Free, RequestRow, Steps, Remembers
<1>5. \/ Exists /\ row' = [status |-> "online", beat |-> request[r].age] /\ heard' = 0
      \/ UNCHANGED <<row, heard>>
  BY <1>2 DEF updateAgentLiveness
<1>6. Exists' = Exists BY <1>5 DEF Exists
<1>7. /\ request' \in [Requests -> RequestRow]
      /\ NeverLockedOut' /\ AuthorizedInv' /\ RefusedForReason' /\ InstallerInv'
  BY <1>2, <1>4, <1>6, OneRequest
<1>8. request[r].age \in 0..Horizon
  <2> DEFINE a == request[r].age
  <2>1. a \in 0..MaxDelay BY <1>1
  <2> HIDE DEF a
  <2>2. a \in 0..Horizon BY <2>1, Bounds
  <2> QED BY <2>2 DEF a
<1>9. TypeOK' BY <1>1, <1>2, <1>3, <1>5, <1>7, <1>8 DEF TypeOK, RequestRow
<1>10. OfflineIsUnknown' BY <1>2, <1>5 DEF IInv, OfflineIsUnknown
<1>11. ClockInv'
  <2>1. CASE UNCHANGED <<row, heard>> BY <1>2, <2>1 DEF IInv, ClockInv
  <2>2. CASE row' = [status |-> "online", beat |-> request[r].age] /\ heard' = 0
    <3>1. request[r].age <= 0 + MaxDelay /\ 0 <= request[r].age /\ 0 <= seen.age
      BY <1>1, Bounds DEF TypeOK
    <3>2. reaper.step \in {"agents", "seen"} => reaper.age = sinceReap BY DEF IInv, ClockInv
    <3> QED BY <1>2, <2>2, <3>1, <3>2 DEF ClockInv
  <2> QED BY <1>5, <2>1, <2>2
<1>12. LeaseInv'
  <2>1. CASE UNCHANGED <<row, heard>> BY <1>2, <2>1 DEF IInv, LeaseInv, Overdue
  <2>2. CASE heard' = 0
    <3>1. Overdue({"agents"}) \in Nat BY <1>1, OverdueIsNumber
    <3>2. Overdue({"agents"})' = Overdue({"agents"}) BY <1>2 DEF Overdue
    <3>3. 0 <= Timeout + Overdue({"agents"}) BY <3>1, Bounds
    <3>4. (seen.known => seen.age <= seen.ttl + Overdue({"agents", "seen"}))'
      BY <1>2 DEF IInv, LeaseInv, Overdue
    <3> QED BY <2>2, <3>2, <3>3, <3>4 DEF LeaseInv
  <2> QED BY <1>5, <2>1, <2>2
<1> QED BY <1>7, <1>9, <1>10, <1>11, <1>12 DEF IInv

\* A report renews everything.
LEMMA StatusStep == ASSUME IInv, NEW r \in Requests, RecordStatus(r) PROVE IInv'
<1>1. /\ TypeOK /\ 0 \in 0..MaxDelay /\ 0 \in 0..Horizon
      /\ row \in [status : {"pending", "online", "offline", "deleted"}, beat : 0..Horizon]
  BY Bounds DEF IInv, TypeOK
<1>2. /\ request' = [request EXCEPT ![r] = Free]
      /\ UNCHANGED <<kind, retired, tokens, installer, reaper, sinceReap, faults>>
  BY DEF RecordStatus, Answer, identity
<1>3. Free \in RequestRow /\ Remembers(Free) BY <1>1 DEF Free, RequestRow, Steps, Remembers
<1>4. \/ /\ Exists /\ row' = [status |-> "online", beat |-> 0] /\ heard' = 0
         /\ seen' \in [known : BOOLEAN, age : {0}, ttl : Ttls] \/ UNCHANGED seen
      \/ ~Exists /\ UNCHANGED <<row, heard, seen>>
  BY DEF RecordStatus, updateAgentLiveness
<1>5. Exists' = Exists BY <1>4 DEF Exists
<1>6. /\ request' \in [Requests -> RequestRow]
      /\ NeverLockedOut' /\ AuthorizedInv' /\ RefusedForReason' /\ InstallerInv'
  BY <1>2, <1>3, <1>4, <1>5, OneRequest
<1>7. CASE ~Exists /\ UNCHANGED <<row, heard, seen>>
  <2>1. TypeOK' BY <1>1, <1>2, <1>6, <1>7 DEF TypeOK, RequestRow
  <2>2. OfflineIsUnknown' /\ ClockInv' /\ LeaseInv'
    BY <1>2, <1>7 DEF IInv, OfflineIsUnknown, ClockInv, LeaseInv, Overdue
  <2> QED BY <1>6, <2>1, <2>2 DEF IInv
<1>8. CASE /\ row' = [status |-> "online", beat |-> 0] /\ heard' = 0
           /\ seen' \in [known : BOOLEAN, age : {0}, ttl : Ttls] \/ UNCHANGED seen
  <2>1. /\ seen' \in [known : BOOLEAN, age : 0..Horizon, ttl : {ProcessTtl} \cup StatusTtls]
        /\ seen'.age = 0 \/ UNCHANGED seen
    <3>1. CASE UNCHANGED seen BY <1>1, <3>1 DEF TypeOK
    <3>2. CASE seen' \in [known : BOOLEAN, age : {0}, ttl : Ttls] BY <1>1, <3>2 DEF Ttls
    <3> QED BY <1>8, <3>1, <3>2
  <2>2. TypeOK' BY <1>1, <1>2, <1>6, <1>8, <2>1 DEF TypeOK, RequestRow
  <2>3. OfflineIsUnknown' BY <1>8 DEF OfflineIsUnknown
  <2>4. ClockInv'
    <3>1. 0 <= 0 + MaxDelay /\ 0 <= seen'.age BY <2>2, Bounds DEF TypeOK
    <3>2. reaper.step \in {"agents", "seen"} => reaper.age = sinceReap BY DEF IInv, ClockInv
    <3> QED BY <1>2, <1>8, <3>1, <3>2 DEF ClockInv
  <2>5. LeaseInv'
    <3>1. /\ Overdue({"agents"}) \in Nat /\ Overdue({"agents", "seen"}) \in Nat
          /\ UNCHANGED <<Overdue({"agents"}), Overdue({"agents", "seen"})>>
      BY <1>1, <1>2, OverdueIsNumber DEF Overdue
    <3>2. 0 <= Timeout + Overdue({"agents"}) BY <3>1, Bounds
    <3>3. seen'.known => seen'.age <= seen'.ttl + Overdue({"agents", "seen"})
      <4>1. CASE UNCHANGED seen BY <4>1 DEF IInv, LeaseInv
      <4>2. CASE seen'.age = 0
        <5>1. seen'.ttl \in Nat BY <2>1, Bounds
        <5> QED BY <3>1, <4>2, <5>1
      <4> QED BY <2>1, <4>1, <4>2
    <3> QED BY <1>8, <3>1, <3>2, <3>3 DEF LeaseInv
  <2> QED BY <1>6, <2>2, <2>3, <2>4, <2>5 DEF IInv
<1> QED BY <1>4, <1>7, <1>8

---------------------------------------------------------------------------
(* The reaper and the clock.                                               *)

\* Whatever the reaper does, no authorization depends on it.
LEMMA ReaperKeeps ==
  ASSUME IInv, UNCHANGED <<retired, tokens, installer, request>>, Exists' = Exists,
         ~Exists => ~seen'.known
  PROVE  NeverLockedOut' /\ AuthorizedInv' /\ RefusedForReason' /\ InstallerInv'
<1>1. Enrolled' = Enrolled BY DEF Enrolled
<1>2. NeverLockedOut' /\ AuthorizedInv' BY <1>1 DEF IInv, NeverLockedOut, AuthorizedInv
<1> QED BY <1>2 DEF IInv, RefusedForReason, InstallerInv

LEMMA StartPassStep == ASSUME IInv, StartPass PROVE IInv'
<1>1. /\ sinceReap >= ReapEvery /\ reaper' = [step |-> "agents", age |-> 0] /\ sinceReap' = 0
      /\ reaper.step = "idle" \/ reaper.step = "broken"
      /\ UNCHANGED <<kind, row, heard, seen, retired, tokens, installer, request, faults>>
  BY DEF StartPass, status, identity
<1>2. TypeOK /\ 0 \in 0..MaxDelay /\ 0 \in 0..ReapEvery BY Bounds DEF IInv
<1>3. TypeOK' BY <1>1, <1>2 DEF TypeOK
<1>4. Exists' = Exists /\ (~Exists => ~seen'.known) BY <1>1 DEF IInv, AuthorizedInv, Exists
<1>5. NeverLockedOut' /\ AuthorizedInv' /\ RefusedForReason' /\ InstallerInv'
  BY <1>1, <1>4, ReaperKeeps
<1>6. OfflineIsUnknown' /\ ClockInv' BY <1>1 DEF IInv, OfflineIsUnknown, ClockInv
<1>7. LeaseInv'
  <2>1. Overdue({"agents"})' = Overdue({"agents"}) /\ Overdue({"agents", "seen"})' = Overdue({"agents", "seen"})
    <3>1. sinceReap = ReapEvery BY <1>1, <1>2, Bounds DEF TypeOK
    <3>2. faults * ReapEvery \in Nat BY <1>2, Bounds, Overdues DEF TypeOK
    <3>3. faults * ReapEvery + 0 + ReapEvery = faults * ReapEvery + ReapEvery + 0 BY <3>2, Bounds
    <3> QED BY <1>1, <3>1, <3>3 DEF Overdue
  <2> QED BY <1>1, <2>1 DEF IInv, LeaseInv
<1> QED BY <1>3, <1>5, <1>6, <1>7 DEF IInv

\* The time a pass has taken is time since it began: what is kept is not overdue by more.
LEMMA KeptIsDue ==
  ASSUME IInv, reaper.step \in {"agents", "seen"}, NEW age \in Nat, NEW ttl \in Nat,
         ~Stale(age, ttl)
  PROVE  age <= ttl + (faults * ReapEvery + sinceReap)
<1>1. sinceReap \in Nat /\ reaper.age = sinceReap /\ faults \in Nat /\ faults <= MaxFaults
  BY Bounds DEF IInv, TypeOK, ClockInv
<1>2. faults * ReapEvery \in Nat BY <1>1, Overdues
<1>3. age <= ttl + sinceReap BY <1>1 DEF Stale
<1> QED BY <1>1, <1>2, <1>3

LEMMA ReapAgentsStep == ASSUME IInv, ReapAgents PROVE IInv'
<1>1. /\ reaper.step = "agents" /\ reaper' = [reaper EXCEPT !.step = "seen"]
      /\ row' = IF row.status = "online" /\ Stale(row.beat, Timeout) THEN [row EXCEPT !.status = "offline"] ELSE row
      /\ UNCHANGED <<kind, heard, seen, retired, tokens, installer, request, sinceReap, faults>>
  BY DEF ReapAgents, identity
<1>2. /\ TypeOK /\ row \in [status : {"pending", "online", "offline", "deleted"}, beat : 0..Horizon]
      /\ reaper \in [step : {"idle", "agents", "seen", "broken"}, age : 0..MaxDelay]
  BY DEF IInv, TypeOK
<1>3. /\ row' \in [status : {"pending", "online", "offline", "deleted"}, beat : 0..Horizon]
      /\ row'.beat = row.beat
      /\ \/ row'.status = row.status /\ ~(row.status = "online" /\ Stale(row.beat, Timeout))
         \/ row.status = "online" /\ row'.status = "offline" /\ Stale(row.beat, Timeout)
  BY <1>1, <1>2
<1>4. /\ reaper' \in [step : {"idle", "agents", "seen", "broken"}, age : 0..MaxDelay]
      /\ reaper'.step = "seen" /\ reaper'.age = reaper.age
  BY <1>1, <1>2
<1>5. TypeOK' BY <1>1, <1>2, <1>3, <1>4 DEF TypeOK
<1>6. Exists' = Exists /\ (~Exists => ~seen'.known) BY <1>1, <1>3 DEF IInv, AuthorizedInv, Exists
<1>7. NeverLockedOut' /\ AuthorizedInv' /\ RefusedForReason' /\ InstallerInv'
  BY <1>1, <1>6, ReaperKeeps
<1>8. OfflineIsUnknown' BY <1>4 DEF OfflineIsUnknown
<1>9. /\ row.beat \in Nat /\ heard \in Nat /\ heard <= row.beat /\ row.beat <= heard + MaxDelay
      /\ reaper.age \in Nat
  BY <1>2, Bounds DEF IInv, ClockInv, TypeOK
<1>10. ClockInv'
  <2>1. row'.status = "offline" => heard > Timeout - MaxDelay
    <3>1. Stale(row.beat, Timeout) => heard > Timeout - MaxDelay BY <1>9, Bounds DEF Stale
    <3> QED BY <1>3, <3>1 DEF IInv, ClockInv
  <2> QED BY <1>1, <1>3, <1>4, <2>1 DEF IInv, ClockInv
<1>11. LeaseInv'
  <2>1. /\ Overdue({"agents", "seen"})' = Overdue({"agents", "seen"})
        /\ Overdue({"agents"})' = faults * ReapEvery + sinceReap + 0
    BY <1>1, <1>4 DEF Overdue
  <2>2. faults * ReapEvery + sinceReap \in Nat
    <3>1. faults \in Nat /\ faults <= MaxFaults /\ sinceReap \in Nat BY <1>2, Bounds DEF TypeOK
    <3> QED BY <3>1, Overdues
  <2>3. row'.status = "online" => heard <= Timeout + (faults * ReapEvery + sinceReap)
    <3>1. row'.status = "online" => ~Stale(row.beat, Timeout) BY <1>3
    <3>2. ~Stale(row.beat, Timeout) => row.beat <= Timeout + (faults * ReapEvery + sinceReap)
      BY <1>1, <1>9, Bounds, KeptIsDue
    <3>3. row.beat <= Timeout + (faults * ReapEvery + sinceReap) => heard <= Timeout + (faults * ReapEvery + sinceReap)
      BY <1>9, <2>2, Bounds
    <3> QED BY <3>1, <3>2, <3>3
  <2>4. faults * ReapEvery + sinceReap + 0 = faults * ReapEvery + sinceReap BY <2>2
  <2> QED BY <1>1, <2>1, <2>3, <2>4 DEF IInv, LeaseInv
<1> QED BY <1>5, <1>7, <1>8, <1>10, <1>11 DEF IInv

LEMMA ReapSeenStep == ASSUME IInv, ReapSeen PROVE IInv'
<1>1. /\ reaper.step = "seen" /\ reaper' = [reaper EXCEPT !.step = "idle"]
      /\ seen' = IF seen.known /\ Outlived THEN [seen EXCEPT !.known = FALSE] ELSE seen
      /\ UNCHANGED <<kind, row, heard, retired, tokens, installer, request, sinceReap, faults>>
  BY DEF ReapSeen, identity
<1>2. /\ TypeOK /\ seen \in [known : BOOLEAN, age : 0..Horizon, ttl : {ProcessTtl} \cup StatusTtls]
      /\ reaper \in [step : {"idle", "agents", "seen", "broken"}, age : 0..MaxDelay]
  BY DEF IInv, TypeOK
<1>3. /\ seen' \in [known : BOOLEAN, age : 0..Horizon, ttl : {ProcessTtl} \cup StatusTtls]
      /\ seen'.age = seen.age /\ seen'.ttl = seen.ttl
      /\ seen'.known => seen.known /\ ~Outlived
  BY <1>1, <1>2
<1>4. /\ reaper' \in [step : {"idle", "agents", "seen", "broken"}, age : 0..MaxDelay]
      /\ reaper'.step = "idle" /\ reaper'.age = reaper.age
  BY <1>1, <1>2
<1>5. TypeOK' BY <1>1, <1>2, <1>3, <1>4 DEF TypeOK
<1>6. Exists' = Exists /\ (~Exists => ~seen'.known) BY <1>1, <1>3 DEF IInv, AuthorizedInv, Exists
<1>7. NeverLockedOut' /\ AuthorizedInv' /\ RefusedForReason' /\ InstallerInv'
  BY <1>1, <1>6, ReaperKeeps
<1>8. OfflineIsUnknown'
  <2>1. row.status = "deleted" => ~seen'.known BY <1>6 DEF Exists
  <2>2. row.status = "offline" => ~seen'.known BY <1>3 DEF Outlived
  <2> QED BY <1>1, <2>1, <2>2 DEF OfflineIsUnknown
<1>9. ClockInv' BY <1>1, <1>3, <1>4 DEF IInv, ClockInv
<1>10. LeaseInv'
  <2>1. faults * ReapEvery + sinceReap \in Nat
    <3>1. faults \in Nat /\ faults <= MaxFaults /\ sinceReap \in Nat BY <1>2, Bounds DEF TypeOK
    <3> QED BY <3>1, Overdues
  <2>2. /\ Overdue({"agents", "seen"})' = faults * ReapEvery + sinceReap + 0
        /\ Overdue({"agents"})' = Overdue({"agents"})
    BY <1>1, <1>4 DEF Overdue
  <2>3. faults * ReapEvery + sinceReap + 0 = faults * ReapEvery + sinceReap BY <2>1
  <2>4. seen.age \in Nat /\ seen.ttl \in Nat BY <1>2, Bounds
  <2>5. seen'.known => seen.age <= seen.ttl + (faults * ReapEvery + sinceReap)
    BY <1>1, <1>3, <2>4, KeptIsDue DEF Outlived
  <2> QED BY <1>1, <1>3, <2>2, <2>3, <2>5 DEF IInv, LeaseInv
<1> QED BY <1>5, <1>7, <1>8, <1>9, <1>10 DEF IInv

\* A failure costs the period that was to come anyway.
LEMMA FailReapStep == ASSUME IInv, FailReap PROVE IInv'
<1>1. /\ reaper.step \in {"agents", "seen"} /\ faults < MaxFaults /\ faults' = faults + 1
      /\ reaper' = [reaper EXCEPT !.step = IF @ = "agents" THEN "seen" ELSE "broken"]
      /\ UNCHANGED <<kind, row, heard, seen, retired, tokens, installer, request, sinceReap>>
  BY DEF FailReap, status, identity
<1>2. /\ TypeOK /\ faults \in 0..MaxFaults /\ sinceReap \in Nat
      /\ reaper \in [step : {"idle", "agents", "seen", "broken"}, age : 0..MaxDelay]
  BY Bounds DEF IInv, TypeOK
<1>3. /\ reaper' \in [step : {"idle", "agents", "seen", "broken"}, age : 0..MaxDelay]
      /\ reaper'.step = (IF reaper.step = "agents" THEN "seen" ELSE "broken")
      /\ reaper'.age = reaper.age
  BY <1>1, <1>2
<1>4. faults' \in 0..MaxFaults BY <1>1, <1>2, Bounds
<1>5. TypeOK' BY <1>1, <1>2, <1>3, <1>4 DEF TypeOK
<1>6. Exists' = Exists /\ (~Exists => ~seen'.known) BY <1>1 DEF IInv, AuthorizedInv, Exists
<1>7. NeverLockedOut' /\ AuthorizedInv' /\ RefusedForReason' /\ InstallerInv'
  BY <1>1, <1>6, ReaperKeeps
<1>8. OfflineIsUnknown' /\ ClockInv'
  BY <1>1, <1>3 DEF IInv, OfflineIsUnknown, ClockInv
<1>9. LeaseInv'
  <2> DEFINE f == faults * ReapEvery
             x == Overdue({"agents"})
             y == Overdue({"agents", "seen"})
  <2>1. f \in Nat /\ (faults + 1) * ReapEvery = f + ReapEvery BY <1>2, Bounds, Overdues
  <2>2. x \in Nat /\ y \in Nat BY <1>2, OverdueIsNumber
  <2>3. x' \in Nat /\ x <= x' /\ y' \in Nat /\ y <= y'
    <3>1. CASE reaper.step = "agents"
      <4>1. x = f + sinceReap + ReapEvery /\ y = f + sinceReap + ReapEvery BY <3>1 DEF Overdue
      <4>2. x' = f + ReapEvery + sinceReap + 0 /\ y' = f + ReapEvery + sinceReap + ReapEvery
        BY <1>1, <1>3, <2>1, <3>1 DEF Overdue
      <4> HIDE DEF f, x, y
      <4> QED BY <1>2, <2>1, <4>1, <4>2, Bounds
    <3>2. CASE reaper.step = "seen"
      <4>1. x = f + sinceReap + 0 /\ y = f + sinceReap + ReapEvery BY <3>2 DEF Overdue
      <4>2. x' = f + ReapEvery + sinceReap + 0 /\ y' = f + ReapEvery + sinceReap + 0
        BY <1>1, <1>3, <2>1, <3>2 DEF Overdue
      <4> HIDE DEF f, x, y
      <4> QED BY <1>2, <2>1, <4>1, <4>2, Bounds
    <3> QED BY <1>1, <3>1, <3>2
  <2>4. /\ row.status = "online" => heard <= Timeout + x
        /\ seen.known => seen.age <= seen.ttl + y
    BY DEF IInv, LeaseInv
  <2>5. heard \in Nat /\ seen.age \in Nat /\ seen.ttl \in Nat BY <1>2, Bounds DEF TypeOK
  <2> HIDE DEF f, x, y
  <2>6. row.status = "online" => heard <= Timeout + x'
    <3>1. \A a, d, u, v \in Nat : a <= d + u /\ u <= v => a <= d + v OBVIOUS
    <3>2. Timeout \in Nat BY Bounds
    <3> QED BY <2>2, <2>3, <2>4, <2>5, <3>1, <3>2
  <2>7. seen.known => seen.age <= seen.ttl + y' BY <2>2, <2>3, <2>4, <2>5, Bounds
  <2> QED BY <1>1, <2>6, <2>7 DEF LeaseInv, x, y
<1> QED BY <1>5, <1>7, <1>8, <1>9 DEF IInv

---------------------------------------------------------------------------
\* What a tick leaves to be done: no clock has come to the end of its bound.
LEMMA Ticking ==
  ASSUME IInv, Tick
  PROVE  /\ sinceReap < ReapEvery /\ sinceReap' = sinceReap + 1
         /\ row' = [row EXCEPT !.beat = Later(@)] /\ heard' = Later(heard)
         /\ seen' = [seen EXCEPT !.age = Later(@)]
         /\ reaper' = IF reaper.step \in {"agents", "seen"} THEN [reaper EXCEPT !.age = @ + 1] ELSE reaper
         /\ reaper.step \in {"agents", "seen"} => reaper.age < MaxDelay
         /\ \A r \in Requests : request[r].step = "heartbeat" => request[r].age < MaxDelay
         /\ request' = [r \in Requests |->
              IF request[r].step = "heartbeat" THEN [request[r] EXCEPT !.age = @ + 1] ELSE request[r]]
         /\ UNCHANGED <<kind, retired, tokens, installer, faults>>
<1>1. TypeOK /\ sinceReap \in Nat /\ reaper.step \in {"idle", "agents", "seen", "broken"} BY Bounds DEF IInv, TypeOK
<1>2. sinceReap < ReapEvery
  <2>1. CASE reaper.step \in {"idle", "broken"} BY <2>1 DEF Tick
  <2>2. CASE reaper.step \in {"agents", "seen"}
    <3>1. reaper.age < MaxDelay /\ reaper.age = sinceReap BY <2>2 DEF Tick, IInv, ClockInv
    <3> QED BY <1>1, <3>1, Bounds
  <2> QED BY <1>1, <2>1, <2>2
<1> QED BY <1>2 DEF Tick, identity

LEMMA Laters ==
  ASSUME NEW a \in 0..Horizon
  PROVE  Later(a) \in 0..Horizon /\ Later(a) \in Nat /\ a \in Nat /\ a <= Later(a) /\ Later(a) <= a + 1
BY Bounds DEF Later

\* Time passes for everybody alike.
LEMMA TickStep == ASSUME IInv, Tick PROVE IInv'
<1>1. /\ TypeOK /\ sinceReap \in Nat /\ faults \in Nat /\ faults <= MaxFaults
      /\ row \in [status : {"pending", "online", "offline", "deleted"}, beat : 0..Horizon]
      /\ heard \in 0..Horizon
      /\ seen \in [known : BOOLEAN, age : 0..Horizon, ttl : {ProcessTtl} \cup StatusTtls]
      /\ request \in [Requests -> RequestRow]
      /\ reaper \in [step : {"idle", "agents", "seen", "broken"}, age : 0..MaxDelay]
  BY Bounds DEF IInv, TypeOK, RequestRow
<1>2. /\ row' \in [status : {"pending", "online", "offline", "deleted"}, beat : 0..Horizon]
      /\ row'.status = row.status /\ row'.beat = Later(row.beat)
  <2>1. Later(row.beat) \in 0..Horizon BY <1>1, Laters
  <2> QED BY <1>1, <2>1, Ticking
<1>3. heard' = Later(heard) /\ heard' \in 0..Horizon BY <1>1, Ticking, Laters
<1>4. /\ seen' \in [known : BOOLEAN, age : 0..Horizon, ttl : {ProcessTtl} \cup StatusTtls]
      /\ seen'.known = seen.known /\ seen'.age = Later(seen.age) /\ seen'.ttl = seen.ttl
  <2>1. Later(seen.age) \in 0..Horizon BY <1>1, Laters
  <2> QED BY <1>1, <2>1, Ticking
<1>5. /\ reaper' \in [step : {"idle", "agents", "seen", "broken"}, age : 0..MaxDelay]
      /\ reaper'.step = reaper.step
      /\ reaper.step \in {"agents", "seen"} => reaper'.age = reaper.age + 1
  <2>1. CASE reaper.step \in {"agents", "seen"}
    <3>1. reaper.age \in 0..MaxDelay /\ reaper.age < MaxDelay BY <1>1, <2>1, Ticking
    <3>2. reaper.age + 1 \in 0..MaxDelay BY <3>1, Bounds
    <3> QED BY <1>1, <2>1, <3>2, Ticking
  <2>2. CASE reaper.step \notin {"agents", "seen"} BY <1>1, <2>2, Ticking
  <2> QED BY <2>1, <2>2
<1>6. ASSUME NEW r \in Requests
      PROVE  /\ request'[r] \in RequestRow
             /\ request'[r].step = request[r].step /\ request'[r].enrolled = request[r].enrolled
  <2>1. request[r] \in RequestRow BY <1>1
  <2>2. CASE request[r].step = "heartbeat"
    <3>1. request[r].age \in 0..MaxDelay /\ request[r].age < MaxDelay BY <2>1, <2>2, Ticking DEF RequestRow
    <3>2. request[r].age + 1 \in 0..MaxDelay BY <3>1, Bounds
    <3>3. request'[r] = [request[r] EXCEPT !.age = @ + 1] BY <2>2, Ticking
    <3> QED BY <2>1, <3>2, <3>3 DEF RequestRow
  <2>3. CASE request[r].step # "heartbeat" BY <2>1, <2>3, Ticking
  <2> QED BY <2>2, <2>3
<1>7. request' \in [Requests -> RequestRow]
  <2>1. DOMAIN request' = Requests /\ request' = [r \in Requests |-> request'[r]] BY Ticking
  <2> QED BY <1>6, <2>1
<1>8. sinceReap' \in 0..ReapEvery BY <1>1, Ticking, Bounds
<1>9. TypeOK' BY <1>1, <1>2, <1>3, <1>4, <1>5, <1>7, <1>8, Ticking DEF TypeOK, RequestRow
<1>10. Enrolled' = Enrolled BY Ticking DEF Enrolled
<1>11. Exists' = Exists BY <1>2 DEF Exists
<1>12. NeverLockedOut' /\ AuthorizedInv'
  BY <1>4, <1>6, <1>10, <1>11, Ticking DEF IInv, NeverLockedOut, AuthorizedInv
<1>13. RefusedForReason' /\ InstallerInv' BY <1>11, Ticking DEF IInv, RefusedForReason, InstallerInv
<1>14. OfflineIsUnknown' BY <1>2, <1>4, <1>5 DEF IInv, OfflineIsUnknown
<1>15. ClockInv'
  <2>1. heard' <= row'.beat /\ row'.beat <= heard' + MaxDelay
    <3>1. \A a, b \in 0..Horizon : a <= b /\ b <= a + MaxDelay => Later(a) <= Later(b) /\ Later(b) <= Later(a) + MaxDelay
      BY Bounds DEF Later
    <3> QED BY <1>1, <1>2, <1>3, <3>1 DEF IInv, ClockInv
  <2>2. seen'.known => heard' <= seen'.age
    <3>1. \A a, b \in 0..Horizon : a <= b => Later(a) <= Later(b) BY Bounds DEF Later
    <3> QED BY <1>1, <1>3, <1>4, <3>1 DEF IInv, ClockInv
  <2>3. row'.status = "offline" => heard' > Timeout - MaxDelay
    <3>1. heard > Timeout - MaxDelay => Later(heard) > Timeout - MaxDelay BY <1>1, Laters, Bounds
    <3> QED BY <1>2, <1>3, <3>1 DEF IInv, ClockInv
  <2>4. reaper'.step \in {"agents", "seen"} => reaper'.age = sinceReap'
    BY <1>5, Ticking DEF IInv, ClockInv
  <2> QED BY <2>1, <2>2, <2>3, <2>4 DEF ClockInv
<1>16. LeaseInv'
  <2>1. \A steps : Overdue(steps)' = Overdue(steps) + 1
    <3>1. faults * ReapEvery \in Nat BY <1>1, Overdues
    <3>2. \A c \in Nat : faults * ReapEvery + (sinceReap + 1) + c = faults * ReapEvery + sinceReap + c + 1
      BY <1>1, <3>1
    <3> QED BY <1>5, <3>2, Ticking, Bounds DEF Overdue
  <2>2. \A steps : Overdue(steps) \in Nat BY <1>1, OverdueIsNumber
  <2>3. \A a \in 0..Horizon, d, v \in Nat : a <= d + v => Later(a) <= d + (v + 1)
    BY Laters
  <2>4. row'.status = "online" => heard' <= Timeout + Overdue({"agents"})'
    BY <1>1, <1>2, <1>3, <2>1, <2>2, <2>3, Bounds DEF IInv, LeaseInv
  <2>5. seen'.known => seen'.age <= seen'.ttl + Overdue({"agents", "seen"})'
    <3>1. seen.ttl \in Nat BY <1>1, Bounds
    <3> QED BY <1>1, <1>4, <2>1, <2>2, <2>3, <3>1 DEF IInv, LeaseInv
  <2> QED BY <2>4, <2>5 DEF LeaseInv
<1> QED BY <1>9, <1>12, <1>13, <1>14, <1>15, <1>16 DEF IInv

---------------------------------------------------------------------------
(* The theorems.                                                           *)

LEMMA InvariantStep == IInv /\ [Next]_vars => IInv'
<1> SUFFICES ASSUME IInv, [Next]_vars PROVE IInv'
  OBVIOUS
<1>1. CASE UNCHANGED vars
  BY <1>1 DEF vars, IInv, TypeOK, NeverLockedOut, RefusedForReason, OfflineIsUnknown,
              AuthorizedInv, InstallerInv, ClockInv, LeaseInv, Overdue, Exists, Enrolled
<1>2. ASSUME NEW r \in Requests, Serve(r) PROVE IInv'
  BY <1>2, AuthorizationStep, HeartbeatStep, StatusStep DEF Serve
<1>3. CASE (\E t \in Tokens : CreateEnrollment(t) \/ Expire(t) \/ RenderInstallScript(t)) \/ ConsumeEnrollment
  BY <1>3, EnrollmentStep
<1> QED
  BY <1>1, <1>2, <1>3, DeleteStep, StartPassStep, ReapAgentsStep, ReapSeenStep, FailReapStep, TickStep
  DEF Next

THEOREM Invariant == Spec => []IInv
BY InvariantInitially, InvariantStep, PTL DEF Spec

\* The variables keep their types, and the clocks and counters their bounds, whatever the
\* requests, the reaper and the installer do.
THEOREM TypeCorrect == Spec => []TypeOK
<1>1. IInv => TypeOK BY DEF IInv
<1> QED BY <1>1, Invariant, PTL

\* An enrolled agent is answered however its deletion falls between the statements of
\* agentAuth, and a machine without an enrollment never reaches a handler.
THEOREM AuthorizationSound == Spec => []NeverLockedOut
<1>1. IInv => NeverLockedOut BY DEF IInv
<1> QED BY <1>1, Invariant, PTL

\* The installer is refused only for a token that has expired or a target that is gone,
\* however many replies were lost before.
THEOREM RetriesAccepted == Spec => []RefusedForReason
<1>1. IInv => RefusedForReason BY DEF IInv
<1> QED BY <1>1, Invariant, PTL

\* After a complete pass of the reaper nothing is known of what an offline agent runs.
THEOREM OfflineForgets == Spec => []OfflineIsUnknown
<1>1. IInv => OfflineIsUnknown BY DEF IInv
<1> QED BY <1>1, Invariant, PTL

---------------------------------------------------------------------------
(* The leases.                                                             *)

\* While time can pass, less than the slack is overdue.
LEMMA OverdueInTime ==
  ASSUME IInv, Tick, NEW steps \in {{"agents"}, {"agents", "seen"}}
  PROVE  Overdue(steps) \in Nat /\ Overdue(steps) < Slack
<1> DEFINE f == faults * ReapEvery
<1>1. TypeOK /\ faults \in Nat /\ faults <= MaxFaults /\ sinceReap \in Nat /\ reaper.age \in Nat
  BY Bounds DEF IInv, TypeOK
<1>2. f \in Nat /\ f + ReapEvery + MaxDelay <= Slack BY <1>1, Overdues
<1>3. sinceReap < ReapEvery BY Ticking
<1>4. CASE reaper.step \in steps
  <2>1. reaper.age = sinceReap /\ reaper.age < MaxDelay BY <1>4, Ticking DEF IInv, ClockInv
  <2>2. Overdue(steps) = f + sinceReap + ReapEvery BY <1>4 DEF Overdue
  <2> HIDE DEF f
  <2> QED BY <1>1, <1>2, <2>1, <2>2, Bounds
<1>5. CASE reaper.step \notin steps
  <2>1. Overdue(steps) = f + sinceReap + 0 BY <1>5 DEF Overdue
  <2> HIDE DEF f
  <2> QED BY <1>1, <1>2, <1>3, <2>1, Bounds
<1> QED BY <1>4, <1>5

LEMMA AgentLeaseStep == IInv /\ [Next]_vars => [AgentLease!Next]_(AgentLease!vars)
<1> SUFFICES ASSUME IInv, [Next]_vars PROVE [AgentLease!Next]_(AgentLease!vars)
  OBVIOUS
<1>1. ASSUME UNCHANGED <<row, heard>> PROVE UNCHANGED AgentLease!vars
  BY <1>1 DEF AgentLease!vars
<1>2. ASSUME NEW r \in Requests, NEW a, updateAgentLiveness(a) PROVE [AgentLease!Next]_(AgentLease!vars)
  <2>1. CASE Exists
    <3>1. row'.status = "online" /\ heard' = 0 /\ row.status # "deleted"
      BY <1>2, <2>1 DEF updateAgentLiveness, Exists
    <3>2. AgentLease!Renew BY <3>1 DEF AgentLease!Renew
    <3> QED BY <3>2 DEF AgentLease!Next
  <2>2. CASE ~Exists BY <1>1, <1>2, <2>2 DEF updateAgentLiveness
  <2> QED BY <2>1, <2>2
<1>3. ASSUME NEW r \in Requests, Serve(r) PROVE [AgentLease!Next]_(AgentLease!vars)
  <2>1. CASE RecordHeartbeat(r) BY <1>2, <2>1 DEF RecordHeartbeat
  <2>2. CASE RecordStatus(r) BY <1>2, <2>2 DEF RecordStatus
  <2>3. CASE Arrive(r) \/ CheckTokens(r) \/ LookFirst(r) \/ LookSecond(r) \/ AgentRetirement(r) \/ Leave(r)
    BY <1>1, <2>3 DEF Arrive, CheckTokens, LookFirst, LookSecond, AgentRetirement, Leave, Reads, status
  <2> QED BY <1>3, <2>1, <2>2, <2>3 DEF Serve
<1>4. CASE Delete
  <2>1. row.status # "deleted" /\ row'.status = "deleted" /\ heard' = 0 BY <1>4 DEF Delete, Exists
  <2>2. AgentLease!End BY <2>1 DEF AgentLease!End
  <2> QED BY <2>2 DEF AgentLease!Next
<1>5. CASE ReapAgents
  <2>1. CASE row.status = "online" /\ Stale(row.beat, Timeout)
    <3>1. row' = [row EXCEPT !.status = "offline"] /\ heard' = heard BY <1>5, <2>1 DEF ReapAgents
    <3>2. row'.status = "offline" BY <3>1 DEF IInv, TypeOK
    <3>3. heard > Timeout - MaxDelay
      <4>1. /\ row.beat \in Nat /\ heard \in Nat /\ row.beat <= heard + MaxDelay /\ reaper.age \in Nat
        BY Bounds DEF IInv, TypeOK, ClockInv
      <4> QED BY <2>1, <4>1, Bounds DEF Stale
    <3>4. AgentLease!Lapse BY <2>1, <3>1, <3>2, <3>3 DEF AgentLease!Lapse
    <3> QED BY <3>4 DEF AgentLease!Next
  <2>2. CASE ~(row.status = "online" /\ Stale(row.beat, Timeout)) BY <1>1, <1>5, <2>2 DEF ReapAgents
  <2> QED BY <2>1, <2>2
<1>6. CASE Tick
  <2>1. row'.status = row.status /\ heard' = (IF heard < Horizon THEN heard + 1 ELSE heard)
    BY <1>6, Ticking DEF IInv, TypeOK, Later
  <2>2. row.status = "online" => heard < Timeout + Slack
    <3>1. Overdue({"agents"}) \in Nat /\ Overdue({"agents"}) < Slack BY <1>6, OverdueInTime
    <3>2. heard \in Nat BY Bounds DEF IInv, TypeOK
    <3>3. heard <= Timeout + Overdue({"agents"}) => heard < Timeout + Slack BY <3>1, <3>2, Bounds
    <3> QED BY <3>3 DEF IInv, LeaseInv
  <2>3. AgentLease!Pass BY <2>1, <2>2 DEF AgentLease!Pass
  <2> QED BY <2>3 DEF AgentLease!Next
<1>7. CASE (\E t \in Tokens : CreateEnrollment(t) \/ Expire(t) \/ RenderInstallScript(t)) \/ ConsumeEnrollment
  BY <1>1, <1>7 DEF CreateEnrollment, Expire, RenderInstallScript, ConsumeEnrollment, status
<1>8. CASE StartPass \/ ReapSeen \/ FailReap BY <1>1, <1>8 DEF StartPass, ReapSeen, FailReap, status
<1>9. CASE UNCHANGED vars BY <1>1, <1>9 DEF vars
<1> QED BY <1>3, <1>4, <1>5, <1>6, <1>7, <1>8, <1>9 DEF Next

LEMMA SeenLeaseStep == IInv /\ [Next]_vars => [SeenLease!Next]_(SeenLease!vars)
<1> SUFFICES ASSUME IInv, [Next]_vars PROVE [SeenLease!Next]_(SeenLease!vars)
  OBVIOUS
<1>1. ASSUME UNCHANGED seen, Exists' = Exists PROVE UNCHANGED SeenLease!vars
  BY <1>1 DEF SeenLease!vars, Exists
<1>2. ASSUME NEW r \in Requests, Serve(r) PROVE [SeenLease!Next]_(SeenLease!vars)
  <2>1. CASE RecordHeartbeat(r)
    <3>1. Exists' = Exists BY <2>1 DEF RecordHeartbeat, updateAgentLiveness, Exists
    <3> QED BY <1>1, <2>1, <3>1 DEF RecordHeartbeat
  <2>2. CASE RecordStatus(r)
    <3>1. Exists' = Exists BY <2>2 DEF RecordStatus, updateAgentLiveness, Exists
    <3>2. CASE Exists /\ seen' \in [known : BOOLEAN, age : {0}, ttl : Ttls]
      <4>1. seen'.known \in BOOLEAN /\ seen'.age = 0 /\ seen'.ttl \in Ttls BY <3>2
      <4>2. seen'.ttl \in {ProcessTtl} \cup StatusTtls BY <4>1 DEF Ttls
      <4>3. (row.status = "deleted")' = (row.status = "deleted") /\ ~(row.status = "deleted")
        BY <3>1, <3>2 DEF Exists
      <4>4. SeenLease!Renew BY <4>1, <4>2, <4>3 DEF SeenLease!Renew
      <4> QED BY <4>4 DEF SeenLease!Next
    <3>3. CASE UNCHANGED seen BY <1>1, <3>1, <3>3
    <3> QED BY <2>2, <3>2, <3>3 DEF RecordStatus
  <2>3. CASE Arrive(r) \/ CheckTokens(r) \/ LookFirst(r) \/ LookSecond(r) \/ AgentRetirement(r) \/ Leave(r)
    <3>1. UNCHANGED <<row, seen>>
      BY <2>3 DEF Arrive, CheckTokens, LookFirst, LookSecond, AgentRetirement, Leave, Reads, status
    <3> QED BY <1>1, <3>1 DEF Exists
  <2> QED BY <1>2, <2>1, <2>2, <2>3 DEF Serve
<1>3. CASE Delete
  <2>1. /\ row.status # "deleted" /\ row'.status = "deleted"
        /\ seen' = [seen EXCEPT !.known = FALSE, !.age = 0]
    BY <1>3 DEF Delete, Exists
  <2>2. seen'.known = FALSE /\ seen'.age = 0 /\ seen'.ttl = seen.ttl BY <2>1 DEF IInv, TypeOK
  <2>3. SeenLease!End BY <2>1, <2>2 DEF SeenLease!End
  <2> QED BY <2>3 DEF SeenLease!Next
<1>4. CASE ReapAgents
  <2>1. row'.status = row.status \/ (row'.status = "offline" /\ row.status = "online")
    BY <1>4 DEF ReapAgents, IInv, TypeOK
  <2>2. Exists' = Exists BY <2>1 DEF Exists
  <2> QED BY <1>1, <1>4, <2>2 DEF ReapAgents
<1>5. CASE ReapSeen
  <2>1. CASE seen.known /\ Outlived
    <3>1. seen' = [seen EXCEPT !.known = FALSE] /\ row' = row /\ reaper.step = "seen"
      BY <1>5, <2>1 DEF ReapSeen
    <3>2. seen'.known = FALSE /\ seen'.age = seen.age /\ seen'.ttl = seen.ttl
      BY <3>1 DEF IInv, TypeOK
    <3>3. seen.age > seen.ttl \/ seen.age > Timeout - MaxDelay
      <4>1. /\ seen.age \in Nat /\ seen.ttl \in Nat /\ heard \in Nat /\ reaper.age \in Nat
        BY Bounds DEF IInv, TypeOK
      <4>2. CASE Stale(seen.age, seen.ttl) BY <4>1, <4>2 DEF Stale
      <4>3. CASE row.status = "offline"
        <5>1. heard > Timeout - MaxDelay /\ heard <= seen.age BY <2>1, <4>3 DEF IInv, ClockInv
        <5> QED BY <4>1, <5>1, Bounds
      <4> QED BY <2>1, <4>2, <4>3 DEF Outlived
    <3>4. SeenLease!Lapse BY <2>1, <3>1, <3>2, <3>3 DEF SeenLease!Lapse
    <3> QED BY <3>4 DEF SeenLease!Next
  <2>2. CASE ~(seen.known /\ Outlived)
    <3>1. UNCHANGED <<row, seen>> BY <1>5, <2>2 DEF ReapSeen
    <3> QED BY <1>1, <3>1 DEF Exists
  <2> QED BY <2>1, <2>2
<1>6. CASE Tick
  <2>1. /\ row'.status = row.status /\ seen'.known = seen.known /\ seen'.ttl = seen.ttl
        /\ seen'.age = (IF seen.age < Horizon THEN seen.age + 1 ELSE seen.age)
    BY <1>6, Ticking DEF IInv, TypeOK, Later
  <2>2. seen.known => seen.age < seen.ttl + Slack
    <3>1. Overdue({"agents", "seen"}) \in Nat /\ Overdue({"agents", "seen"}) < Slack BY <1>6, OverdueInTime
    <3>2. seen.age \in Nat /\ seen.ttl \in Nat BY Bounds DEF IInv, TypeOK
    <3>3. seen.age <= seen.ttl + Overdue({"agents", "seen"}) => seen.age < seen.ttl + Slack
      BY <3>1, <3>2, Bounds
    <3> QED BY <3>3 DEF IInv, LeaseInv
  <2>3. SeenLease!Pass BY <2>1, <2>2 DEF SeenLease!Pass
  <2> QED BY <2>3 DEF SeenLease!Next
<1>7. CASE (\E t \in Tokens : CreateEnrollment(t) \/ Expire(t) \/ RenderInstallScript(t)) \/ ConsumeEnrollment
  <2>1. UNCHANGED <<row, seen>>
    BY <1>7 DEF CreateEnrollment, Expire, RenderInstallScript, ConsumeEnrollment, status
  <2> QED BY <1>1, <2>1 DEF Exists
<1>8. CASE StartPass \/ FailReap
  <2>1. UNCHANGED <<row, seen>> BY <1>8 DEF StartPass, FailReap, status
  <2> QED BY <1>1, <2>1 DEF Exists
<1>9. CASE UNCHANGED vars
  <2>1. UNCHANGED <<row, seen>> BY <1>9 DEF vars
  <2> QED BY <1>1, <2>1 DEF Exists
<1> QED BY <1>2, <1>3, <1>4, <1>5, <1>6, <1>7, <1>8, <1>9 DEF Next

\* "online" and what is known of frp are kept as long as, and no longer than, Lease says,
\* whatever the terms, the reaper's period and the number of its statements that fail.
THEOREM LeasesHonoured == Spec => HonoursLeases
<1>1. Init => AgentLease!Init /\ SeenLease!Init
  <2> SUFFICES ASSUME Init PROVE AgentLease!Init /\ SeenLease!Init
    OBVIOUS
  <2>1. AgentLease!Init BY DEF Init, AgentLease!Init
  <2>2. SeenLease!Init
    <3>1. PICK k \in {FALSE}, a \in {0}, t \in Ttls : seen = [known |-> k, age |-> a, ttl |-> t]
      BY DEF Init
    <3>2. ~seen.known /\ seen.age = 0 /\ seen.ttl \in {ProcessTtl} \cup StatusTtls BY <3>1 DEF Ttls
    <3>3. row.status # "deleted" BY DEF Init
    <3> QED BY <3>2, <3>3 DEF SeenLease!Init
  <2> QED BY <2>1, <2>2
<1> QED
  BY <1>1, Invariant, AgentLeaseStep, SeenLeaseStep, PTL
  DEF Spec, HonoursLeases, AgentLease!Spec, SeenLease!Spec
=============================================================================
