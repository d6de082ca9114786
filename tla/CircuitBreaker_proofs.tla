-------------------------- MODULE CircuitBreaker_proofs --------------------------
(***************************************************************************)
(* The breakers, for any number of threads, threshold, cool-down and number   *)
(* of attempts.  The invariant has two parts that no step mixes: one of the    *)
(* HealthTracker, kept by each of its methods, and one of the threads.         *)
(***************************************************************************)
EXTENDS CircuitBreaker, TLAPS

HealthInv ==
  /\ state \in [Models -> {"closed", "open", "half_open"}]
  /\ fails \in [Models -> 0 .. Threshold]
  /\ cooling \in [Models -> 0 .. Cooldown]
  /\ probe \in [Models -> BOOLEAN]
  /\ TrippedByFailures
  /\ ClaimedWhileHalfOpen

\* A thread that is about to call a provider has an attempt left to do so.
ThreadInv ==
  /\ pc \in [Requests -> {"idle", "asking_other", "asking_own", "calling",
                          "failed", "limited", "switching"}]
  /\ model \in [Requests -> Models]
  /\ moved \in [Requests -> BOOLEAN]
  /\ attempt \in [Requests -> 0 .. MaxAttempts]
  /\ \A r \in Requests :
       /\ pc[r] \in {"idle", "asking_other", "asking_own"} => attempt[r] = 0
       /\ pc[r] = "switching" => attempt[r] < MaxAttempts

BreakerInv == HealthInv /\ ThreadInv

\* What a thread may do to the breakers in one step: call one method, or none.
OneMethod ==
  \/ \E m \in Models : RecordSuccess(m)
  \/ \E m \in Models : RecordFailure(m)
  \/ \E m \in Models : MayAllow(m) /\ Claim(m)
  \/ UNCHANGED health

LEMMA OtherIsModel == \A m \in Models : Other(m) \in Models /\ Other(m) # m
BY DEF Models, Other

\* record_success closes the breaker, drops the claim and forgets the failures.
LEMMA SuccessKeeps ==
  ASSUME HealthInv, NEW m \in Models, RecordSuccess(m)
  PROVE  HealthInv'
BY BreakerAssumption DEF HealthInv, RecordSuccess, TrippedByFailures, ClaimedWhileHalfOpen

\* record_failure: the count and the state stay in step, and a claim ends with
\* the half-open state.
LEMMA FailureKeeps ==
  ASSUME HealthInv, NEW m \in Models, RecordFailure(m)
  PROVE  HealthInv'
<1> USE DEF HealthInv
<1>1. Counted(m) \in 0 .. Threshold /\ (fails[m] < Threshold => Counted(m) = fails[m] + 1)
        /\ (fails[m] >= Threshold => Counted(m) = Threshold)
  BY BreakerAssumption DEF Counted
<1>2. CASE Trips(m)
  <2>1. /\ state' = [state EXCEPT ![m] = "open"]
        /\ cooling' = [cooling EXCEPT ![m] = Cooldown]
        /\ fails' = [fails EXCEPT ![m] = Counted(m)]
    BY <1>2 DEF RecordFailure
  <2>2. Counted(m) = Threshold
    <3>1. CASE state[m] = "half_open"
      BY <1>1, <3>1, BreakerAssumption DEF TrippedByFailures
    <3> QED
      BY <1>2, <3>1 DEF Trips
  <2>3. probe' \in [Models -> BOOLEAN] /\ ~probe'[m]
          /\ \A n \in Models \ {m} : probe'[n] = probe[n]
    BY DEF RecordFailure, ClaimedWhileHalfOpen
  <2>4. TrippedByFailures'
    BY <2>1, <2>2, BreakerAssumption DEF TrippedByFailures
  <2>5. ClaimedWhileHalfOpen'
    BY <2>1, <2>3 DEF ClaimedWhileHalfOpen
  <2>6. state' \in [Models -> {"closed", "open", "half_open"}]
    BY <2>1
  <2>7. fails' \in [Models -> 0 .. Threshold]
    BY <1>1, <2>1
  <2>8. cooling' \in [Models -> 0 .. Cooldown]
    BY <2>1, BreakerAssumption
  <2> QED
    BY <2>3, <2>4, <2>5, <2>6, <2>7, <2>8
<1>3. CASE ~Trips(m)
  <2>1. UNCHANGED <<state, cooling, probe>> /\ fails' = [fails EXCEPT ![m] = Counted(m)]
    BY <1>3 DEF RecordFailure, Trips
  <2>2. fails[m] < Threshold /\ Counted(m) < Threshold /\ state[m] = "closed"
    BY <1>1, <1>3, BreakerAssumption DEF Trips, TrippedByFailures
  <2>3. TrippedByFailures'
    BY <2>1, <2>2 DEF TrippedByFailures
  <2>4. ClaimedWhileHalfOpen'
    BY <2>1 DEF ClaimedWhileHalfOpen
  <2> QED
    BY <1>1, <2>1, <2>3, <2>4
<1> QED
  BY <1>2, <1>3

\* allow: whoever is let through a breaker that is not closed holds its claim.
LEMMA ClaimKeeps ==
  ASSUME HealthInv, NEW m \in Models, Claim(m)
  PROVE  HealthInv'
<1>1. CASE state[m] = "closed"
  BY <1>1 DEF HealthInv, Claim, TrippedByFailures, ClaimedWhileHalfOpen
<1>2. CASE state[m] # "closed"
  BY <1>2 DEF HealthInv, Claim, TrippedByFailures, ClaimedWhileHalfOpen
<1> QED
  BY <1>1, <1>2

LEMMA MethodKeeps ==
  ASSUME HealthInv, OneMethod
  PROVE  HealthInv'
<1>1. CASE UNCHANGED health
  BY <1>1 DEF health, HealthInv, TrippedByFailures, ClaimedWhileHalfOpen
<1> QED
  BY <1>1, SuccessKeeps, FailureKeeps, ClaimKeeps DEF OneMethod

\* A thread that enters the provider keeps its record straight.
LEMMA SendKeeps ==
  ASSUME ThreadInv, NEW r \in Requests, NEW m \in Models, Send(r, m),
         attempt[r] < MaxAttempts, moved' \in [Requests -> BOOLEAN]
  PROVE  ThreadInv'
<1>1. attempt[r] + 1 \in 0 .. MaxAttempts
  BY BreakerAssumption DEF ThreadInv
<1> QED
  BY <1>1 DEF ThreadInv, Send

LEMMA LeaveKeeps ==
  ASSUME ThreadInv, NEW r \in Requests, Leave(r)
  PROVE  ThreadInv'
BY BreakerAssumption DEF ThreadInv, Leave

\* Every step of a thread keeps the breakers and its own record.
LEMMA StepKeeps == BreakerInv /\ [Next]_vars => BreakerInv'
<1> SUFFICES ASSUME BreakerInv, [Next]_vars PROVE BreakerInv'
  OBVIOUS
<1> USE DEF BreakerInv
<1>1. ASSUME NEW r \in Requests, Route(r) PROVE BreakerInv'
  <2>1. HealthInv'
    BY <1>1, MethodKeeps DEF Route, OneMethod
  <2>2. PICK m \in Preferred :
          \/ Send(r, m)
          \/ /\ pc' = [pc EXCEPT ![r] = "asking_other"]
             /\ model' = [model EXCEPT ![r] = m]
             /\ UNCHANGED attempt
    BY <1>1 DEF Route
  <2>3. m \in Models /\ pc[r] = "idle" /\ UNCHANGED moved /\ attempt[r] = 0
    BY <1>1, BreakerAssumption DEF Route, ThreadInv
  <2>4. CASE Send(r, m)
    BY <2>1, <2>3, <2>4, SendKeeps, BreakerAssumption DEF ThreadInv
  <2>5. CASE ~Send(r, m)
    <3>1. ThreadInv'
      BY <2>2, <2>3, <2>5 DEF ThreadInv
    <3> QED
      BY <2>1, <3>1
  <2> QED
    BY <2>4, <2>5
<1>2. ASSUME NEW r \in Requests, AskOther(r) PROVE BreakerInv'
  <2>1. Other(model[r]) \in Models /\ model[r] \in Models /\ attempt[r] = 0
    BY <1>2, OtherIsModel DEF AskOther, ThreadInv
  <2>2. HealthInv'
    BY <1>2, <2>1, MethodKeeps DEF AskOther, OneMethod
  <2>3. CASE Send(r, model[r])
    BY <1>2, <2>1, <2>2, <2>3, SendKeeps, BreakerAssumption DEF AskOther, ThreadInv
  <2>4. CASE ~Send(r, model[r])
    <3>1. ThreadInv'
      BY <1>2, <2>1, <2>4 DEF AskOther, ThreadInv
    <3> QED
      BY <2>2, <3>1
  <2> QED
    BY <2>3, <2>4
<1>3. ASSUME NEW r \in Requests, AskOwn(r) PROVE BreakerInv'
  <2>1. Other(model[r]) \in Models /\ model[r] \in Models /\ attempt[r] = 0
    BY <1>3, OtherIsModel DEF AskOwn, ThreadInv
  <2>2. HealthInv'
    BY <1>3, <2>1, MethodKeeps DEF AskOwn, OneMethod
  <2>3. PICK m \in Models : Send(r, m)
    BY <1>3, <2>1 DEF AskOwn
  <2> QED
    BY <1>3, <2>1, <2>2, <2>3, SendKeeps, BreakerAssumption DEF AskOwn, ThreadInv
<1>4. ASSUME NEW r \in Requests, Succeed(r) \/ EndUncounted(r) \/ GiveUp(r) PROVE BreakerInv'
  <2>1. model[r] \in Models
    BY DEF ThreadInv
  <2>2. HealthInv'
    BY <1>4, <2>1, MethodKeeps DEF Succeed, EndUncounted, GiveUp, OneMethod
  <2>3. Leave(r)
    BY <1>4 DEF Succeed, EndUncounted, GiveUp
  <2> QED
    BY <2>2, <2>3, LeaveKeeps
<1>5. ASSUME NEW r \in Requests, Fail(r) PROVE BreakerInv'
  <2>1. model[r] \in Models
    BY DEF ThreadInv
  <2>2. HealthInv'
    BY <1>5, <2>1, MethodKeeps DEF Fail, OneMethod
  <2>3. ThreadInv'
    BY <1>5 DEF Fail, ThreadInv
  <2> QED
    BY <2>2, <2>3
<1>6. ASSUME NEW r \in Requests, Retry(r) PROVE BreakerInv'
  <2>1. attempt[r] < MaxAttempts /\ model[r] \in Models /\ UNCHANGED <<health, moved>>
    BY <1>6 DEF Retry, MayRetry, ThreadInv
  <2>2. HealthInv'
    BY <2>1, MethodKeeps DEF OneMethod
  <2>3. CASE Send(r, model[r])
    BY <2>1, <2>2, <2>3, SendKeeps DEF ThreadInv
  <2>4. CASE ~Send(r, model[r])
    <3>1. ThreadInv'
      BY <1>6, <2>1, <2>4 DEF Retry, ThreadInv
    <3> QED
      BY <2>2, <3>1
  <2> QED
    BY <2>3, <2>4
<1>7. ASSUME NEW r \in Requests, Switch(r) PROVE BreakerInv'
  <2>1. Other(model[r]) \in Models /\ model[r] \in Models /\ attempt[r] < MaxAttempts
    BY <1>7, OtherIsModel DEF Switch, ThreadInv
  <2>2. HealthInv'
    BY <1>7, <2>1, MethodKeeps DEF Switch, OneMethod
  <2>3. PICK m \in Models : Send(r, m)
    BY <1>7, <2>1 DEF Switch
  <2>4. moved' \in [Requests -> BOOLEAN]
    BY <1>7 DEF Switch, ThreadInv
  <2> QED
    BY <2>1, <2>2, <2>3, <2>4, SendKeeps
<1>8. ASSUME NEW r \in Requests, SwitchLimited(r) PROVE BreakerInv'
  <2>1. Other(model[r]) \in Models /\ attempt[r] < MaxAttempts
    BY <1>8, OtherIsModel DEF SwitchLimited, ThreadInv
  <2>2. HealthInv'
    BY <1>8, <2>1, MethodKeeps DEF SwitchLimited, OneMethod
  <2>3. CASE Leave(r)
    BY <2>2, <2>3, LeaveKeeps
  <2>4. CASE ~Leave(r)
    <3>1. Send(r, Other(model[r])) /\ moved' = [moved EXCEPT ![r] = TRUE]
      BY <1>8, <2>4 DEF SwitchLimited
    <3>2. moved' \in [Requests -> BOOLEAN]
      BY <3>1 DEF ThreadInv
    <3> QED
      BY <2>1, <2>2, <3>1, <3>2, SendKeeps
  <2> QED
    BY <2>3, <2>4
<1>9. ASSUME Tick PROVE BreakerInv'
  <2>1. cooling' \in [Models -> 0 .. Cooldown]
    <3>1. \A m \in Models : (IF cooling[m] > 0 THEN cooling[m] - 1 ELSE 0) \in 0 .. Cooldown
      BY BreakerAssumption DEF HealthInv
    <3> QED
      BY <1>9, <3>1 DEF Tick
  <2>2. HealthInv'
    BY <1>9, <2>1 DEF Tick, HealthInv, TrippedByFailures, ClaimedWhileHalfOpen
  <2>3. ThreadInv'
    BY <1>9 DEF Tick, ThreadInv
  <2> QED
    BY <2>2, <2>3
<1>10. CASE UNCHANGED vars
  <2>1. HealthInv'
    BY <1>10, MethodKeeps DEF vars, OneMethod
  <2>2. ThreadInv'
    BY <1>10 DEF vars, ThreadInv
  <2> QED
    BY <2>1, <2>2
<1> QED
  BY <1>1, <1>2, <1>3, <1>4, <1>5, <1>6, <1>7, <1>8, <1>9, <1>10 DEF Next, Work

LEMMA InitHolds == Init => BreakerInv
BY BreakerAssumption DEF Init, BreakerInv, HealthInv, ThreadInv, TrippedByFailures,
   ClaimedWhileHalfOpen, Models

\* The invariant of breakers and threads holds in every behaviour.
THEOREM BreakersCorrect == SafeSpec => []BreakerInv
<1> QED
  BY InitHolds, StepKeeps, PTL DEF SafeSpec

\* Every variable of the health tracker and of its callers keeps its type.
THEOREM TypesCorrect == SafeSpec => []TypeOK
<1>1. BreakerInv => TypeOK
  BY DEF BreakerInv, HealthInv, ThreadInv, TypeOK
<1> QED
  BY <1>1, BreakersCorrect, PTL

\* A breaker is closed exactly while fewer than Threshold failures in a row have
\* been recorded, however late the results of calls come in.
THEOREM TripsCorrect == SafeSpec => []TrippedByFailures
<1>1. BreakerInv => TrippedByFailures
  BY DEF BreakerInv, HealthInv
<1> QED
  BY <1>1, BreakersCorrect, PTL

\* No result, claim or cool-down leaves a probe slot taken outside the half-open
\* state, or free in it.
THEOREM ClaimsCorrect == SafeSpec => []ClaimedWhileHalfOpen
<1>1. BreakerInv => ClaimedWhileHalfOpen
  BY DEF BreakerInv, HealthInv
<1> QED
  BY <1>1, BreakersCorrect, PTL

\* What HealthyModelPreferred says of one step of a thread.
Healthier(r) ==
  (pc[r] \in {"idle", "asking_other", "asking_own"} /\ pc'[r] = "calling"
     /\ state'[model'[r]] = "open") => state'[Other(model'[r])] # "closed"

LEMMA StepPrefersHealthy ==
  ASSUME BreakerInv, Next, NEW r \in Requests
  PROVE  Healthier(r)
<1> USE DEF BreakerInv
<1>1. model[r] \in Models /\ Other(model[r]) \in Models /\ Other(Other(model[r])) = model[r]
        /\ Other(model[r]) # model[r]
  BY DEF ThreadInv, Models, Other
<1>2. CASE Route(r)
  <2>1. PICK m \in Preferred :
          \/ state[m] = "closed" /\ Send(r, m)
          \/ pc' = [pc EXCEPT ![r] = "asking_other"]
    BY <1>2 DEF Route
  <2> QED
    BY <1>2, <2>1 DEF Route, health, Send, Healthier, ThreadInv
<1>3. CASE AskOther(r)
  <2>1. CASE ~MayAllow(Other(model[r])) /\ Send(r, model[r]) /\ UNCHANGED health
    BY <1>1, <2>1 DEF health, Send, Healthier, ThreadInv, MayAllow
  <2>2. CASE pc' = [pc EXCEPT ![r] = "asking_own"]
    BY <2>2 DEF Healthier, ThreadInv
  <2> QED
    BY <1>3, <2>1, <2>2 DEF AskOther
<1>4. CASE AskOwn(r)
  <2>1. CASE Claim(model[r]) /\ Send(r, model[r])
    BY <1>1, <2>1 DEF Claim, Send, Healthier, ThreadInv, HealthInv
  <2>2. CASE ~MayAllow(model[r]) /\ Send(r, Other(model[r])) /\ UNCHANGED health
    BY <1>1, <2>2 DEF health, Send, Healthier, ThreadInv, MayAllow
  <2> QED
    BY <1>4, <2>1, <2>2 DEF AskOwn
<1>5. CASE pc[r] \notin {"idle", "asking_other", "asking_own"} \/ pc'[r] = pc[r]
  BY <1>5 DEF Healthier
<1>6. \/ Route(r) \/ AskOther(r) \/ AskOwn(r)
      \/ pc[r] \notin {"idle", "asking_other", "asking_own"} \/ pc'[r] = pc[r]
  <2>1. CASE Tick
    BY <2>1 DEF Tick
  <2>2. ASSUME NEW q \in Requests, q # r, Route(q) \/ Work(q) PROVE pc'[r] = pc[r]
    <3> USE DEF Route, Work, AskOther, AskOwn, Succeed, Fail, EndUncounted, GiveUp, Retry,
            Switch, SwitchLimited, Send, Leave, ThreadInv
    <3>1. CASE Route(q) \/ AskOther(q) \/ AskOwn(q)
      BY <2>2, <3>1
    <3>2. CASE Succeed(q) \/ Fail(q) \/ EndUncounted(q) \/ GiveUp(q)
      BY <2>2, <3>2
    <3>3. CASE Retry(q) \/ Switch(q) \/ SwitchLimited(q)
      BY <2>2, <3>3
    <3> QED
      BY <2>2, <3>1, <3>2, <3>3
  <2>3. ASSUME Work(r), ~AskOther(r), ~AskOwn(r)
        PROVE  pc[r] \notin {"idle", "asking_other", "asking_own"}
    BY <2>3 DEF Work, Succeed, Fail, EndUncounted, GiveUp, Retry, MayRetry, Switch, SwitchLimited
  <2> QED
    BY <2>1, <2>2, <2>3 DEF Next
<1> QED
  BY <1>2, <1>3, <1>4, <1>5, <1>6

\* The router never sends a request into an open breaker beside a closed one.
THEOREM RouterPrefersHealthy == SafeSpec => HealthyModelPreferred
<1>1. BreakerInv /\ [Next]_vars => [\A r \in Requests : Healthier(r)]_vars
  BY StepPrefersHealthy
<1>2. [\A r \in Requests : Healthier(r)]_vars
        => [\A r \in Requests :
              (pc[r] \in {"idle", "asking_other", "asking_own"} /\ pc'[r] = "calling"
                 /\ state'[model'[r]] = "open") =>
                state'[Other(model'[r])] # "closed"]_vars
  BY DEF Healthier
<1> QED
  BY <1>1, <1>2, BreakersCorrect, PTL DEF SafeSpec, HealthyModelPreferred
=============================================================================
