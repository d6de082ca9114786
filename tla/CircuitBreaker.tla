------------------------------ MODULE CircuitBreaker ------------------------------
(***************************************************************************)
(* The health of the two models: the breaker of HealthTracker, the health    *)
(* gate of the router (AI_ROUTER_MODE=policy) and the fallback of the         *)
(* governor (AI_MODEL_FALLBACK=on), used by requests in threads of their own. *)
(* Each HealthTracker method runs under its lock and is one step; the callers *)
(* call several of them in a row, and other threads come in between.          *)
(***************************************************************************)
EXTENDS Integers

CONSTANTS
  Requests,     \* the threads
  Preferred,    \* models the routing table chooses before the health gate
  Threshold,    \* breaker_failure_threshold
  Cooldown,     \* breaker_cooldown_seconds, in ticks
  MaxAttempts,  \* provider attempts of one request
  AllCounted    \* every provider call ends in a recorded success or failure

Models == {"general", "advanced"}

ASSUME BreakerAssumption ==
  /\ Preferred \subseteq Models
  /\ Threshold \in Nat \ {0}
  /\ Cooldown \in Nat \ {0}
  /\ MaxAttempts \in Nat \ {0}
  /\ AllCounted \in BOOLEAN

VARIABLES
  state,    \* breaker of each model
  fails,    \* consecutive failures, counted up to Threshold
  cooling,  \* ticks until an open breaker may be probed
  probe,    \* probe_in_flight
  pc,       \* where each thread is
  model,    \* the model it wants or uses
  moved,    \* it has fallen back already
  attempt   \* its provider attempts

health == <<state, fails, cooling, probe>>
vars == <<health, pc, model, moved, attempt>>

Other(m) == IF m = "general" THEN "advanced" ELSE "general"

Init ==
  /\ state = [m \in Models |-> "closed"]
  /\ fails = [m \in Models |-> 0]
  /\ cooling = [m \in Models |-> 0]
  /\ probe = [m \in Models |-> FALSE]
  /\ pc = [r \in Requests |-> "idle"]
  /\ model = [r \in Requests |-> "general"]
  /\ moved = [r \in Requests |-> FALSE]
  /\ attempt = [r \in Requests |-> 0]

TypeOK ==
  /\ state \in [Models -> {"closed", "open", "half_open"}]
  /\ fails \in [Models -> 0 .. Threshold]
  /\ cooling \in [Models -> 0 .. Cooldown]
  /\ probe \in [Models -> BOOLEAN]
  /\ pc \in [Requests -> {"idle", "asking_other", "asking_own", "calling",
                          "failed", "limited", "switching"}]
  /\ model \in [Requests -> Models]
  /\ moved \in [Requests -> BOOLEAN]
  /\ attempt \in [Requests -> 0 .. MaxAttempts]

-----------------------------------------------------------------------------
(* HealthTracker *)

\* Mutant: a success closes the breaker and keeps the count.
SuccessKeepsCount(m) ==
  /\ state' = [state EXCEPT ![m] = "closed"]
  /\ probe' = [probe EXCEPT ![m] = FALSE]
  /\ UNCHANGED <<fails, cooling>>

RecordSuccess(m) ==
  /\ fails' = [fails EXCEPT ![m] = 0]
  /\ state' = [state EXCEPT ![m] = "closed"]
  /\ probe' = [probe EXCEPT ![m] = FALSE]
  /\ UNCHANGED cooling

Counted(m) == IF fails[m] < Threshold THEN fails[m] + 1 ELSE Threshold

Trips(m) == state[m] = "half_open" \/ Counted(m) = Threshold

\* A failure of a half-open breaker reopens it; so does the Threshold-th in a
\* row of any other, and every later one restarts the cool-down.
RecordFailure(m) ==
  /\ fails' = [fails EXCEPT ![m] = Counted(m)]
  /\ IF Trips(m)
     THEN /\ state' = [state EXCEPT ![m] = "open"]
          /\ cooling' = [cooling EXCEPT ![m] = Cooldown]
     ELSE UNCHANGED <<state, cooling>>
  /\ probe' = IF state[m] = "half_open" THEN [probe EXCEPT ![m] = FALSE] ELSE probe

\* allow answers yes: closed, or cooled down or unclaimed, which takes the probe.
MayAllow(m) ==
  \/ state[m] = "closed"
  \/ state[m] = "open" /\ cooling[m] = 0
  \/ state[m] = "half_open" /\ ~probe[m]

Claim(m) ==
  /\ state' = [state EXCEPT ![m] = IF @ = "closed" THEN @ ELSE "half_open"]
  /\ probe' = [probe EXCEPT ![m] = state[m] # "closed"]
  /\ UNCHANGED <<fails, cooling>>

-----------------------------------------------------------------------------
(* The router *)

\* The request leaves the router for the provider.
Send(r, m) ==
  /\ pc' = [pc EXCEPT ![r] = "calling"]
  /\ model' = [model EXCEPT ![r] = m]
  /\ attempt' = [attempt EXCEPT ![r] = @ + 1]

\* A request arrives and the router looks at the breaker of its model.
Route(r) ==
  /\ pc[r] = "idle"
  /\ \E m \in Preferred :
       \/ state[m] = "closed" /\ Send(r, m)
       \/ /\ state[m] # "closed"
          /\ pc' = [pc EXCEPT ![r] = "asking_other"]
          /\ model' = [model EXCEPT ![r] = m]
          /\ UNCHANGED attempt
  /\ UNCHANGED <<health, moved>>

\* Mutant: the answers of the other model are taken the wrong way round.
AskOtherInverted(r) ==
  /\ pc[r] = "asking_other"
  /\ \/ /\ ~MayAllow(Other(model[r]))
        /\ pc' = [pc EXCEPT ![r] = "asking_own"]
        /\ UNCHANGED <<health, model, attempt>>
     \/ /\ MayAllow(Other(model[r]))
        /\ Claim(Other(model[r]))
        /\ Send(r, model[r])
  /\ UNCHANGED moved

\* allow(other) comes first, and takes the other model's probe if there is one;
\* if it is refused the request stays with its model, breaker or not.
AskOther(r) ==
  /\ pc[r] = "asking_other"
  /\ \/ /\ MayAllow(Other(model[r]))
        /\ Claim(Other(model[r]))
        /\ pc' = [pc EXCEPT ![r] = "asking_own"]
        /\ UNCHANGED <<model, attempt>>
     \/ /\ ~MayAllow(Other(model[r]))
        /\ Send(r, model[r])
        /\ UNCHANGED health
  /\ UNCHANGED moved

\* allow(spec): if it answers yes after all, the request stays with its model
\* and whatever it claimed of the other is not given back.
AskOwn(r) ==
  /\ pc[r] = "asking_own"
  /\ \/ /\ MayAllow(model[r])
        /\ Claim(model[r])
        /\ Send(r, model[r])
     \/ /\ ~MayAllow(model[r])
        /\ Send(r, Other(model[r]))
        /\ UNCHANGED health
  /\ UNCHANGED moved

-----------------------------------------------------------------------------
(* The attempts *)

Leave(r) ==
  /\ pc' = [pc EXCEPT ![r] = "idle"]
  /\ moved' = [moved EXCEPT ![r] = FALSE]
  /\ attempt' = [attempt EXCEPT ![r] = 0]
  /\ UNCHANGED model

Succeed(r) ==
  /\ pc[r] = "calling"
  /\ RecordSuccess(model[r])
  /\ Leave(r)

\* A failure that counts for health; a 429 goes another way than the others.
Fail(r) ==
  /\ pc[r] = "calling"
  /\ RecordFailure(model[r])
  /\ \E next \in {"failed", "limited"} : pc' = [pc EXCEPT ![r] = next]
  /\ UNCHANGED <<model, moved, attempt>>

\* An empty, blocked or cut-off answer, a bad request or key, a student who
\* leaves: nothing is recorded.
EndUncounted(r) ==
  /\ ~AllCounted
  /\ pc[r] = "calling"
  /\ Leave(r)
  /\ UNCHANGED health

\* No retry is left, allowed or in order, or text has been shown.
GiveUp(r) ==
  /\ pc[r] \in {"failed", "limited"}
  /\ Leave(r)
  /\ UNCHANGED health

MayRetry(r) == pc[r] = "failed" /\ attempt[r] < MaxAttempts

\* A retry goes to the same model without asking its breaker, unless that is
\* open and the request has not moved yet; after a conflict it does not look.
Retry(r) ==
  /\ MayRetry(r)
  /\ \/ /\ state[model[r]] = "open" /\ ~moved[r]
        /\ pc' = [pc EXCEPT ![r] = "switching"]
        /\ UNCHANGED <<model, attempt>>
     \/ Send(r, model[r])
  /\ UNCHANGED <<health, moved>>

\* maybe_switch_model
Switch(r) ==
  /\ pc[r] = "switching"
  /\ \/ /\ MayAllow(Other(model[r]))
        /\ Claim(Other(model[r]))
        /\ moved' = [moved EXCEPT ![r] = TRUE]
        /\ Send(r, Other(model[r]))
     \/ /\ ~MayAllow(Other(model[r]))
        /\ Send(r, model[r])
        /\ UNCHANGED <<health, moved>>

\* After a 429 the switch is asked for first and the retry second: a retry the
\* budget refuses leaves the claim behind.
SwitchLimited(r) ==
  /\ pc[r] = "limited"
  /\ attempt[r] < MaxAttempts
  /\ ~moved[r]
  /\ MayAllow(Other(model[r]))
  /\ Claim(Other(model[r]))
  /\ \/ Send(r, Other(model[r])) /\ moved' = [moved EXCEPT ![r] = TRUE]
     \/ ~AllCounted /\ Leave(r)

Tick ==
  /\ \E m \in Models : cooling[m] > 0
  /\ cooling' = [m \in Models |-> IF cooling[m] > 0 THEN cooling[m] - 1 ELSE 0]
  /\ UNCHANGED <<state, fails, probe, pc, model, moved, attempt>>

Work(r) ==
  \/ AskOther(r) \/ AskOwn(r)
  \/ Succeed(r) \/ Fail(r) \/ EndUncounted(r)
  \/ GiveUp(r) \/ Retry(r) \/ Switch(r) \/ SwitchLimited(r)

Next ==
  \/ \E r \in Requests : Route(r) \/ Work(r)
  \/ Tick

SafeSpec == Init /\ [][Next]_vars

\* Every thread that has begun a request goes on with it: provider calls end.
Fairness == WF_vars(Tick) /\ \A r \in Requests : WF_vars(Work(r))

Spec == SafeSpec /\ Fairness

\* Requests keep coming as well.
BusySpec == Spec /\ \A r \in Requests : WF_vars(Route(r))

-----------------------------------------------------------------------------
(* Properties *)

\* A breaker is tripped exactly while Threshold failures in a row have been
\* recorded since the last success, whatever order late results come in.
TrippedByFailures ==
  \A m \in Models : state[m] = "closed" <=> fails[m] < Threshold

\* The probe slot is taken exactly while the breaker is half open: it is never
\* carried into another state by a result that comes in late.
ClaimedWhileHalfOpen ==
  \A m \in Models : probe[m] <=> state[m] = "half_open"

\* The router never sends a request into an open breaker while the breaker of
\* the other model is closed, though it reads the two at different moments.
HealthyModelPreferred ==
  [][\A r \in Requests :
       (pc[r] \in {"idle", "asking_other", "asking_own"} /\ pc'[r] = "calling"
          /\ state'[model'[r]] = "open") =>
         state'[Other(model'[r])] # "closed"]_vars

\* A half-open breaker is closed or reopened by the result of its probe: the
\* model is not shut out for ever.
ProbeIsAnswered ==
  \A m \in Preferred : state[m] = "half_open" ~> state[m] # "half_open"
=============================================================================
