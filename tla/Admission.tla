-------------------------------- MODULE Admission --------------------------------
(***************************************************************************)
(* The bounded admission of generations: AdmissionController over an asyncio *)
(* semaphore, as the event stream of /api/chat/stream uses it.  Tasks of one  *)
(* event loop are interleaved at their awaits; a permit is handed to a waiter *)
(* when it is released, but the waiter runs later, and may find that its time *)
(* is up or its student gone.  The semaphore serves waiters in order; here it *)
(* picks any.  The limit does not change while the server runs.               *)
(***************************************************************************)
EXTENDS Integers, FiniteSets

CONSTANTS
  Requests,   \* event streams
  Limit,      \* max_inflight_generations
  MaxQueued,  \* max_queued_generations
  MaxRounds   \* bound on the streams one request slot may carry in turn

ASSUME AdmissionAssumption ==
  /\ IsFiniteSet(Requests)
  /\ Limit \in Nat \ {0}
  /\ MaxQueued \in Nat
  /\ MaxRounds \in Nat

VARIABLES
  value,     \* free permits of the semaphore
  granted,   \* waiters a permit was handed to, not yet resumed
  inflight,  \* the controller's counters
  queued,
  pc,        \* where each stream is
  rounds     \* streams the slot has carried

vars == <<value, granted, inflight, queued, pc, rounds>>

At(place) == {r \in Requests : pc[r] = place}

Init ==
  /\ value = Limit
  /\ granted = {}
  /\ inflight = 0
  /\ queued = 0
  /\ pc = [r \in Requests |-> "idle"]
  /\ rounds = [r \in Requests |-> 0]

TypeOK ==
  /\ value \in Nat
  /\ granted \subseteq At("waiting")
  /\ inflight \in Nat
  /\ queued \in Nat
  /\ pc \in [Requests -> {"idle", "waiting", "running"}]
  /\ rounds \in [Requests -> Nat]

-----------------------------------------------------------------------------
(* asyncio.Semaphore *)

Locked == value = 0 \/ At("waiting") # {}

\* With this many free permits, one is handed to a waiter that has none, if
\* there is such a waiter; "leaving" gives up its own place.
WakeOne(free, leaving) ==
  LET others == At("waiting") \ (granted \cup {leaving})
  IN  \/ /\ free > 0
         /\ \E w \in others : granted' = (granted \ {leaving}) \cup {w}
         /\ value' = free - 1
      \/ /\ free = 0 \/ others = {}
         /\ granted' = granted \ {leaving}
         /\ value' = free

PutBack(leaving) == WakeOne(value + 1, leaving)

-----------------------------------------------------------------------------
(* AdmissionController *)

Goto(r, place) == pc' = [pc EXCEPT ![r] = place]

Arrives(r) ==
  /\ pc[r] = "idle"
  /\ rounds[r] < MaxRounds
  /\ rounds' = [rounds EXCEPT ![r] = @ + 1]

\* A free permit is taken without waiting.
AcquireFree(r) ==
  /\ Arrives(r)
  /\ ~Locked
  /\ value' = value - 1
  /\ inflight' = inflight + 1
  /\ Goto(r, "running")
  /\ UNCHANGED <<granted, queued>>

\* Otherwise the stream joins the bounded queue, or is shed at once.
Enqueue(r) ==
  /\ Arrives(r)
  /\ Locked
  /\ queued < MaxQueued
  /\ queued' = queued + 1
  /\ Goto(r, "waiting")
  /\ UNCHANGED <<value, granted, inflight>>

Shed(r) ==
  /\ Arrives(r)
  /\ Locked
  /\ queued >= MaxQueued
  /\ UNCHANGED <<value, granted, inflight, queued, pc>>

\* A waiter resumes with its permit and, if more are free, wakes the next.
Resume(r) ==
  /\ r \in granted
  /\ WakeOne(value, r)
  /\ queued' = queued - 1
  /\ inflight' = inflight + 1
  /\ Goto(r, "running")
  /\ UNCHANGED rounds

\* Mutant: a wait ends only with a permit.
GiveUpGranted(r) ==
  /\ pc[r] = "waiting"
  /\ r \in granted
  /\ PutBack(r)
  /\ queued' = queued - 1
  /\ Goto(r, "idle")
  /\ UNCHANGED <<inflight, rounds>>

\* The queue wait elapses or the student leaves: the wait is cancelled, and a
\* permit that was already handed over goes back.
GiveUp(r) ==
  /\ pc[r] = "waiting"
  /\ IF r \in granted THEN PutBack(r) ELSE UNCHANGED <<value, granted>>
  /\ queued' = queued - 1
  /\ Goto(r, "idle")
  /\ UNCHANGED <<inflight, rounds>>

\* Mutant: the permit is freed and nobody is woken.
ReleaseWakesNobody(r) ==
  /\ pc[r] = "running"
  /\ inflight' = inflight - 1
  /\ value' = value + 1
  /\ Goto(r, "idle")
  /\ UNCHANGED <<granted, queued, rounds>>

\* Mutant: the permit is also put back by the handler of the exception.
ReleaseTwice(r) ==
  /\ pc[r] = "running"
  /\ inflight' = inflight - 1
  /\ PutBack(r)
  /\ UNCHANGED <<queued, rounds, pc>>

\* The stream ends, fails or is closed: the finally of event_stream releases,
\* and release does nothing when it believes nothing is in flight.
Release(r) ==
  /\ pc[r] = "running"
  /\ IF inflight > 0
     THEN inflight' = inflight - 1 /\ PutBack(r)
     ELSE UNCHANGED <<value, granted, inflight>>
  /\ Goto(r, "idle")
  /\ UNCHANGED <<queued, rounds>>

Next ==
  \E r \in Requests :
    \/ AcquireFree(r) \/ Enqueue(r) \/ Shed(r)
    \/ Resume(r) \/ GiveUp(r) \/ Release(r)

SafeSpec == Init /\ [][Next]_vars

\* wait_for ends every wait.
Fairness == \A r \in Requests : WF_vars(Resume(r) \/ GiveUp(r))

Spec == SafeSpec /\ Fairness

-----------------------------------------------------------------------------
(* Properties *)

\* Generations really running are within the limit, and every permit is free,
\* handed over or in use: no slot leaks or is made up, however waits and
\* streams are cut short.
PermitsConserved ==
  value + Cardinality(granted) + Cardinality(At("running")) = Limit

\* No waiter is forgotten: while a permit is free, somebody who holds one is
\* about to run and to wake the next.
NobodyForgotten ==
  (value > 0 /\ ~(At("waiting") \subseteq granted)) => granted # {}

\* The counters the controller decides by are the truth.
CountersExact ==
  /\ inflight = Cardinality(At("running"))
  /\ queued = Cardinality(At("waiting"))
  /\ queued <= MaxQueued

\* Every wait ends.
EveryWaitEnds == \A r \in Requests : pc[r] = "waiting" ~> pc[r] # "waiting"
=============================================================================
