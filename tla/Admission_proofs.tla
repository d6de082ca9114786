---------------------------- MODULE Admission_proofs ----------------------------
(***************************************************************************)
(* The admission of generations for any number of streams, any limit and any  *)
(* length of the queue: permits are conserved, the counters are exact, and no  *)
(* waiter is forgotten.                                                       *)
(***************************************************************************)
EXTENDS Admission, FiniteSetTheorems, TLAPS

AdmissionInv == TypeOK /\ PermitsConserved /\ CountersExact /\ NobodyForgotten

-----------------------------------------------------------------------------
(* Places and their sizes *)

Places == {"idle", "waiting", "running"}

LEMMA PlacesFinite ==
  ASSUME NEW place
  PROVE  IsFiniteSet(At(place)) /\ Cardinality(At(place)) \in Nat
<1>1. At(place) \in SUBSET Requests
  BY DEF At
<1> QED
  BY <1>1, FS_Subset, FS_CardinalityType, AdmissionAssumption

\* A stream that moves is counted at its new place and no more at its old one.
LEMMA Move ==
  ASSUME TypeOK, NEW r \in Requests, NEW from, NEW to \in Places, pc[r] = from,
         from # to, Goto(r, to)
  PROVE  /\ At(from)' = At(from) \ {r} /\ r \in At(from)
         /\ At(to)' = At(to) \cup {r} /\ r \notin At(to)
         /\ Cardinality(At(from)') = Cardinality(At(from)) - 1
         /\ Cardinality(At(to)') = Cardinality(At(to)) + 1
         /\ \A other \in Places \ {from, to} : At(other)' = At(other)
<1>1. /\ At(from)' = At(from) \ {r} /\ r \in At(from)
      /\ At(to)' = At(to) \cup {r} /\ r \notin At(to)
      /\ \A other \in Places \ {from, to} : At(other)' = At(other)
  BY DEF TypeOK, Goto, At
<1>2. Cardinality(At(from) \ {r}) = Cardinality(At(from)) - 1
  <2> HIDE DEF At
  <2> QED
    BY <1>1, PlacesFinite, FS_RemoveElement
<1>3. Cardinality(At(to) \cup {r}) = Cardinality(At(to)) + 1
  BY <1>1, PlacesFinite, FS_AddElement
<1> QED
  BY <1>1, <1>2, <1>3

\* A wake-up hands a permit over or leaves it free; none is lost.
LEMMA WakeConserves ==
  ASSUME TypeOK, NEW free \in Nat, NEW r \in Requests, WakeOne(free, r)
  PROVE  /\ value' \in Nat
         /\ granted' \subseteq At("waiting") \ {r}
         /\ value' + Cardinality(granted') = free + Cardinality(granted \ {r})
         /\ value' > 0 => (At("waiting") \ {r} \subseteq granted' \/ granted' # {})
<1> DEFINE others == At("waiting") \ (granted \cup {r})
           rest == granted \ {r}
<1>1. IsFiniteSet(rest) /\ Cardinality(rest) \in Nat
  <2>1. rest \in SUBSET At("waiting")
    BY DEF TypeOK
  <2> QED
    BY <2>1, PlacesFinite, FS_Subset, FS_CardinalityType
<1>2. CASE free > 0 /\ \E w \in others : granted' = rest \cup {w} /\ value' = free - 1
  <2>1. PICK w \in others : granted' = rest \cup {w} /\ value' = free - 1
    BY <1>2
  <2>2. w \notin rest /\ w \in At("waiting") \ {r}
    OBVIOUS
  <2>3. Cardinality(granted') = Cardinality(rest) + 1
    BY <1>1, <2>1, <2>2, FS_AddElement
  <2>4. granted' \subseteq At("waiting") \ {r} /\ granted' # {}
    BY <2>1, <2>2 DEF TypeOK
  <2> QED
    BY <1>1, <1>2, <2>1, <2>3, <2>4
<1>3. CASE (free = 0 \/ others = {}) /\ granted' = rest /\ value' = free
  <2>1. granted' \subseteq At("waiting") \ {r}
    BY <1>3 DEF TypeOK
  <2>2. value' > 0 => At("waiting") \ {r} \subseteq granted'
    BY <1>3
  <2> QED
    BY <1>3, <2>1, <2>2
<1> QED
  BY <1>2, <1>3 DEF WakeOne

-----------------------------------------------------------------------------
(* Steps *)

LEMMA GrantedFinite == TypeOK => IsFiniteSet(granted) /\ Cardinality(granted) \in Nat
BY PlacesFinite, FS_Subset, FS_CardinalityType DEF TypeOK

\* What the steps keep, from the sizes of the places.
LEMMA Sizes ==
  ASSUME AdmissionInv
  PROVE  /\ value \in Nat /\ Limit \in Nat /\ MaxQueued \in Nat
         /\ Cardinality(granted) \in Nat
         /\ Cardinality(At("running")) \in Nat /\ Cardinality(At("waiting")) \in Nat
         /\ value + Cardinality(granted) + Cardinality(At("running")) = Limit
         /\ inflight = Cardinality(At("running"))
         /\ queued = Cardinality(At("waiting"))
         /\ queued <= MaxQueued
BY PlacesFinite, GrantedFinite, AdmissionAssumption
   DEF AdmissionInv, TypeOK, PermitsConserved, CountersExact

\* The sizes are numbers after a step, too.
LEMMA NextSizes ==
  ASSUME granted' \subseteq At("waiting")'
  PROVE  /\ Cardinality(At("waiting")') \in Nat /\ Cardinality(granted') \in Nat
         /\ Cardinality(At("running")') \in Nat
<1>1. At("waiting")' \in SUBSET Requests /\ At("running")' \in SUBSET Requests
  BY DEF At
<1>2. IsFiniteSet(At("waiting")') /\ IsFiniteSet(At("running")')
  BY <1>1, FS_Subset, AdmissionAssumption
<1> QED
  BY <1>2, FS_Subset, FS_CardinalityType

LEMMA FreeKeeps ==
  ASSUME AdmissionInv, NEW r \in Requests, AcquireFree(r)
  PROVE  AdmissionInv'
<1>1. /\ At("running")' = At("running") \cup {r}
      /\ Cardinality(At("running")') = Cardinality(At("running")) + 1
      /\ At("waiting")' = At("waiting") /\ At("waiting") = {}
  BY Move DEF AdmissionInv, AcquireFree, Arrives, Locked, Places
<1>2. value > 0 /\ value' = value - 1 /\ granted' = granted
      /\ inflight' = inflight + 1 /\ queued' = queued
  BY DEF AdmissionInv, TypeOK, AcquireFree, Locked
<1>3. value' \in Nat /\ inflight' \in Nat /\ queued' \in Nat
  BY <1>2 DEF AdmissionInv, TypeOK
<1>4. TypeOK'
  BY <1>1, <1>2, <1>3 DEF AdmissionInv, TypeOK, AcquireFree, Arrives, Goto
<1>5. NobodyForgotten'
  BY <1>1 DEF NobodyForgotten
<1>6. PermitsConserved' /\ CountersExact'
  BY <1>1, <1>2, Sizes DEF PermitsConserved, CountersExact
<1> QED
  BY <1>4, <1>5, <1>6 DEF AdmissionInv

LEMMA EnqueueKeeps ==
  ASSUME AdmissionInv, NEW r \in Requests, Enqueue(r)
  PROVE  AdmissionInv'
<1>1. /\ At("waiting")' = At("waiting") \cup {r}
      /\ Cardinality(At("waiting")') = Cardinality(At("waiting")) + 1
      /\ At("running")' = At("running")
  BY Move DEF AdmissionInv, Enqueue, Arrives, Places
<1>2. /\ value' = value /\ granted' = granted /\ inflight' = inflight
      /\ queued' = queued + 1 /\ queued < MaxQueued
  BY DEF Enqueue
<1>3. TypeOK'
  BY <1>1, <1>2 DEF AdmissionInv, TypeOK, Enqueue, Arrives, Goto
<1>4. NobodyForgotten'
  BY <1>1, <1>2 DEF AdmissionInv, TypeOK, NobodyForgotten, Enqueue, Locked
<1>5. PermitsConserved' /\ CountersExact'
  BY <1>1, <1>2, Sizes DEF PermitsConserved, CountersExact
<1> QED
  BY <1>3, <1>4, <1>5 DEF AdmissionInv

LEMMA ResumeKeeps ==
  ASSUME AdmissionInv, NEW r \in Requests, Resume(r)
  PROVE  AdmissionInv'
<1>0. TypeOK /\ pc[r] = "waiting" /\ value \in Nat /\ WakeOne(value, r)
      /\ Goto(r, "running")
  BY DEF AdmissionInv, TypeOK, Resume, At
<1>1. /\ At("waiting")' = At("waiting") \ {r}
      /\ Cardinality(At("waiting")') = Cardinality(At("waiting")) - 1
      /\ Cardinality(At("running")') = Cardinality(At("running")) + 1
  BY <1>0, Move DEF Places
<1>2. /\ value' \in Nat
      /\ granted' \subseteq At("waiting")'
      /\ value' + Cardinality(granted') = value + Cardinality(granted \ {r})
      /\ value' > 0 => (At("waiting")' \subseteq granted' \/ granted' # {})
  BY <1>0, <1>1, WakeConserves
<1>3. Cardinality(granted \ {r}) = Cardinality(granted) - 1
  BY <1>0, GrantedFinite, FS_RemoveElement DEF Resume
<1>4. queued' = queued - 1 /\ inflight' = inflight + 1
  BY DEF Resume
<1>5. /\ Cardinality(At("waiting")') \in Nat /\ Cardinality(granted') \in Nat
      /\ Cardinality(At("running")') \in Nat
  BY <1>2, NextSizes
<1>6. PermitsConserved' /\ CountersExact'
  BY <1>1, <1>2, <1>3, <1>4, <1>5, Sizes DEF PermitsConserved, CountersExact
<1>7. TypeOK'
  <2>1. inflight' \in Nat /\ queued' \in Nat
    BY <1>5, <1>6 DEF CountersExact
  <2> QED
    BY <1>0, <1>2, <2>1 DEF TypeOK, Resume, Goto
<1>8. NobodyForgotten'
  BY <1>2 DEF NobodyForgotten
<1> QED
  BY <1>6, <1>7, <1>8 DEF AdmissionInv

LEMMA GiveUpKeeps ==
  ASSUME AdmissionInv, NEW r \in Requests, GiveUp(r)
  PROVE  AdmissionInv'
<1>0. TypeOK /\ pc[r] = "waiting" /\ value \in Nat /\ Goto(r, "idle")
  BY DEF AdmissionInv, TypeOK, GiveUp
<1>1. /\ At("waiting")' = At("waiting") \ {r}
      /\ Cardinality(At("waiting")') = Cardinality(At("waiting")) - 1
      /\ At("running")' = At("running")
  BY <1>0, Move DEF Places
<1>2. queued' = queued - 1 /\ inflight' = inflight
  BY DEF GiveUp
<1>3. /\ value' \in Nat
      /\ granted' \subseteq At("waiting")'
      /\ value' + Cardinality(granted') = value + Cardinality(granted)
      /\ NobodyForgotten'
  <2>1. CASE r \in granted
    <3>1. WakeOne(value + 1, r) /\ value + 1 \in Nat
      BY <1>0, <2>1 DEF GiveUp, PutBack
    <3>2. Cardinality(granted \ {r}) = Cardinality(granted) - 1
      BY <1>0, <2>1, GrantedFinite, FS_RemoveElement
    <3>3. /\ value' \in Nat
          /\ granted' \subseteq At("waiting")'
          /\ value' + Cardinality(granted') = value + 1 + Cardinality(granted \ {r})
          /\ NobodyForgotten'
      BY <1>0, <1>1, <3>1, WakeConserves DEF NobodyForgotten
    <3> QED
      BY <1>0, <3>2, <3>3, GrantedFinite
  <2>2. CASE r \notin granted
    <3>1. value' = value /\ granted' = granted
      BY <2>2 DEF GiveUp
    <3>2. granted' \subseteq At("waiting")'
      BY <1>0, <1>1, <2>2, <3>1 DEF TypeOK
    <3>3. NobodyForgotten'
      BY <1>1, <3>1 DEF AdmissionInv, NobodyForgotten
    <3> QED
      BY <1>0, <3>1, <3>2, <3>3
  <2> QED
    BY <2>1, <2>2
<1>4. /\ Cardinality(At("waiting")') \in Nat /\ Cardinality(granted') \in Nat
      /\ Cardinality(At("running")') \in Nat
  BY <1>3, NextSizes
<1>5. PermitsConserved' /\ CountersExact'
  BY <1>1, <1>2, <1>3, <1>4, Sizes DEF PermitsConserved, CountersExact
<1>6. TypeOK'
  <2>1. inflight' \in Nat /\ queued' \in Nat
    BY <1>4, <1>5 DEF CountersExact
  <2> QED
    BY <1>0, <1>3, <2>1 DEF TypeOK, GiveUp, Goto
<1> QED
  BY <1>3, <1>5, <1>6 DEF AdmissionInv

LEMMA ReleaseKeeps ==
  ASSUME AdmissionInv, NEW r \in Requests, Release(r)
  PROVE  AdmissionInv'
<1>0. TypeOK /\ pc[r] = "running" /\ value \in Nat /\ Goto(r, "idle")
  BY DEF AdmissionInv, TypeOK, Release
<1>1. /\ Cardinality(At("running")') = Cardinality(At("running")) - 1
      /\ At("waiting")' = At("waiting") /\ r \in At("running")
  BY <1>0, Move DEF Places
<1>2. inflight > 0
  <2>1. Cardinality(At("running")) # 0
    BY <1>1, PlacesFinite, FS_EmptySet
  <2> QED
    BY <2>1, Sizes
<1>3. inflight' = inflight - 1 /\ queued' = queued /\ WakeOne(value + 1, r) /\ value + 1 \in Nat
  BY <1>0, <1>2 DEF Release, PutBack
<1>4. r \notin granted /\ r \notin At("waiting")
  BY <1>0 DEF TypeOK, At
<1>5. /\ value' \in Nat
      /\ granted' \subseteq At("waiting")'
      /\ value' + Cardinality(granted') = value + 1 + Cardinality(granted)
      /\ NobodyForgotten'
  <2>1. granted \ {r} = granted /\ At("waiting") \ {r} = At("waiting")
    BY <1>4
  <2> QED
    BY <1>0, <1>1, <1>3, <2>1, WakeConserves DEF NobodyForgotten
<1>6. /\ Cardinality(At("waiting")') \in Nat /\ Cardinality(granted') \in Nat
      /\ Cardinality(At("running")') \in Nat
  BY <1>5, NextSizes
<1>7. PermitsConserved' /\ CountersExact'
  BY <1>0, <1>1, <1>3, <1>5, <1>6, Sizes DEF PermitsConserved, CountersExact
<1>8. TypeOK'
  <2>1. inflight' \in Nat /\ queued' \in Nat
    BY <1>6, <1>7 DEF CountersExact
  <2> QED
    BY <1>0, <1>5, <2>1 DEF TypeOK, Release, Goto
<1> QED
  BY <1>5, <1>7, <1>8 DEF AdmissionInv

-----------------------------------------------------------------------------
(* Theorems *)

\* The inductive invariant of the controller and its semaphore.
THEOREM AdmissionCorrect == Spec => []AdmissionInv
<1>1. Init => AdmissionInv
  <2> SUFFICES ASSUME Init PROVE AdmissionInv
    OBVIOUS
  <2>1. At("waiting") = {} /\ At("running") = {} /\ granted = {}
    BY DEF Init, At
  <2>2. Cardinality({}) = 0
    BY FS_EmptySet
  <2>3. TypeOK
    BY <2>1, AdmissionAssumption DEF Init, TypeOK
  <2> QED
    BY <2>1, <2>2, <2>3, AdmissionAssumption
       DEF Init, AdmissionInv, PermitsConserved, CountersExact, NobodyForgotten
<1>2. AdmissionInv /\ [Next]_vars => AdmissionInv'
  <2> SUFFICES ASSUME AdmissionInv, [Next]_vars PROVE AdmissionInv'
    OBVIOUS
  <2>1. ASSUME NEW r \in Requests, Shed(r) PROVE AdmissionInv'
    <3>1. At("waiting")' = At("waiting") /\ At("running")' = At("running")
      BY <2>1 DEF Shed, At
    <3> QED
      BY <2>1, <3>1 DEF AdmissionInv, TypeOK, PermitsConserved, CountersExact,
                        NobodyForgotten, Shed, Arrives
  <2>2. CASE UNCHANGED vars
    BY <2>2 DEF vars, AdmissionInv, TypeOK, PermitsConserved, CountersExact,
                NobodyForgotten, At
  <2> QED
    BY <2>1, <2>2, FreeKeeps, EnqueueKeeps, ResumeKeeps, GiveUpKeeps, ReleaseKeeps DEF Next
<1> QED
  BY <1>1, <1>2, PTL DEF Spec, SafeSpec

\* Every variable of the controller keeps its type; a permit is handed only to a
\* waiter.
THEOREM TypesCorrect == Spec => []TypeOK
BY AdmissionCorrect, PTL DEF AdmissionInv

\* However waits and streams are cut short, no slot leaks or is made up.
THEOREM PermitsCorrect == Spec => []PermitsConserved
BY AdmissionCorrect, PTL DEF AdmissionInv

\* The controller decides by true counts, and the queue keeps its bound.
THEOREM CountersCorrect == Spec => []CountersExact
BY AdmissionCorrect, PTL DEF AdmissionInv

\* No waiter is left behind beside a free permit.
THEOREM WaitersWoken == Spec => []NobodyForgotten
BY AdmissionCorrect, PTL DEF AdmissionInv
=============================================================================
