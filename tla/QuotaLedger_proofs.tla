-------------------------- MODULE QuotaLedger_proofs --------------------------
(***************************************************************************)
(* Proofs about the quota ledger, for every set of users, meters, request   *)
(* ids and connections, every plan table and every cap.                     *)
(***************************************************************************)
EXTENDS QuotaLedger, FiniteSetTheorems, TLAPS

\* Days and weeks are natural numbers.
LEMMA KeyType ==
  ASSUME NEW t \in Nat, NEW p \in Periods PROVE KeyAt(p, t) \in Keys
<1>1. DayOf(t) \in Nat
  BY PlanAssumption DEF PlanAssumption, DayOf
<1>2. DayOf(t) \div WeekDays \in Nat
  BY <1>1, PlanAssumption DEF PlanAssumption
<1> QED BY <1>1, <1>2 DEF KeyAt, Keys

\* Every step keeps the types (consume_quota, refund_quota and the environment).
LEMMA StepKeepsTypes == TypeOK /\ [Next]_vars => TypeOK'
<1> SUFFICES ASSUME TypeOK, [Next]_vars PROVE TypeOK'
  OBVIOUS
<1> USE PlanAssumption, LedgerAssumption DEF TypeOK, Locked, Replies
<1>1. ASSUME NEW s \in Sessions, NEW c \in Call, Begin(s, c) PROVE TypeOK'
  BY <1>1 DEF Begin
<1>2. ASSUME NEW s \in Sessions, TakeLock(s) PROVE TypeOK'
  BY <1>2 DEF TakeLock
<1>3. ASSUME NEW s \in Sessions, ReadPlan(s) PROVE TypeOK'
  <2> DEFINE c == call[s]
             p == PlanAt(subs, c.user, began[s])
             row == Limits[<<p, c.kind>>]
  <2>1. c \in Call /\ c.user \in Users /\ began[s] \in Nat
    BY <1>3 DEF ReadPlan, Call
  <2>2. row \in LimitRow
    BY <1>3 DEF ReadPlan, PlanAssumption
  <2>3. row.period \in Periods /\ row.count \in Nat /\ row.first \in Nat
    BY <2>2 DEF LimitRow
  <2>4. KeyAt(row.period, began[s]) \in Keys
    BY <2>1, <2>3, KeyType
  <2>5. LimitAt(row, c.user, began[s]) \in Nat
    BY <2>3 DEF LimitAt
  <2> HIDE DEF c, p, row
  <2> QED BY <1>3, <2>1, <2>4, <2>5 DEF ReadPlan, c, p, row
<1>4. ASSUME NEW s \in Sessions, Accept(s) PROVE TypeOK'
  BY <1>4 DEF Accept
<1>5. ASSUME NEW s \in Sessions, NEW a \in Replies, Finish(s, a), ledger' \subseteq Row PROVE TypeOK'
  BY <1>5 DEF Finish, NoMeter, Keys, Periods
<1>6. ASSUME NEW s \in Sessions, Insert(s) PROVE TypeOK'
  <2>1. NewRow(s) \in Row
    BY <1>6 DEF Insert, NewRow, Row, Call
  <2> QED BY <1>6, <1>5, <2>1 DEF Insert
<1>7. ASSUME NEW s \in Sessions, Refund(s) PROVE TypeOK'
  <2>1. \A r \in Refundable(call[s]) : [r EXCEPT !.refunded = TRUE] \in Row
    BY DEF Refundable, RequestRows, Row
  <2> QED BY <1>7, <1>5, <2>1 DEF Refund
<1>8. ASSUME NEW u \in Users, Activate(u, DayTicks) PROVE TypeOK'
  <2> PICK starts \in {clock} \cup {x.expires : x \in {x \in subs : x.user = u /\ x.expires > clock}} :
           subs' = subs \cup {[user |-> u, starts |-> starts, expires |-> starts + DayTicks]}
    BY <1>8 DEF Activate
  <2>1. starts \in Nat
    BY DEF Subscription
  <2>2. [user |-> u, starts |-> starts, expires |-> starts + DayTicks] \in Subscription
    BY <2>1 DEF Subscription, PlanAssumption
  <2> QED BY <1>8, <2>2 DEF Activate
<1>9. ASSUME Tick PROVE TypeOK'
  BY <1>9 DEF Tick
<1> QED
  BY <1>1, <1>2, <1>3, <1>4, <1>5, <1>6, <1>7, <1>8, <1>9
     DEF Next, Step, vars, PlanMissing, Replay, Deny, RefundRefused, Abort

-----------------------------------------------------------------------------
(* Facts about the ledger's sets *)

\* A set with one more element is at most one larger.
LEMMA OneMore ==
  ASSUME NEW S, IsFiniteSet(S), NEW x, NEW T, T \subseteq S \cup {x}
  PROVE  IsFiniteSet(T) /\ Cardinality(T) <= Cardinality(S) + 1
<1>1. Cardinality(S) \in Nat
  BY FS_CardinalityType
<1>2. IsFiniteSet(S \cup {x})
  BY FS_AddElement
<1>3. Cardinality(S \cup {x}) = IF x \in S THEN Cardinality(S) ELSE Cardinality(S) + 1
  BY FS_AddElement
<1>4. Cardinality(S \cup {x}) <= Cardinality(S) + 1
  BY <1>1, <1>3
<1>5. IsFiniteSet(T) /\ Cardinality(T) <= Cardinality(S \cup {x})
  BY <1>2, FS_Subset
<1>6. Cardinality(T) \in Nat /\ Cardinality(S \cup {x}) \in Nat
  BY <1>2, <1>5, FS_CardinalityType
<1> QED BY <1>1, <1>4, <1>5, <1>6

\* A set that misses an element is smaller.
LEMMA OneFewer ==
  ASSUME NEW S, IsFiniteSet(S), NEW x \in S, NEW T, T \subseteq S \ {x}
  PROVE  IsFiniteSet(T) /\ Cardinality(T) <= Cardinality(S) - 1
<1>1. IsFiniteSet(S \ {x})
  BY FS_RemoveElement
<1>2. Cardinality(S \ {x}) = Cardinality(S) - 1
  BY FS_RemoveElement
<1> QED BY <1>1, <1>2, FS_Subset

\* Replacing one element does not enlarge a set.
LEMMA SwapOne ==
  ASSUME NEW S, IsFiniteSet(S), NEW x \in S, NEW y, NEW T,
         T \subseteq (S \ {x}) \cup {y}
  PROVE  Cardinality(T) <= Cardinality(S)
<1>1. IsFiniteSet(S \ {x}) /\ Cardinality(S \ {x}) <= Cardinality(S) - 1
  BY OneFewer
<1>2. IsFiniteSet(T) /\ Cardinality(T) <= Cardinality(S \ {x}) + 1
  BY <1>1, OneMore
<1>3. /\ Cardinality(S) \in Nat /\ Cardinality(T) \in Nat
      /\ Cardinality(S \ {x}) \in Nat
  BY <1>1, <1>2, FS_CardinalityType
<1> QED BY <1>1, <1>2, <1>3

\* The rows a count ranges over are finitely many when the ledger is.
LEMMA CountsAreNat ==
  ASSUME IsFiniteSet(ledger)
  PROVE  /\ \A u, k, key : /\ IsFiniteSet(Counted(ledger, u, k, key))
                           /\ Cardinality(Counted(ledger, u, k, key)) \in Nat
         /\ \A u, t : /\ IsFiniteSet(Recent(u, t))
                      /\ Cardinality(Recent(u, t)) \in Nat
<1>1. \A u, k, key : Counted(ledger, u, k, key) \subseteq ledger
  BY DEF Counted
<1>2. \A u, t : Recent(u, t) \subseteq ledger
  BY DEF Recent
<1> QED BY <1>1, <1>2, FS_Subset, FS_CardinalityType

\* The kinds of one student being inserted are some of the kinds.
LEMMA InsertingKindsBounded ==
  ASSUME TypeOK, NEW u \in Users
  PROVE  /\ InsertingKinds(u) \subseteq Kinds
         /\ IsFiniteSet(InsertingKinds(u))
         /\ Cardinality(InsertingKinds(u)) \in Nat
         /\ Cardinality(Kinds) \in Nat
         /\ Cardinality(InsertingKinds(u)) <= Cardinality(Kinds)
<1>1. InsertingKinds(u) \subseteq Kinds
  BY DEF InsertingKinds, TypeOK, Call
<1> QED BY <1>1, PlanAssumption, FS_Subset, FS_CardinalityType DEF PlanAssumption

\* A transaction under way has a call of the right type.
LEMMA CallFields ==
  ASSUME TypeOK, NEW s \in Sessions, pc[s] # "idle"
  PROVE  /\ call[s].user \in Users
         /\ call[s].kind \in Kinds
         /\ call[s].op \in {"consume", "refund"}
         /\ call[s].tok \in Tokens \cup {NoToken}
         /\ call[s].req \in RequestIds
BY DEF TypeOK, Call

\* A step that ends a call and writes nothing.
ReadOnlyEnd(s) == /\ pc[s] # "idle"
                  /\ \E a \in Replies : Finish(s, a)
                  /\ UNCHANGED ledger

\* What a step does to the ledger and the subscriptions: only two steps write
\* the ledger, and subscriptions are only added.
LEMMA WhatStepsWrite ==
  ASSUME TypeOK, Next
  PROVE  \/ \E s \in Sessions :
              \/ \E c \in Call : Begin(s, c)
              \/ TakeLock(s)
              \/ ReadPlan(s)
              \/ Accept(s)
              \/ Insert(s)
              \/ Refund(s)
              \/ ReadOnlyEnd(s)
         \/ \E u \in Users : Activate(u, DayTicks)
         \/ Tick
<1>1. ASSUME NEW s \in Sessions,
             PlanMissing(s) \/ Replay(s) \/ Deny(s) \/ RefundRefused(s) \/ Abort(s)
      PROVE  ReadOnlyEnd(s)
  BY <1>1 DEF ReadOnlyEnd, PlanMissing, Replay, Deny, RefundRefused, Abort, Replies
<1> QED BY <1>1 DEF Next, Step

-----------------------------------------------------------------------------
(* Each part of the inductive invariant is kept *)

\* The advisory lock stays exclusive: it is taken only when free, and a
\* transaction keeps its call while it holds it.
LEMMA KeepsLockExclusive ==
  ASSUME TypeOK, LockExclusive, Next
  PROVE  LockExclusive'
<1> USE DEF LockExclusive, SameLock, Locked, TypeOK
<1>1. ASSUME NEW s \in Sessions, NEW c \in Call, Begin(s, c) PROVE LockExclusive'
  BY <1>1 DEF Begin
<1>2. ASSUME NEW s \in Sessions, TakeLock(s) PROVE LockExclusive'
  BY <1>2 DEF TakeLock
<1>3. ASSUME NEW s \in Sessions, ReadPlan(s) \/ Accept(s) PROVE LockExclusive'
  BY <1>3 DEF ReadPlan, Accept
<1>4. ASSUME NEW s \in Sessions, NEW a \in Replies, Finish(s, a) PROVE LockExclusive'
  BY <1>4 DEF Finish
<1>5. ASSUME NEW s \in Sessions, Insert(s) \/ Refund(s) PROVE LockExclusive'
  BY <1>5, <1>4 DEF Insert, Refund, Replies
<1>6. ASSUME NEW s \in Sessions, ReadOnlyEnd(s) PROVE LockExclusive'
  BY <1>6, <1>4 DEF ReadOnlyEnd
<1>7. ASSUME NEW u \in Users, Activate(u, DayTicks) PROVE LockExclusive'
  BY <1>7 DEF Activate
<1>8. ASSUME Tick PROVE LockExclusive'
  BY <1>8 DEF Tick
<1> QED BY <1>1, <1>2, <1>3, <1>5, <1>6, <1>7, <1>8, WhatStepsWrite

\* now() is read once, and the clock only advances.
LEMMA KeepsBeganInPast ==
  ASSUME TypeOK, BeganInPast, Next
  PROVE  BeganInPast'
<1> USE DEF BeganInPast, TypeOK
<1>1. ASSUME NEW s \in Sessions, NEW a \in Replies, Finish(s, a) PROVE BeganInPast'
  BY <1>1 DEF Finish
<1>2. ASSUME NEW s \in Sessions, NEW c \in Call, Begin(s, c) PROVE BeganInPast'
  BY <1>2 DEF Begin
<1>3. ASSUME NEW s \in Sessions, TakeLock(s) \/ ReadPlan(s) \/ Accept(s) PROVE BeganInPast'
  BY <1>3 DEF TakeLock, ReadPlan, Accept
<1>4. ASSUME NEW s \in Sessions, Insert(s) \/ Refund(s) \/ ReadOnlyEnd(s) PROVE BeganInPast'
  BY <1>4, <1>1 DEF Insert, Refund, ReadOnlyEnd, Replies
<1>5. ASSUME NEW u \in Users, Activate(u, DayTicks) PROVE BeganInPast'
  BY <1>5 DEF Activate
<1>6. ASSUME Tick PROVE BeganInPast'
  BY <1>6 DEF Tick
<1> QED BY <1>2, <1>3, <1>4, <1>5, <1>6, WhatStepsWrite

\* A refund that holds the lock has a token.
LEMMA KeepsRefundHasToken ==
  ASSUME TypeOK, RefundHasToken, Next
  PROVE  RefundHasToken'
<1> USE DEF RefundHasToken, Locked, TypeOK
<1>1. ASSUME NEW s \in Sessions, NEW a \in Replies, Finish(s, a) PROVE RefundHasToken'
  BY <1>1 DEF Finish
<1>2. ASSUME NEW s \in Sessions, NEW c \in Call, Begin(s, c) PROVE RefundHasToken'
  BY <1>2 DEF Begin
<1>3. ASSUME NEW s \in Sessions, TakeLock(s) PROVE RefundHasToken'
  BY <1>3, CallFields DEF TakeLock, AsksForLock
<1>4. ASSUME NEW s \in Sessions, ReadPlan(s) \/ Accept(s) PROVE RefundHasToken'
  BY <1>4 DEF ReadPlan, Accept
<1>5. ASSUME NEW s \in Sessions, Insert(s) \/ Refund(s) \/ ReadOnlyEnd(s) PROVE RefundHasToken'
  BY <1>5, <1>1 DEF Insert, Refund, ReadOnlyEnd, Replies
<1>6. ASSUME (\E u \in Users : Activate(u, DayTicks)) \/ Tick PROVE RefundHasToken'
  BY <1>6 DEF Activate, Tick
<1> QED BY <1>2, <1>3, <1>4, <1>5, <1>6, WhatStepsWrite

\* A limit stays one the student is entitled to when a plan is sold.
LEMMA EntitlementGrows ==
  ASSUME NEW a, NEW b, a \subseteq b, NEW u, NEW k, NEW key, NEW n,
         WithinLimit(a, u, k, key, n)
  PROVE  WithinLimit(b, u, k, key, n)
BY DEF WithinLimit, HeldPlans

\* The limit consume_quota computes is one of a plan the student holds.
LEMMA ReadPlanEntitles ==
  ASSUME TypeOK, NEW s \in Sessions, ReadPlan(s),
         NEW n \in 1 .. meter'[s].limit
  PROVE  WithinLimit(subs, call[s].user, call[s].kind, meter'[s].key, n)
<1> DEFINE c == call[s]
           p == PlanAt(subs, c.user, began[s])
           row == Limits[<<p, c.kind>>]
<1>1. /\ <<p, c.kind>> \in DOMAIN Limits
      /\ meter'[s].key = KeyAt(row.period, began[s])
      /\ meter'[s].limit = LimitAt(row, c.user, began[s])
  BY DEF ReadPlan, TypeOK
<1>2. p \in HeldPlans(subs, c.user)
  BY DEF PlanAt, HeldPlans
<1>3. row.period = meter'[s].key[1]
  BY <1>1 DEF KeyAt
<1>4. row \in LimitRow
  BY <1>1, PlanAssumption DEF PlanAssumption
<1>5. row.count \in Nat /\ row.first \in Nat
  BY <1>4 DEF LimitRow
<1>6. CASE FirstDay(c.user, began[s])
  <2>1. meter'[s].key = KeyAt(row.period, Joined[c.user])
    BY <1>1, <1>6 DEF KeyAt, FirstDay
  <2>2. n <= row.first
    BY <1>1, <1>5, <1>6 DEF LimitAt
  <2> HIDE DEF c, p, row
  <2>3. n <= Limits[<<p, c.kind>>].first /\ Limits[<<p, c.kind>>].period = meter'[s].key[1]
    BY <2>2, <1>3 DEF row
  <2>4. meter'[s].key = KeyAt(meter'[s].key[1], Joined[c.user])
    BY <2>1, <1>3
  <2>5. WithinLimit(subs, c.user, c.kind, meter'[s].key, n)
    BY <1>1, <1>2, <2>3, <2>4 DEF WithinLimit
  <2> QED BY <2>5 DEF c
<1>7. CASE ~FirstDay(c.user, began[s])
  <2>1. n <= row.count
    BY <1>1, <1>5, <1>7 DEF LimitAt
  <2> QED BY <1>1, <1>2, <1>3, <2>1 DEF WithinLimit
<1> QED BY <1>6, <1>7

\* A transaction's limit stays one its student is entitled to.
LEMMA KeepsMeterEntitled ==
  ASSUME TypeOK, MeterEntitled, Next
  PROVE  MeterEntitled'
<1> USE DEF MeterEntitled
<1>1. ASSUME NEW s \in Sessions, NEW a \in Replies, Finish(s, a) PROVE MeterEntitled'
  BY <1>1 DEF Finish, TypeOK
<1>2. ASSUME NEW s \in Sessions, NEW c \in Call, Begin(s, c) PROVE MeterEntitled'
  BY <1>2 DEF Begin, TypeOK
<1>3. ASSUME NEW s \in Sessions, TakeLock(s) \/ Accept(s) PROVE MeterEntitled'
  BY <1>3 DEF TakeLock, Accept, TypeOK
<1>4. ASSUME NEW s \in Sessions, ReadPlan(s) PROVE MeterEntitled'
  <2> SUFFICES ASSUME NEW t \in Sessions, pc'[t] \in {"planned", "inserting"}
               PROVE  /\ call'[t].op = "consume"
                      /\ \A n \in 1 .. meter'[t].limit :
                           WithinLimit(subs', call'[t].user, call'[t].kind, meter'[t].key, n)
    OBVIOUS
  <2>1. CASE t = s
    BY <1>4, <2>1, ReadPlanEntitles DEF ReadPlan, TypeOK
  <2>2. CASE t # s
    BY <1>4, <2>2 DEF ReadPlan, TypeOK
  <2> QED BY <2>1, <2>2
<1>5. ASSUME NEW s \in Sessions, Insert(s) \/ Refund(s) \/ ReadOnlyEnd(s) PROVE MeterEntitled'
  BY <1>5, <1>1 DEF Insert, Refund, ReadOnlyEnd, Replies
<1>6. ASSUME NEW u \in Users, Activate(u, DayTicks) PROVE MeterEntitled'
  BY <1>6, EntitlementGrows DEF Activate
<1>7. ASSUME Tick PROVE MeterEntitled'
  BY <1>7 DEF Tick
<1> QED BY <1>2, <1>3, <1>4, <1>5, <1>6, <1>7, WhatStepsWrite

\* A refund flips at most one row, one of the caller's own request and token.
LEMMA RefundTouchesOne ==
  ASSUME TypeOK, OneRowPerRequest, NEW s \in Sessions, Refund(s)
  PROVE  \/ ledger' = ledger
         \/ \E r \in ledger, q \in Row :
              /\ ~r.refunded
              /\ SameRequest(r, call[s].user, call[s].kind, call[s].req)
              /\ r.tok = call[s].tok
              /\ q = [r EXCEPT !.refunded = TRUE]
              /\ q.refunded = TRUE /\ q.user = r.user /\ q.kind = r.kind
              /\ q.req = r.req /\ q.key = r.key /\ q.created = r.created
              /\ ledger' = (ledger \ {r}) \cup {q}
<1> DEFINE hit == Refundable(call[s])
<1>1. ledger' = (ledger \ hit) \cup {[r EXCEPT !.refunded = TRUE] : r \in hit}
  BY DEF Refund
<1>2. \A r \in hit : /\ r \in ledger /\ ~r.refunded /\ r.tok = call[s].tok
                     /\ SameRequest(r, call[s].user, call[s].kind, call[s].req)
  BY DEF Refundable, RequestRows
<1>3. \A r1, r2 \in hit : r1 = r2
  BY <1>2 DEF OneRowPerRequest, SameRequest
<1> HIDE DEF hit
<1>4. CASE hit = {}
  BY <1>1, <1>4
<1>5. CASE hit # {}
  <2> PICK r \in hit : TRUE
    BY <1>5
  <2>1. hit = {r}
    BY <1>3
  <2>2. PICK q : q = [r EXCEPT !.refunded = TRUE]
    OBVIOUS
  <2>3. r \in Row
    BY <1>2 DEF TypeOK
  <2>4. q \in Row /\ q.user = r.user /\ q.kind = r.kind
        /\ q.req = r.req /\ q.key = r.key /\ q.created = r.created
    BY <2>2, <2>3 DEF Row
  <2>5. q.refunded = TRUE
    BY <2>2, <2>3 DEF Row
  <2>6. ledger' = (ledger \ {r}) \cup {q}
    BY <1>1, <2>1, <2>2
  <2> QED BY <1>2, <2>2, <2>4, <2>5, <2>6
<1> QED BY <1>4, <1>5

\* The rows of a meter whose lock a transaction holds are left alone by the
\* commits of every other transaction.
LEMMA OthersLeaveRowsAlone ==
  ASSUME TypeOK, LockExclusive, OneRowPerRequest,
         NEW s \in Sessions, NEW t \in Sessions, s # t,
         pc[t] \in Locked, Insert(s) \/ Refund(s)
  PROVE  \A r : (r.user = call[t].user /\ r.kind = call[t].kind) =>
                   (r \in ledger' <=> r \in ledger)
<1>1. ~(call[s].user = call[t].user /\ call[s].kind = call[t].kind)
  BY DEF LockExclusive, SameLock, Locked, Insert, Refund
<1>2. CASE Insert(s)
  BY <1>1, <1>2 DEF Insert, NewRow
<1>3. CASE Refund(s)
  <2> SUFFICES ASSUME NEW r \in ledger, NEW q \in Row,
                      SameRequest(r, call[s].user, call[s].kind, call[s].req),
                      q.user = r.user, q.kind = r.kind,
                      ledger' = (ledger \ {r}) \cup {q}
               PROVE  \A x : (x.user = call[t].user /\ x.kind = call[t].kind) =>
                               (x \in ledger' <=> x \in ledger)
    BY <1>3, RefundTouchesOne
  <2> QED BY <1>1 DEF SameRequest
<1> QED BY <1>2, <1>3

\* Once every check has passed, nothing can invalidate them before the insert.
LEMMA KeepsChecksStand ==
  ASSUME TypeOK, LockExclusive, OneRowPerRequest, ChecksStand, Next
  PROVE  ChecksStand'
<1> SUFFICES ASSUME NEW t \in Sessions, pc'[t] = "inserting"
             PROVE  /\ RequestRows(call[t])' = {}
                    /\ UsedBy(t)' < meter'[t].limit
  BY DEF ChecksStand
<1> USE DEF RequestRows, UsedBy
<1>1. ASSUME NEW s \in Sessions, NEW c \in Call, Begin(s, c)
      PROVE  pc[t] = "inserting" /\ UNCHANGED <<ledger, call[t], meter[t]>>
  BY <1>1 DEF Begin, TypeOK
<1>2. ASSUME NEW s \in Sessions, TakeLock(s) \/ ReadPlan(s)
      PROVE  pc[t] = "inserting" /\ UNCHANGED <<ledger, call[t], meter[t]>>
  BY <1>2 DEF TakeLock, ReadPlan, TypeOK
<1>3. ASSUME NEW s \in Sessions, Insert(s) \/ Refund(s) \/ ReadOnlyEnd(s)
      PROVE  pc[t] = "inserting" /\ s # t /\ UNCHANGED <<call[t], meter[t]>>
  BY <1>3 DEF Insert, Refund, ReadOnlyEnd, Finish, TypeOK
<1>4. ASSUME (\E u \in Users : Activate(u, DayTicks)) \/ Tick
      PROVE  pc[t] = "inserting" /\ UNCHANGED <<ledger, call[t], meter[t]>>
  BY <1>4 DEF Activate, Tick
<1>5. ASSUME pc[t] = "inserting", UNCHANGED <<ledger, call[t], meter[t]>>
      PROVE  RequestRows(call[t])' = {} /\ UsedBy(t)' < meter'[t].limit
  BY <1>5 DEF ChecksStand
<1>6. ASSUME NEW s \in Sessions, Accept(s)
      PROVE  RequestRows(call[t])' = {} /\ UsedBy(t)' < meter'[t].limit
  <2>1. CASE s = t
    BY <1>6, <2>1 DEF Accept
  <2>2. CASE s # t
    BY <1>6, <2>2, <1>5 DEF Accept, TypeOK
  <2> QED BY <2>1, <2>2
<1>7. ASSUME NEW s \in Sessions, Insert(s) \/ Refund(s)
      PROVE  RequestRows(call[t])' = {} /\ UsedBy(t)' < meter'[t].limit
  <2>1. pc[t] = "inserting" /\ s # t /\ UNCHANGED <<call[t], meter[t]>>
    BY <1>7, <1>3
  <2>2. \A r : (r.user = call[t].user /\ r.kind = call[t].kind) =>
                   (r \in ledger' <=> r \in ledger)
    BY <1>7, <2>1, OthersLeaveRowsAlone DEF Locked
  <2>3. RequestRows(call[t])' = RequestRows(call[t])
    BY <2>1, <2>2 DEF SameRequest
  <2>4. Counted(ledger, call[t].user, call[t].kind, meter[t].key)'
          = Counted(ledger, call[t].user, call[t].kind, meter[t].key)
    BY <2>1, <2>2 DEF Counted
  <2> QED BY <2>1, <2>3, <2>4 DEF ChecksStand
<1>8. ASSUME NEW s \in Sessions, ReadOnlyEnd(s)
      PROVE  pc[t] = "inserting" /\ UNCHANGED <<ledger, call[t], meter[t]>>
  BY <1>8, <1>3 DEF ReadOnlyEnd
<1> QED BY <1>1, <1>2, <1>4, <1>5, <1>6, <1>7, <1>8, WhatStepsWrite

\* A second row of a request id is never inserted.
LEMMA KeepsOneRow ==
  ASSUME TypeOK, ChecksStand, OneRowPerRequest, Next
  PROVE  OneRowPerRequest'
<1>1. ASSUME NEW s \in Sessions, Insert(s) PROVE OneRowPerRequest'
  <2>1. \A r \in ledger : ~SameRequest(r, call[s].user, call[s].kind, call[s].req)
    BY <1>1 DEF ChecksStand, Insert, RequestRows
  <2>2. /\ NewRow(s).user = call[s].user /\ NewRow(s).kind = call[s].kind
        /\ NewRow(s).req = call[s].req
    BY DEF NewRow
  <2> QED BY <1>1, <2>1, <2>2 DEF Insert, OneRowPerRequest, SameRequest
<1>2. ASSUME NEW s \in Sessions, Refund(s) PROVE OneRowPerRequest'
  <2>1. CASE ledger' = ledger
    BY <2>1 DEF OneRowPerRequest
  <2>2. ASSUME NEW r \in ledger, NEW q \in Row,
               q.user = r.user, q.kind = r.kind, q.req = r.req,
               ledger' = (ledger \ {r}) \cup {q}
        PROVE  OneRowPerRequest'
    BY <2>2 DEF OneRowPerRequest, SameRequest
  <2> QED BY <1>2, <2>1, <2>2, RefundTouchesOne
<1>3. ASSUME UNCHANGED ledger PROVE OneRowPerRequest'
  BY <1>3 DEF OneRowPerRequest
<1> QED
  BY <1>1, <1>2, <1>3, WhatStepsWrite
     DEF Begin, TakeLock, ReadPlan, Accept, ReadOnlyEnd, Activate, Tick

\* The limit holds for a period key whether or not a row names it.
LEMMA QuotaForEveryKey ==
  ASSUME QuotaRespected, NEW u \in Users, NEW k \in Kinds, NEW key,
         Counted(ledger, u, k, key) # {}
  PROVE  WithinLimit(subs, u, k, key, Cardinality(Counted(ledger, u, k, key)))
<1> PICK r \in Counted(ledger, u, k, key) : TRUE
  OBVIOUS
<1>1. r \in ledger /\ r.key = key
  BY DEF Counted
<1> QED BY <1>1 DEF QuotaRespected

\* A limit that admits m units admits fewer.
LEMMA FewerWithinLimit ==
  ASSUME NEW sold, NEW u, NEW k, NEW key, NEW m \in Nat, NEW n \in Nat, n <= m,
         WithinLimit(sold, u, k, key, m)
  PROVE  WithinLimit(sold, u, k, key, n)
<1> PICK p \in HeldPlans(sold, u) :
      /\ <<p, k>> \in DOMAIN Limits
      /\ Limits[<<p, k>>].period = key[1]
      /\ \/ m <= Limits[<<p, k>>].count
         \/ key = KeyAt(key[1], Joined[u]) /\ m <= Limits[<<p, k>>].first
  BY DEF WithinLimit
<1>1. Limits[<<p, k>>].count \in Nat /\ Limits[<<p, k>>].first \in Nat
  BY PlanAssumption DEF PlanAssumption, LimitRow
<1> QED BY <1>1 DEF WithinLimit

\* The units of a period stay within a limit of the student's plans.
LEMMA KeepsQuota ==
  ASSUME TypeOK, IsFiniteSet(ledger), IsFiniteSet(ledger'), OneRowPerRequest,
         MeterEntitled, ChecksStand, QuotaRespected, Next
  PROVE  QuotaRespected'
<1> SUFFICES ASSUME NEW u \in Users, NEW k \in Kinds, NEW key,
                    Counted(ledger', u, k, key) # {}
             PROVE  WithinLimit(subs', u, k, key, Cardinality(Counted(ledger', u, k, key)))
  BY DEF QuotaRespected
<1> DEFINE old == Counted(ledger, u, k, key)
           new == Counted(ledger', u, k, key)
<1>1. /\ IsFiniteSet(old) /\ Cardinality(old) \in Nat
      /\ IsFiniteSet(new) /\ Cardinality(new) \in Nat
  <2>1. old \subseteq ledger /\ new \subseteq ledger'
    BY DEF Counted
  <2> QED BY <2>1, FS_Subset, FS_CardinalityType
<1>2. ASSUME new \subseteq old, subs \subseteq subs'
      PROVE  WithinLimit(subs', u, k, key, Cardinality(new))
  <2>1. WithinLimit(subs, u, k, key, Cardinality(old))
    BY <1>2, QuotaForEveryKey
  <2>2. Cardinality(new) <= Cardinality(old)
    BY <1>1, <1>2, FS_Subset
  <2> HIDE DEF old, new
  <2>3. WithinLimit(subs, u, k, key, Cardinality(new))
    BY <1>1, <2>1, <2>2, FewerWithinLimit
  <2> QED BY <1>2, <2>3, EntitlementGrows
<1>3. ASSUME NEW s \in Sessions, Insert(s)
      PROVE  WithinLimit(subs', u, k, key, Cardinality(new))
  <2>1. ledger' = ledger \cup {NewRow(s)} /\ subs' = subs /\ pc[s] = "inserting"
    BY <1>3 DEF Insert, Finish
  <2>2. CASE u = call[s].user /\ k = call[s].kind /\ key = meter[s].key
    <3>1. new = old \cup {NewRow(s)}
      BY <2>1, <2>2 DEF Counted, NewRow
    <3>2. Cardinality(old) < meter[s].limit
      BY <2>1, <2>2 DEF ChecksStand, UsedBy
    <3>3. Cardinality(new) <= Cardinality(old) + 1
      BY <1>1, <3>1, FS_AddElement
    <3>4. Cardinality(new) # 0
      BY <1>1, FS_EmptySet
    <3>5. meter[s].limit \in Nat
      BY DEF TypeOK
    <3> HIDE DEF old, new
    <3>6. Cardinality(new) \in 1 .. meter[s].limit
      BY <1>1, <3>2, <3>3, <3>4, <3>5
    <3> QED BY <2>1, <2>2, <3>6 DEF MeterEntitled
  <2>3. CASE ~(u = call[s].user /\ k = call[s].kind /\ key = meter[s].key)
    <3>1. new \subseteq old
      BY <2>1, <2>3 DEF Counted, NewRow
    <3> QED BY <1>2, <2>1, <3>1
  <2> QED BY <2>2, <2>3
<1>4. ASSUME NEW s \in Sessions, Refund(s)
      PROVE  WithinLimit(subs', u, k, key, Cardinality(new))
  <2>1. new \subseteq old
    BY <1>4, RefundTouchesOne DEF Counted
  <2> QED BY <1>2, <1>4, <2>1 DEF Refund, Finish
<1>5. ASSUME UNCHANGED ledger, subs \subseteq subs'
      PROVE  WithinLimit(subs', u, k, key, Cardinality(new))
  BY <1>5, <1>2
<1> QED
  BY <1>3, <1>4, <1>5, WhatStepsWrite
     DEF Begin, TakeLock, ReadPlan, Accept, ReadOnlyEnd, Finish, Activate, Tick

\* The ledger stays finite.
LEMMA KeepsFinite ==
  ASSUME TypeOK, IsFiniteSet(ledger), OneRowPerRequest, Next
  PROVE  IsFiniteSet(ledger')
<1>1. ASSUME NEW s \in Sessions, Insert(s) PROVE IsFiniteSet(ledger')
  BY <1>1, FS_AddElement DEF Insert
<1>2. ASSUME NEW s \in Sessions, Refund(s) PROVE IsFiniteSet(ledger')
  <2>1. ASSUME NEW r \in ledger, NEW q \in Row, ledger' = (ledger \ {r}) \cup {q}
        PROVE  IsFiniteSet(ledger')
    BY <2>1, OneMore
  <2> QED BY <1>2, <2>1, RefundTouchesOne
<1>3. ASSUME UNCHANGED ledger PROVE IsFiniteSet(ledger')
  BY <1>3
<1> QED
  BY <1>1, <1>2, <1>3, WhatStepsWrite
     DEF Begin, TakeLock, ReadPlan, Accept, ReadOnlyEnd, Activate, Tick

\* The growth cap with its overshoot: what is committed and what is reserved.
LEMMA KeepsGrowth ==
  ASSUME TypeOK, TypeOK', IsFiniteSet(ledger), IsFiniteSet(ledger'),
         LockExclusive, BeganInPast, OneRowPerRequest, GrowthReserved, Next
  PROVE  GrowthReserved'
<1> SUFFICES ASSUME NEW u \in Users
             PROVE  Cardinality(Recent(u, clock)') + Cardinality(InsertingKinds(u)')
                      <= Cap + Cardinality(Kinds) - 1
  BY DEF GrowthReserved
<1> DEFINE old == Recent(u, clock)
           new == Recent(u, clock)'
           mine == InsertingKinds(u)
           mine2 == InsertingKinds(u)'
<1>1. /\ IsFiniteSet(old) /\ Cardinality(old) \in Nat
      /\ IsFiniteSet(new) /\ Cardinality(new) \in Nat
  <2>1. old \subseteq ledger /\ new \subseteq ledger'
    BY DEF Recent
  <2> QED BY <2>1, FS_Subset, FS_CardinalityType
<1>2. /\ IsFiniteSet(mine) /\ Cardinality(mine) \in Nat
      /\ Cardinality(Kinds) \in Nat
  BY InsertingKindsBounded
<1>3. mine2 \subseteq Kinds
  BY DEF InsertingKinds, TypeOK, Call
<1>4. /\ IsFiniteSet(mine2) /\ Cardinality(mine2) \in Nat
      /\ Cardinality(mine2) <= Cardinality(Kinds)
  BY <1>3, PlanAssumption, FS_Subset, FS_CardinalityType DEF PlanAssumption
<1>5. Cap \in Nat
  BY LedgerAssumption DEF LedgerAssumption
<1>6. Cardinality(old) + Cardinality(mine) <= Cap + Cardinality(Kinds) - 1
  BY DEF GrowthReserved
<1>7. ASSUME Cardinality(new) <= Cardinality(old), mine2 \subseteq mine
      PROVE  Cardinality(new) + Cardinality(mine2) <= Cap + Cardinality(Kinds) - 1
  <2>1. Cardinality(mine2) <= Cardinality(mine)
    BY <1>2, <1>7, FS_Subset
  <2> HIDE DEF old, new, mine, mine2
  <2> QED BY <1>1, <1>2, <1>4, <1>5, <1>6, <1>7, <2>1
<1>8. ASSUME NEW s \in Sessions,
             (\E c \in Call : Begin(s, c)) \/ TakeLock(s) \/ ReadPlan(s) \/ ReadOnlyEnd(s)
      PROVE  new = old /\ mine2 \subseteq mine
  BY <1>8 DEF Begin, TakeLock, ReadPlan, ReadOnlyEnd, Finish, Recent, InsertingKinds, TypeOK
<1>9. ASSUME NEW v \in Users, Activate(v, DayTicks)
      PROVE  new = old /\ mine2 = mine
  BY <1>9 DEF Activate, Recent, InsertingKinds
<1>10. ASSUME Tick
       PROVE  new \subseteq old /\ mine2 = mine
  <2>1. mine2 = mine
    BY <1>10 DEF Tick, InsertingKinds
  <2>2. clock' = clock + 1 /\ ledger' = ledger /\ clock \in Nat /\ DayTicks \in Nat
    BY <1>10, PlanAssumption DEF Tick, TypeOK, PlanAssumption
  <2>3. \A r \in ledger : r.created \in Nat
    BY DEF TypeOK, Row
  <2> QED BY <2>1, <2>2, <2>3 DEF Recent
<1>11. ASSUME NEW s \in Sessions, Accept(s)
       PROVE  Cardinality(new) + Cardinality(mine2) <= Cap + Cardinality(Kinds) - 1
  <2>1. new = old
    BY <1>11 DEF Accept, Recent
  <2>2. CASE call[s].user = u
    <3>1. old \subseteq Recent(u, began[s])
      <4>1. began[s] <= clock /\ began[s] \in Nat /\ clock \in Nat /\ DayTicks \in Nat
        BY PlanAssumption DEF BeganInPast, TypeOK, PlanAssumption
      <4>2. \A r \in ledger : r.created \in Nat
        BY DEF TypeOK, Row
      <4> QED BY <4>1, <4>2 DEF Recent
    <3>2. /\ Cardinality(Recent(u, began[s])) < Cap
          /\ IsFiniteSet(Recent(u, began[s])) /\ Cardinality(Recent(u, began[s])) \in Nat
      BY <1>11, <2>2, CountsAreNat DEF Accept
    <3>3. Cardinality(old) <= Cardinality(Recent(u, began[s]))
      BY <3>1, <3>2, FS_Subset
    <3> HIDE DEF old, new, mine, mine2
    <3> QED BY <1>1, <1>2, <1>4, <1>5, <2>1, <3>2, <3>3
  <2>3. CASE call[s].user # u
    <3>1. mine2 \subseteq mine
      BY <1>11, <2>3 DEF Accept, InsertingKinds, TypeOK
    <3> QED BY <1>1, <1>7, <2>1, <3>1
  <2> QED BY <2>2, <2>3
<1>12. ASSUME NEW s \in Sessions, Insert(s)
       PROVE  Cardinality(new) + Cardinality(mine2) <= Cap + Cardinality(Kinds) - 1
  <2>1. /\ ledger' = ledger \cup {NewRow(s)} /\ clock' = clock
        /\ pc[s] = "inserting" /\ NewRow(s).user = call[s].user
    BY <1>12 DEF Insert, Finish, NewRow
  <2>2. mine2 \subseteq mine
    BY <1>12 DEF Insert, Finish, InsertingKinds, TypeOK
  <2>3. CASE call[s].user = u
    <3>1. new \subseteq old \cup {NewRow(s)}
      BY <2>1 DEF Recent
    <3>2. Cardinality(new) <= Cardinality(old) + 1
      BY <1>1, <3>1, OneMore
    <3>3. call[s].kind \in mine
      BY <2>1, <2>3 DEF InsertingKinds
    <3>4. call[s].kind \notin mine2
      <4>1. \A t \in Sessions : pc'[t] = "inserting" =>
              t # s /\ pc[t] = "inserting" /\ call'[t] = call[t]
        BY <1>12 DEF Insert, Finish, TypeOK
      <4>2. \A t \in Sessions : (pc[t] = "inserting" /\ t # s) => ~SameLock(s, t)
        BY <2>1 DEF LockExclusive, Locked
      <4> QED BY <2>3, <4>1, <4>2 DEF InsertingKinds, SameLock
    <3>5. mine2 \subseteq mine \ {call[s].kind}
      BY <2>2, <3>4
    <3>6. Cardinality(mine2) <= Cardinality(mine) - 1
      BY <1>2, <3>3, <3>5, OneFewer
    <3> HIDE DEF old, new, mine, mine2
    <3> QED BY <1>1, <1>2, <1>4, <1>5, <1>6, <3>2, <3>6
  <2>4. CASE call[s].user # u
    <3>1. new = old
      BY <2>1, <2>4 DEF Recent
    <3> QED BY <1>1, <1>7, <2>2, <3>1
  <2> QED BY <2>3, <2>4
<1>13. ASSUME NEW s \in Sessions, Refund(s)
       PROVE  Cardinality(new) <= Cardinality(old) /\ mine2 \subseteq mine
  <2>1. mine2 \subseteq mine /\ clock' = clock
    BY <1>13 DEF Refund, Finish, InsertingKinds, TypeOK
  <2>2. CASE ledger' = ledger
    BY <1>1, <2>1, <2>2 DEF Recent
  <2>3. ASSUME NEW r \in ledger, NEW q \in Row,
               q.user = r.user, q.created = r.created,
               ledger' = (ledger \ {r}) \cup {q}
        PROVE  Cardinality(new) <= Cardinality(old)
    <3>1. CASE r \in old
      <4>1. new \subseteq (old \ {r}) \cup {q}
        BY <2>1, <2>3 DEF Recent
      <4> QED BY <1>1, <3>1, <4>1, SwapOne
    <3>2. CASE r \notin old
      <4>1. new \subseteq old
        BY <2>1, <2>3, <3>2 DEF Recent
      <4> QED BY <1>1, <4>1, FS_Subset
    <3> QED BY <3>1, <3>2
  <2> QED BY <1>13, <2>1, <2>2, <2>3, RefundTouchesOne
<1>14. ASSUME new \subseteq old PROVE Cardinality(new) <= Cardinality(old)
  BY <1>1, <1>14, FS_Subset
<1> QED
  BY <1>7, <1>8, <1>9, <1>10, <1>11, <1>12, <1>13, <1>14, WhatStepsWrite

-----------------------------------------------------------------------------
(* The theorems *)

\* The empty ledger satisfies the inductive invariant.
LEMMA InitEstablishes == Init => LedgerInv
<1> SUFFICES ASSUME Init PROVE LedgerInv
  OBVIOUS
<1>1. TypeOK
  BY DEF Init, TypeOK, NoMeter, Keys, Periods, Replies
<1>2. IsFiniteSet(ledger)
  BY FS_EmptySet DEF Init
<1>3. LockExclusive /\ BeganInPast /\ RefundHasToken /\ MeterEntitled /\ ChecksStand
  BY DEF Init, LockExclusive, BeganInPast, RefundHasToken, MeterEntitled, ChecksStand, Locked
<1>4. OneRowPerRequest /\ QuotaRespected
  BY DEF Init, OneRowPerRequest, QuotaRespected
<1>5. ASSUME NEW u \in Users
      PROVE  Cardinality(Recent(u, clock)) + Cardinality(InsertingKinds(u))
               <= Cap + Cardinality(Kinds) - 1
  <2>1. Recent(u, clock) = {} /\ InsertingKinds(u) = {}
    BY DEF Init, Recent, InsertingKinds
  <2>2. Cap \in Nat /\ Cap >= 1 /\ Cardinality(Kinds) \in Nat
    BY LedgerAssumption, PlanAssumption, FS_CardinalityType DEF LedgerAssumption, PlanAssumption
  <2> QED BY <2>1, <2>2, FS_EmptySet
<1> QED BY <1>1, <1>2, <1>3, <1>4, <1>5 DEF LedgerInv, GrowthReserved

\* Every step keeps the inductive invariant.
LEMMA StepKeepsInv == LedgerInv /\ [Next]_vars => LedgerInv'
<1> SUFFICES ASSUME LedgerInv, [Next]_vars PROVE LedgerInv'
  OBVIOUS
<1>1. CASE Next
  <2>1. TypeOK'
    BY <1>1, StepKeepsTypes DEF LedgerInv
  <2>2. IsFiniteSet(ledger')
    BY <1>1, KeepsFinite DEF LedgerInv
  <2>3. LockExclusive' /\ BeganInPast' /\ RefundHasToken' /\ MeterEntitled'
    BY <1>1, KeepsLockExclusive, KeepsBeganInPast, KeepsRefundHasToken,
       KeepsMeterEntitled DEF LedgerInv
  <2>4. ChecksStand' /\ OneRowPerRequest'
    BY <1>1, KeepsChecksStand, KeepsOneRow DEF LedgerInv
  <2>5. QuotaRespected'
    BY <1>1, <2>2, KeepsQuota DEF LedgerInv
  <2>6. GrowthReserved'
    BY <1>1, <2>1, <2>2, KeepsGrowth DEF LedgerInv
  <2> QED BY <2>1, <2>2, <2>3, <2>4, <2>5, <2>6 DEF LedgerInv
<1>2. CASE UNCHANGED vars
  <2> USE <1>2 DEF vars, LedgerInv
  <2>1. TypeOK' /\ IsFiniteSet(ledger')
    BY DEF TypeOK
  <2>2. LockExclusive' /\ BeganInPast' /\ RefundHasToken'
    BY DEF LockExclusive, SameLock, BeganInPast, RefundHasToken
  <2>3. MeterEntitled' /\ OneRowPerRequest' /\ QuotaRespected'
    BY DEF MeterEntitled, OneRowPerRequest, QuotaRespected
  <2>4. ChecksStand'
    BY DEF ChecksStand, RequestRows, UsedBy
  <2>5. GrowthReserved'
    BY DEF GrowthReserved, Recent, InsertingKinds
  <2> QED BY <2>1, <2>2, <2>3, <2>4, <2>5
<1> QED BY <1>1, <1>2

\* The inductive invariant holds for every ledger, however calls interleave.
THEOREM LedgerCorrect == Spec => []LedgerInv
BY InitEstablishes, StepKeepsInv, PTL DEF Spec, SafeSpec

\* Every variable keeps its type.
THEOREM TypesCorrect == Spec => []TypeOK
<1>1. LedgerInv => TypeOK
  BY DEF LedgerInv
<1> QED BY <1>1, LedgerCorrect, PTL

\* Concurrent requests cannot exceed a limit: consume_quota's advisory lock,
\* replay check and count, for any number of connections and any plan table.
THEOREM QuotaCorrect == Spec => []QuotaRespected
<1>1. LedgerInv => QuotaRespected
  BY DEF LedgerInv
<1> QED BY <1>1, LedgerCorrect, PTL

\* A request id is never counted twice.
THEOREM RequestsCountedOnce == Spec => []OneRowPerRequest
<1>1. LedgerInv => OneRowPerRequest
  BY DEF LedgerInv
<1> QED BY <1>1, LedgerCorrect, PTL

\* The growth cap may be overshot by the number of meters minus one and never
\* by more, for any cap, any set of meters and any number of connections.
THEOREM GrowthCorrect == Spec => []GrowthBounded
<1>1. LedgerInv => GrowthBounded
  <2> SUFFICES ASSUME LedgerInv, NEW u \in Users
               PROVE  Cardinality(Recent(u, clock)) <= Cap + Cardinality(Kinds) - 1
    BY DEF GrowthBounded
  <2>1. Cardinality(Recent(u, clock)) \in Nat
    BY CountsAreNat DEF LedgerInv
  <2>2. Cardinality(InsertingKinds(u)) \in Nat /\ Cardinality(Kinds) \in Nat /\ Cap \in Nat
    BY InsertingKindsBounded, LedgerAssumption DEF LedgerInv, LedgerAssumption
  <2> QED BY <2>1, <2>2 DEF LedgerInv, GrowthReserved
<1> QED BY <1>1, LedgerCorrect, PTL

\* No step removes a row, revives a refunded one, or refunds a row for a
\* caller without its token (refund_quota is the only update of the table).
THEOREM RefundsCorrect == Spec => RefundIsFinal
<1>1. LedgerInv /\ [Next]_vars =>
        [\A r \in ledger :
           \/ r \in ledger'
           \/ /\ ~r.refunded
              /\ [r EXCEPT !.refunded = TRUE] \in ledger'
              /\ \E s \in Sessions : call[s].op = "refund" /\ call[s].tok = r.tok]_vars
  <2> SUFFICES ASSUME LedgerInv, Next, NEW r \in ledger, r \notin ledger'
               PROVE  /\ ~r.refunded
                      /\ [r EXCEPT !.refunded = TRUE] \in ledger'
                      /\ \E s \in Sessions : call[s].op = "refund" /\ call[s].tok = r.tok
    OBVIOUS
  <2>1. PICK s \in Sessions : Refund(s)
    BY WhatStepsWrite
       DEF LedgerInv, Begin, TakeLock, ReadPlan, Accept, Insert, ReadOnlyEnd, Activate, Tick
  <2> QED BY <2>1, RefundTouchesOne DEF LedgerInv, Refund
<1> QED BY <1>1, LedgerCorrect, PTL DEF Spec, SafeSpec, RefundIsFinal

\* A session under way has not been answered.
BusyUnanswered == \A s \in Sessions : pc[s] # "idle" => reply[s] = "none"

LEMMA StepKeepsUnanswered == TypeOK /\ BusyUnanswered /\ [Next]_vars => BusyUnanswered'
<1> SUFFICES ASSUME TypeOK, BusyUnanswered, [Next]_vars PROVE BusyUnanswered'
  OBVIOUS
<1> USE DEF TypeOK, BusyUnanswered, Locked
<1>1. ASSUME NEW s \in Sessions, NEW c \in Call, Begin(s, c) PROVE BusyUnanswered'
  BY <1>1 DEF Begin
<1>2. ASSUME NEW s \in Sessions, TakeLock(s) \/ ReadPlan(s) \/ Accept(s)
      PROVE  BusyUnanswered'
  BY <1>2 DEF TakeLock, ReadPlan, Accept
<1>3. ASSUME NEW s \in Sessions, NEW a, Finish(s, a) PROVE BusyUnanswered'
  BY <1>3 DEF Finish
<1>4. CASE UNCHANGED vars \/ Tick \/ \E u \in Users : Activate(u, DayTicks)
  BY <1>4 DEF vars, Tick, Activate
<1> QED
  BY <1>1, <1>2, <1>3, <1>4
     DEF Next, Step, PlanMissing, Replay, Deny, RefundRefused, Abort, Insert, Refund

\* A session answers "ok" by its insert and "replay" for a row it has found.
LEMMA OnlyTwoAllow ==
  ASSUME TypeOK, BusyUnanswered, Next, NEW s \in Sessions,
         pc[s] # "idle", reply'[s] \in {"ok", "replay"}
  PROVE  Insert(s) \/ Replay(s)
<1>1. reply[s] = "none"
  BY DEF BusyUnanswered
<1>2. ASSUME NEW t \in Sessions, NEW a, Finish(t, a) PROVE t = s /\ a \in {"ok", "replay"}
  BY <1>1, <1>2 DEF TypeOK, Finish
<1>3. ASSUME NEW t \in Sessions, NEW c \in Call, Begin(t, c) PROVE FALSE
  BY <1>1, <1>3 DEF TypeOK, Begin
<1>4. ASSUME NEW t \in Sessions, TakeLock(t) \/ ReadPlan(t) \/ Accept(t) PROVE FALSE
  BY <1>1, <1>4 DEF TakeLock, ReadPlan, Accept
<1>5. CASE Tick \/ \E u \in Users : Activate(u, DayTicks)
  BY <1>1, <1>5 DEF Tick, Activate
<1>6. ASSUME NEW t \in Sessions, PlanMissing(t) \/ Deny(t) \/ RefundRefused(t) \/ Abort(t)
      PROVE FALSE
  BY <1>2, <1>6 DEF PlanMissing, Deny, RefundRefused, Abort
<1>7. ASSUME NEW t \in Sessions, Refund(t) PROVE FALSE
  BY <1>2, <1>7 DEF Refund
<1>8. ASSUME NEW t \in Sessions, Insert(t) \/ Replay(t) PROVE t = s
  BY <1>2, <1>8 DEF Insert, Replay
<1> QED
  BY <1>3, <1>4, <1>5, <1>6, <1>7, <1>8 DEF Next, Step

\* An answer that lets a request run rests on a unit that stands: "ok" on the row
\* it has just committed, "replay" on one that was never given back.
THEOREM AllowedCorrect == SafeSpec => AllowedHasUnit
<1>1. LedgerInv /\ BusyUnanswered /\ [Next]_vars =>
        [\A s \in Sessions :
           (pc[s] # "idle" /\ reply'[s] \in {"ok", "replay"}) =>
             \E r \in ledger' :
               /\ SameRequest(r, call[s].user, call[s].kind, call[s].req)
               /\ ~r.refunded]_vars
  <2> SUFFICES ASSUME LedgerInv, BusyUnanswered, Next, NEW s \in Sessions,
                      pc[s] # "idle", reply'[s] \in {"ok", "replay"}
               PROVE  \E r \in ledger' :
                        /\ SameRequest(r, call[s].user, call[s].kind, call[s].req)
                        /\ ~r.refunded
    OBVIOUS
  <2>1. CASE Insert(s)
    <3>1. NewRow(s) \in ledger'
      BY <2>1 DEF Insert
    <3>2. SameRequest(NewRow(s), call[s].user, call[s].kind, call[s].req) /\ ~NewRow(s).refunded
      BY DEF NewRow, SameRequest
    <3> QED
      BY <3>1, <3>2
  <2>2. CASE Replay(s)
    <3>1. PICK r \in RequestRows(call[s]) :
            Finish(s, IF r.refunded THEN "request_id_reused" ELSE "replay")
      BY <2>2 DEF Replay
    <3>2. reply'[s] = IF r.refunded THEN "request_id_reused" ELSE "replay"
      BY <3>1 DEF LedgerInv, TypeOK, Finish
    <3>3. r \in ledger' /\ SameRequest(r, call[s].user, call[s].kind, call[s].req)
      BY <2>2 DEF Replay, RequestRows
    <3>4. r.refunded \in BOOLEAN
      BY DEF LedgerInv, TypeOK, RequestRows, Row
    <3> QED
      BY <3>2, <3>3, <3>4
  <2> QED
    BY <2>1, <2>2, OnlyTwoAllow DEF LedgerInv
<1>2. SafeSpec => []LedgerInv
  BY InitEstablishes, StepKeepsInv, PTL DEF SafeSpec
<1>3. Init => BusyUnanswered
  BY DEF Init, BusyUnanswered
<1>4. SafeSpec => []BusyUnanswered
  BY <1>2, <1>3, StepKeepsUnanswered, PTL DEF SafeSpec, LedgerInv
<1> QED
  BY <1>1, <1>2, <1>4, PTL DEF SafeSpec, AllowedHasUnit

\* Locks and transactions implement the atomic meter the application relies on:
\* a commit that adds a row counts one request, a commit that flips one gives
\* it back, and every other step leaves the meter as it is.
THEOREM LedgerImplementsMeter == Spec => ImplementsMeter
<1>1. Init => Meter!Init
  BY DEF Init, Meter!Init
<1>0. /\ Meter!Row = Row
      /\ Meter!Subscription = Subscription
      /\ \A r, u, k, id : Meter!SameRequest(r, u, k, id) <=> SameRequest(r, u, k, id)
      /\ \A rows, u, k, key : Meter!Counted(rows, u, k, key) = Counted(rows, u, k, key)
      /\ \A sold, u, k, key, n :
           Meter!WithinLimit(sold, u, k, key, n) <=> WithinLimit(sold, u, k, key, n)
  BY DEF Meter!Row, Row, Meter!Keys, Keys, Meter!Periods, Periods,
         Meter!Subscription, Subscription, Meter!SameRequest, SameRequest,
         Meter!Counted, Counted, Meter!WithinLimit, WithinLimit,
         Meter!HeldPlans, HeldPlans, Meter!KeyAt, KeyAt, Meter!DayOf, DayOf
<1>2. LedgerInv /\ LedgerInv' /\ [Next]_vars => [Meter!Next]_(Meter!meterVars)
  <2> SUFFICES ASSUME LedgerInv, LedgerInv', Next PROVE [Meter!Next]_(Meter!meterVars)
    BY DEF vars, Meter!meterVars
  <2>1. ASSUME NEW s \in Sessions, Insert(s) PROVE Meter!Next
    <3> DEFINE row == NewRow(s)
               units == Counted(ledger, call[s].user, call[s].kind, meter[s].key)
    <3>1. /\ pc[s] = "inserting" /\ ledger' = ledger \cup {row} /\ subs' = subs
      BY <2>1 DEF Insert, Finish
    <3>2. row \in Row
      BY <3>1, CallFields DEF NewRow, Row, LedgerInv, TypeOK
    <3>3. /\ row.user = call[s].user /\ row.kind = call[s].kind
          /\ row.req = call[s].req /\ row.key = meter[s].key /\ row.refunded = FALSE
      BY DEF NewRow
    <3>4. \A r \in ledger : ~SameRequest(r, row.user, row.kind, row.req)
      BY <3>1, <3>3 DEF LedgerInv, ChecksStand, RequestRows
    <3>5. Cardinality(units) < meter[s].limit
      BY <3>1 DEF LedgerInv, ChecksStand, UsedBy
    <3>6. Cardinality(units) \in Nat /\ meter[s].limit \in Nat
      BY CountsAreNat DEF LedgerInv, TypeOK
    <3> HIDE DEF units
    <3>7. Cardinality(units) + 1 \in 1 .. meter[s].limit
      BY <3>5, <3>6
    <3>8. WithinLimit(subs, row.user, row.kind, row.key, Cardinality(units) + 1)
      BY <3>1, <3>3, <3>7 DEF LedgerInv, MeterEntitled
    <3>9. units = Counted(ledger, row.user, row.kind, row.key)
      BY <3>3 DEF units
    <3>10. row \in ledger' \ ledger
      BY <3>1, <3>4 DEF SameRequest
    <3> HIDE DEF row
    <3>11. Meter!Count(row)
      <4>1. row \in Meter!Row /\ ~row.refunded
        BY <3>2, <3>3, <1>0
      <4>2. \A r \in ledger : ~Meter!SameRequest(r, row.user, row.kind, row.req)
        BY <3>4, <1>0
      <4>3. Meter!Counted(ledger, row.user, row.kind, row.key) = units
        BY <3>9, <1>0
      <4>4. Meter!WithinLimit(subs, row.user, row.kind, row.key, Cardinality(units) + 1)
        BY <3>8, <1>0
      <4>5. Meter!Cardinality(units) = Cardinality(units)
        BY DEF Meter!Cardinality, Cardinality
      <4> QED BY <3>1, <4>1, <4>2, <4>3, <4>4, <4>5 DEF Meter!Count
    <3> QED BY <3>10, <3>11 DEF Meter!Next
  <2>2. ASSUME NEW s \in Sessions, Refund(s) PROVE [Meter!Next]_(Meter!meterVars)
    <3>1. subs' = subs /\ call[s].tok \in Tokens
      BY <2>2 DEF Refund, Finish, LedgerInv, RefundHasToken, Locked
    <3>2. CASE ledger' = ledger
      BY <3>1, <3>2 DEF Meter!meterVars
    <3>3. ASSUME NEW r \in ledger, ~r.refunded, r.tok = call[s].tok,
                 ledger' = (ledger \ {r}) \cup {[r EXCEPT !.refunded = TRUE]}
          PROVE  Meter!Next
      <4>1. Meter!GiveBack(r, call[s].tok)
        BY <3>1, <3>3 DEF Meter!GiveBack
      <4> QED BY <3>1, <4>1 DEF Meter!Next
    <3> QED BY <2>2, <3>2, <3>3, RefundTouchesOne DEF LedgerInv
  <2>3. ASSUME NEW u \in Users, Activate(u, DayTicks) PROVE [Meter!Next]_(Meter!meterVars)
    <3>1. PICK s : subs' = subs \cup {s} /\ ledger' = ledger
      BY <2>3 DEF Activate
    <3>2. CASE s \in subs
      BY <3>1, <3>2 DEF Meter!meterVars
    <3>3. CASE s \notin subs
      <4>1. s \in Subscription
        BY <3>1 DEF LedgerInv, TypeOK
      <4>2. Meter!Subscribe(s)
        BY <3>1, <4>1, <1>0 DEF Meter!Subscribe
      <4> QED BY <3>1, <3>3, <4>2 DEF Meter!Next
    <3> QED BY <3>2, <3>3
  <2>4. ASSUME UNCHANGED <<ledger, subs>> PROVE [Meter!Next]_(Meter!meterVars)
    BY <2>4 DEF Meter!meterVars
  <2> QED
    BY <2>1, <2>2, <2>3, <2>4, WhatStepsWrite
       DEF LedgerInv, Begin, TakeLock, ReadPlan, Accept, ReadOnlyEnd, Finish, Tick
<1> QED
  BY <1>1, <1>2, LedgerCorrect, PTL DEF Spec, SafeSpec, ImplementsMeter, Meter!Spec

=============================================================================
