------------------------------ MODULE QuotaLedger ------------------------------
(***************************************************************************)
(* The database side of the usage quota: consume_quota, refund_quota and    *)
(* the plan a paid subscription gives, as the transactions that PostgreSQL  *)
(* interleaves.  A call takes the advisory lock of its <<user, kind>> and    *)
(* keeps it until it commits or rolls back; every statement reads what is   *)
(* committed when it runs, but now() is the instant the transaction began.  *)
(***************************************************************************)
EXTENDS QuotaPlans

CONSTANTS
  Sessions,   \* database connections, each running one call at a time
  Cap,        \* v_cap: ledger rows a user may add in a rolling day
  MaxClock,   \* bound on the clock
  MaxSubs     \* bound on the subscriptions sold

ASSUME LedgerAssumption ==
  /\ Cap \in Nat \ {0}
  /\ MaxClock \in Nat
  /\ MaxSubs \in Nat

VARIABLES
  clock,   \* wall-clock tick
  subs,    \* rows of subscriptions
  ledger,  \* rows of quota_ledger
  pc,      \* where the transaction of each session is
  call,    \* the arguments it was called with
  began,   \* its now()
  meter,   \* the period key and the limit it has computed
  reply    \* what the last call of the session answered

vars == <<clock, subs, ledger, pc, call, began, meter, reply>>

Call == [op : {"consume", "refund"}, user : Users, kind : Kinds,
         req : RequestIds, tok : Tokens \cup {NoToken}]

\* A session between calls.
NoCall == [op |-> "none"]
NoMeter == [key |-> <<"day", 0>>, limit |-> 0]

\* Places of a transaction that holds the advisory lock of its call.
Locked == {"locked", "planned", "inserting"}

Replies == {"none", "ok", "replay", "request_id_reused", "quota_exceeded",
            "rate_limited", "plan_not_configured", "refunded",
            "not_refunded", "aborted"}

\* Mutant: the lock is taken per request instead of per user and kind.
SameLockPerRequest(s, t) ==
  /\ call[s].user = call[t].user
  /\ call[s].kind = call[t].kind
  /\ call[s].req = call[t].req

SameLock(s, t) == call[s].user = call[t].user /\ call[s].kind = call[t].kind

\* Rows the growth cap counts for u at the instant t, refunded or not.
Recent(u, t) == {r \in ledger : r.user = u /\ r.created > t - DayTicks}

RequestRows(c) == {r \in ledger : SameRequest(r, c.user, c.kind, c.req)}

UsedBy(s) == Cardinality(Counted(ledger, call[s].user, call[s].kind, meter[s].key))

Init ==
  /\ clock = 0
  /\ subs = {}
  /\ ledger = {}
  /\ pc = [s \in Sessions |-> "idle"]
  /\ call = [s \in Sessions |-> NoCall]
  /\ began = [s \in Sessions |-> 0]
  /\ meter = [s \in Sessions |-> NoMeter]
  /\ reply = [s \in Sessions |-> "none"]

TypeOK ==
  /\ clock \in Nat
  /\ subs \subseteq Subscription
  /\ ledger \subseteq Row
  /\ pc \in [Sessions -> {"idle", "waiting"} \cup Locked]
  /\ call \in [Sessions -> Call \cup {NoCall}]
  /\ \A s \in Sessions : pc[s] # "idle" => call[s] \in Call
  /\ began \in [Sessions -> Nat]
  /\ meter \in [Sessions -> [key : Keys, limit : Nat]]
  /\ reply \in [Sessions -> Replies]

-----------------------------------------------------------------------------
(* The calls *)

\* PostgREST opens a transaction for a call; now() is fixed from here on.
Begin(s, c) ==
  /\ pc[s] = "idle"
  /\ pc' = [pc EXCEPT ![s] = "waiting"]
  /\ call' = [call EXCEPT ![s] = c]
  /\ began' = [began EXCEPT ![s] = clock]
  /\ reply' = [reply EXCEPT ![s] = "none"]
  /\ UNCHANGED <<clock, subs, ledger, meter>>

\* refund_quota answers a call without a token before it asks for the lock.
AsksForLock(c) == c.op = "consume" \/ c.tok # NoToken

\* Mutant: a caller still in the queue is taken for one that holds the lock.
TakeLockIfAlone(s) ==
  /\ pc[s] = "waiting"
  /\ AsksForLock(call[s])
  /\ \A t \in Sessions \ {s} : pc[t] # "idle" => ~SameLock(s, t)
  /\ pc' = [pc EXCEPT ![s] = "locked"]
  /\ UNCHANGED <<clock, subs, ledger, call, began, meter, reply>>

\* pg_advisory_xact_lock: granted when no other transaction holds the lock of
\* the same user and kind.
TakeLock(s) ==
  /\ pc[s] = "waiting"
  /\ AsksForLock(call[s])
  /\ \A t \in Sessions \ {s} : pc[t] \in Locked => ~SameLock(s, t)
  /\ pc' = [pc EXCEPT ![s] = "locked"]
  /\ UNCHANGED <<clock, subs, ledger, call, began, meter, reply>>

\* The transaction ends: its writes become visible and its lock is released.
Finish(s, answer) ==
  /\ pc' = [pc EXCEPT ![s] = "idle"]
  /\ reply' = [reply EXCEPT ![s] = answer]
  /\ call' = [call EXCEPT ![s] = NoCall]
  /\ began' = [began EXCEPT ![s] = 0]
  /\ meter' = [meter EXCEPT ![s] = NoMeter]
  /\ UNCHANGED <<clock, subs>>

\* consume_quota reads the plan, and from it the period key and the limit.
ReadPlan(s) ==
  LET c == call[s]
      p == PlanAt(subs, c.user, began[s])
      row == Limits[<<p, c.kind>>]
  IN  /\ pc[s] = "locked"
      /\ c.op = "consume"
      /\ <<p, c.kind>> \in DOMAIN Limits
      /\ meter' = [meter EXCEPT ![s] =
                     [key |-> KeyAt(row.period, began[s]),
                      limit |-> LimitAt(row, c.user, began[s])]]
      /\ pc' = [pc EXCEPT ![s] = "planned"]
      /\ UNCHANGED <<clock, subs, ledger, call, began, reply>>

\* The plan has no row for the meter: denied, nothing is written.
PlanMissing(s) ==
  /\ pc[s] = "locked"
  /\ call[s].op = "consume"
  /\ <<PlanAt(subs, call[s].user, began[s]), call[s].kind>> \notin DOMAIN Limits
  /\ Finish(s, "plan_not_configured")
  /\ UNCHANGED ledger

\* Mutant: a request id with a row is allowed again even after its refund.
ReplayRefunded(s) ==
  /\ pc[s] = "planned"
  /\ RequestRows(call[s]) # {}
  /\ Finish(s, "replay")
  /\ UNCHANGED ledger

\* A request id that already has a row is not counted again: allowed while the
\* row stands, refused once it was refunded.
Replay(s) ==
  /\ pc[s] = "planned"
  /\ \E r \in RequestRows(call[s]) :
       Finish(s, IF r.refunded THEN "request_id_reused" ELSE "replay")
  /\ UNCHANGED ledger

\* A new request over the plan's limit, or over the growth cap, is denied.
Deny(s) ==
  /\ pc[s] = "planned"
  /\ RequestRows(call[s]) = {}
  /\ \/ /\ UsedBy(s) >= meter[s].limit
        /\ Finish(s, "quota_exceeded")
     \/ /\ UsedBy(s) < meter[s].limit
        /\ Cardinality(Recent(call[s].user, began[s])) >= Cap
        /\ Finish(s, "rate_limited")
  /\ UNCHANGED ledger

\* Mutant: the growth cap is off by one.
AcceptAtCap(s) ==
  /\ pc[s] = "planned"
  /\ RequestRows(call[s]) = {}
  /\ UsedBy(s) < meter[s].limit
  /\ Cardinality(Recent(call[s].user, began[s])) <= Cap
  /\ pc' = [pc EXCEPT ![s] = "inserting"]
  /\ UNCHANGED <<clock, subs, ledger, call, began, meter, reply>>

\* Every check has passed; the insert follows, still uncommitted.
Accept(s) ==
  /\ pc[s] = "planned"
  /\ RequestRows(call[s]) = {}
  /\ UsedBy(s) < meter[s].limit
  /\ Cardinality(Recent(call[s].user, began[s])) < Cap
  /\ pc' = [pc EXCEPT ![s] = "inserting"]
  /\ UNCHANGED <<clock, subs, ledger, call, began, meter, reply>>

NewRow(s) ==
  [user |-> call[s].user, kind |-> call[s].kind, key |-> meter[s].key,
   req |-> call[s].req, tok |-> call[s].tok, created |-> began[s],
   refunded |-> FALSE]

\* The insert commits; created_at is the transaction's now().
Insert(s) ==
  /\ pc[s] = "inserting"
  /\ ledger' = ledger \cup {NewRow(s)}
  /\ Finish(s, "ok")

\* refund_quota without a token: false, whatever the ledger holds.
RefundRefused(s) ==
  /\ pc[s] = "waiting"
  /\ ~AsksForLock(call[s])
  /\ Finish(s, "not_refunded")
  /\ UNCHANGED ledger

\* Mutant: the token of the row is not compared.
RefundableByAnyone(c) == {r \in RequestRows(c) : ~r.refunded}

\* The rows a refund flips: standing, of its request, and with its token.
Refundable(c) == {r \in RequestRows(c) : ~r.refunded /\ r.tok = c.tok}

\* Mutant: a refund removes the row instead of marking it.
RefundDeletes(s) ==
  LET hit == Refundable(call[s])
  IN  /\ pc[s] = "locked"
      /\ call[s].op = "refund"
      /\ ledger' = ledger \ hit
      /\ Finish(s, IF hit = {} THEN "not_refunded" ELSE "refunded")

\* refund_quota under the lock; the update and the commit.
Refund(s) ==
  LET hit == Refundable(call[s])
  IN  /\ pc[s] = "locked"
      /\ call[s].op = "refund"
      /\ ledger' = (ledger \ hit) \cup {[r EXCEPT !.refunded = TRUE] : r \in hit}
      /\ Finish(s, IF hit = {} THEN "not_refunded" ELSE "refunded")

\* A transaction that has not committed may be rolled back: statement timeout,
\* lost connection, restart of the server.
Abort(s) ==
  /\ pc[s] # "idle"
  /\ Finish(s, "aborted")
  /\ UNCHANGED ledger

-----------------------------------------------------------------------------
(* The environment *)

Tick ==
  /\ clock < MaxClock
  /\ clock' = clock + 1
  /\ UNCHANGED <<subs, ledger, pc, call, began, meter, reply>>

\* activate_pro_subscription commits a period that starts where the current
\* one ends, or now.
Activate(u, length) ==
  LET running == {s.expires : s \in {x \in subs : x.user = u /\ x.expires > clock}}
  IN  /\ Cardinality(subs) < MaxSubs
      /\ \E starts \in {clock} \cup running :
           /\ \A e \in running : e <= starts
           /\ subs' = subs \cup {[user |-> u, starts |-> starts,
                                 expires |-> starts + length]}
      /\ UNCHANGED <<clock, ledger, pc, call, began, meter, reply>>

Step(s) ==
  \/ TakeLock(s) \/ RefundRefused(s)
  \/ ReadPlan(s) \/ PlanMissing(s) \/ Replay(s) \/ Deny(s) \/ Accept(s)
  \/ Insert(s) \/ Refund(s)

Next ==
  \/ \E s \in Sessions :
       \/ \E c \in Call : Begin(s, c)
       \/ Step(s)
       \/ Abort(s)
  \/ \E u \in Users : Activate(u, DayTicks)
  \/ Tick

\* A granted transaction runs on, and PostgreSQL serves lock waiters in order,
\* so one that waits is not passed over for ever.
Fairness == \A s \in Sessions : SF_vars(TakeLock(s)) /\ WF_vars(Step(s))

SafeSpec == Init /\ [][Next]_vars

Spec == SafeSpec /\ Fairness

-----------------------------------------------------------------------------
(* Properties *)

\* Concurrent requests never exceed a limit: the units counted in one period
\* stay within a limit of a plan the student has held, however the calls of
\* the same user and kind overlap (consume_quota's lock, replay and count).
QuotaRespected ==
  \A u \in Users, k \in Kinds : \A r \in ledger :
    LET units == Counted(ledger, u, k, r.key)
    IN  units # {} => WithinLimit(subs, u, k, r.key, Cardinality(units))

\* The ledger of a user grows by at most Cap rows in a rolling day, refunded
\* ones included, plus one for every other kind that raced at the cap: the
\* overshoot the comment of migration 0012 states.
GrowthBounded ==
  \A u \in Users :
    Cardinality(Recent(u, clock)) <= Cap + Cardinality(Kinds) - 1

\* A request id has one row, so a replay can never be counted twice.
OneRowPerRequest ==
  \A r1, r2 \in ledger :
    SameRequest(r1, r2.user, r2.kind, r2.req) => r1 = r2

\* A refund is final and is made by the holder of the row's own token: no step
\* removes a row, revives a refunded one, or refunds one for another caller.
RefundIsFinal ==
  [][\A r \in ledger :
       \/ r \in ledger'
       \/ /\ ~r.refunded
          /\ [r EXCEPT !.refunded = TRUE] \in ledger'
          /\ \E s \in Sessions : call[s].op = "refund" /\ call[s].tok = r.tok]_vars

\* An answer that lets a request run rests on a unit that stands: an id whose
\* unit was given back is never allowed again.
AllowedHasUnit ==
  [][\A s \in Sessions :
       (pc[s] # "idle" /\ reply'[s] \in {"ok", "replay"}) =>
         \E r \in ledger' :
           /\ SameRequest(r, call[s].user, call[s].kind, call[s].req)
           /\ ~r.refunded]_vars

\* Every call is answered: a session never waits for a lock for ever.
EveryCallEnds == \A s \in Sessions : pc[s] = "waiting" ~> pc[s] = "idle"

-----------------------------------------------------------------------------
(* The inductive invariant behind the three safety properties. *)

\* Two transactions never hold the lock of the same user and kind.
LockExclusive ==
  \A s, t \in Sessions :
    (s # t /\ pc[s] \in Locked /\ pc[t] \in Locked) => ~SameLock(s, t)

\* No transaction began in the future.
BeganInPast == \A s \in Sessions : began[s] <= clock

\* refund_quota reaches the lock only with a token.
RefundHasToken ==
  \A s \in Sessions :
    (pc[s] \in Locked /\ call[s].op = "refund") => call[s].tok \in Tokens

\* The limit a transaction has computed is one its student is entitled to.
MeterEntitled ==
  \A s \in Sessions : pc[s] \in {"planned", "inserting"} =>
    /\ call[s].op = "consume"
    /\ \A n \in 1 .. meter[s].limit :
         WithinLimit(subs, call[s].user, call[s].kind, meter[s].key, n)

\* What a transaction checked still holds when it inserts.
ChecksStand ==
  \A s \in Sessions : pc[s] = "inserting" =>
    RequestRows(call[s]) = {} /\ UsedBy(s) < meter[s].limit

\* Kinds of u whose insert has passed the cap's check and is not committed.
InsertingKinds(u) ==
  {call[s].kind : s \in {x \in Sessions : pc[x] = "inserting" /\ call[x].user = u}}

\* Every such kind has its part of the overshoot reserved.
GrowthReserved ==
  \A u \in Users :
    Cardinality(Recent(u, clock)) + Cardinality(InsertingKinds(u))
      <= Cap + Cardinality(Kinds) - 1

LedgerInv ==
  /\ TypeOK
  /\ IsFiniteSet(ledger)
  /\ LockExclusive
  /\ BeganInPast
  /\ RefundHasToken
  /\ MeterEntitled
  /\ ChecksStand
  /\ OneRowPerRequest
  /\ QuotaRespected
  /\ GrowthReserved

-----------------------------------------------------------------------------
(* The abstract meter *)

Meter == INSTANCE QuotaMeter

\* Locks and transactions implement the atomic meter.
ImplementsMeter == Meter!Spec
=============================================================================
