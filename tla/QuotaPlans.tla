------------------------------ MODULE QuotaPlans ------------------------------
(***************************************************************************)
(* What the plans of the product allow, and the rows the usage ledger is   *)
(* made of: the reference data of supabase/migrations 0008, 0011 and 0014. *)
(* Time is counted in ticks from a Monday midnight in Asia/Dhaka: a day is   *)
(* DayTicks of them and a week is WeekDays days.                            *)
(***************************************************************************)
EXTENDS Integers, FiniteSets

CONSTANTS
  Users,       \* accounts (auth.users)
  Kinds,       \* the meters: chat, quiz, notes_ai
  RequestIds,  \* request ids a caller may send; callers may reuse one
  Tokens,      \* refund tokens, each known to one server request
  NoToken,     \* a call without a refund token (SQL null)
  Limits,      \* plan_limits: a function on the configured <<plan, kind>>
  Joined,      \* the tick each account was created at
  DayTicks,
  WeekDays

Plans == {"free", "pro"}

Periods == {"day", "week"}

\* A row of plan_limits.  "first" is first_day_limit_count, equal to "count"
\* where the column is null: then the first day is a day like any other.
LimitRow == [period : Periods, count : Nat, first : Nat]

ASSUME PlanAssumption ==
  /\ IsFiniteSet(Kinds)
  /\ NoToken \notin Tokens
  /\ DOMAIN Limits \subseteq Plans \X Kinds
  /\ \A c \in DOMAIN Limits : Limits[c] \in LimitRow
  /\ Joined \in [Users -> Nat]
  /\ DayTicks \in Nat \ {0}
  /\ WeekDays \in Nat \ {0}

DayOf(t) == t \div DayTicks

\* The period_key a request made at tick t is counted under.
KeyAt(period, t) ==
  <<period, IF period = "week" THEN DayOf(t) \div WeekDays ELSE DayOf(t)>>

Keys == Periods \X Nat

\* Mutant: the first day is the first 24 hours and the rest of their last day.
FirstTwoDays(u, t) == DayOf(t) - DayOf(Joined[u]) \in 0 .. 1

FirstDay(u, t) == DayOf(t) = DayOf(Joined[u])

\* The limit a row of plan_limits sets for a request of u at tick t.
LimitAt(row, u, t) == IF FirstDay(u, t) THEN row.first ELSE row.count

\* One row of quota_ledger; refunded stands for "refunded_at is not null".
Row == [user : Users, kind : Kinds, key : Keys, req : RequestIds,
        tok : Tokens \cup {NoToken}, created : Nat, refunded : BOOLEAN]

Subscription == [user : Users, starts : Nat, expires : Nat]

\* The units of one meter and period that count against the limit.
Counted(rows, u, k, key) ==
  {r \in rows : r.user = u /\ r.kind = k /\ r.key = key /\ ~r.refunded}

SameRequest(r, u, k, id) == r.user = u /\ r.kind = k /\ r.req = id

PlanAt(sold, u, t) ==
  IF \E s \in sold : s.user = u /\ s.starts <= t /\ t < s.expires
  THEN "pro" ELSE "free"

\* Plans u has ever been sold; every account has the free one.
HeldPlans(sold, u) ==
  {"free"} \cup {p \in {"pro"} : \E s \in sold : s.user = u}

\* n units of meter k in the period key are within a limit of some plan u has
\* held; the first-day limit only in the period the account was created in.
WithinLimit(sold, u, k, key, n) ==
  \E p \in HeldPlans(sold, u) :
    /\ <<p, k>> \in DOMAIN Limits
    /\ Limits[<<p, k>>].period = key[1]
    /\ \/ n <= Limits[<<p, k>>].count
       \/ key = KeyAt(key[1], Joined[u]) /\ n <= Limits[<<p, k>>].first
=============================================================================
