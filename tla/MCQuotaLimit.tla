----------------------------- MODULE MCQuotaLimit -----------------------------
(***************************************************************************)
(* One student and one meter: the limit, the first day, the plan change,    *)
(* replays and refunds, with two connections racing.                        *)
(***************************************************************************)
EXTENDS QuotaLedger, TLC

CONSTANTS u1, chat, q1, q2, q3, t1, s1, s2

\* Free: 1 a day, 2 on the first day.  Pro: 2 a day.
MCLimits ==
  (<<"free", chat>> :> [period |-> "day", count |-> 1, first |-> 2]) @@
  (<<"pro", chat>> :> [period |-> "day", count |-> 2, first |-> 2])

MCJoined == u1 :> 0

MCSymmetry == Permutations(RequestIds) \cup Permutations(Sessions)
=============================================================================
