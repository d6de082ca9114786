------------------------------ MODULE MCQuotaCap ------------------------------
(***************************************************************************)
(* One student and two meters with generous limits, so that the growth cap  *)
(* is what stops a loop of consume and refund; two connections may pass the *)
(* cap's check together because their locks differ, and contend for ever    *)
(* when they are the same.  Pro has no plan rows.                         *)
(***************************************************************************)
EXTENDS QuotaLedger, TLC

CONSTANTS u1, chat, quiz, q1, q2, t1, s1, s2

MCLimits ==
  (<<"free", chat>> :> [period |-> "day", count |-> 2, first |-> 2]) @@
  (<<"free", quiz>> :> [period |-> "week", count |-> 2, first |-> 2])

MCJoined == u1 :> 0
=============================================================================
