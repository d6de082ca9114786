----------------------------- MODULE MCSettlement -----------------------------
(***************************************************************************)
(* One student, a limit of one unit per meter, and two requests.            *)
(***************************************************************************)
EXTENDS RequestSettlement, TLC

CONSTANTS u1, chat, quiz, notes, q1, q2, r1, r2

MCLimits ==
  [c \in {"free"} \X Kinds |-> [period |-> "day", count |-> 1, first |-> 1]]

MCJoined == u1 :> 0

MCSymmetry == Permutations(RequestIds) \cup Permutations(Requests)
=============================================================================
