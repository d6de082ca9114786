-------------------------------- MODULE MCStream --------------------------------
(***************************************************************************)
(* Two streamed answers sharing a small retry budget.                       *)
(***************************************************************************)
EXTENDS StreamEngine, TLC

CONSTANTS r1, r2

MCSymmetry == Permutations(Requests)
=============================================================================
