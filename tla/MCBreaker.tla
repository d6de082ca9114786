-------------------------------- MODULE MCBreaker --------------------------------
(***************************************************************************)
(* Three threads, a breaker that trips at two failures in a row.             *)
(***************************************************************************)
EXTENDS CircuitBreaker, TLC

CONSTANTS r1, r2, r3

MCSymmetry == Permutations(Requests)
=============================================================================
