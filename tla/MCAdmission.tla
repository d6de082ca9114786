------------------------------ MODULE MCAdmission ------------------------------
(***************************************************************************)
(* Five streams that come twice each; two may run and two wait, so the last  *)
(* finds the queue full.                                                    *)
(***************************************************************************)
EXTENDS Admission, TLC

CONSTANTS r1, r2, r3, r4, r5
=============================================================================
