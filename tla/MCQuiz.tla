--------------------------------- MODULE MCQuiz ---------------------------------
(***************************************************************************)
(* Two students, a few quizzes, and submits of the same quiz that race.      *)
(***************************************************************************)
EXTENDS QuizSubmission, TLC

CONSTANTS u1, u2, q1, q2, q3, q4, r1, r2

MCSymmetry == Permutations(Quizzes) \cup Permutations(Requests)
=============================================================================
