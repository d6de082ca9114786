\* Two students, four quizzes; every call may fail.
SPECIFICATION Spec
CONSTANTS
  u1 = u1
  u2 = u2
  q1 = q1
  q2 = q2
  q3 = q3
  q4 = q4
  r1 = r1
  r2 = r2
  Users = {u1, u2}
  Quizzes = {q1, q2, q3, q4}
  NoQuiz = NoQuiz
  Requests = {r1, r2}
  MaxPerUser = 2
  MaxGlobal = 3
  TTL = 0
  MaxClock = 1
  Faults = {"reject", "lose", "restart"}
SYMMETRY MCSymmetry
INVARIANTS OneSuccessPerQuiz SubmitKeepsDefinition OneAttemptPerQuiz
CHECK_DEADLOCK FALSE
