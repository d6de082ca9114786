\* Five streams, two permits, two places to wait.
SPECIFICATION Spec
CONSTANTS
  r1 = r1
  r2 = r2
  r3 = r3
  r4 = r4
  r5 = r5
  Requests = {r1, r2, r3, r4, r5}
  Limit = 2
  MaxQueued = 2
  MaxRounds = 2
INVARIANTS PermitsConserved NobodyForgotten
PROPERTIES EveryWaitEnds
CHECK_DEADLOCK FALSE
