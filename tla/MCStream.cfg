\* Two answers share a budget of one token, refilled twice; deadlines in reach.
SPECIFICATION Spec
CONSTANTS
  r1 = r1
  r2 = r2
  Requests = {r1, r2}
  MaxAttempts = 3
  MaxUnknown = 2
  FirstTokenDeadline = 1
  StreamDeadline = 1
  CallMargin = 0
  RetryMargin = 0
  Burst = 1
  Fallback = TRUE
  MaxElapsed = 1
  MaxRefills = 2
  MaxPieces = 1
INVARIANTS LimitedModelLeftAlone ShownWorkIsRecorded LoadBounded
PROPERTIES ImplementsContract EveryStreamEnds
CHECK_DEADLOCK FALSE
