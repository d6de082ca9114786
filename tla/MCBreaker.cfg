\* Three threads, both models preferred, every kind of result.
SPECIFICATION SafeSpec
CONSTANTS
  r1 = r1
  r2 = r2
  r3 = r3
  Requests = {r1, r2, r3}
  Preferred = {"general", "advanced"}
  Threshold = 2
  Cooldown = 1
  MaxAttempts = 2
  AllCounted = FALSE
SYMMETRY MCSymmetry
INVARIANTS TrippedByFailures
PROPERTIES HealthyModelPreferred
