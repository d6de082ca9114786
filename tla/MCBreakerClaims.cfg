\* Two threads, both models preferred, every call recorded.
SPECIFICATION BusySpec
CONSTANTS
  r1 = r1
  r2 = r2
  r3 = r3
  Requests = {r1, r2}
  Preferred = {"general", "advanced"}
  Threshold = 2
  Cooldown = 1
  MaxAttempts = 2
  AllCounted = TRUE

PROPERTIES ProbeIsAnswered
