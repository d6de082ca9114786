\* Two connections, three request ids, two days and one sold period.
SPECIFICATION SafeSpec
CONSTANTS
  u1 = u1
  chat = chat
  q1 = q1
  q2 = q2
  q3 = q3
  t1 = t1
  s1 = s1
  s2 = s2
  NoToken = NoToken
  Users = {u1}
  Kinds = {chat}
  RequestIds = {q1, q2, q3}
  Tokens = {t1}
  Sessions = {s1, s2}
  Limits <- MCLimits
  Joined <- MCJoined
  DayTicks = 1
  WeekDays = 7
  Cap = 9
  MaxClock = 1
  MaxSubs = 1
SYMMETRY MCSymmetry
INVARIANTS LedgerInv QuotaRespected
PROPERTIES RefundIsFinal AllowedHasUnit ImplementsMeter
