\* Cap of one row, two connections, two meters; Pro has no plan row.
SPECIFICATION Spec
CONSTANTS
  u1 = u1
  chat = chat
  quiz = quiz
  q1 = q1
  q2 = q2
  t1 = t1
  s1 = s1
  s2 = s2
  NoToken = NoToken
  Users = {u1}
  Kinds = {chat, quiz}
  RequestIds = {q1, q2}
  Tokens = {t1}
  Sessions = {s1, s2}
  Limits <- MCLimits
  Joined <- MCJoined
  DayTicks = 1
  WeekDays = 2
  Cap = 1
  MaxClock = 0
  MaxSubs = 1
INVARIANTS GrowthBounded
PROPERTIES EveryCallEnds
