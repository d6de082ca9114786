\* Nothing is lost and nobody leaves; title and study are left out, see README.md.
SPECIFICATION SafeSpec
CONSTANTS
  u1 = u1
  chat = chat
  quiz = quiz
  notes = notes
  q1 = q1
  q2 = q2
  r1 = r1
  r2 = r2
  NoToken = NoToken
  Users = {u1}
  Kinds = {chat, quiz, notes}
  Chat = chat
  Quiz = quiz
  Notes = notes
  RequestIds = {q1, q2}
  Requests = {r1, r2}
  Tokens = {r1, r2}
  Endpoints = {"stream", "chat", "quiz", "tags"}
  Limits <- MCLimits
  Joined <- MCJoined
  DayTicks = 1
  WeekDays = 7
  TransportBound = TRUE
  Calm = TRUE
SYMMETRY MCSymmetry
INVARIANTS NothingUsableIsRefunded
CHECK_DEADLOCK FALSE
