\* Two requests that may collide on a request id, with every disturbance.
SPECIFICATION SafeSpec
CONSTANTS
  u1 = u1
  chat = chat
  quiz = quiz
  notes = notes
  q1 = q1
  q2 = q2
  r1 = r1
  r2 = r2
  NoToken = NoToken
  Users = {u1}
  Kinds = {chat, quiz, notes}
  Chat = chat
  Quiz = quiz
  Notes = notes
  RequestIds = {q1, q2}
  Requests = {r1, r2}
  Tokens = {r1, r2}
  Endpoints = {"stream", "chat", "quiz", "title", "tags", "study"}
  Limits <- MCLimits
  Joined <- MCJoined
  DayTicks = 1
  WeekDays = 7
  TransportBound = TRUE
  Calm = FALSE
SYMMETRY MCSymmetry
INVARIANTS DeliveredIsFinal AbandonedIsKept NeverUnmetered
CHECK_DEADLOCK FALSE
