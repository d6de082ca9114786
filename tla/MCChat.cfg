SPECIFICATION Spec
CONSTANTS
  A = A
  B = B
  Chats = {c1, c2}
  Asks = {a1, a2}
  NoAsk = NoAsk
  MaxText = 1
  MaxPending = 1
  Students = {A, B}
  Guest = Guest
  Books = {p1}
  Recent <- MCRecent
  NoBook = NoBook
  MaxSaves = 1
  MaxVisits = 1
INVARIANTS
  RightChat
  OneStreamPerChat
  NobodyElsesWork
PROPERTIES
  ManualTitleKept
  StopEndsIt
  ImplementsAnswer
  NotebooksSettle
CONSTRAINT WithinBounds
CHECK_DEADLOCK FALSE
