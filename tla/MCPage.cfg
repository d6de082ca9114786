SPECIFICATION Spec
CONSTANTS
  a1 = a1
  b1 = b1
  A = A
  B = B
  c1 = c1
  c2 = c2
  P1 = P1
  Users = {A, B}
  Notes = {a1, b1}
  Owner <- MCOwner
  NoUser = NoUser
  NoNote = NoNote
  Quizzes = {1, 2, 3}
  NoQuiz = NoQuiz
  Questions = 2
  Pupils = {P1, P2}
  Nobody = Nobody
  MaxOpenings = 5
  Talks = {c1, c2}
  NoTalk = NoTalk
  MaxTurns = 2
  MaxAsked = 2
  Core = {page, script}
  Required = {lib}
  Optional = {math}
  LastVersion = 2
  MaxStatus = 2
  Rooms = {r1, r2}
  Alphabet = {"x", "dollar", "tick", "star", "back", "lpar", "rpar"}
  MaxLength = 6
  MaxBytes = 6
INVARIANTS
  OwnNotesOnly
  OfflineClaimHolds
  PanelShowsOwn
  ApprovedIsShared
  ReadyIsTrue
  AttachmentShown
  ChunkingIrrelevant
  BoundaryGrows
PROPERTIES
  ProgressKept
SYMMETRY Symmetry
CONSTRAINT WithinBounds
CHECK_DEADLOCK FALSE
