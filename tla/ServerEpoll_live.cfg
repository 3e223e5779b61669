SPECIFICATION FairSpec
CONSTANTS
  c1 = c1
  c2 = c2
  c3 = c3
  f1 = f1
  f2 = f2
  Conn = {c1, c2}
  Fd = {f1}
  None = None
  Null = Null
  FileChunks = 1
  Size <- MCSize
  NoiseCap = 1
  InboxCap = 1
  TornLookup = FALSE
INVARIANTS
  AnsweredIfWhole
PROPERTIES
  EndedIsReleased
  WholeFileIsAnswered
CHECK_DEADLOCK FALSE
