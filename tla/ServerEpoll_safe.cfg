SPECIFICATION Spec
CONSTANTS
  c1 = c1
  c2 = c2
  c3 = c3
  f1 = f1
  f2 = f2
  Conn = {c1, c2, c3}
  Fd = {f1, f2}
  None = None
  Null = Null
  FileChunks = 1
  Size <- MCSize
  NoiseCap = 0
  InboxCap = 1
  TornLookup = FALSE
SYMMETRY MCSymmetry
INVARIANTS
  UsedIsLive
  DescriptorOwned
  EventsHaveClients
  AcceptNeverBlocks
CHECK_DEADLOCK FALSE
