SPECIFICATION Spec
CONSTANTS
  Segments = 1
  Replies = 1
  Fins = 2
  Others <- MCNoOthers
INVARIANT
  AssertFin
CHECK_DEADLOCK FALSE
