SPECIFICATION Spec
CONSTANTS
  Half = 12
  Interval = 3
  Jump = 6
  Rto = 4
  RtoCap = 7
  Late = 5
  None = None
INVARIANTS
  FlushInTime
  FlushAfterJump
  ResendInTime
  CheckNeverLate
