SPECIFICATION Spec
CONSTANTS
  Messages = 2
  WaitTime = 3
  SelectTime = 5
  ArriveCap = 2
INVARIANT
  AssertKcp
CHECK_DEADLOCK FALSE
