SPECIFICATION Spec
CONSTANTS
  Segments = 2
  Replies = 1
  Fins = 2
  Others <- MCOthers
INVARIANTS
  EstablishedWasAnswered
  EndOfStreamIsComplete
PROPERTIES
  AckedFinMeansDelivered
CHECK_DEADLOCK FALSE
