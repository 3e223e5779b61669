SPECIFICATION FairSpec
CONSTANTS
  Messages = 2
  WaitTime = 3
  SelectTime = 5
  ArriveCap = 2
INVARIANTS
  AnswerMeansDrained
  OneReader
  ReceiverUsesLive
  ReceiverOutlived
PROPERTIES
  ClientEnds
  ReceiverEnds
CHECK_DEADLOCK FALSE
