SPECIFICATION FairSpec
CONSTANTS
  Files <- MCFiles
  Overhead = 2
  Mtu = 9
  UdpMtu = 10
  ReadMax = 11
  NameLen = 1
  Early = 1
  Addresses <- MCAddresses
  Ports <- MCPorts
  Numbers <- MCNumbers
INVARIANTS
  TypeOK
  ChecksumsVerify
  ForgottenIsHeld
  FileIsPrefix
  AnswerMeansWritten
  ReadAtOnce
PROPERTIES
  EveryMessageArrives
CHECK_DEADLOCK FALSE
