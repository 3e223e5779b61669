SPECIFICATION FairSpec
CONSTANTS
  Interval = 1
  MinRto = 3
  MaxRto = 6000
  Traffic = 3
  Settings <- MCSettings
  SndWnd = 3
  PeerWindows = {2, 3}
  WndRcv = 4
  Mss = 1376
  RtoDef = 4
  FastLimit = 5
  DeadLink = 3
  ThreshMin = 2
  RttMax = 2
  LossCap = 2
INVARIANTS
  TypeOK
  ResendsAccounted
  CwndTracksIncr
PROPERTIES
  GrowthWithinPeer
  Acknowledged
CHECK_DEADLOCK FALSE
