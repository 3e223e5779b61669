SPECIFICATION Spec
CONSTANTS
  c = c
  s = s
  Endpoint <- MCEndpoint
  Peer <- MCPeer
  WND_RCV = 3
  SndWnd <- MCSndWnd
  RcvWndArg <- MCRcvWndArg
  NoCwnd <- MCCwnd
  Traffic <- OneWay4
  BufferLen = {1, 2}
  NetCap = 2
  Duplicates = TRUE
INVARIANTS
  InOrderDelivery
  AckedIsHeld
  FullQueueIsReadable
  BuffersBounded
PROPERTIES
  WindowNeverShrinks
  ChannelSpec
