SPECIFICATION FairSpec
CONSTANTS
  c = c
  s = s
  Endpoint <- MCEndpoint
  Peer <- MCPeer
  WND_RCV = 2
  SndWnd <- MCSndWnd1
  RcvWndArg <- MCRcvWndArg
  NoCwnd <- MCNoCwnd
  Traffic <- OneWay3
  BufferLen = {0, 1}
  NetCap = 2
  Duplicates = FALSE
PROPERTIES
  EverythingArrives
  WindowReopens
