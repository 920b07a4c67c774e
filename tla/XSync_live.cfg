SPECIFICATION FairSpec
CONSTANTS
  a = a  b = b  None = None  c1 = c1  c2 = c2 x = x  y = y
  Node = {a, b}
  Peer <- MCPeer
  Boss = a
  Conn = {c1}
  Act = {x}
  MaxRetries = 1
  BlockLen = 1
  RipeAge = 1
  RefreshAge = 1
  SlowInit = FALSE
  Scenarios <- LiveScen
  MaxFaults = 1
  Crashers = {b}
  MaxNoti = 1
PROPERTY Resynced
CHECK_DEADLOCK FALSE
