SPECIFICATION Spec
CONSTANTS
  a = a  b = b  None = None  c1 = c1  c2 = c2 x = x  y = y
  Node = {a, b}
  Peer <- MCPeer
  Boss = a
  Conn = {c1}
  Act = {x, y}
  MaxRetries = 1
  BlockLen = 1
  RipeAge = 1
  RefreshAge = 1
  SlowInit = FALSE
  Scenarios <- LateScen
  MaxFaults = 1
  Crashers = {b}
  MaxNoti = 1
INVARIANT ShadowInSync
PROPERTY AckMeansDelivered
CHECK_DEADLOCK FALSE
