SPECIFICATION Spec
CONSTANTS
  a = a  b = b  None = None  c1 = c1  c2 = c2 x = x  y = y
  Node = {a, b}
  Peer <- MCPeer
  Boss = a
  Conn = {c1, c2}
  Act = {x}
  MaxRetries = 1
  BlockLen = 2
  RipeAge = 1
  RefreshAge = 1
  SlowInit = TRUE
  Scenarios <- BootScen
  MaxFaults = 1
  Crashers = {b}
  MaxNoti = 1
SYMMETRY ConnSym
INVARIANT TypeOK
PROPERTY AckMeansDelivered
CHECK_DEADLOCK FALSE
