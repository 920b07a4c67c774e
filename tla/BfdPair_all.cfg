SPECIFICATION FairSpec
CONSTANTS
  a = a  b = b
  Node = {a, b}
  Peer <- MCPeer
  Base <- EvenApart
  MaxFaults = 2
  MaxNet = 1
  Crashes = TRUE  Updates = TRUE  Deletes = TRUE
INVARIANTS
  DrainedAgrees
  TieNeedsTimeouts

  
CHECK_DEADLOCK FALSE
