SPECIFICATION FairSpec
CONSTANTS
  i0 = i0 i1 = i1 v0 = v0 v1 = v1 v2 = v2 b0 = b0 b1 = b1 b2 = b2
  Inst = {i0, i1}
  Vip = {v0, v1, v2}
  VipInst <- TwoInst
  Burst = {b0, b1}
  NoBurst = NoBurst
  Repeat = 2
INVARIANTS
  RunningIsActive
  StaleBounded
PROPERTIES
  ImplementsAdvBurst
  BurstEnds
CHECK_DEADLOCK FALSE
