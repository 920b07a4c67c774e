SPECIFICATION FairSpec
CONSTANTS
  l1 = l1  l2 = l2  A = A  B = B  C = C  P = P  S = S  V = V  m1 = m1  n1 = n1  p1 = p1  p2 = p2
  Link = {l1, l2}
  Hop <- MCHop
  Mac = {1, 2}
  Zero = 0
  RouteReq <- MCRouteReq
  IfaReq <- MCIfaReq
  Vip = {V, A}
  MaxNeigh = 2
  Plans <- MCPlans
  NoPort = NoPort
  AttReq <- MCAttReq
  MaxMark <- MCMaxMark
  Wild = Wild
  Bad = Bad
  FwReq <- MCFwReq
  LbReq <- MCLbReq
  MaxFw = 4
  MaxSrcLBMarkerNum = 2
  SessReq <- MCSessReq
  ClsReq <- MCClsReq
  MaxUlCls = 5
  NoNum = 0
INVARIANTS TypeOK PairsMatch CopiesRight FdbHeld  NumberBacked FwExact   SessExact
PROPERTY WaitersServed
CHECK_DEADLOCK FALSE
