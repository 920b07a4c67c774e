SPECIFICATION FairSpec
CONSTANTS
  i0 = i0  i1 = i1  v0 = v0  v1 = v1  f0 = f0  NoInst = NoInst
  Inst <- OneInst
  CIDefault = i0
  UpdStates = {"MASTER", "BACKUP"}
  Vip = {v0}
  VipInst <- OneVipInst
  Fw = {f0}
  CloudHook = TRUE  CloudFaults = TRUE
  MaxRestarts = 1  MaxRef = 2
  FwReAdd = TRUE  PortFlaps = TRUE
INVARIANT StandbyReleasesVips
PROPERTY EventuallyApplied
CHECK_DEADLOCK FALSE
