SPECIFICATION Spec
CONSTANTS
  i0 = i0  i1 = i1  v0 = v0  v1 = v1  f0 = f0  NoInst = NoInst
  Inst <- MCInst
  CIDefault = i0
  UpdStates = {"MASTER", "BACKUP"}
  Vip = {v0, v1}
  VipInst <- MCVipInst
  Fw = {f0}
  CloudHook = FALSE  CloudFaults = FALSE
  MaxRestarts = 1  MaxRef = 1
  FwReAdd = FALSE  PortFlaps = FALSE
INVARIANTS
  SettledApplied
  SettledHooked
  
  FwFollowsState
CHECK_DEADLOCK FALSE
