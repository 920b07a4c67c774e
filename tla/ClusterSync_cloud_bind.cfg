SPECIFICATION Spec
CONSTANTS
  i0 = i0  i1 = i1  v0 = v0  v1 = v1  f0 = f0  NoInst = NoInst
  Inst <- OneInst
  CIDefault = i0
  UpdStates = {"MASTER", "BACKUP"}
  Vip = {v0}
  VipInst <- OneVipInst
  Fw = {}
  CloudHook = TRUE  CloudFaults = FALSE
  MaxRestarts = 1  MaxRef = 1
  FwReAdd = FALSE  PortFlaps = FALSE
INVARIANTS
  CloudVipAttached
CHECK_DEADLOCK FALSE
