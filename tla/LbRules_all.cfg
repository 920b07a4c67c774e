SPECIFICATION FairSpec
CONSTANTS
  r1 = r1  r2 = r2
  Rule = {r1, r2}
  OneArm = {r2}
  Ep = {1, 2, 3}
  MaxLBEndPoints = 2
  MaxEndPointCheckers = 1
  InActTryThr = 2
  Oper = {"add", "detach"}
  Plans <- AllPlans
  MaxFaults = 1
INVARIANTS TypeOK HostsCounted UnmonitoredInService
PROPERTIES OrderKept DpFollowsHealth
CHECK_DEADLOCK FALSE
