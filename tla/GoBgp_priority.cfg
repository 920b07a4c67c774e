SPECIFICATION Spec
CONSTANTS
  v1 = v1  v2 = v2  c1 = c1  None = None  p1 = p1  n1 = n1
  Vip = {v1}
  CiVip = {c1}
  Prefix = {p1}
  NextHop = {n1}
  State = {"master","backup"}
  MaxTask = 2
  MaxCount = 2
  Budgets <- Some
INVARIANT AppropriatePriority
CHECK_DEADLOCK FALSE
