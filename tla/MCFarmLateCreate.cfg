CONSTANTS
  Pods = {p1, p2}
  Tasks = {t1, t2}
  NoPod = NoPod
  Slots = 1
  MaxAttempts = 2
  CapacityWait = 0
  IdleTimeout = 0
  MinPods = 3
  MaxTime = 0
  MaxPods = 2
  MaxFaults = 2
SPECIFICATION FarmSpec
SYMMETRY FarmSymmetry
CHECK_DEADLOCK FALSE
INVARIANT LateCreateIsKilled
