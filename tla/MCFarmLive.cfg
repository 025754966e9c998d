CONSTANTS
  Pods = {p1, p2}
  Tasks = {t1}
  NoPod = NoPod
  Slots = 1
  MaxAttempts = 2
  CapacityWait = 1
  IdleTimeout = 1
  MinPods = 1
  MaxTime = 1
  MaxPods = 1
  MaxFaults = 1
SPECIFICATION FairFarmSpec
INVARIANT OneOutcome
PROPERTIES EveryItemAnswered StopEnds BillingEnds
CHECK_DEADLOCK FALSE
