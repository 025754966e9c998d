SPECIFICATION LedgerSpec
CONSTANTS
  Cooks = {c1}
  Machines = {m1, m2}
  Tasks = {1, 2}
  MaxSeconds = 4
  MaxAmount = 2
  MaxFaults = 2
INVARIANTS
  TaskCountedOnce
CHECK_DEADLOCK FALSE
