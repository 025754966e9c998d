CONSTANTS
  p1 = p1
  p2 = p2
  t1 = t1
  t2 = t2
  Pods = {p1, p2}
  Tasks = {t1, t2}
  NoPod = NoPod
  Slots = 1
  MaxAttempts = 2
  CapacityWait = 2
  IdleTimeout = 1
  MinPods = 1
  MaxTime = 2
SPECIFICATION Spec
SYMMETRY DispatcherSymmetry
INVARIANTS
  BooksAgree
  ReportedOnce
PROPERTIES
  StarvedLongEnough
  ImplementsLifecycle
