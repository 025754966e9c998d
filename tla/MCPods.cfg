SPECIFICATION PodsSpec
CONSTANTS
  t1 = t1
  t2 = t2
  s1 = s1
  s2 = s2
  Ids = {t1, t2}
  Slots = 1
  NoOne = NoOne
  Sessions = {s1, s2}
  MaxCalls = 1
  MaxFaults = 1
INVARIANTS SucceededIsOver KillIsNotLost HomeFollowsPackage NothingOutlivesHost
PROPERTIES ImplementsRegistry SlotComesBack HostEnds
CHECK_DEADLOCK FALSE
