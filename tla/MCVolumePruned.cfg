SPECIFICATION VolumeSpec
CONSTANTS
  NoProcess = NoProcess
  Projects = {pr}
  OutputFiles = {o1}
  Commands = {k1, k2}
  OlderDays = 3
  MaxTime = 3
INVARIANT PruneSparesUsed
CHECK_DEADLOCK FALSE
