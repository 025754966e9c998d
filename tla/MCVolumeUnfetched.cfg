SPECIFICATION VolumeSpec
CONSTANTS
  NoProcess = NoProcess
  Projects = {pr}
  OutputFiles = {o1}
  Commands = {k1, k2}
  OlderDays = 2
  MaxTime = 2
INVARIANT UnfetchedOutputsAreKept
CHECK_DEADLOCK FALSE
