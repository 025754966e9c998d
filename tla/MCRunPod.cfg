SPECIFICATION RunPodSpec
CONSTANTS
  GpuPods = {p1, p2}
  BootTimeout = 2
  DeadAfter = 1
  Grace = 2
  PollEvery = 2
  MaxTime = 6
  c1 = c1
  c2 = c2
  NoCaller = NoCaller
  Callers = {c1, c2}
  Computer <- OneComputer
  MaxPods = 3
  MaxFaults = 2
  MaxVisits = 1
  Impatient = FALSE
  Items = {i1, i2}
  FirstFiles <- SomeFiles
  FirstSize = 20
  ItemSizes <- SomeSizes
  MaxUploads = 4
  MaxMisses = 1
  LocalFiles = {p1, p2}
  Runners = {i1, i2}
  MaxVersion = 2
  MaxItemFaults = 1
SYMMETRY RunPodSymmetry
INVARIANTS OneSyncPod SureItemsFit SkippedIsCurrent SuccessIsWhole
PROPERTIES GraceWhileNobodyAnswers  SeenOutageCostsNothing
CHECK_DEADLOCK FALSE
