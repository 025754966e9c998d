SPECIFICATION ToolsSpec
CONSTANTS
  Hdas = {h1, h2}
  Installers = {s1, s2}
  Sessions = {u1}
  MaxCode = 2
  MaxInstalls = 2
  FirstEnv <- McFirstEnv
  Shells = {s1, s2}
  Volumes = {v1, v2}
  Regions = {ro, cz}
  HomeRegion = ro
  MaxCommands = 2
  MaxEdits = 1
  FirstAccounts <- McFirstAccounts
  Pods = {p1}
  Artists = {may, mayx, ann}
  Me = may
  Longer = {mayx}
  MaxKills = 2
  Cooks = {c1}
  Machines = {m1, m2}
  Tasks = {1, 2}
  MaxSeconds = 4
  MaxAmount = 2
  MaxFaults = 2
  Frames = {f1, f2}
  Probes = {f3}
  FarmPods = {p1, p2}
  MinePods = {p1}
  MaxTrouble = 2
  Uploads = {"u1", "u2"}
  Candidates <- MCCandidates
  Wanted <- MCWanted
  Size <- MCSize
  Limit = 3
  JobDir <- MCJob
  JobReal <- MCReal
  Project <- MCProject
  Outputs <- MCOutputs
  OutputSize <- MCOutputSize
  Upstream = {"j1"}
  MaxCooksP = 2
  MaxReports = 2
  NoProcess = NoProcess
  Projects = {pr}
  OutputFiles = {o1}
  Commands = {h1, h2}
  OlderDays = 2
  MaxTime = 2
SYMMETRY ToolsSymmetry
INVARIANTS ReleaseIsOneBuild RegionFollowsVolume MergeReconciles PassIsReal OutputsAreFetched NewOutputsAreKept
PROPERTIES KillSparesWork 
CHECK_DEADLOCK FALSE
