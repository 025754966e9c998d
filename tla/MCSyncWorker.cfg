SPECIFICATION FairSyncWorker
CONSTANTS
  c1 = c1
  Callers = {c1}
  Orphan = 2
  IdleChecks = 2
  Deadline = 2
  MaxFaults = 2
  MaxVisits = 2
INVARIANT AnswerIsCollected
PROPERTIES EndSparesUsers UnusedPodEnds
