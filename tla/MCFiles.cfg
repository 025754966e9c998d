SPECIFICATION FilesSpec
CONSTANTS
  Files <- MCFiles
  Backups <- MCBackups
  SkipNames = {"backup"}
  TooMany <- MCTooMany
  Hip <- MCHip
  Ocio <- MCOcio
  Roots <- MCRoots
  Refs <- MCRefs
  Nodes <- MCNodes
  Unowned = "none"
  Fetched <- MCFetched
  Inputs <- MCInputs
  Children <- MCChildren
  Named <- MCNamed
  Composed <- MCComposed
  Layered <- MCLayered
  Deep = TRUE
  Patterned = {}
  MaxCooks = 2
  MaxChanges = 1
  t1 = t1
  t2 = t2
  Transfers = {t1, t2}
  NFiles = 2
  MaxCook = 2
  RenderedAt <- MCRenderedAt
  HandTimes = {5}
  MaxFaults = 2
  MaxStarts = 2
INVARIANTS NothingMissed ReceiptIsTrue
PROPERTY TransferEnds
CHECK_DEADLOCK FALSE
