CONSTANTS
  Watched = {"queue", "ci", "train"}
  Confirm = 2
  MaxStalls = 1
  MaxUnknown = 2
  Grace = 1
  Budget = 5
  Lag = 1
  MaxGroups = 2
  MaxMoves = 4
  Healths = {"clean", "blocked", "conflicting"}
  Page = 2
  Patience = 2
  MaxRuns = 3
  Train = 3
  MaxEjects = 1
  MaxDrops = 1
  MaxReenrolls = 2
  MaxWaits = 2
  MaxOutside = 1
SPECIFICATION WatchersSpec
INVARIANTS QueueVerdictTrue CIVerdictTrue TrainSafe
 
CHECK_DEADLOCK FALSE
