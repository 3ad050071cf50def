CONSTANTS
  Watched = {"ci"}
  Confirm = 2
  MaxStalls = 1
  MaxUnknown = 2
  Grace = 1
  Budget = 5
  Lag = 1
  MaxGroups = 2
  MaxMoves = 4
  Healths = {"clean", "blocked", "conflicting"}
  Page = 2
  Patience = 2
  MaxRuns = 3
  Train = 1
  MaxEjects = 1
  MaxDrops = 1
  MaxReenrolls = 1
  MaxWaits = 1
  MaxOutside = 0
SPECIFICATION WatchersSpec
INVARIANT WaitNeverRaises
CHECK_DEADLOCK FALSE
