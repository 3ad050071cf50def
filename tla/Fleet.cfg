SPECIFICATION FleetSpec
CONSTANTS
  N = 3
  Manifest = 2
  Servers = {"s1"}
  Unlocked = {"s1"}
  Clis = {"c1"}
  Reapers = {"r1", "r2"}
  ContinueOnFailure = FALSE
  MaxOps = 3
PROPERTIES  RacingReturns
CHECK_DEADLOCK FALSE
