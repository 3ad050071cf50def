SPECIFICATION Spec
CONSTANTS
  N = 2
  Manifest = 2
  Servers = {s1}
  Unlocked = {}
  Clis = {c1, c2}
  Reapers = {}
  ContinueOnFailure = FALSE
  MaxOps = 2
INVARIANTS BufferFresh
PROPERTIES ImplementsLedger RecoveryJust
CHECK_DEADLOCK FALSE
