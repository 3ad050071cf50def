SPECIFICATION FairSpec
CONSTANTS
  N = 3
  Manifest = 2
  Gates = {2}
  Capturing = {1}
  Calls = {a, b}
  MaxConcurrent = 2
  ContinueOnFailure = FALSE
  Overlap = FALSE
  MaxDispatches = 3
  MaxBoots = 2
INVARIANTS ServerBooks 
PROPERTIES SuccessReported ResumeComplete ImplementsLedger CallsReturn
CHECK_DEADLOCK FALSE
