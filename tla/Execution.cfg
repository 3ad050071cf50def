\* The race: a short run whose drain covers the id wait and two polls of the log.
\* The verdict: all evidence of one call; two calls that share the audit log.
CONSTANTS
  Timeout = 5
  MaxExtension = 1
  IdWait = 0
  FindTimeout = 1
  Stale = 1
  MaxSuppression = 1
  Drain = 3
  Grace = 1
  RaceCalls <- MCCalls
  Calls = {"c1", "c2"}
  Commands = {"alone", "canonical", "bare", "readonly"}
  Keys = {"x", "k", "b"}
  Info <- MCInfo
  EvidenceOf <- MCEvidenceOf
  Workloads <- MCWorkloads
  MaxRetries = 1
SPECIFICATION ExecutionSpec
INVARIANTS RaceResultTrue CompletionHonoured SuccessIsSound NothingAbandoned BudgetBounds
PROPERTIES EveryRunReturns
CHECK_DEADLOCK FALSE
