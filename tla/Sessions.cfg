CONSTANTS
  Scenes = {"recipes", "guards", "logs", "issues", "batch"}
  GuardCap = 1
  Given <- MCRecipe
  MaxSessionsRun = 3
  CallSlots = {1, 2}
  MaxReviews = 1
  MaxHookFails = 1
  LogServers = {"s1", "s2"}
  CampaignsOf <- MCCampaignsOf
  MaxSessions = 1
  MaxLogged = 2
  MaxDowns = 1
  Reports = {"r1", "r2"}
  Fingerprints = {"f"}
  Errors = {"e1", "e2"}
  Seconds = {1, 2}
  Tickets = 2
  Chunk = 1
  MaxBatches = 2
SPECIFICATION SessionsSpec
INVARIANTS  ValuesHold SilenceIsAcyclic   
CHECK_DEADLOCK FALSE
