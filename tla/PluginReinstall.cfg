CONSTANTS
  Worktrees = {w1, w2}
  w1 = w1
  w2 = w2
  Gates = {TRUE, FALSE}
  MaxTouches = 2
  Sessions = {"s1", "s2"}
  Kinds = {"plain", "upfront"}
  Windows = {"five_hour", "seven_day"}
  Span <- MCSpan
  MaxAge = 2
  Interval = 1
  Latency = 1
  Buffer = 1
  MaxTime = 4
  Pipelines = {"p1", "p2", "p3"}
  Owner <- MCOwner
  Cleaners = {"k1", "k2"}
  Everyone = "all"
  Reach <- MCReach
  Versions = {"v1", "v2", "v3"}
  Installers = {"i1", "i2"}
  GraceHours = 2
  MaxHours = 4
  Kitchens = {"s1", "t1", "t2"}
  ProjectOf <- MCProjectOf
  CampaignOf <- MCCampaignOf
  Solo = "solo"
  MaxOpens = 3
  Played = {"plugins"}
SPECIFICATION ToolsSpec
INVARIANT OneInstallIsEnough
CHECK_DEADLOCK FALSE
