CONSTANTS
  GuardCap = 1
  Given <- LoopRecipe
SPECIFICATION WalkSpec
PROPERTIES SilenceIsBounded
CHECK_DEADLOCK FALSE
