SPECIFICATION FairSpec
CONSTANTS
  RestartBudget = 1
  RestartWindow = 1
  ReadyTimeout = 1
  StopGrace = 1
  BackoffBase = 1
  BackoffMax = 1
  KillMayFail = TRUE
  HomeMayFail = TRUE
  MaxGeneration = 3
  MaxQueue = 1
PROPERTIES
  CallsReturn
  DeathsAreDecided
CHECK_DEADLOCK FALSE
