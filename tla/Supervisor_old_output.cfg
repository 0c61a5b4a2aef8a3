SPECIFICATION HSpec
CONSTANTS
  RestartBudget = 1
  RestartWindow = 2
  ReadyTimeout = 3
  StopGrace = 1
  BackoffBase = 1
  BackoffMax = 2
  KillMayFail = FALSE
  HomeMayFail = FALSE
  MaxGeneration = 3
  MaxQueue = 1
INVARIANT ReadyIsOwn
CHECK_DEADLOCK FALSE
