SPECIFICATION HSpec
CONSTANTS
  RestartBudget = 1
  RestartWindow = 2
  ReadyTimeout = 1
  StopGrace = 1
  BackoffBase = 1
  BackoffMax = 2
  KillMayFail = TRUE
  HomeMayFail = FALSE
  MaxGeneration = 3
  MaxQueue = 2
INVARIANTS
  TypeOK
  StatusIsTrue
  NoOrphan
  NoSilentDeath
  RespawnRate
PROPERTIES
  StopIsFinal
  KeepsContract
CHECK_DEADLOCK FALSE
