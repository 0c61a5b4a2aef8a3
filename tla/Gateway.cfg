SPECIFICATION MCSpec
CONSTANTS
  MaxLaunches = 4
  MaxProbes = 2
  KillMayFail = TRUE
  LateAnswers = FALSE
  Launches = {"a", "b"}
  MaxKids = 1
INVARIANTS
  TypeOK
  NoOrphan
  NoSilentDeath
  Contained
PROPERTIES
  StopIsFinal
  CallsEnd
  Recovers
  WaitsAreSettled
  RefreshGoesOn
CHECK_DEADLOCK FALSE
