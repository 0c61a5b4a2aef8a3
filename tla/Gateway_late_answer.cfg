SPECIFICATION Spec
CONSTANTS
  MaxLaunches = 2
  MaxProbes = 1
  KillMayFail = FALSE
  LateAnswers = TRUE
INVARIANTS
  NoSilentDeath
CHECK_DEADLOCK FALSE
