SPECIFICATION Spec
CONSTANTS
  Tab = {1, 2, 3}
  FirstTab = 1
  MaxTabs = 2
  MaxWindows = 2
  MaxLives = 3
INVARIANTS
  PersistentTabs
CHECK_DEADLOCK FALSE
