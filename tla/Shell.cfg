SPECIFICATION MCSpec
CONSTANTS
  Concrete = 1
  OtherProvider = {p, q}
  Timer = {t1, t2}
  NoTimer = NoTimer
  RetryLimit = 1
  MaxEdits = 1
  MaxFaults = 2
  MaxLives = 2
  LastRoute = 1
  Reviewed = {1}
  MaxRefreshes = 3
  Tabs = {1, 2, 3}
  FirstTab = 1
  MaxTabs = 2
  Lives = 3
  MaxDsh = 3
  MaxRevision = 5
  MaxWindows = 2
  Clicks = {"a", "b"}
  Dialogs = {"a", "b"}
  Servers = {"a", "b"}
  MaxMessages = 2
  MaxParts = 1
  MaxTries = 2
  p = p
  q = q
  t1 = t1
  t2 = t2
INVARIANTS
  TypeOK
  SelectorIsCurrent
  LastKnownGoodIsTrue
  UserChoiceStands
  
  UpdatesAreSound
  
PROPERTIES
  DownloadIsChecked
CHECK_DEADLOCK FALSE
