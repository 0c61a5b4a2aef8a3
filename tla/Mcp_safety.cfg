SPECIFICATION MCSpec
CONSTANTS
  Server = {s1, s2}
  MaxGeneration = 2
  MaxCalls = 1
  MaxUnread = 1
  WritesFail = TRUE
  UserEdits = TRUE
  PartialLines = TRUE
  UvxLives = 3
  ToolChanges = 1
  Secrets = {"k1", "k2"}
  Values = {"v"}
  VaultLives = 2
  OcrCalls = {"a", "b"}
  Cleanups = 3
  Looks = 2
  s1 = s1
  s2 = s2
SYMMETRY Interchangeable
INVARIANTS
  TypeOK
  
  OffIsKept
  ReadyNeedsEvidence
  
  
CHECK_DEADLOCK FALSE
