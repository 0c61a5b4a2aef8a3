SPECIFICATION Spec
CONSTANTS
  Server = {s1, s2}
  MaxGeneration = 2
  MaxCalls = 1
  MaxUnread = 1
  WritesFail = FALSE
  UserEdits = FALSE
  PartialLines = FALSE
  s1 = s1
  s2 = s2
INVARIANT
  EvidenceIsHeard
