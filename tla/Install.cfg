SPECIFICATION MCSpec
CONSTANTS
  MaxVersion = 3
  MaxFaults = 2
  Shells = {"s1", "s2"}
  Attempts = 2
  MaxDsh = 2
  File = {"f", "g"}
  MaxLine = 1
  Patches = 3
  PatchRuns = 2
  MaxEdits = 1
  SourceVersions = 1
  MaxBuilds = 2
  Workspace = {"w"}
  Runtime = {"r"}
  Tool = {"t"}
  Platform = {"win", "wsl"}
  HarnessVersions = 1
  Packagings = 2
INVARIANTS
  TypeOK
  OldSurvives
  DiskIsSound
  ShellHasRuntime
  OneShell
  ReleaseIsBuilt
PROPERTIES
  InstallEnds
  
CHECK_DEADLOCK FALSE
