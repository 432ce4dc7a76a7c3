SPECIFICATION Spec
CONSTANTS
  Kinds = {"core", "os"}
  Asked = {"os"}
  Versions = {1, 2}
  NoVersion = NoVersion
  MaxJobs = 2
  MaxRestarts = 1
  MaxResumes = 1
  HistoryCap = 1
  EarlyCommands = TRUE
  SlowDisk = TRUE
  LateLanding = TRUE
INVARIANTS
  SentOnce
  SentIsOnDisk
  HistoryTold
  OnlyGoesBack
