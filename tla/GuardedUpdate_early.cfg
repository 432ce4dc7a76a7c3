SPECIFICATION Spec
CONSTANTS
  Kinds = {"core"}
  Asked = {"core"}
  Versions = {1, 2}
  NoVersion = NoVersion
  MaxJobs = 2
  MaxRestarts = 1
  MaxResumes = 1
  HistoryCap = 1
  EarlyCommands = TRUE
  SlowDisk = FALSE
  LateLanding = FALSE
PROPERTY NeverDisplaced
