SPECIFICATION FairReportSpec
CONSTANTS
  Kinds = {"core"}
  Asked = {"core"}
  Versions = {1, 2}
  NoVersion = NoVersion
  MaxJobs = 2
  MaxRestarts = 2
  MaxResumes = 1
  HistoryCap = 2
  EarlyCommands = FALSE
  SlowDisk = FALSE
  LateLanding = FALSE
PROPERTIES
  EveryOutcomeTold
  EveryJobEnds
