SPECIFICATION Spec
CONSTANTS
  Kinds = {"core", "os"}
  Asked = {"core", "os"}
  Versions = {1, 2}
  NoVersion = NoVersion
  MaxJobs = 2
  MaxRestarts = 1
  MaxResumes = 1
  HistoryCap = 1
  EarlyCommands = FALSE
  SlowDisk = FALSE
  LateLanding = FALSE
INVARIANTS
  TypeOK
  BackedUp
  OutcomeTrue
  AlwaysDriven
PROPERTIES
  NeverDisplaced
  KeepsPromise
