SPECIFICATION FairSpec
CONSTANTS
  MaxTime = 8
  Calm = 5
  DownAfter = 2
  MaxOutages = 2
  MaxCommands = 1
  MaxHouse = 1
  MaxStops = 1
INVARIANTS
  OutagesApart
  RestartsMarked
PROPERTIES
  LinkReturns
  EveryOutageTold
  ManagerCatchesUp
