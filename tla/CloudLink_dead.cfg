SPECIFICATION Spec
CONSTANTS
  MaxTime = 8
  Calm = 5
  DownAfter = 2
  MaxOutages = 2
  MaxCommands = 0
  MaxHouse = 0
  MaxStops = 0
INVARIANT AlwaysRetries
