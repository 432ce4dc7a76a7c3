SPECIFICATION Spec
CONSTANTS
  MaxId = 8
  NewNames = {"sam"}
  PanelNames = {"panel-hall"}
  CommandNames = {"sam"}
  MaxChanges = 2
  MaxCommands = 1
  MaxStops = 1
  MaxEvents = 3
CHECK_DEADLOCK FALSE
INVARIANTS
  ActorStillManages
  LoginsKept
  GuestsAtHome
  NoneHalfMade
PROPERTIES
  LastAdminKept
