SPECIFICATION Spec
CONSTANTS
  MaxId = 7
  NewNames = {}
  PanelNames = {"panel-hall", "panel-bath"}
  CommandNames = {"panel-hall", "panel-bath"}
  MaxChanges = 1
  MaxCommands = 1
  MaxStops = 0
  MaxEvents = 2
CHECK_DEADLOCK FALSE
PROPERTY PeopleAreNoPanels
