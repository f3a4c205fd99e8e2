CONSTANTS
  Launches = {"g1"}
  MaxStops = 1
SPECIFICATION SessionSpec
PROPERTY RefusalSparesGame
CHECK_DEADLOCK FALSE
