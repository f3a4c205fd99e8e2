CONSTANTS
  Games = {g1}
  NoGame = NoGame
  MaxOps = 2
  LiveLaunch = TRUE
  Events = {"cancel", "terminate", "host", "matchmaker", "matchcancel", "kill", "busy", "race", "unnamed", "end", "drop"}
SPECIFICATION Spec
PROPERTY NoRevival
PROPERTY OwnSlotOnly
