CONSTANTS
  Games = {g1}
  NoGame = NoGame
  MaxOps = 1
  LiveLaunch = TRUE
  Events = {"drop"}
SPECIFICATION Spec
INVARIANT SlotAnswerable
