CONSTANTS
  Games = {g1}
  NoGame = NoGame
  MaxOps = 2
  LiveLaunch = TRUE
  Events = {"cancel", "busy"}
SPECIFICATION FairSpec
PROPERTY SlotEventuallyFree
