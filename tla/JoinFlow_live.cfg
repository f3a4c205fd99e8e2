CONSTANTS
  Games = {g1}
  NoGame = NoGame
  MaxOps = 2
  LiveLaunch = TRUE
  Events = {"hangup", "end", "progress"}
SPECIFICATION FairSpec
PROPERTY SlotEventuallyFree
