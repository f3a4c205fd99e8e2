CONSTANTS
  Cmds = {c1, c2, c3}
  NoCmd = NoCmd
  Items = {i1}
  NoItem = NoItem
  Kinds = {"install", "cancel", "verdict"}
  Room = 1
  OrdinarySlots = 2
  UrgentSlots = 1
  MayAbandon = TRUE
SPECIFICATION FairSpec
PROPERTY CancelAlwaysRuns
PROPERTY EveryCommandEnds
