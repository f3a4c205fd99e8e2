CONSTANTS
  Cmds = {c1, c2, c3}
  NoCmd = NoCmd
  Items = {i1, i2}
  NoItem = NoItem
  Kinds = {"install", "cancel", "verdict", "check", "search", "plain"}
  Room = 1
  OrdinarySlots = 3
  UrgentSlots = 1
  MayAbandon = TRUE
SPECIFICATION Spec
SYMMETRY Symmetry
INVARIANT TypeOK
INVARIANT FlightHasHolder
INVARIANT OnlyNewestSearch
PROPERTY SerialTurnsKept
PROPERTY DroppedIffOvertaken
