CONSTANTS
  MaxPending = 1
  MaxAttempts = 2
  Capacity = 2
  MaxChanges = 5
  MaxDropped = 2
  MaxMounts = 2
SPECIFICATION FairSpec
INVARIANT TypeOK
INVARIANT MirrorIsTheState
INVARIANT GapsAreReal
PROPERTY NeverRolledBack
PROPERTY CatchesUp
CHECK_DEADLOCK FALSE
