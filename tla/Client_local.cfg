CONSTANTS
  Parts = {"FolderSwap", "SettingsFile", "GameSession", "ReplayReads"}
  Requests = {"boot", "r1", "r2", "r3"}
  Boot = "boot"
  MaxRacing = 1
  Offered = {"login", "cancel", "offline", "test", "logout", "logoutTest"}
  Tasks = {"t1", "t2"}
  MaxAccount = 2
  MaxFaults = 1
  MaxBackoff = 1
  Folders = {"a", "b"}
  Slots = {"s1", "s2"}
  MaxVersion = 3
  MaxFailures = 2
  MaxCrashes = 2
  Savers = {"w1", "w2"}
  MaxChanges = 2
  MaxStarts = 3
  MaxMishaps = 2
  Launches = {"g1", "g2"}
  MaxStops = 2
  Keys = {"k1", "k2"}
  MaxRequests = 2
  MaxCommands = 5
SPECIFICATION ClientSpec
INVARIANT InPlaceWhenUp
INVARIANT NothingComesBack
INVARIANT DiskIsMemory
INVARIANT WithdrawnIsStopped
INVARIANT SessionsAgree
INVARIANT AwaitedIsRead
PROPERTY UpdatesAreAtomic
PROPERTY NeverReset
PROPERTY NewerKeysSurvive
CHECK_DEADLOCK FALSE
