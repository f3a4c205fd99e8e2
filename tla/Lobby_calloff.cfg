CONSTANTS
  Parts = {"JoinFlow", "Matchmaking"}
  Games = {g1, g2}
  NoGame = NoGame
  MaxOps = 3
  LiveLaunch = TRUE
  Events = {"cancel"}
  Queues = {"q1"}
  MaxSearches = 2
  MaxActs = 2
  MaxCuts = 1
  MaxTurns = 4
  FrameLimit = 1
  UpdateLimit = 2
SPECIFICATION LobbySpec
INVARIANT LobbyTypeOK
INVARIANT SlotAnswerable
INVARIANT RecordedAnswersAreComing
INVARIANT PanelIsTrue
INVARIANT WaitIsEnded
PROPERTY GivenUpIsTurnedAway
PROPERTY RefusalSparesRetry
PROPERTY CalledOffIsNotSent
CHECK_DEADLOCK FALSE
