CONSTANTS
  Requests = {"boot", "r1", "r2"}
  Boot = "boot"
  MaxRacing = 1
  Offered = {"login", "cancel", "logout"}
SPECIFICATION SignInSpec
INVARIANT NoSessionBehindLoginScreen
CHECK_DEADLOCK FALSE
