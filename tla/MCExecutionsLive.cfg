SPECIFICATION FairSpec
CONSTANTS
  None = None
  Jobs = {j1, j2}
  Identities = {"a"}
  MaxActive = 1
  MaxAll = 2
  TermRounds = 1
  StopRounds = 2
  SignalsFail = FALSE
PROPERTIES DeclaredIsDelivered RetiredIsReleased
CHECK_DEADLOCK FALSE
