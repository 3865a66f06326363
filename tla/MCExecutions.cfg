SPECIFICATION Spec
CONSTANTS
  None = None
  Jobs = {j1, j2}
  Identities = {a, b}
  MaxActive = 2
  MaxAll = 2
  TermRounds = 1
  StopRounds = 2
  SignalsFail = TRUE
INVARIANTS ReleasedMeansOver ShutdownKillsEverything
PROPERTIES ImplementsLife
SYMMETRY IdentitySymmetry
CHECK_DEADLOCK FALSE
