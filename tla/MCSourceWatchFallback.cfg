SPECIFICATION FairSpec
CONSTANTS
  None = None
  Absent = Absent
  Sources = {"builtins", "config"}
  Versions = {"v1", "v2", "bad"}
  Broken = {"bad"}
  Defines <- OwnNames
  Startup <- BuiltinsThenConfig
  Operations = {}
PROPERTIES SavedVersionIsLoaded
CHECK_DEADLOCK FALSE
