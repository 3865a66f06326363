SPECIFICATION Spec
CONSTANTS
  None = None
  Absent = Absent
  Sources = {"builtins", "config"}
  Versions = {"v1", "v2"}
  Broken = {}
  Defines <- SharedNames
  Startup <- BuiltinsThenConfig
  Operations = {"reload", "mount", "unmount", "midload"}
INVARIANTS MountsComeFromOneGoodVersion
CHECK_DEADLOCK FALSE
