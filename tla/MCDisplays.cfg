SPECIFICATION Spec
CONSTANTS
  Screens = {sa, sb}
  MaxOwed = 2
SYMMETRY Symmetry
INVARIANTS FramesAreComing LockedIsCovered DarkIsDark
