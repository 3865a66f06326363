SPECIFICATION BothSpec
CONSTANTS
  None = None
  wm = wm
  bar = bar
  gate = gate
  Roots = {wm, bar, gate}
  Admission <- Gate
  Reads <- ReadsOf
  Writes <- WritesOf
  RuleOwners = {gate}
  RuleReads = {"layout"}
  Windows = {"w1"}
  Says <- SaysOf
  Armed <- ArmedOf
  Rounds = 3
  Scaled = TRUE
  Host = {"window"}
  Virtual = {"virtual"}
  Monitors = {"monitor"}
  Sizes = {"small", "large", "huge"}
  Refused <- Refusals
  Candidates <- Wishes
  MaxRevision = 4
  Unset = Unset
INVARIANTS FailuresAreHeld
