SPECIFICATION Spec
CONSTANTS
  Timers = {ta, tb}
  TimerQuota = 1
  NoTimer = NoTimer
  Watches = {wa, wb}
  WatchQuota = 1
  MaxOpened = 3
  Identities = {"p"}
  Supply = 2
  Spawns = {s}
  Restarts = {"on-failure"}
  Reloads = {"keep", "always"}
  Runs = {"session", "version"}
  MaxReserved = 2
  MaxSource = 2
  LateRound = 1
  LastRound = 2
  NoProcess = NoProcess
  SignalsFail = FALSE
  Conns = {p1, p2}
  Aps = {a1}
  MaxNews = 2
  MaxFailed = 2
  None = None
  Unknown = Unknown
  Aliases = {m1, m2}
  Players = {o1, o2}
  MaxJumps = 2
  MaxBusy = 1
  MaxLate = 1
  Nobody = Nobody
  Levels = {1, 2}
  MaxEvents = 3
  MaxUnanswered = 1
  Full = Full
  Names = {n1, n2}
  Apps = {q1, q2}
  MaxItems = 1
  MaxActs = 3
  MaxExpired = 1
  NoApp = NoApp
  MaxId = 4
  MaxRecords = 2
INVARIANTS ServicesTypeOK OneShotFiresOnce OneProcessPerService LeasesCoverGroups
INVARIANTS BatteryIsTold BusIsTold
PROPERTIES OneShotsRunOnce DueIsDelivered WatchKeepsUp
CHECK_DEADLOCK FALSE
