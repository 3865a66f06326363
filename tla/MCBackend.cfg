SPECIFICATION BackendSpec
CONSTANTS
  None = None
  Windows = {w1}
  Layers = {l1}
  LayerStates = {"top", "topMoved", "bottom"}
  RequestOf <- MCRequestOf
  MaxEvents = 3
  Quota = 2
  Nil = Nil
  Null = Null
  Keyboards = {"k1", "k2"}
  Codes = {"super", "a"}
  Super = "super"
  SymOf <- MCSymOf
  Shortcuts <- MCShortcuts
  Owners = {"wm", "menu"}
  Focusable = {"window", "lock"}
  LockSurface = "lock"
  Ids = {1, 2, 3, 4, 5, 6}
  MaxKeyEvents = 2
  Copies = {"f1", "f2"}
  Sessions = {"x1"}
  Sizes = {"small", "large"}
  Versions = 2
INVARIANTS BarrierMarksLastObservation RegistryIsCurrent PolicyNotBehind  CapturesAreServed
PROPERTIES CallbacksSeeCurrentRegistry
CHECK_DEADLOCK FALSE
