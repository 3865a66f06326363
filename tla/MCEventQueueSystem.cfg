SPECIFICATION Spec
CONSTANTS
  None = None
  Windows = {w1}
  Layers = {l1}
  LayerStates = {"top", "topMoved", "bottom"}
  RequestOf <- MCRequestOf
  MaxEvents = 3
  Quota = 2
PROPERTIES SystemSampleSeesCurrentRegistry
CHECK_DEADLOCK FALSE
