SPECIFICATION MainSpec
CONSTANTS
  None = None
  Absent = Absent
  Windows = {w1}
  Layers = {l1}
  LayerStates = {"top", "topMoved"}
  RequestOf <- MCRequestOf
  MaxEvents = 3
  Quota = 2
PROPERTIES LoopReturnsToClients SurfacesReachPolicy  
CHECK_DEADLOCK FALSE
