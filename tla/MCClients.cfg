SPECIFICATION Spec
CONSTANTS
  c1 = c1
  c2 = c2
  w1 = w1
  w2 = w2
  x1 = x1
  x2 = x2
  x3 = x3
  Clients = {c1, c2}
  Surfaces = {w1, w2}
  Owner <- MCOwner
  Sources = {x1, x2, x3}
  Kind <- MCKind
  Buttons = {b1, b2}
  OldClients = {c2}
  Poppers = {c1}
  Managers = {c2}
  Nothing = Nothing
  t1 = t1
  p1 = p1
  p2 = p2
  Toplevels = {t1}
  Popups = {p1, p2}
  Sizes = {1, 2}
  Configures = 2
  Nobody = Nobody
  Nodes = {r, c, d}
  Roots = {r}
  MaxCommits = 3
  Nowhere = Nowhere
  Shm = {m1}
  Gpu = {g1}
  RingBuffers = {s1, s2, s3}
  RingSlots = 2
  MaxApplied = 2
  MaxHeld = 2
  None = None
  Regions = {1, 2}
  Paints = {a1, a2}
  Ring = {e1, e2}
  History = 2
  MaxFrames = 4
  Lost = Lost
INVARIANTS SelectionIsCurrent DragIsHeld WishIsSent FirstCommitIsAnswered
INVARIANTS  BuffersAreSafe 
PROPERTY AppliedInOrder
CHECK_DEADLOCK FALSE
