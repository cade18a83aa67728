CONSTANTS
  Ops = {o1, o2, o3}
  Turns = {}
  Actors = {o1, o2, o3}
  Conversations = {c1, c3}
  InPlace = {c1}
  ProjectOf <- TwoProjects
  Keys = {c1, c2, c3, p1, p2}
  Gates = {g1, g2, g3, g4, g5, g6, g7}
  IdempotencyKeys = {k1, k2, k3}
  RetainedOperations = 2
  MayClose = TRUE
  NetworkOperations = 1
  Network = Network
  None = None
  c1 = c1
  c2 = c2
  c3 = c3
  p1 = p1
  p2 = p2
SPECIFICATION Spec
INVARIANTS
  OperationsKept
SYMMETRY Symmetric
CHECK_DEADLOCK FALSE
