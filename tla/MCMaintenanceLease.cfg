CONSTANTS
  Ids = {i1, i2}
  Prepares = {p1, p2, p3}
  Requests = {r1}
  None = None
SPECIFICATION FairSpec
INVARIANTS
  FenceHolds
PROPERTIES
  GrantsUnbroken
  QueuedWorkRuns
CHECK_DEADLOCK FALSE
