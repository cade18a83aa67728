CONSTANTS
  Tasks = {1, 2, 3}
  Messages = {}
  None = None
  Concurrency = 2
  MaxStarts = 2
  StoreMayFail = TRUE
  MayFence = FALSE
SPECIFICATION Spec
INVARIANTS
  OneRunPerConversation
  RunningIsOwned
  PoolHolds
PROPERTIES
  TurnsInOrder
  StoppedNeverStarts
CONSTRAINTS
  OneConversation
CHECK_DEADLOCK FALSE
