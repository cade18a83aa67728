CONSTANTS
  Tasks = {1, 2, 3}
  Messages = {1, 2}
  None = None
  Concurrency = 1
  MaxStarts = 1
  StoreMayFail = FALSE
  MayFence = FALSE
SPECIFICATION Spec
INVARIANTS
  QueuesMoveOn
CONSTRAINTS
  TwoQueues
CHECK_DEADLOCK FALSE
