CONSTANTS
  Tasks = {1, 2}
  Messages = {1}
  None = None
  Concurrency = 2
  MaxStarts = 1
  StoreMayFail = FALSE
  MayFence = TRUE
SPECIFICATION FairSpec
INVARIANTS
  NoLostWakeup
PROPERTIES
  StopReaps
  CloseEnds
CONSTRAINTS
  OneConversation
  LeaseBeforeMessages
CHECK_DEADLOCK FALSE
