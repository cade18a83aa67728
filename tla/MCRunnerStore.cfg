CONSTANTS
  Tasks = {1, 2, 3}
  Messages = {1, 2}
  None = None
SPECIFICATION MCSpec
INVARIANTS
  Chain
  ClaimedNeverPromoted
PROPERTIES
  FifoPromotion
  StopHolds
CONSTRAINT TwoConversations
CHECK_DEADLOCK FALSE
