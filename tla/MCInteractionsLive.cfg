SPECIFICATION FairSpec
CONSTANTS
  Approvals = {1}
  Questions = {2}
  Calls = {c1}
  Decisions = {allow}
  PendingLimit = 1
  Retained = 1
  StorageFails = TRUE
PROPERTIES
  AnswersReach
  RequestsEnd
CHECK_DEADLOCK FALSE
