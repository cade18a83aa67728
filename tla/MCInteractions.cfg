SPECIFICATION Spec
CONSTANTS
  Approvals = {1, 2}
  Questions = {}
  Calls = {c1, c2}
  Decisions = {allow, deny}
  PendingLimit = 1
  Retained = 0
  StorageFails = FALSE
SYMMETRY Symmetry
INVARIANTS
  PromptsSound
CHECK_DEADLOCK FALSE
