CONSTANTS
  Captures = {1, 2, 3}
  OutputCaptures = {1, 2}
  Paths = {1, 2}
  CaptureWaits = 1
  BlobLimit = 1
  ArtifactRestarts = 1
SPECIFICATION CaptureSpec
INVARIANTS
  SnapshotsAvailable
CHECK_DEADLOCK FALSE
