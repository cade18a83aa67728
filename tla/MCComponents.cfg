CONSTANTS
  SteerMessages = {1, 2, 3}
  QueuedMessages = {2}
  WithImages = {1, 2}
  RetainLimit = 1
  MaxTurns = 2
  MaxHandlers = 2
  Pids = {1, 2, 3}
  Root = 1
  OwnedLimit = 3
  JiffyLimit = 4
  Chunks = 2
  FailureLimit = 2
  FailureBudget = 3
  Commands = {c1, c2}
  BackgroundTasks = {b1}
  CommandLimit = 2
  MaxResults = 3
  Steers = {1, 2}
  Children = {d1, d2}
  ChildTurns = {t1, t2}
  ChildLimit = 1
  ChildTurnLimit = 2
  AgentTools = {a1, a2}
  AgentTasks = {b1}
  Shells = {s1, s2}
  AgentThreads = {h1}
  RetainedAgents = 2
  CountedLimit = 1
  ExcludedLimit = 1
  NestedLimit = 1
  Statuses = {"running", "completed", "failed"}
  Clones = {1, 2}
  ProjectNames = {1}
  FolderNames = {1, 2}
  CloneRestarts = 1
  Logins = {1, 2, 3}
  RetainedLogins = 1
  MaxAttempts = 2
  MaxPolls = 3
  MaxSubmissions = 2
  ServerNames = {1}
  Digests = {1, 2}
  MaxSyncs = 3
  Attachments = {1, 2}
  Contents = {x, y}
  UploadLimit = 2
  AttachmentLimit = 1
  UploadRestarts = 1
  Captures = {1, 2, 3}
  OutputCaptures = {1, 2}
  Paths = {1, 2}
  CaptureWaits = 1
  BlobLimit = 1
  ArtifactRestarts = 1
  InstructionPaths = {1, 2}
  Applies = {1, 2}
  InstructionTexts = {1}
  UserText = 2
  SyncCapacity = 2
  EditLimit = 2
  InstructionRestarts = 1
  ChangeTurns = {1, 2}
  CallLimit = 1
  ChangeRestarts = 1
  Openings = {1, 2, 3}
  Places = {1, 2}
  SessionLimit = 2
  SpeechRequests = {1, 2, 3, 4}
  WaitingRequests = 2
  Readers = {1, 2, 3, 4}
  DownloadReaders = {1, 2, 3}
  ReadSlotLimit = 1
  ReadWaits = 2
  DownloadLimit = 2
  StorageRequests = {1, 2, 3}
  ChangeRequests = {1, 2}
  PendingCalls = 2
  Channels = {out, err}
  PiecesWritten = 2
  OutputPieces = 3
  CatalogCallers = {1, 2, 3}
  CatalogKeys = {1, 2}
  FreshTicks = 1
  StaleTicks = 2
  CachedKeys = 1
  ConcurrentProbes = 1
  CatalogTicks = 3
  PortCallers = {1, 2, 3}
  Scopes = {1, 2}
  Scans = {1, 2, 3}
  ConcurrentScans = 2
  CachedScopes = 1
  FreshScan = 1
  ScanTicks = 1
  Watchers = {1, 2, 3}
  WatcherLimit = 2
  SendBacklog = 0
  LastRevision = 1
  Epochs = 2
  Threads = {1, 2}
  Editors = {1}
  FinalRevision = 2
  Times = {1}
SPECIFICATION ComponentsSpec
INVARIANTS
  ComponentsTypeOK
  DeliveredOnce
  CodexFrames
  SubagentRecords
  ClonedFolders
  LoginsSound
  SyncSound
  FilesAccountedFor
  SlotsAccountedFor
  AnswersTrue
PROPERTIES
  StopsOnlyItsOwn
  FilesOutliveDelivery
  KillIsComplete
  InvocationSound
  EndsWithWorkDone
  Tombstones
  RemovesOnlyItsOwn
  UserFilesKept
CHECK_DEADLOCK FALSE
