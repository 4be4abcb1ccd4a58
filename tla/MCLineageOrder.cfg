SPECIFICATION MCSpec
CONSTANTS
  Parts = {"attribution"}
  None = None
  Openers = {"t1", "t2", "t3"}
  Collectors = {"agent"}
  ProcessOf <- ThreeThreads
  MaxCommits = 3
  TaskKeys <- TwoTasks
  CachePaths <- TwoCaches
  KnownHistories <- FourHistories
  MaxClientWrites = 1
  MaxMigrations = 2
  MaxPath = 3
  DirectoryOf <- OneArchived
  SessionKey = 0
  MaxCopySize = 2
  MaxCopyChanges = 3
  MaxBroken = 1
  QuietRefreshes = 3
  Captured = {"p", "r", "o"}
  Inheriting = {"p"}
  FamilyOf <- FamilyOfPage
  Claiming = {"x", "y"}
  NamedClaimants = {"y"}
  SlotOf <- SlotOfClaimant
  HeaderWidth <- WidthOfHeader
  CopiedWidth <- WidthOfCopy
  RefreshBytes = 3
  RefreshFiles = 2
  MaxFileChanges = 2
  FilePaths = {"a", "z"}
  ActivePaths = {"a"}
  TaskAt <- OneTask
  RowKinds = {"plain", "compacted"}
  AnalysedAt = "a"
  MaxRows = 2
  MaxDiskWrites = 2
  Keys = {"a"}
  Threads = {"worker", "caller"}
  Worker = "worker"
  MaxCapture = 1
  MaxEvidence = 1
  Budgets = {2, 99}
  Strict = FALSE
INVARIANT EventsFollowLineage
CHECK_DEADLOCK FALSE
