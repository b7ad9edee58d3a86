SPECIFICATION MCSpec
CHECK_DEADLOCK FALSE
CONSTANTS
  Key = {1, 2}
  Size = {1, 2}
  FirstKeyLive = {TRUE}
  MaxFlush = 3
  MaxFile = 8
  MAX_LEVEL = 2
  L0Divisor = 1
  LevelLimit = 1
  FilesPerTier = 2
  FilesPerWindow = 2
  HourIds = 2
  WindowHours = 1
  Keys = {"a", "b"}
  Workers = {"w1", "w2"}
  BufferLimit = 2
  MaxSeq = 5
  MaxTasks = 2
  Peers = {"p", "q"}
  Timeout = 1
  MaxFailures = 2
  Values = {"x", "y"}
  MaxReports = 3
  Nodes = {"n1", "n2", "n3"}
  Bases = {"shard_0"}
  EndKey = 3
  SplitAt = 1
  FailureThreshold = 2
  RecoveryThreshold = 1
  ReplicationFactor = 2
  MaxReplicas = 3
  MaxEvents = 3
  BufferSize = 2
  BatchSize = 2
  Wanted = {1, 3}
  Targets = {"t1", "t2"}
  MaxRetry = 2
  WindowSize = 2
  MaxTime = 6
  EventKeys = {"a", "b"}
  Times = {1, 2, 3, 5}
  Span = 2
  Slide = 1
  Gap = 1
  MaxBatch = 3
  Connections = {"x", "y"}
  Handlers = {"h1", "h2"}
  Streams = {"s1", "s2"}
  PutsOnly = {"s2"}
  MaxWrites = 2
  QueryKeys = {1, 2, 3}
  Texts <- MCTexts
  Limits = {0, 1, 2}
INVARIANTS EngineKeepsWrites  ServicesAreSound 
PROPERTIES ReadsStillFind  
