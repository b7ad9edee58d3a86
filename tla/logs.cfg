SPECIFICATION MCSpec
CONSTANTS
  Payloads = {"p"}
  SegCap = 2
  MaxInMemory = 3
  MaxLsn = 2
  MaxSegment = 4
  Legacy <- MCLegacy
  Widths = {1, 2}
  MaxKeep = 2
  Interval = 2
  MaxIds = 3
  MaxWrites = 1
  MaxTime = 3
  s1 = s1
  s2 = s2
  s3 = s3
  Servers = {s1, s2, s3}
  Nobody = Nobody
  MaxTerm = 2
  MaxLog = 2
  MaxWork = 3
VIEW MCView
SYMMETRY ServerSymmetry
CHECK_DEADLOCK FALSE
INVARIANTS  CheckpointsHold NothingCommitsAsBuilt RaftSafety
PROPERTIES PromisesAreKept
