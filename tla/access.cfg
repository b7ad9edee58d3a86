SPECIFICATION MCSpec
CONSTANTS
  t1 = t1
  t2 = t2
  Txns = {t1, t2}
  Resources = {"r1", "r2"}
  Modes = {"SHARED", "EXCLUSIVE"}
  MaxGrants = 2
  MaxVersion = 2
  MaxConflicts = 3
  Writers = {1, 2, 3}
  Keys = {"a", "b"}
  MaxVersions = 3
  Iters = {"i1", "i2"}
  Handles = {"h1", "h2"}
  MaxSeq = 3
  Readers = {"r1"}
  CacheKeys = {"a", "b", "c"}
  L1Capacity = 1
  L2Capacity = 2
  HotThreshold = 3
  MaxPuts = 3
  DbKeys = {"a", "b"}
  Text <- MCText
  StopWords = {"the"}
  Tilde = 2
  MaxIndexes = 2
  Clients = {"c1", "c2"}
  TxClients = {"c1"}
  TypedKeys = {"a"}
  Elements = {"x"}
  MaxNumber = 4
  MaxOps = 2
  ScanKeys = {1, 2, 3}
  Sources = 3
SYMMETRY TxnSymmetry
CHECK_DEADLOCK FALSE
INVARIANTS LockManagersAgree ReadsAreCommitted IteratorsSeeTheirPast ScanIsRight CachesFollowRules 
PROPERTIES ValidationCatchesWriters  
