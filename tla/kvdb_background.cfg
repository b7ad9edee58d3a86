SPECIFICATION FairSpec
ACTION_CONSTRAINT OneCompaction
CHECK_DEADLOCK FALSE
CONSTANTS
    TOMBSTONE = TOMBSTONE
    NotFound = NotFound
    v1 = v1
    v2 = v2
    Flusher = Flusher
    Compactor = Compactor
    NoThread = NoThread
    UINT64_MAX = 99
    Strategy = "LEVELED"
    FilesPerTier = 2
    FilesPerWindow = 2
    HourIds = 1
    WindowHours = 1
    Client = {c1}
    Key = {1, 2}
    Value = {v1}
    FirstWord <- OneWord
    MAX_LEVEL = 2
    L0Divisor = 1
    LevelLimit = 1
    MEMTABLE_LIMIT = 1
    MaxSeq = 3
    MaxFile = 8
    MaxRestart = 0
    Ops = {"put", "compact", "worker"}
INVARIANTS TypeOK ListedFilesAreSound
PROPERTIES FlushWorkerReturns
