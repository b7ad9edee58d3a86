SPECIFICATION Spec
CHECK_DEADLOCK FALSE
CONSTANTS
    TOMBSTONE = TOMBSTONE
    NotFound = NotFound
    v1 = v1
    v2 = v2
    Flusher = Flusher
    Compactor = Compactor
    NoThread = NoThread
    UINT64_MAX = 99
    Strategy = "LEVELED"
    FilesPerTier = 2
    FilesPerWindow = 2
    HourIds = 1
    WindowHours = 1
    Client = {c1, c2}
    Key = {1}
    Value = {v1}
    FirstWord <- OneWord
    MAX_LEVEL = 1
    L0Divisor = 99
    LevelLimit = 99
    MEMTABLE_LIMIT = 2
    MaxSeq = 2
    MaxFile = 2
    MaxRestart = 1
    Ops = {"put", "get", "flush", "crash"}
INVARIANTS MemTableOrdered GetFindsAcked LevelsFollowManifest
