SPECIFICATION Spec
ACTION_CONSTRAINT CrashSafe
CHECK_DEADLOCK FALSE
CONSTANTS
    TOMBSTONE = TOMBSTONE
    NotFound = NotFound
    v1 = v1
    v2 = v2
    Flusher = Flusher
    Compactor = Compactor
    NoThread = NoThread
    UINT64_MAX = 99
    Strategy = "LEVELED"
    FilesPerTier = 2
    FilesPerWindow = 2
    HourIds = 1
    WindowHours = 1
    Client = {c1, c2}
    Key = {1, 2}
    Value = {v1, v2}
    FirstWord <- OneWord
    MAX_LEVEL = 1
    L0Divisor = 99
    LevelLimit = 99
    MEMTABLE_LIMIT = 99
    MaxSeq = 4
    MaxFile = 3
    MaxRestart = 2
    Ops = {"put", "del", "flush", "crash"}
INVARIANTS NumbersTellAge ReplayRestores
PROPERTIES DiskIsDurableMap
