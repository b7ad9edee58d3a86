-------------------------- MODULE CompactionStrategy --------------------------
(***************************************************************************)
(* The four compaction strategies: when the levels need a compaction and   *)
(* which files it takes.  A level is a sequence of file metadata           *)
(* [file, min, max, size], oldest first.                                   *)
(***************************************************************************)
EXTENDS Positions, FiniteSetsExt, Functions, SequencesExt

CONSTANTS
    MAX_LEVEL,       \* number of levels (4 in the code)
    L0Divisor,       \* 4.0: L0 scores its number of files over this
    LevelLimit,      \* size limit of L1 and deeper
    FilesPerTier,    \* max_files_per_tier_ and min_threshold_ (4)
    FilesPerWindow,  \* max_files_per_window_ (10)
    HourIds,         \* file ids per hour of pseudo-timestamp (3600)
    WindowHours      \* window_size_ in hours (24)

ASSUME StrategyAssumption ==
    /\ MAX_LEVEL \in Nat \ {0}
    /\ {L0Divisor, LevelLimit, FilesPerTier, FilesPerWindow, HourIds, WindowHours} \subseteq Nat \ {0}

StrategyType == {"LEVELED", "TIERED", "SIZE_TIERED", "TIME_WINDOW"}
Level == 0 .. MAX_LEVEL - 1
NoTask == [src |-> -1, dst |-> -1, input |-> <<>>, overlap |-> <<>>]

LevelSize(files) == SumFunction([i \in DOMAIN files |-> files[i].size])

\* The files of a level whose metadata range meets [lo, hi].
FindOverlapping(files, lo, hi) ==
    Select(files, {i \in DOMAIN files : files[i].max >= lo /\ files[i].min <= hi})

(***************************************************************************)
(* Leveled.  The scores are stored in a vector<size_t>: they are truncated *)
(* to integers before they are compared with 1.0.                          *)
(***************************************************************************)
Score(levels, n) ==
    IF n = 0 THEN Len(levels[0]) \div L0Divisor
             ELSE LevelSize(levels[n]) \div LevelLimit

OverLimit(levels) == {n \in Level : Score(levels, n) > 1}

LeveledTask(levels, n) ==
    LET input == IF n = 0 THEN levels[0] ELSE <<levels[n][1]>>
        lo    == Min({m.min : m \in Range(input)})
        hi    == Max({m.max : m \in Range(input)})
    IN  [src     |-> n,
         dst     |-> n + 1,
         input   |-> input,
         overlap |-> IF n + 1 < MAX_LEVEL THEN FindOverlapping(levels[n + 1], lo, hi) ELSE <<>>]

LeveledPick(levels) ==
    IF OverLimit(levels) = {} THEN NoTask
    ELSE LeveledTask(levels,
            CHOOSE n \in OverLimit(levels) : \A m \in OverLimit(levels) :
                \/ Score(levels, n) > Score(levels, m)
                \/ Score(levels, n) = Score(levels, m) /\ n <= m)

(***************************************************************************)
(* The other three merge files of one level into that same level.          *)
(***************************************************************************)
SameLevelTask(n, files) == [src |-> n, dst |-> n, input |-> files, overlap |-> <<>>]

FullTiers(levels) == {n \in Level : Len(levels[n]) >= FilesPerTier}

TieredPick(levels) ==
    IF FullTiers(levels) = {} THEN NoTask
    ELSE LET n == CHOOSE i \in FullTiers(levels) : \A j \in FullTiers(levels) :
                     \/ Len(levels[i]) > Len(levels[j])
                     \/ Len(levels[i]) = Len(levels[j]) /\ i <= j
         IN  SameLevelTask(n, levels[n])

\* ratio <= 1.5; a size of 0 divides by zero and is similar to nothing.
Similar(a, b) == a > 0 /\ b > 0 /\ 2 * Max({a, b}) <= 3 * Min({a, b})

SimilarFiles(files, base) == Select(files, {i \in DOMAIN files : Similar(files[i].size, base)})

\* The (level, base file) pairs with enough similar files.
SimilarGroups(levels) ==
    {g \in Level \X (1 .. Max({Len(levels[l]) : l \in Level})) :
        /\ g[2] <= Len(levels[g[1]])
        /\ Len(SimilarFiles(levels[g[1]], levels[g[1]][g[2]].size)) >= FilesPerTier}

\* file count x size / (level + 1), compared by cross-multiplication.
Outranks(levels, g, h) ==
    LET weight(p) == LET fs == SimilarFiles(levels[p[1]], levels[p[1]][p[2]].size)
                     IN  Len(fs) * LevelSize(fs)
    IN  weight(g) * (h[1] + 1) > weight(h) * (g[1] + 1)

\* The task that each group would give.
GroupTasks(levels) ==
    [g \in SimilarGroups(levels) |->
        SameLevelTask(g[1], SimilarFiles(levels[g[1]], levels[g[1]][g[2]].size))]

SizeTieredPick(levels) ==
    LET groups  == SimilarGroups(levels)
        Before(g, h) == g[1] < h[1] \/ (g[1] = h[1] /\ g[2] <= h[2])
        best    == CHOOSE g \in groups : \A h \in groups :
                       Outranks(levels, g, h) \/ (~Outranks(levels, h, g) /\ Before(g, h))
    IN  IF groups = {} THEN NoTask ELSE GroupTasks(levels)[best]

(***************************************************************************)
(* A file's "timestamp" is its id in seconds.  A window opens at the whole *)
(* hour of the first file that fits no earlier window.                     *)
(***************************************************************************)
Hour(m) == m.file \div HourIds

WindowOf(starts, m) ==
    {s \in starts : s <= Hour(m) /\ Hour(m) < s + WindowHours}

\* The start hours of the windows that the files open, one after the other.
OpenWindow(starts, m) ==
    IF WindowOf(starts, m) # {} THEN starts ELSE starts \cup {Hour(m)}
WindowStarts(files) == FoldLeft(OpenWindow, {}, files)

\* The position of the file that opened the window starting at s.
Opened(files, s) == Min({i \in DOMAIN files : Hour(files[i]) = s})

\* The files of the window that starts at s: those that no window opened
\* earlier took.
WindowFiles(files, s) ==
    LET starts  == WindowStarts(files)
        home(m) == CHOOSE w \in WindowOf(starts, m) :
                       \A x \in WindowOf(starts, m) : Opened(files, w) <= Opened(files, x)
    IN  Select(files, {i \in DOMAIN files : home(files[i]) = s})

FullWindows(levels) ==
    UNION {{<<n, s>> : s \in {w \in WindowStarts(levels[n]) :
                                 Len(WindowFiles(levels[n], w)) >= FilesPerWindow}} : n \in Level}

\* The task that each window would give.
WindowTasks(levels) ==
    [g \in FullWindows(levels) |-> SameLevelTask(g[1], WindowFiles(levels[g[1]], g[2]))]

TimeWindowPick(levels) ==
    LET full == FullWindows(levels)
        size(g) == Len(WindowFiles(levels[g[1]], g[2]))
        best == CHOOSE x \in full : \A y \in full :
                    \/ size(x) > size(y)
                    \/ size(x) = size(y) /\ x[1] < y[1]
                    \/ /\ size(x) = size(y) /\ x[1] = y[1]
                       /\ Opened(levels[x[1]], x[2]) <= Opened(levels[y[1]], y[2])
    IN  IF full = {} THEN NoTask ELSE WindowTasks(levels)[best]

(***************************************************************************)
(* The interface the engine calls.                                         *)
(***************************************************************************)
NeedsCompaction(strategy, levels) ==
    CASE strategy = "LEVELED"     -> OverLimit(levels) # {}
      [] strategy = "TIERED"      -> FullTiers(levels) # {}
      [] strategy = "SIZE_TIERED" -> SimilarGroups(levels) # {}
      [] strategy = "TIME_WINDOW" -> FullWindows(levels) # {}

PickCompaction(strategy, levels) ==
    CASE strategy = "LEVELED"     -> LeveledPick(levels)
      [] strategy = "TIERED"      -> TieredPick(levels)
      [] strategy = "SIZE_TIERED" -> SizeTieredPick(levels)
      [] strategy = "TIME_WINDOW" -> TimeWindowPick(levels)
=============================================================================
