--------------------------- MODULE CompactionLoop ---------------------------
(***************************************************************************)
(* The compaction worker over file metadata alone, under each of the four  *)
(* strategies: flushes add files to L0, and as long as the strategy asks   *)
(* for a compaction the worker runs one.  A task whose input files all     *)
(* start with a deleted key is given up without any change (no valid       *)
(* iterator), exactly as one that finds nothing to read.                   *)
(***************************************************************************)
EXTENDS CompactionStrategy, SequencesExt

CONSTANTS
    Key,          \* the keys, naturals
    Size,         \* sizes of flushed files
    FirstKeyLive, \* subset of BOOLEAN: may a flushed file start with a deleted key
    MaxFlush,     \* bound: flushes
    MaxFile       \* bound: file ids, never reached by compactions that settle

ASSUME LoopAssumption ==
    /\ Key \subseteq Nat /\ Size \subseteq Nat \ {0}
    /\ FirstKeyLive \subseteq BOOLEAN
    /\ MaxFlush \in Nat /\ MaxFile \in Nat

VARIABLES
    strategy,  \* compaction_strategy_
    levels,    \* levels_[n].sstables
    file_id,   \* file_id_
    flushes    \* flushes so far (bounded)

loopVars == <<strategy, levels, file_id, flushes>>

LoopInit ==
    /\ strategy \in StrategyType
    /\ levels = [n \in Level |-> <<>>]
    /\ file_id = 0 /\ flushes = 0

Flush ==
    /\ flushes < MaxFlush /\ file_id < MaxFile
    /\ \E lo, hi \in Key, s \in Size, l \in FirstKeyLive :
          /\ lo <= hi
          /\ levels' = [levels EXCEPT ![0] =
                Append(@, [file |-> file_id, min |-> lo, max |-> hi, size |-> s, live |-> l])]
    /\ file_id' = file_id + 1
    /\ flushes' = flushes + 1
    /\ UNCHANGED strategy

\* Any strategy can be chosen while the engine runs.
SetCompactionStrategy ==
    /\ strategy' \in StrategyType
    /\ UNCHANGED <<levels, file_id, flushes>>

Without(level, olds) ==
    SelectSeq(level, LAMBDA m : \A i \in DOMAIN olds : olds[i].file # m.file)

\* Source files out, overlapping files out, the new file in, past the last
\* level nowhere.
Install(task, out) ==
    [n \in Level |->
        LET rest == IF n = task.src THEN Without(levels[n], task.input) ELSE levels[n]
            kept == IF n = task.dst THEN Without(rest, task.overlap) ELSE rest
        IN  IF n = task.dst THEN Append(kept, out) ELSE kept]

\* What the output file looks like depends on data that is not modelled here:
\* any key range, any size up to that of its inputs; it holds live keys only.
CompactOnce ==
    /\ file_id < MaxFile
    /\ \E task \in {PickCompaction(strategy, levels)} \ {NoTask} :
          LET inputs == task.input \o task.overlap
          IN  /\ \E i \in DOMAIN inputs : inputs[i].live
              /\ \E lo, hi \in Key, s \in 1 .. LevelSize(inputs) :
                    /\ lo <= hi
                    /\ levels' = Install(task, [file |-> file_id, min |-> lo, max |-> hi,
                                                size |-> s, live |-> TRUE])
    /\ file_id' = file_id + 1
    /\ UNCHANGED <<strategy, flushes>>

LoopNext == Flush \/ SetCompactionStrategy \/ CompactOnce

\* compact_worker looks at least once a second.
LoopSpec == LoopInit /\ [][LoopNext]_loopVars /\ WF_loopVars(CompactOnce)

-----------------------------------------------------------------------------
\* Compaction comes to rest again and again: whatever files were flushed, and
\* however often the strategy is switched, the worker reaches a state in which
\* need_compaction is false instead of compacting for ever.
CompactionSettles == []<>~NeedsCompaction(strategy, levels)
=============================================================================
