------------------------------- MODULE MCKVDB -------------------------------
(***************************************************************************)
(* Instances of the storage engine for TLC.                                *)
(***************************************************************************)
EXTENDS KVDB

CONSTANTS v1, v2

\* Every value is one word: text files give it back unchanged.
OneWord == [v \in Value |-> v]

\* v2 stands for a value with a blank in it whose first word is v1.
TwoWords == [v \in Value |-> v1]

-----------------------------------------------------------------------------
\* The behaviours in which the code keeps its disk crash safe.  A flush that
\* overlaps a write can lose the write (AckedIsDurable is violated), and after
\* a restart the sequence numbers of flushed files come again (ReadYourWrites
\* is violated); here a flushing client is alone, and an engine that is to be
\* restarted has listed no file.
Alone(t) == \A u \in Client \ {t} : pc[u] = "idle"
Flushing(t) == pc[t] \in {"flush_copied", "flush_written", "flush_added", "flush_cleared"}

CrashSafe ==
    /\ \A t \in Client : Flushing(t)' => Alone(t)'
    /\ restarts' = 0 \/ manifest' = <<>>

\* Besides the flush worker one thread compacts at a time, a client or the
\* compaction worker: the same steps under another name.  No step of the flush
\* worker is held up, whose progress FlushWorkerReturns is about.
Compacting(t) ==
    pc[t] \in {"scan", "merge", "merged", "compact_written", "compact_source", "compact_target",
               "compact_installed"}

OneCompaction == Cardinality({t \in Client \cup {Compactor} : Compacting(t)'}) <= 1
=============================================================================
