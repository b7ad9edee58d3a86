----------------------------- MODULE Iterators -----------------------------
(***************************************************************************)
(* The snapshots and the concurrent iterators of KVDB.                     *)
(*                                                                         *)
(* SnapshotManager keeps the numbers of the snapshots in use.  A writer    *)
(* (begin_write_operation .. end_write_operation) holds db_rw_mutex_,      *)
(* marks every registered iterator invalid and waits until none of them    *)
(* has a read lock; then it draws a number and changes the MemTable.  An   *)
(* iterator step loads invalidated_ and then moves its inner iterator over *)
(* the MemTable.                                                           *)
(* IteratorManager expects a step to be taken with the read lock of the    *)
(* iterator (disciplined); nothing enforces it, so an iterator may also be *)
(* used without (the others).                                              *)
(***************************************************************************)
EXTENDS Integers, FiniteSets, FiniteSetsExt

CONSTANTS Iters,      \* concurrent iterators, one user thread each
          Handles,    \* snapshot handles of clients
          MaxSeq      \* bound: writes

VARIABLES seq,          \* seq_: number of the next write
          active,       \* SnapshotManager::active_
          handle,       \* [Handles -> number of a held snapshot, or None]
          registered,   \* active_iterators_
          invalidated,  \* [Iters -> BOOLEAN]
          ref_count,    \* [Iters -> 0..1]: acquire_read_lock of its user
          disciplined,  \* users that take the read lock around every step
          inner,        \* [Iters -> "idle", "loaded"]: between load and move
          writer,       \* "idle", "locked", "waiting", "writing", "numbered"
          taken         \* history: [Handles -> what was written when it was taken]

vars == <<seq, active, handle, registered, invalidated, ref_count, disciplined,
          inner, writer, taken>>

TypeOK ==
  /\ seq \in 0..MaxSeq
  /\ active \subseteq 0..MaxSeq
  /\ handle \in [Handles -> (0..MaxSeq) \cup {MaxSeq + 1}]
  /\ registered \subseteq Iters
  /\ ref_count \in [Iters -> 0..1]
  /\ writer \in {"idle", "locked", "waiting", "writing", "numbered"}

None == MaxSeq + 1

\* The numbers of the writes in the MemTable, and of the one whose number is
\* drawn but which is not there yet.  The first write has number 0, which is
\* also the number of a snapshot of the empty store.
Pending == IF writer = "numbered" THEN {seq - 1} ELSE {}
Applied == (0..(seq - 1)) \ Pending

Init ==
  /\ seq = 0
  /\ active = {}
  /\ handle = [h \in Handles |-> None]
  /\ registered = {}
  /\ invalidated = [i \in Iters |-> FALSE]
  /\ ref_count = [i \in Iters |-> 0]
  /\ disciplined \in SUBSET Iters
  /\ inner = [i \in Iters |-> "idle"]
  /\ writer = "idle"
  /\ taken = [h \in Handles |-> [applied |-> {}, pending |-> {}]]

iterator_vars == <<registered, invalidated, ref_count, disciplined, inner, writer>>

-----------------------------------------------------------------------------
Take(h, s) ==
  /\ handle[h] = None
  /\ handle' = [handle EXCEPT ![h] = s]
  /\ active' = active \cup {s}
  /\ taken' = [taken EXCEPT ![h] =
       [applied |-> Applied, pending |-> IF seq = 0 THEN {0} ELSE Pending]]
  /\ UNCHANGED <<seq, iterator_vars>>

\* get_snapshot, without db_rw_mutex_: seq_ - 1 is the last number drawn.
get_snapshot(h) == Take(h, IF seq > 0 THEN seq - 1 ELSE 0)

Release(h, rest) ==
  /\ handle[h] # None
  /\ active' = rest
  /\ handle' = [handle EXCEPT ![h] = None]
  /\ UNCHANGED <<seq, taken, iterator_vars>>

\* release_snapshot: the number goes, whoever else holds a snapshot of it.
release_snapshot(h) == Release(h, active \ {handle[h]})

\* min_seq, the bound below which a compaction may drop versions.
min_seq == IF active = {} THEN 0 ELSE Min(active)

-----------------------------------------------------------------------------
\* new_concurrent_iterator takes db_rw_mutex_ shared.
new_concurrent_iterator(i) ==
  /\ writer = "idle"
  /\ i \notin registered
  /\ registered' = registered \cup {i}
  /\ UNCHANGED <<seq, active, handle, taken, invalidated, ref_count, disciplined,
                 inner, writer>>

\* The iterator is dropped: its weak pointer expires.  A thread drops it
\* with the read lock released.
drop_iterator(i) ==
  /\ i \in registered /\ ref_count[i] = 0 /\ inner[i] = "idle"
  /\ registered' = registered \ {i}
  /\ invalidated' = [invalidated EXCEPT ![i] = FALSE]
  /\ UNCHANGED <<seq, active, handle, taken, ref_count, disciplined, inner, writer>>

acquire_read_lock(i) ==
  /\ i \in registered /\ i \in disciplined /\ ref_count[i] = 0
  /\ ref_count' = [ref_count EXCEPT ![i] = 1]
  /\ UNCHANGED <<seq, active, handle, taken, registered, invalidated, disciplined,
                 inner, writer>>

release_read_lock(i) ==
  /\ ref_count[i] = 1 /\ inner[i] = "idle"
  /\ ref_count' = [ref_count EXCEPT ![i] = 0]
  /\ UNCHANGED <<seq, active, handle, taken, registered, invalidated, disciplined,
                 inner, writer>>

\* seek and next: the flag is loaded ...
step_load(i) ==
  /\ i \in registered /\ inner[i] = "idle"
  /\ i \in disciplined => ref_count[i] = 1
  /\ ~invalidated[i]
  /\ inner' = [inner EXCEPT ![i] = "loaded"]
  /\ UNCHANGED <<seq, active, handle, taken, registered, invalidated, ref_count,
                 disciplined, writer>>

\* ... and the inner iterator moves.
step_move(i) ==
  /\ inner[i] = "loaded"
  /\ inner' = [inner EXCEPT ![i] = "idle"]
  /\ UNCHANGED <<seq, active, handle, taken, registered, invalidated, ref_count,
                 disciplined, writer>>

-----------------------------------------------------------------------------
Writer(from, to) == writer = from /\ writer' = to

lock_db ==
  /\ Writer("idle", "locked")
  /\ UNCHANGED <<seq, active, handle, taken, registered, invalidated, ref_count,
                 disciplined, inner>>

\* The flags raised only for iterators nobody is reading with.
invalidate_unused_iterators ==
  /\ Writer("locked", "waiting")
  /\ invalidated' = [i \in Iters |-> invalidated[i] \/ (i \in registered /\ ref_count[i] = 0)]
  /\ UNCHANGED <<seq, active, handle, taken, registered, ref_count, disciplined, inner>>

invalidate_all_iterators ==
  /\ Writer("locked", "waiting")
  /\ invalidated' = [i \in Iters |-> invalidated[i] \/ i \in registered]
  /\ UNCHANGED <<seq, active, handle, taken, registered, ref_count, disciplined, inner>>

\* wait_for_iterators looks at one iterator after the other; since a count
\* seen at zero may rise again, only the invalid flag keeps it harmless.
wait_for_iterators ==
  /\ Writer("waiting", "writing")
  /\ \A i \in registered : ref_count[i] = 0
  /\ UNCHANGED <<seq, active, handle, taken, registered, invalidated, ref_count,
                 disciplined, inner>>

\* put and del draw a number and log the write ...
number ==
  /\ Writer("writing", "numbered")
  /\ seq < MaxSeq
  /\ seq' = seq + 1
  /\ UNCHANGED <<active, handle, taken, registered, invalidated, ref_count,
                 disciplined, inner>>

\* ... put it into the MemTable, and end_write_operation.
apply ==
  /\ Writer("numbered", "idle")
  /\ UNCHANGED <<seq, active, handle, taken, registered, invalidated, ref_count,
                 disciplined, inner>>

Next ==
  \/ \E h \in Handles : get_snapshot(h) \/ release_snapshot(h)
  \/ \E i \in Iters : \/ new_concurrent_iterator(i) \/ drop_iterator(i)
                      \/ acquire_read_lock(i) \/ release_read_lock(i)
                      \/ step_load(i) \/ step_move(i)
  \/ lock_db \/ invalidate_all_iterators \/ wait_for_iterators \/ number \/ apply

Spec == Init /\ [][Next]_vars

-----------------------------------------------------------------------------
\* While a writer changes the MemTable, no iterator whose user keeps to the
\* read lock is between its test of the invalid flag and its move: the flag
\* is raised before the counts are awaited.
DisciplinedNeverRaces ==
  writer \in {"writing", "numbered"} => \A i \in disciplined : inner[i] = "idle"

\* A snapshot sees every write that was applied when it was taken and, however
\* much is written later, of the others only the one whose number was drawn
\* already - get_snapshot does not wait for it - or, taken from an empty store,
\* the first one.
Sees(h) == {n \in Applied : n <= handle[h]}

SnapshotSeesItsPast ==
  \A h \in Handles : handle[h] # None =>
    /\ taken[h].applied \subseteq Sees(h)
    /\ Sees(h) \subseteq taken[h].applied \cup taken[h].pending

\* A snapshot in use stays pinned, and bounds what a compaction may drop,
\* until it or another one of the same number is released: numbers are kept
\* as a set, and the first release unpins all of a number.
HeldStaysPinned ==
  [][\A h \in Handles :
       (handle[h] # None /\ handle'[h] = handle[h] /\ handle[h] \in active) =>
          \/ handle[h] \in active' /\ min_seq' <= handle[h]
          \/ \E g \in Handles : handle[g] = handle[h] /\ handle'[g] = None]_vars

\* A reader sees the store of its snapshot and no MemTable that is changing:
\* the hand-shake of writers and iterators, and the numbers of snapshots.
IteratorsSeeTheirPast == TypeOK /\ DisciplinedNeverRaces /\ SnapshotSeesItsPast
=============================================================================
