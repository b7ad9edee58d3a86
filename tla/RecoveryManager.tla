--------------------------- MODULE RecoveryManager ---------------------------
(***************************************************************************)
(* Recovery from the segmented log (src/recovery/recovery_manager.cpp):    *)
(* the segments that reach the checkpoint are replayed one after the       *)
(* other, or in batches whose segments are replayed by concurrent tasks.   *)
(* The callers are recover_from_crash(from) and recover_to_lsn(target) on  *)
(* the manager's own log and parallel_wal_recovery on segments of any log; *)
(* nothing writes the log meanwhile.                                       *)
(***************************************************************************)
EXTENDS SegmentedWAL, Functions

CONSTANTS Widths          \* values of max_parallel_segments_; 1 stands for sequential recovery

VARIABLES recovering,     \* recovery_in_progress_
          request,        \* [from, target, width] of the running recovery
          waiting,        \* positions in segs of the segments no task has been started for
          tasks,          \* running task (segment position) -> entry it is at, 0 before validation
          applied,        \* history: [seg, entry] handed to the callbacks
          rejected        \* history: segments that failed validation

rvars == <<recovering, request, waiting, tasks, applied, rejected>>

NoRequest == [from |-> 0, target |-> 0, width |-> 1]

\* get_segments_for_recovery.
Reaching(from) ==
  Select([i \in DOMAIN segs |-> i], {i \in DOMAIN segs : EndLsn(segs[i]) >= from})

\* recover_from_crash replays to the end; recover_to_lsn replays from the start.
\* parallel_wal_recovery without a context has the default target 0.
Requests == {<<from, MaxLsn>> : from \in 0..MaxLsn} \union {<<0, target>> : target \in 0..MaxLsn}

StartRecovery(from, target, width) ==
  /\ open /\ ~recovering
  /\ recovering' = TRUE
  /\ request' = [from |-> from, target |-> target, width |-> width]
  /\ waiting' = Reaching(from)
  /\ UNCHANGED <<tasks, applied, rejected>>

\* A batch started without waiting for the one before.
StartBatchEarly ==
  /\ recovering /\ waiting # <<>>
  /\ LET n == IF Len(waiting) < request.width THEN Len(waiting) ELSE request.width IN
     /\ tasks' = [i \in DOMAIN tasks \union Range(SubSeq(waiting, 1, n)) |->
                    IF i \in DOMAIN tasks THEN tasks[i] ELSE 0]
     /\ waiting' = SubSeq(waiting, n + 1, Len(waiting))
  /\ UNCHANGED <<recovering, request, applied, rejected>>

\* The next batch of recover_segment_async, once every future of the last one
\* was collected.
StartBatch ==
  /\ recovering /\ waiting # <<>> /\ tasks = <<>>
  /\ LET n == IF Len(waiting) < request.width THEN Len(waiting) ELSE request.width IN
     /\ tasks' = [i \in Range(SubSeq(waiting, 1, n)) |-> 0]
     /\ waiting' = SubSeq(waiting, n + 1, Len(waiting))
  /\ UNCHANGED <<recovering, request, applied, rejected>>

EndTask(i) == tasks' = [j \in DOMAIN tasks \ {i} |-> tasks[j]]

\* validate_segment: a header changed since its checksum was computed is
\* refused; one that was not may be refused as well, the checksum covers
\* padding.
Validate(i, ok) ==
  /\ i \in DOMAIN tasks /\ tasks[i] = 0
  /\ IF ok
       THEN segs[i].stamped /\ tasks' = [tasks EXCEPT ![i] = 1] /\ UNCHANGED rejected
       ELSE EndTask(i) /\ rejected' = rejected \union {i}
  /\ UNCHANGED <<recovering, request, waiting, applied>>

\* One round of the loop in recover_segment_sequential.
ApplyEntry(i) ==
  /\ i \in DOMAIN tasks /\ tasks[i] > 0
  /\ LET s == segs[i].entries  p == tasks[i] IN
     IF p > Len(s) \/ (p <= Len(s) /\ s[p].lsn > request.target)
       THEN EndTask(i) /\ UNCHANGED applied
       ELSE /\ applied' = Append(applied, [seg |-> i, entry |-> s[p]])
            /\ tasks' = [tasks EXCEPT ![i] = p + 1]
  /\ UNCHANGED <<recovering, request, waiting, rejected>>

FinishRecovery ==
  /\ recovering /\ waiting = <<>> /\ tasks = <<>>
  /\ recovering' = FALSE /\ request' = NoRequest
  /\ applied' = <<>> /\ rejected' = {}
  /\ UNCHANGED <<waiting, tasks>>

Init ==
  /\ WInit
  /\ recovering = FALSE /\ request = NoRequest /\ waiting = <<>> /\ tasks = <<>>
  /\ applied = <<>> /\ rejected = {}

RecoveryStep ==
  \/ \E r \in Requests, w \in Widths : StartRecovery(r[1], r[2], w)
  \/ StartBatch
  \/ \E i \in DOMAIN tasks : ApplyEntry(i) \/ \E ok \in BOOLEAN : Validate(i, ok)
  \/ FinishRecovery

Next == \/ ~recovering /\ WNext /\ UNCHANGED rvars
        \/ RecoveryStep /\ UNCHANGED wvars

vars == <<wvars, rvars>>

Spec == Init /\ [][Next]_vars

-----------------------------------------------------------------------------
\* Entries reach the callbacks in the order they were logged, except between
\* segments of one batch: fewer segments than a batch has are replayed from that
\* of an overtaken entry to that of the entry which overtakes it.
OvertakenOnlyInBatch ==
  ~migrated =>
    \A p, q \in DOMAIN applied :
      p < q /\ applied[q].entry.lsn < applied[p].entry.lsn =>
        LET passed == {i \in Range(Reaching(request.from)) :
                         applied[q].seg <= i /\ i < applied[p].seg}
        IN passed # {} /\ Cardinality(passed) < request.width

\* A segment is replayed only with a checksum taken after its last entry, so
\* the open segment and its entries are never replayed.
RecoveredIsSealed == \A p \in DOMAIN applied : segs[applied[p].seg].sealed

\* When a recovery ends, every entry up to the target of every segment that
\* passed validation has been applied exactly once.
RecoveryIsComplete ==
  recovering /\ waiting = <<>> /\ tasks = <<>> /\ ~migrated =>
    \A i \in Range(Reaching(request.from)) \ rejected :
      Select(applied, {p \in DOMAIN applied : applied[p].seg = i})
        = [p \in {p \in DOMAIN segs[i].entries : segs[i].entries[p].lsn <= request.target} |->
             [seg |-> i, entry |-> segs[i].entries[p]]]

\* Replay is exact: from the log it is a suffix of what was acknowledged and is
\* on disk; a recovery applies sealed segments only, each entry once, and out of
\* order only within a batch.
ReplayIsExact ==
  /\ WTypeOK /\ ReplayIsSuffix /\ ReplayedIsOnDisk
  /\ RecoveredIsSealed /\ RecoveryIsComplete /\ OvertakenOnlyInBatch
=============================================================================
