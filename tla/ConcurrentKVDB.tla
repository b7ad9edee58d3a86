--------------------------- MODULE ConcurrentKVDB ---------------------------
(***************************************************************************)
(* ConcurrentKVDB over ReadWriteSeparatedMemTable, with the pool of the    *)
(* CoroutineScheduler for the asynchronous calls.                          *)
(*                                                                         *)
(* A write takes its number and its place in the write buffer under        *)
(* global_rw_mutex_; the worker thread moves the buffer to the table when  *)
(* a flush is requested: by a batch, or when the buffer reaches its limit. *)
(* The worker keeps buffer_mutex from its wake-up to the reset of          *)
(* flush_requested.  A read looks at the table alone, under rw_mutex_.     *)
(* A deletion is a write of the tombstone; values are left out.            *)
(***************************************************************************)
EXTENDS Integers, Sequences, FiniteSets, FiniteSetsExt, SequencesExt

CONSTANTS Keys, Workers,
          BufferLimit,  \* pending writes that request a flush (100 in the code)
          MaxSeq,       \* bound: writes
          MaxTasks      \* bound: asynchronous tasks submitted

VARIABLES next_seq,
          pending_writes,   \* Seq([key, seq])
          flush_requested,
          table,            \* Seq([key, seq]) in push_back order; a key's versions are its entries
          task_queue,       \* Seq(key): submitted asynchronous puts
          running,          \* [Workers -> the key of the task, "none"]
          submitted         \* history: number of tasks submitted

vars == <<next_seq, pending_writes, flush_requested, table, task_queue, running,
          submitted>>

Version == [key : Keys, seq : 0..(MaxSeq - 1)]

TypeOK ==
  /\ next_seq \in 0..MaxSeq
  /\ pending_writes \in Seq(Version)
  /\ flush_requested \in BOOLEAN
  /\ table \in Seq(Version)
  /\ task_queue \in Seq(Keys)
  /\ running \in [Workers -> Keys \cup {"none"}]

Init ==
  /\ next_seq = 0
  /\ pending_writes = <<>>
  /\ flush_requested = FALSE
  /\ table = <<>>
  /\ task_queue = <<>>
  /\ running = [w \in Workers |-> "none"]
  /\ submitted = 0

-----------------------------------------------------------------------------
\* get at the snapshot next_seq: the version pushed last, 0 for none, else
\* its number plus one.
get(k) ==
  LET seen == {i \in DOMAIN table : table[i].key = k /\ table[i].seq <= next_seq}
  IN IF seen = {} THEN 0 ELSE table[Max(seen)].seq + 1

\* get_next_seq and the append to the buffer, under global_rw_mutex_.
Buffer(keys) ==
  /\ next_seq + Len(keys) <= MaxSeq
  /\ next_seq' = next_seq + Len(keys)
  /\ pending_writes' = pending_writes \o
       [i \in DOMAIN keys |-> [key |-> keys[i], seq |-> next_seq + i - 1]]

put(k) ==
  /\ Buffer(<<k>>)
  /\ flush_requested' = (flush_requested \/ Len(pending_writes) + 1 >= BufferLimit)

put_call(k) == put(k) /\ UNCHANGED <<table, task_queue, running, submitted>>

\* batch_put and batch_delete request the flush whatever the size.
batch_put(keys) ==
  /\ Buffer(keys)
  /\ flush_requested' = TRUE
  /\ UNCHANGED <<table, task_queue, running, submitted>>

\* The buffer moved and not emptied.
flush_and_keep ==
  /\ flush_requested
  /\ table' = table \o pending_writes
  /\ flush_requested' = FALSE
  /\ UNCHANGED <<next_seq, pending_writes, task_queue, running, submitted>>

\* The worker: flush_write_buffer and the reset, under buffer_mutex.
flush_write_buffer ==
  /\ flush_requested
  /\ table' = table \o pending_writes
  /\ pending_writes' = <<>>
  /\ flush_requested' = FALSE
  /\ UNCHANGED <<next_seq, task_queue, running, submitted>>

-----------------------------------------------------------------------------
\* async_put: submit, the worker that takes the task, and its put.
submit(k) ==
  /\ submitted < MaxTasks
  /\ submitted' = submitted + 1
  /\ task_queue' = Append(task_queue, k)
  /\ UNCHANGED <<next_seq, pending_writes, flush_requested, table, running>>

take_task(w) ==
  /\ running[w] = "none" /\ task_queue # <<>>
  /\ running' = [running EXCEPT ![w] = Head(task_queue)]
  /\ task_queue' = Tail(task_queue)
  /\ UNCHANGED <<next_seq, pending_writes, flush_requested, table, submitted>>

run_task(w) ==
  /\ running[w] # "none"
  /\ put(running[w])
  /\ running' = [running EXCEPT ![w] = "none"]
  /\ UNCHANGED <<table, task_queue, submitted>>

Next ==
  \/ \E k \in Keys : put_call(k) \/ submit(k)
  \/ \E j, k \in Keys : batch_put(<<j, k>>)
  \/ flush_write_buffer
  \/ \E w \in Workers : take_task(w) \/ run_task(w)

Fairness == WF_vars(flush_write_buffer)

Spec == Init /\ [][Next]_vars /\ Fairness

-----------------------------------------------------------------------------
\* The versions of a key stand in the table in the order of their numbers,
\* whichever threads wrote them: get, which looks from the end, relies on it.
VersionsInOrder ==
  \A i, j \in DOMAIN table : table[i].key = table[j].key /\ i < j => table[i].seq < table[j].seq

\* Every numbered write is in the buffer or in the table, exactly once.
NoWriteLost ==
  LET pend == {pending_writes[i].seq : i \in DOMAIN pending_writes}
      done == {table[i].seq : i \in DOMAIN table}
  IN /\ pend \cup done = 0..(next_seq - 1)
     /\ pend \cap done = {}
     /\ Cardinality(pend) = Len(pending_writes) /\ Cardinality(done) = Len(table)

\* What get answers for a key never goes back to an older write.
ReadsNeverGoBack == [][\A k \in Keys : get(k)' >= get(k)]_vars

\* A requested flush happens: the request raised while the buffer is locked
\* is not overwritten by the worker's reset, so a full buffer empties.
RequestedFlushHappens ==
  []<>(Len(pending_writes) < BufferLimit)

\* The buffered engine keeps every write, once and in order.
EngineKeepsWrites == TypeOK /\ VersionsInOrder /\ NoWriteLost
=============================================================================
