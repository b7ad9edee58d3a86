-------------------------------- MODULE KVDB --------------------------------
(***************************************************************************)
(* The LSM storage engine: client threads that put, delete, get, flush and *)
(* compact, the background flush and compaction threads, the WAL, the      *)
(* MANIFEST and the SSTable files, and the crash and restart of the whole  *)
(* process.                                                                *)
(*                                                                         *)
(* A step is what one thread does between two points where another thread  *)
(* can interfere: put and del hold db_rw_mutex_ from begin to end, flush   *)
(* and get do not take it at all, and each level is read or changed under  *)
(* its own mutex, which one action never releases half way.  file_id_ is a *)
(* plain int shared by every thread that flushes or compacts: its          *)
(* increment is a read and a later write.  A racing access to the MemTable *)
(* sees the map before or after the other access; a fault it may cause is  *)
(* covered by Crash, which is possible at any time.                        *)
(***************************************************************************)
EXTENDS SSTable, CompactionStrategy, SequencesExt

CONSTANTS
    Client,          \* client threads
    Flusher,         \* the thread that runs flush_worker
    Compactor,       \* the thread that runs compact_worker
    NoThread,        \* nobody holds db_rw_mutex_
    Ops,             \* the operations the clients of this run call
    Strategy,        \* the compaction strategy in force
    MEMTABLE_LIMIT,  \* MemTable size that requests a flush
    MaxSeq,          \* bound: sequence numbers handed out per process start
    MaxFile,         \* bound: file ids handed out
    MaxRestart       \* bound: restarts after a crash

ASSUME KVDBAssumption ==
    /\ {MEMTABLE_LIMIT, MaxSeq, MaxFile, MaxRestart} \subseteq Nat
    /\ MaxSeq < UINT64_MAX
    /\ Strategy \in StrategyType
    /\ Flusher \notin Client /\ Compactor \notin Client /\ Flusher # Compactor
    /\ NoThread \notin Client \cup {Flusher, Compactor}
    /\ NoThread \notin [key : Key, value : Stored, done : BOOLEAN]

\* A process has finitely many threads.
ASSUME ClientAssumption == IsFiniteSet(Client)

VARIABLES
    wal,              \* WAL file: <<[key, value]>>, TOMBSTONE for a DEL line
    manifest,         \* MANIFEST file: <<[level, meta]>>, ADD lines only
    files,            \* data/sstable_<id>.dat by id; NotFound if absent
    phase,            \* "down", "recover", "replay" or "up"
    pos,              \* lines of MANIFEST or WAL already read while starting
    memtable,         \* memtable_
    levels,           \* levels_[n].sstables
    seq,              \* seq_, the next sequence number
    file_id,          \* file_id_, the next file id
    flush_requested,  \* flush_requested_
    db_rw_mutex,      \* the thread that holds db_rw_mutex_, or NoThread
    pc,               \* where each thread is
    loc,              \* each thread's local variables
    restarts,         \* restarts so far (bounded)
    acked             \* history: the last write of each key that counts: the last
                      \* acknowledged one, or one that a crash caught in the WAL

disk    == <<wal, manifest, files>>
startup == <<phase, pos, restarts>>
vars    == <<wal, manifest, files, phase, pos, memtable, levels, seq, file_id,
             flush_requested, db_rw_mutex, pc, loc, restarts, acked>>

Thread == Client \cup {Flusher, Compactor}
FileId == 0 .. MaxFile
NoLoc  == [none |-> TRUE]

\* Where a thread goes when the procedure it called returns.
Home(t) == IF t = Flusher THEN "eval" ELSE "idle"

Goto(t, l) == pc' = [pc EXCEPT ![t] = l]
Keep(t, r) == loc' = [loc EXCEPT ![t] = r]
Return(t)  == Goto(t, Home(t)) /\ Keep(t, NoLoc)

(***************************************************************************)
(* put and del.  The old value is read for the secondary indexes only.     *)
(***************************************************************************)
\* Variant with a bug: put without db_rw_mutex_.
BeginWriteUnlocked(t, k, v) ==
    /\ phase = "up" /\ pc[t] = "idle" /\ seq < MaxSeq
    /\ Goto(t, "write")
    /\ Keep(t, [key |-> k, value |-> v])
    /\ UNCHANGED <<disk, startup, memtable, levels, seq, file_id, flush_requested, db_rw_mutex, acked>>

BeginWrite(t, k, v) ==
    /\ phase = "up" /\ pc[t] = "idle"
    /\ db_rw_mutex = NoThread
    /\ seq < MaxSeq
    /\ db_rw_mutex' = t
    /\ Goto(t, "write")
    /\ Keep(t, [key |-> k, value |-> v])
    /\ UNCHANGED <<disk, startup, memtable, levels, seq, file_id, flush_requested, acked>>

Put(t, k, v) == "put" \in Ops /\ BeginWrite(t, k, v)
Del(t, k)    == "del" \in Ops /\ BeginWrite(t, k, TOMBSTONE)

\* Variant with a bug: the sequence number is drawn but not handed on.
LogWriteNoSeq(t) ==
    /\ phase = "up" /\ pc[t] = "write"
    /\ seq' = seq + 1
    /\ wal' = Append(wal, loc[t])
    /\ Goto(t, "logged")
    /\ UNCHANGED <<manifest, files, startup, memtable, levels, file_id, flush_requested,
                   db_rw_mutex, loc, acked>>

\* next_seq and wal_.log_put / log_del: a whole line, flushed.
LogWrite(t) ==
    /\ phase = "up" /\ pc[t] = "write"
    /\ seq' = seq + 1
    /\ wal' = Append(wal, loc[t])
    /\ Goto(t, "logged")
    /\ Keep(t, [key |-> loc[t].key, value |-> loc[t].value, seq |-> seq])
    /\ UNCHANGED <<manifest, files, startup, memtable, levels, file_id, flush_requested,
                   db_rw_mutex, acked>>

\* notify_one wakes the flush worker only if it is already blocked.
Notified(p) == [p EXCEPT ![Flusher] = IF @ = "wait" THEN "eval" ELSE @]

\* memtable_.put, request_flush when the table is full, unlock, return true.
ApplyWrite(t) ==
    /\ phase = "up" /\ pc[t] = "logged"
    /\ LET w    == loc[t]
           m    == MemTablePut(memtable, w.key, w.value, w.seq)
           full == MemTableSize(m) >= MEMTABLE_LIMIT
           home == [pc EXCEPT ![t] = "idle"]
       IN  /\ memtable' = m
           /\ flush_requested' = (flush_requested \/ full)
           /\ pc' = IF full THEN Notified(home) ELSE home
           /\ acked' = [acked EXCEPT ![w.key] = w.value]
    /\ db_rw_mutex' = NoThread
    /\ Keep(t, NoLoc)
    /\ UNCHANGED <<disk, startup, levels, seq, file_id>>

(***************************************************************************)
(* get: MemTable, then one level after the other, without db_rw_mutex_.    *)
(* The block cache is keyed by file, key and snapshot and is left out.     *)
(***************************************************************************)
FirstHit(order, k, snap) ==
    LET hits == {i \in DOMAIN order :
                    /\ ContainsKey(order[i], k)
                    /\ files[order[i].file] # NotFound
                    /\ SSTableGet(files[order[i].file], k, snap) # NotFound}
    IN  IF hits = {} THEN NotFound
        ELSE SSTableGet(files[order[Min(hits)].file], k, snap)

\* L0 newest file first, deeper levels in order.
LevelGet(n, k, snap) ==
    FirstHit(IF n = 0 THEN Reverse(levels[0]) ELSE levels[n], k, snap)

GetBegin(t, k) ==
    /\ phase = "up" /\ pc[t] = "idle" /\ "get" \in Ops
    /\ LET hit == MemTableGet(memtable, k, seq)
       IN  /\ Goto(t, IF hit = NotFound THEN "get" ELSE "got")
           /\ Keep(t, [key |-> k, snap |-> seq, level |-> 0, result |-> hit, before |-> acked[k]])
    /\ UNCHANGED <<disk, startup, memtable, levels, seq, file_id, flush_requested, db_rw_mutex, acked>>

GetLevel(t) ==
    /\ phase = "up" /\ pc[t] = "get"
    /\ LET g   == loc[t]
           hit == LevelGet(g.level, g.key, g.snap)
       IN  /\ Goto(t, IF hit # NotFound \/ g.level + 1 = MAX_LEVEL THEN "got" ELSE "get")
           /\ Keep(t, [g EXCEPT !.level = @ + 1, !.result = hit])
    /\ UNCHANGED <<disk, startup, memtable, levels, seq, file_id, flush_requested, db_rw_mutex, acked>>

GetReturn(t) ==
    /\ phase = "up" /\ pc[t] = "got"
    /\ Return(t)
    /\ UNCHANGED <<disk, startup, memtable, levels, seq, file_id, flush_requested, db_rw_mutex, acked>>

\* The whole of get(key) in one state: what a call that nobody interrupts
\* returns.
Lookup(k) ==
    LET hits == {n \in Level : LevelGet(n, k, seq) # NotFound}
    IN  IF MemTableGet(memtable, k, seq) # NotFound THEN MemTableGet(memtable, k, seq)
        ELSE IF hits = {} THEN NotFound ELSE LevelGet(Min(hits), k, seq)

(***************************************************************************)
(* flush, called by a client or by the flush worker; no lock around it.    *)
(***************************************************************************)
FlushCaller(t) ==
    \/ t \in Client /\ pc[t] = "idle" /\ "flush" \in Ops
    \/ t = Flusher /\ pc[t] = "flush"

AfterFlush(t) == IF t = Flusher THEN "check" ELSE "idle"

\* An empty MemTable: return at once.
FlushEmpty(t) ==
    /\ phase = "up" /\ FlushCaller(t)
    /\ memtable = EmptyTable
    /\ Goto(t, AfterFlush(t))
    /\ UNCHANGED <<disk, startup, memtable, levels, seq, file_id, flush_requested, db_rw_mutex,
                   loc, acked>>

\* Copy the MemTable and read file_id_.
FlushCopy(t) ==
    /\ phase = "up" /\ FlushCaller(t)
    /\ memtable # EmptyTable
    /\ file_id < MaxFile
    /\ Goto(t, "flush_copied")
    /\ Keep(t, [data |-> memtable, fid |-> file_id])
    /\ UNCHANGED <<disk, startup, memtable, levels, seq, file_id, flush_requested, db_rw_mutex, acked>>

\* Variants with a bug: the MemTable, or the WAL, is emptied before the file
\* is listed anywhere.
FlushWriteThen(t, m, w) ==
    /\ phase = "up" /\ pc[t] = "flush_copied"
    /\ file_id' = loc[t].fid + 1
    /\ files' = [files EXCEPT ![loc[t].fid] = SSTableWrite(loc[t].data)]
    /\ Goto(t, "flush_written")
    /\ Keep(t, [fid |-> loc[t].fid])
    /\ memtable' = m /\ wal' = w
    /\ UNCHANGED <<manifest, startup, levels, seq, flush_requested, db_rw_mutex, acked>>
FlushWriteClears(t)    == FlushWriteThen(t, EmptyTable, wal)
FlushWriteTruncates(t) == FlushWriteThen(t, memtable, <<>>)

\* Write file_id_ back and write the SSTable; an existing file is replaced.
FlushWrite(t) ==
    /\ phase = "up" /\ pc[t] = "flush_copied"
    /\ file_id' = loc[t].fid + 1
    /\ files' = [files EXCEPT ![loc[t].fid] = SSTableWrite(loc[t].data)]
    /\ Goto(t, "flush_written")
    /\ Keep(t, [fid |-> loc[t].fid])
    /\ UNCHANGED <<wal, manifest, startup, memtable, levels, seq, flush_requested, db_rw_mutex, acked>>

\* Variant with a bug: the newest file goes to the front.
FlushAddFront(t) ==
    /\ phase = "up" /\ pc[t] = "flush_written"
    /\ files[loc[t].fid] # NotFound
    /\ LET meta == MetaOf(loc[t].fid, files[loc[t].fid])
       IN  /\ levels' = [levels EXCEPT ![0] = <<meta>> \o @]
           /\ manifest' = Append(manifest, [level |-> 0, meta |-> meta])
    /\ Goto(t, "flush_added")
    /\ Keep(t, NoLoc)
    /\ UNCHANGED <<wal, files, startup, memtable, seq, file_id, flush_requested, db_rw_mutex, acked>>

\* Under the L0 mutex: push the file's metadata, append the ADD line.
FlushAdd(t) ==
    /\ phase = "up" /\ pc[t] = "flush_written"
    /\ files[loc[t].fid] # NotFound
    /\ LET meta == MetaOf(loc[t].fid, files[loc[t].fid])
       IN  /\ levels' = [levels EXCEPT ![0] = Append(@, meta)]
           /\ manifest' = Append(manifest, [level |-> 0, meta |-> meta])
    /\ Goto(t, "flush_added")
    /\ Keep(t, NoLoc)
    /\ UNCHANGED <<wal, files, startup, memtable, seq, file_id, flush_requested, db_rw_mutex, acked>>

FlushClear(t) ==
    /\ phase = "up" /\ pc[t] = "flush_added"
    /\ memtable' = EmptyTable
    /\ Goto(t, "flush_cleared")
    /\ UNCHANGED <<disk, startup, levels, seq, file_id, flush_requested, db_rw_mutex, loc, acked>>

FlushTruncate(t) ==
    /\ phase = "up" /\ pc[t] = "flush_cleared"
    /\ wal' = <<>>
    /\ Goto(t, AfterFlush(t))
    /\ UNCHANGED <<manifest, files, startup, memtable, levels, seq, file_id, flush_requested,
                   db_rw_mutex, loc, acked>>

(***************************************************************************)
(* flush_worker: the condition variable is waited for without a timeout    *)
(* and request_flush sets the flag and notifies without flush_mutex_, so a *)
(* notification that falls between the test and the wait is lost.          *)
(***************************************************************************)
FlusherTest ==
    /\ phase = "up" /\ pc[Flusher] = "eval"
    /\ Goto(Flusher, IF flush_requested THEN "flush" ELSE "parking")
    /\ flush_requested' = FALSE
    /\ UNCHANGED <<disk, startup, memtable, levels, seq, file_id, db_rw_mutex, loc, acked>>

FlusherPark ==
    /\ phase = "up" /\ pc[Flusher] = "parking"
    /\ Goto(Flusher, "wait")
    /\ UNCHANGED <<disk, startup, memtable, levels, seq, file_id, flush_requested, db_rw_mutex,
                   loc, acked>>

\* Variant with a bug: wait for somebody else to compact.
FlusherCheckPolls ==
    /\ phase = "up" /\ pc[Flusher] = "check"
    /\ Goto(Flusher, IF NeedsCompaction(Strategy, levels) THEN "check" ELSE "eval")
    /\ UNCHANGED <<disk, startup, memtable, levels, seq, file_id, flush_requested, db_rw_mutex,
                   loc, acked>>

FlusherCheck ==
    /\ phase = "up" /\ pc[Flusher] = "check"
    /\ Goto(Flusher, IF NeedsCompaction(Strategy, levels) THEN "compact" ELSE "eval")
    /\ UNCHANGED <<disk, startup, memtable, levels, seq, file_id, flush_requested, db_rw_mutex,
                   loc, acked>>

(***************************************************************************)
(* compact, called by a client, by the flush worker after a flush or by    *)
(* the compaction worker; nothing keeps two of them apart.                 *)
(***************************************************************************)
CompactBegin(t) ==
    /\ phase = "up"
    /\ \/ t \in Client /\ pc[t] = "idle" /\ "compact" \in Ops
       \/ t = Compactor /\ pc[t] = "idle" /\ "worker" \in Ops /\ NeedsCompaction(Strategy, levels)
       \/ t = Flusher /\ pc[t] = "compact"
    /\ Goto(t, "scan")
    /\ Keep(t, [scan |-> <<>>])
    /\ UNCHANGED <<disk, startup, memtable, levels, seq, file_id, flush_requested, db_rw_mutex, acked>>

\* Copy one level under its mutex.
CompactScan(t) ==
    /\ phase = "up" /\ pc[t] = "scan" /\ Len(loc[t].scan) < MAX_LEVEL
    /\ Keep(t, [scan |-> Append(loc[t].scan, levels[Len(loc[t].scan)])])
    /\ UNCHANGED <<disk, startup, memtable, levels, seq, file_id, flush_requested, db_rw_mutex,
                   pc, acked>>

CompactPick(t) ==
    /\ phase = "up" /\ pc[t] = "scan" /\ Len(loc[t].scan) = MAX_LEVEL
    /\ LET task == PickCompaction(Strategy, [n \in Level |-> loc[t].scan[n + 1]])
       IN  IF task = NoTask THEN Return(t)
           ELSE Goto(t, "merge") /\ Keep(t, [task |-> task])
    /\ UNCHANGED <<disk, startup, memtable, levels, seq, file_id, flush_requested, db_rw_mutex, acked>>

NamesOf(metas) == {m.file : m \in Range(metas)}

\* Merge the input files that can be opened and whose iterator is valid, and
\* read file_id_.  Without a valid iterator the task is given up.
CompactMerge(t) ==
    /\ phase = "up" /\ pc[t] = "merge"
    /\ LET task   == loc[t].task
           names  == NamesOf(task.input) \cup NamesOf(task.overlap)
           opened == {files[n] : n \in {m \in names : files[m] # NotFound}}
           live   == {f \in opened : Walk(f, UINT64_MAX) # {}}
       IN  \/ /\ live = {}
              /\ Return(t)
           \/ /\ live # {} /\ file_id < MaxFile
              /\ \E out \in MergeResults(live) :
                    Keep(t, [task |-> task, out |-> out, fid |-> file_id])
              /\ Goto(t, "merged")
    /\ UNCHANGED <<disk, startup, memtable, levels, seq, file_id, flush_requested, db_rw_mutex, acked>>

CompactWrite(t) ==
    /\ phase = "up" /\ pc[t] = "merged"
    /\ file_id' = loc[t].fid + 1
    /\ files' = [files EXCEPT ![loc[t].fid] = loc[t].out]
    /\ Goto(t, "compact_written")
    /\ Keep(t, [task |-> loc[t].task, fid |-> loc[t].fid])
    /\ UNCHANGED <<wal, manifest, startup, memtable, levels, seq, flush_requested, db_rw_mutex, acked>>

\* update_level_metadata: erase the first entry of each old file and remove
\* the file itself if there was one.  An entry stays if the entries of its file
\* up to it are more than the old ones that name it.
Kept(level, olds) ==
    {i \in DOMAIN level :
        Cardinality({j \in 1 .. i : level[j].file = level[i].file})
            > Cardinality({j \in DOMAIN olds : olds[j].file = level[i].file})}

\* Variant with a bug: the files go, their metadata stays.
UpdateLevelFilesOnly(n, olds) ==
    /\ UNCHANGED levels
    /\ files' = [f \in FileId |->
                    IF f \in NamesOf(olds) \cap NamesOf(levels[n]) THEN NotFound ELSE files[f]]

UpdateLevelMetadata(n, olds) ==
    /\ levels' = [levels EXCEPT ![n] = Select(@, Kept(@, olds))]
    /\ files' = [f \in FileId |->
                    IF f \in NamesOf(olds) \cap NamesOf(levels[n]) THEN NotFound ELSE files[f]]

\* Read the new file's metadata back, then drop the input files.
CompactDropSource(t) ==
    /\ phase = "up" /\ pc[t] = "compact_written"
    /\ files[loc[t].fid] # NotFound
    /\ UpdateLevelMetadata(loc[t].task.src, loc[t].task.input)
    /\ Goto(t, "compact_source")
    /\ Keep(t, [task |-> loc[t].task, meta |-> MetaOf(loc[t].fid, files[loc[t].fid])])
    /\ UNCHANGED <<wal, manifest, startup, memtable, seq, file_id, flush_requested, db_rw_mutex,
                   acked>>

CompactDropTarget(t) ==
    /\ phase = "up" /\ pc[t] = "compact_source"
    /\ IF loc[t].task.dst < MAX_LEVEL /\ loc[t].task.overlap # <<>>
       THEN UpdateLevelMetadata(loc[t].task.dst, loc[t].task.overlap)
       ELSE UNCHANGED <<levels, files>>
    /\ Goto(t, "compact_target")
    /\ UNCHANGED <<wal, manifest, startup, memtable, seq, file_id, flush_requested, db_rw_mutex,
                   loc, acked>>

\* Past the last level the new file is entered nowhere.
CompactInstall(t) ==
    /\ phase = "up" /\ pc[t] = "compact_target"
    /\ levels' = [n \in Level |-> IF n = loc[t].task.dst THEN Append(levels[n], loc[t].meta)
                                  ELSE levels[n]]
    /\ Goto(t, "compact_installed")
    /\ UNCHANGED <<disk, startup, memtable, seq, file_id, flush_requested, db_rw_mutex, loc, acked>>

\* The only MANIFEST record of a compaction: the ADD line of its output.
CompactPersist(t) ==
    /\ phase = "up" /\ pc[t] = "compact_installed"
    /\ manifest' = Append(manifest, [level |-> loc[t].task.dst, meta |-> loc[t].meta])
    /\ Return(t)
    /\ UNCHANGED <<wal, files, startup, memtable, levels, seq, file_id, flush_requested,
                   db_rw_mutex, acked>>

(***************************************************************************)
(* The process dies: memory is lost, the disk stays.  The destructor joins *)
(* the workers without flushing and leaves the same disk behind.           *)
(***************************************************************************)
Die ==
    /\ phase' = "down"
    /\ pos' = 0
    /\ memtable' = EmptyTable
    /\ levels' = [n \in Level |-> <<>>]
    /\ seq' = 0
    /\ file_id' = 0
    /\ flush_requested' = FALSE
    /\ db_rw_mutex' = NoThread
    /\ pc' = [t \in Thread |-> Home(t)]
    /\ loc' = [t \in Thread |-> NoLoc]
    /\ acked' = [k \in Key |->
                   IF \E t \in Client : pc[t] = "logged" /\ loc[t].key = k
                   THEN loc[CHOOSE t \in Client : pc[t] = "logged" /\ loc[t].key = k].value
                   ELSE acked[k]]
    /\ UNCHANGED <<disk, restarts>>

Crash == phase # "down" /\ "crash" \in Ops /\ Die

\* get_meta_from_file on a file that another thread has removed: file_size
\* throws, nothing catches it, the process ends.
MetaThrows(t) ==
    /\ phase = "up" /\ pc[t] \in {"flush_written", "compact_written"}
    /\ files[loc[t].fid] = NotFound
    /\ Die

Restart ==
    /\ phase = "down" /\ restarts < MaxRestart
    /\ phase' = "recover"
    /\ restarts' = restarts + 1
    /\ UNCHANGED <<disk, pos, memtable, levels, seq, file_id, flush_requested, db_rw_mutex,
                   pc, loc, acked>>

\* VersionSet::recover, one MANIFEST line; the size of a file is not in it.
RecoverLine ==
    /\ phase = "recover" /\ pos < Len(manifest)
    /\ LET line == manifest[pos + 1]
       IN  levels' = IF line.level \in Level
                     THEN [levels EXCEPT ![line.level] = Append(@, [line.meta EXCEPT !.size = 0])]
                     ELSE levels
    /\ pos' = pos + 1
    /\ UNCHANGED <<disk, phase, memtable, seq, file_id, flush_requested, db_rw_mutex, pc, loc,
                   restarts, acked>>

\* Variant with a bug: the last line is dropped when no newline ends the file.
RecoverEndEarly ==
    /\ phase = "recover" /\ pos + 1 >= Len(manifest)
    /\ phase' = "replay"
    /\ pos' = 0
    /\ UNCHANGED <<disk, memtable, levels, seq, file_id, flush_requested, db_rw_mutex, pc, loc,
                   restarts, acked>>

RecoverEnd ==
    /\ phase = "recover" /\ pos = Len(manifest)
    /\ phase' = "replay"
    /\ pos' = 0
    /\ UNCHANGED <<disk, memtable, levels, seq, file_id, flush_requested, db_rw_mutex, pc, loc,
                   restarts, acked>>

\* Variant with a bug: DEL lines are skipped.
ReplayLinePutsOnly ==
    /\ phase = "replay" /\ pos < Len(wal)
    /\ memtable' = IF wal[pos + 1].value = TOMBSTONE THEN memtable
                   ELSE MemTablePut(memtable, wal[pos + 1].key, Word(wal[pos + 1].value), seq)
    /\ seq' = seq + 1
    /\ pos' = pos + 1
    /\ UNCHANGED <<disk, phase, levels, file_id, flush_requested, db_rw_mutex, pc, loc,
                   restarts, acked>>

\* WAL::replay, one line, with a fresh sequence number.
ReplayLine ==
    /\ phase = "replay" /\ pos < Len(wal)
    /\ memtable' = MemTablePut(memtable, wal[pos + 1].key, Word(wal[pos + 1].value), seq)
    /\ seq' = seq + 1
    /\ pos' = pos + 1
    /\ UNCHANGED <<disk, phase, levels, file_id, flush_requested, db_rw_mutex, pc, loc,
                   restarts, acked>>

ReplayEnd ==
    /\ phase = "replay" /\ pos = Len(wal)
    /\ phase' = "up"
    /\ pos' = 0
    /\ UNCHANGED <<disk, memtable, levels, seq, file_id, flush_requested, db_rw_mutex, pc, loc,
                   restarts, acked>>

-----------------------------------------------------------------------------
Init ==
    /\ wal = <<>> /\ manifest = <<>>
    /\ files = [f \in FileId |-> NotFound]
    /\ phase = "up" /\ pos = 0 /\ restarts = 0
    /\ memtable = EmptyTable
    /\ levels = [n \in Level |-> <<>>]
    /\ seq = 0 /\ file_id = 0
    /\ flush_requested = FALSE
    /\ db_rw_mutex = NoThread
    /\ pc = [t \in Thread |-> Home(t)]
    /\ loc = [t \in Thread |-> NoLoc]
    /\ acked = [k \in Key |-> NotFound]

Write(t) ==
    \/ \E k \in Key, v \in Value : Put(t, k, v)
    \/ \E k \in Key : Del(t, k)
    \/ LogWrite(t)
    \/ ApplyWrite(t)

Get(t) == (\E k \in Key : GetBegin(t, k)) \/ GetLevel(t) \/ GetReturn(t)

Flush(t) == \/ FlushEmpty(t) \/ FlushCopy(t) \/ FlushWrite(t)
            \/ FlushAdd(t) \/ FlushClear(t) \/ FlushTruncate(t)

Compact(t) == \/ CompactBegin(t) \/ CompactScan(t) \/ CompactPick(t) \/ CompactMerge(t)
              \/ CompactWrite(t) \/ CompactDropSource(t) \/ CompactDropTarget(t)
              \/ CompactInstall(t) \/ CompactPersist(t)

FlushWorker == FlusherTest \/ FlusherPark \/ FlusherCheck

Recovery == \/ Restart \/ RecoverLine \/ RecoverEnd \/ ReplayLine \/ ReplayEnd

Next ==
    \/ \E t \in Client : Write(t) \/ Get(t)
    \/ \E t \in Thread : Flush(t) \/ Compact(t) \/ MetaThrows(t)
    \/ FlushWorker
    \/ Crash
    \/ Recovery

Spec == Init /\ [][Next]_vars

\* The background threads are scheduled and no lock they take is held for
\* ever; clients owe nothing.
WorkerFairness ==
    /\ WF_vars(FlushWorker) /\ WF_vars(Flush(Flusher)) /\ WF_vars(Compact(Flusher))
    /\ WF_vars(MetaThrows(Flusher))

FairSpec == Spec /\ WorkerFairness
-----------------------------------------------------------------------------
(***************************************************************************)
(* Type invariant.                                                         *)
(***************************************************************************)
MetaType == [file : FileId, min : Key, max : Key, size : Nat]
PCs == {"idle", "write", "logged", "get", "got", "eval", "parking", "wait", "check", "compact",
        "flush", "flush_copied", "flush_written", "flush_added", "flush_cleared", "scan", "merge",
        "merged", "compact_written", "compact_source", "compact_target", "compact_installed"}

\* What a thread's local data looks like where the data is used.
LocalTypeOK(t) ==
    /\ pc[t] = "write" => loc[t] \in [key : Key, value : Stored]
    /\ pc[t] = "logged" => loc[t] \in [key : Key, value : Stored, seq : Nat]
    /\ pc[t] = "flush_copied" => loc[t] \in [data : MemTable, fid : 0 .. MaxFile - 1]
    /\ pc[t] = "flush_written" => loc[t] \in [fid : 0 .. MaxFile - 1]
    /\ pc[t] = "merged" => loc[t].out \in SSTable /\ loc[t].fid \in 0 .. MaxFile - 1

\* The variables whose type does not depend on file metadata.
CoreTypeOK ==
    /\ wal \in Seq([key : Key, value : Stored])
    /\ files \in [FileId -> SSTable \cup {NotFound}]
    /\ phase \in {"down", "recover", "replay", "up"}
    /\ pos \in Nat
    /\ memtable \in MemTable
    /\ seq \in Nat
    /\ file_id \in FileId
    /\ flush_requested \in BOOLEAN
    /\ db_rw_mutex \in Client \cup {NoThread}
    /\ pc \in [Thread -> PCs]
    /\ restarts \in 0 .. MaxRestart
    /\ acked \in [Key -> Stored \cup {NotFound}]
    /\ loc = [t \in Thread |-> loc[t]]
    /\ \A t \in Thread : LocalTypeOK(t)

\* Every variable holds a value of its C++ type, and the thread-local data
\* has the shape that the place of the thread calls for.
TypeOK ==
    /\ CoreTypeOK
    /\ manifest \in Seq([level : 0 .. MAX_LEVEL, meta : MetaType])
    /\ levels \in [Level -> Seq(MetaType)]

(***************************************************************************)
(* Safety.                                                                 *)
(***************************************************************************)
\* MemTable::get returns the version that was pushed last among the visible
\* ones and takes it for the newest: for every key the versions must be in
\* strictly ascending sequence order, through concurrent writers, flushes
\* that clear the table under them, and WAL replay.
MemTableOrdered == Ordered(memtable)

\* Versions in the MemTable, in a flush that copied it, or in a file.
AllVersions ==
    (UNION {{<<k, memtable[k][i]>> : i \in DOMAIN memtable[k]} : k \in Key})
        \cup (UNION {UNION {{<<k, v>> : v \in files[f][k]} : k \in Key}
                     : f \in {g \in FileId : files[g] # NotFound}})

\* Until the first restart a sequence number names one write: two versions
\* with the same number, wherever they are, are the same version.
SeqNamesOneWrite ==
    restarts = 0 =>
        \A x, y \in AllVersions :
            x[2].seq = y[2].seq /\ x[2].seq # UINT64_MAX => x = y

\* get searches L0 from the back and stops at the first hit, so as long as a
\* single thread flushes, a file further back may not hold an older version
\* of a key than one further to the front.
L0NewestLast ==
    restarts = 0 =>
        \A i, j \in DOMAIN levels[0] : i < j =>
            \A k \in Key :
                \A v \in files[levels[0][i].file][k], w \in files[levels[0][j].file][k] :
                    v.seq < w.seq

\* Sequence numbers tell the age of versions, in L0 by position too.
NumbersTellAge == SeqNamesOneWrite /\ L0NewestLast

\* How often a file id was drawn: by threads that hold it and for the ADD lines
\* that name it.
Draws(f) ==
    Cardinality({l \in DOMAIN manifest : manifest[l].meta.file = f})
    + Cardinality({t \in Thread :
         \/ pc[t] \in {"flush_copied", "flush_written", "merged", "compact_written"} /\ loc[t].fid = f
         \/ pc[t] \in {"compact_source", "compact_target", "compact_installed"} /\ loc[t].meta.file = f})

\* A file that a level lists can be opened, however flushes and compactions
\* interleave: compaction takes a file out of its level before it removes it, and
\* adds its output after writing it.  The exceptions are a name that the
\* unsynchronised file_id_++ handed out twice, and what recovery lists after the
\* first restart: the MANIFEST has no DEL line for a compaction's inputs.
ListedFilesExist ==
    restarts = 0 =>
        \A n \in Level : \A i \in DOMAIN levels[n] :
            files[levels[n][i].file] = NotFound => Draws(levels[n][i].file) > 1

\* While the process runs, a file a level lists is in the MANIFEST, except the
\* output of a compaction that has not reached its persist_add yet.
ListedFilesPersisted ==
    phase = "up" =>
        \A n \in Level : \A i \in DOMAIN levels[n] :
            \/ \E l \in DOMAIN manifest : manifest[l].meta.file = levels[n][i].file
            \/ \E t \in Thread : /\ pc[t] = "compact_installed"
                                 /\ loc[t].meta.file = levels[n][i].file

\* What a level lists can be opened and will be found again after a restart.
ListedFilesAreSound == ListedFilesExist /\ ListedFilesPersisted

\* Recovery lists what the engine had listed: as long as nothing was compacted,
\* L0 is the list of the MANIFEST's ADD lines, whichever threads flushed and
\* wherever crashes cut a flush short.
LevelsFollowManifest ==
    phase = "up" =>
        /\ Len(levels[0]) = Len(manifest)
        /\ \A i \in DOMAIN levels[0] :
              /\ levels[0][i].file = manifest[i].meta.file
              /\ levels[0][i].min = manifest[i].meta.min
              /\ levels[0][i].max = manifest[i].meta.max

\* Until the first restart a get that began after a put of its key was
\* acknowledged does not miss the key: at every moment of a flush the versions
\* are in the MemTable or in L0, and get looks at the MemTable first.  (Runs
\* without del.)
GetFindsAcked ==
    \A t \in Client :
        restarts = 0 /\ pc[t] = "got" /\ loc[t].before # NotFound => loc[t].result # NotFound

(***************************************************************************)
(* Durability.                                                             *)
(***************************************************************************)
ListedVersions(k) ==
    UNION {files[m.meta.file][k] : m \in {l \in Range(manifest) : files[l.meta.file] # NotFound}}

\* The value of k that the files on disk determine: the last WAL line of the
\* key, or the newest version in a file that the MANIFEST lists.
DurableValue(k) ==
    LET lines == {i \in DOMAIN wal : wal[i].key = k}
        newest == CHOOSE v \in ListedVersions(k) : \A w \in ListedVersions(k) : v.seq >= w.seq
    IN  IF lines # {} THEN Word(wal[Max(lines)].value)
        ELSE IF ListedVersions(k) = {} THEN NotFound ELSE newest.value

Durable == INSTANCE DurableMap WITH
    Absent  <- NotFound,
    NoWrite <- NoThread,
    store   <- [k \in Key |-> DurableValue(k)],
    op      <- [c \in Client |->
                  CASE pc[c] = "write"  -> [key |-> loc[c].key, value |-> loc[c].value, done |-> FALSE]
                    [] pc[c] = "logged" -> [key |-> loc[c].key, value |-> loc[c].value, done |-> TRUE]
                    [] OTHER            -> NoThread]

\* The disk is a crash-safe map: writes take effect when their WAL line is
\* written, and no step of a flush, no crash and no restart changes what the
\* disk says about any key.
DiskIsDurableMap == Durable!DurableSpec

\* "Write the WAL (to ensure persistence)": once put or del has returned true
\* and no later write of the key is under way, the disk holds that write.
AckedIsDurable ==
    \A k \in Key :
        acked[k] # NotFound /\ (\A t \in Client : pc[t] = "logged" => loc[t].key # k)
            => DurableValue(k) = acked[k]

\* "If the MemTable exceeds 4 MB, trigger an asynchronous flush": a requested
\* flush is eventually taken up by the flush worker.
FlushRequestServed == flush_requested ~> ~flush_requested

\* A flush that the worker took up is carried through, with the compaction it
\* may owe afterwards, and the worker comes back to its wait or to the next
\* request, whatever the clients and the compaction worker do meanwhile.
FlushWorkerReturns == pc[Flusher] = "flush" ~> pc[Flusher] = "eval"

Quiet == phase = "up" /\ \A t \in Client : pc[t] = "idle"

\* A get between two client calls returns the last acknowledged write.
ReadYourWrites ==
    Quiet => \A k \in Key : Lookup(k) = IF acked[k] = TOMBSTONE THEN NotFound ELSE acked[k]

\* As long as no file is listed, a get between two client calls returns the
\* last acknowledged write, through any number of crashes, replays of the WAL
\* and crashes during a replay.
ReplayRestores == manifest = <<>> => ReadYourWrites
=============================================================================
