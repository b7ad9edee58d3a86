----------------------------- MODULE KVDBProofs -----------------------------
(***************************************************************************)
(* The storage engine for any number of clients, keys and values, through  *)
(* flushes, compactions, crashes and restarts: the order of the versions   *)
(* in its MemTable and its files, replay, durability, and at the end the   *)
(* types of what is computed, file metadata and the strategies' picks.     *)
(***************************************************************************)
EXTENDS KVDB, DataProofs

(***************************************************************************)
(* The data operators.                                                     *)
(***************************************************************************)
\* An entry of a sequence is of the sequence's type.
LEMMA ElementType ==
  ASSUME NEW S, NEW s \in Seq(S), NEW i \in 1 .. Len(s)
  PROVE  s[i] \in S
  OBVIOUS

\* A value that was written as text is read back as a value.
LEMMA WordType == \A v \in Stored : Word(v) \in Stored
  BY ValueAssumption DEF Word, Stored

\* MemTable::put keeps the shape of the table.
LEMMA MemTablePutType ==
  ASSUME NEW m \in MemTable, NEW k \in Key, NEW v \in Stored, NEW s \in Nat
  PROVE  MemTablePut(m, k, v, s) \in MemTable
<1> DEFINE new == [seq |-> s, value |-> v]
<1>1. new \in Version
  BY DEF Version
<1> HIDE DEF new
<1>2. Append(m[k], new) \in Seq(Version)
  BY <1>1 DEF MemTable
<1> QED
  BY <1>2 DEF MemTablePut, MemTable, new

\* Cleared, the table has its shape and every order.
LEMMA EmptyTableType == EmptyTable \in MemTable
  BY DEF EmptyTable, MemTable

\* What a flush writes is a file.
LEMMA SSTableWriteType ==
  ASSUME NEW m \in MemTable
  PROVE  SSTableWrite(m) \in SSTable
<1>1. \A k \in Key : \A v \in Range(m[k]) : v \in Version
  BY DEF Range, MemTable
<1>2. \A k \in Key : \A v \in Range(m[k]) : [seq |-> v.seq, value |-> Word(v.value)] \in Version
  BY <1>1, WordType DEF Version
<1> QED
  BY <1>2 DEF SSTableWrite, SSTable

\* What a compaction writes is a file.
LEMMA MergeResultsType ==
  ASSUME NEW fs, NEW out \in MergeResults(fs)
  PROVE  out \in SSTable
<1> DEFINE keys == UNION {Walk(f, UINT64_MAX) : f \in fs}
<1>1. PICK p \in [keys -> Value] :
         out = [k \in Key |-> IF k \in keys THEN {[seq |-> UINT64_MAX, value |-> p[k]]} ELSE {}]
  BY DEF MergeResults
<1>2. \A k \in Key : k \in keys => [seq |-> UINT64_MAX, value |-> p[k]] \in Version
  BY SeqAssumption DEF Version, Stored
<1> HIDE DEF keys
<1> QED
  BY <1>1, <1>2 DEF SSTable

(***************************************************************************)
(* Type correctness.                                                       *)
(***************************************************************************)
\* What a thread does outside writes and outside the steps that fill a file:
\* it moves itself to a place that asks nothing of its local data.
LEMMA MoveType ==
  ASSUME CoreTypeOK, NEW t \in Thread, NEW l \in PCs, NEW r,
         l \notin {"write", "logged", "flush_copied", "flush_written", "merged"},
         pc' = [pc EXCEPT ![t] = l],
         loc' = loc \/ loc' = [loc EXCEPT ![t] = r]
  PROVE  /\ pc' \in [Thread -> PCs]
         /\ loc' = [u \in Thread |-> loc'[u]]
         /\ \A u \in Thread : LocalTypeOK(u)'
<1>1. \A u \in Thread : u # t => pc'[u] = pc[u] /\ loc'[u] = loc[u]
  BY DEF CoreTypeOK
<1>2. pc'[t] = l
  BY DEF CoreTypeOK
<1>3. \A u \in Thread : LocalTypeOK(u)'
  BY <1>1, <1>2 DEF CoreTypeOK, LocalTypeOK
<1>4. loc' = [u \in Thread |-> loc'[u]]
  BY DEF CoreTypeOK
<1> QED
  BY <1>3, <1>4 DEF CoreTypeOK

\* One step of the engine, action by action.
LEMMA TypeStep == CoreTypeOK /\ [Next]_vars => CoreTypeOK'
<1> SUFFICES ASSUME CoreTypeOK, [Next]_vars
             PROVE  CoreTypeOK'
  OBVIOUS
<1> USE KVDBAssumption DEF disk, startup
<1>1. ASSUME NEW t \in Client, NEW k \in Key, NEW v \in Stored, BeginWrite(t, k, v)
      PROVE  CoreTypeOK'
  BY <1>1 DEF BeginWrite, Goto, Keep, CoreTypeOK, LocalTypeOK, Thread, PCs
<1>2. ASSUME NEW t \in Client, LogWrite(t)
      PROVE  CoreTypeOK'
  <2>1. loc[t] \in [key : Key, value : Stored] /\ t \in Thread
    BY <1>2 DEF LogWrite, CoreTypeOK, LocalTypeOK, Thread
  <2>2. wal' \in Seq([key : Key, value : Stored]) /\ seq' \in Nat
    BY <1>2, <2>1 DEF LogWrite, CoreTypeOK
  <2>3. [key |-> loc[t].key, value |-> loc[t].value, seq |-> seq]
           \in [key : Key, value : Stored, seq : Nat]
    BY <2>1 DEF CoreTypeOK
  <2>4. /\ pc' \in [Thread -> PCs]
        /\ loc' = [u \in Thread |-> loc'[u]]
        /\ \A u \in Thread : LocalTypeOK(u)'
    BY <1>2, <2>1, <2>3 DEF LogWrite, Goto, Keep, CoreTypeOK, LocalTypeOK, PCs
  <2> QED
    BY <1>2, <2>2, <2>4 DEF LogWrite, CoreTypeOK
<1>3. ASSUME NEW t \in Client, ApplyWrite(t)
      PROVE  CoreTypeOK'
  <2>1. loc[t] \in [key : Key, value : Stored, seq : Nat] /\ t \in Thread /\ Flusher \in Thread
    BY <1>3 DEF ApplyWrite, CoreTypeOK, LocalTypeOK, Thread
  <2>2. memtable' \in MemTable
    BY <1>3, <2>1, MemTablePutType DEF ApplyWrite, CoreTypeOK
  <2>3. /\ acked' \in [Key -> Stored \cup {NotFound}]
        /\ db_rw_mutex' \in Client \cup {NoThread}
    BY <1>3, <2>1 DEF ApplyWrite, CoreTypeOK
  <2>4. flush_requested' \in BOOLEAN
    BY <1>3, Zenon DEF ApplyWrite, CoreTypeOK
  <2>5. \/ pc' = [pc EXCEPT ![t] = "idle"]
        \/ pc' = [[pc EXCEPT ![t] = "idle"] EXCEPT ![Flusher] = IF @ = "wait" THEN "eval" ELSE @]
    BY <1>3 DEF ApplyWrite, Notified
  <2>6. /\ pc' \in [Thread -> PCs]
        /\ loc' = [u \in Thread |-> loc'[u]]
        /\ \A u \in Thread : LocalTypeOK(u)'
    <3>1. pc' \in [Thread -> PCs]
      BY <2>1, <2>5, SMTT(60) DEF CoreTypeOK, PCs
    <3>2. \A u \in Thread : pc'[u] = pc[u] \/ pc'[u] \in {"idle", "eval"}
      BY <2>1, <2>5 DEF CoreTypeOK
    <3>3. pc'[t] = "idle"
      BY <2>1, <2>5 DEF CoreTypeOK
    <3>4. loc' = [u \in Thread |-> loc'[u]] /\ \A u \in Thread : u # t => loc'[u] = loc[u]
      BY <1>3 DEF ApplyWrite, Keep, CoreTypeOK
    <3>5. \A u \in Thread : LocalTypeOK(u)'
      BY <3>2, <3>3, <3>4 DEF CoreTypeOK, LocalTypeOK
    <3> QED
      BY <3>1, <3>4, <3>5
  <2> QED
    BY <1>3, <2>2, <2>3, <2>4, <2>6 DEF ApplyWrite, CoreTypeOK
<1>4. ASSUME NEW t \in Client, Get(t)
      PROVE  CoreTypeOK'
  <2>1. PICK l, r : /\ l \in {"get", "got", "idle"}
                    /\ pc' = [pc EXCEPT ![t] = l] /\ loc' = [loc EXCEPT ![t] = r]
    BY <1>4 DEF Get, GetBegin, GetLevel, GetReturn, Return, Home, Goto, Keep
  <2>2. /\ pc' \in [Thread -> PCs]
        /\ loc' = [u \in Thread |-> loc'[u]]
        /\ \A u \in Thread : LocalTypeOK(u)'
    BY <2>1, MoveType DEF Thread, PCs
  <2> QED
    BY <1>4, <2>2 DEF Get, GetBegin, GetLevel, GetReturn, CoreTypeOK
<1>5. ASSUME NEW t \in Thread, FlushEmpty(t)
      PROVE  CoreTypeOK'
  BY <1>5 DEF FlushEmpty, AfterFlush, Goto, CoreTypeOK, LocalTypeOK, PCs
<1>6. ASSUME NEW t \in Thread, FlushCopy(t)
      PROVE  CoreTypeOK'
  <2>1. [data |-> memtable, fid |-> file_id] \in [data : MemTable, fid : 0 .. MaxFile - 1]
    BY <1>6 DEF FlushCopy, FileId, CoreTypeOK
  <2> QED
    BY <1>6, <2>1 DEF FlushCopy, Goto, Keep, CoreTypeOK, LocalTypeOK, PCs
<1>7. ASSUME NEW t \in Thread, FlushWrite(t)
      PROVE  CoreTypeOK'
  BY <1>7, SSTableWriteType, SMTT(60) DEF FlushWrite, Goto, Keep, FileId, CoreTypeOK, LocalTypeOK, PCs
<1>8. ASSUME NEW t \in Thread, FlushAdd(t)
      PROVE  CoreTypeOK'
  BY <1>8 DEF FlushAdd, Goto, Keep, CoreTypeOK, LocalTypeOK, PCs
<1>9. ASSUME NEW t \in Thread, FlushClear(t)
      PROVE  CoreTypeOK'
  BY <1>9, EmptyTableType DEF FlushClear, Goto, CoreTypeOK, LocalTypeOK, PCs
<1>10. ASSUME NEW t \in Thread, FlushTruncate(t)
      PROVE  CoreTypeOK'
  BY <1>10 DEF FlushTruncate, AfterFlush, Goto, CoreTypeOK, LocalTypeOK, PCs
<1>11. ASSUME FlushWorker
      PROVE  CoreTypeOK'
  <2>1. CASE FlusherTest
    BY <2>1 DEF FlusherTest, Goto, Thread, CoreTypeOK, LocalTypeOK, PCs
  <2>2. CASE FlusherPark
    BY <2>2 DEF FlusherPark, Goto, Thread, CoreTypeOK, LocalTypeOK, PCs
  <2>3. CASE FlusherCheck
    BY <2>3 DEF FlusherCheck, Goto, Thread, CoreTypeOK, LocalTypeOK, PCs
  <2> QED
    BY <1>11, <2>1, <2>2, <2>3 DEF FlushWorker
<1>12. ASSUME NEW t \in Thread, CompactBegin(t) \/ CompactScan(t)
      PROVE  CoreTypeOK'
  BY <1>12 DEF CompactBegin, CompactScan, Goto, Keep, CoreTypeOK, LocalTypeOK, PCs
<1>13. ASSUME NEW t \in Thread, CompactPick(t)
      PROVE  CoreTypeOK'
  <2>1. CASE Return(t)
    <3>1. /\ Home(t) \in {"eval", "idle"}
          /\ pc' = [pc EXCEPT ![t] = Home(t)] /\ loc' = [loc EXCEPT ![t] = NoLoc]
      BY <2>1 DEF Return, Home, Goto, Keep
    <3>2. /\ pc' \in [Thread -> PCs]
          /\ loc' = [u \in Thread |-> loc'[u]]
          /\ \A u \in Thread : LocalTypeOK(u)'
      BY <3>1, MoveType DEF PCs
    <3> QED
      BY <1>13, <3>2 DEF CompactPick, CoreTypeOK
  <2>2. ASSUME NEW task, Goto(t, "merge"), Keep(t, [task |-> task])
        PROVE  CoreTypeOK'
    <3>1. /\ pc' \in [Thread -> PCs]
          /\ loc' = [u \in Thread |-> loc'[u]]
          /\ \A u \in Thread : LocalTypeOK(u)'
      BY <2>2, MoveType DEF Goto, Keep, PCs
    <3> QED
      BY <1>13, <3>1 DEF CompactPick, CoreTypeOK
  <2> QED
    BY <1>13, <2>1, <2>2 DEF CompactPick
<1>14. ASSUME NEW t \in Thread, CompactMerge(t)
      PROVE  CoreTypeOK'
  <2>1. CASE Return(t)
    <3>1. /\ Home(t) \in {"eval", "idle"}
          /\ pc' = [pc EXCEPT ![t] = Home(t)] /\ loc' = [loc EXCEPT ![t] = NoLoc]
      BY <2>1 DEF Return, Home, Goto, Keep
    <3>2. /\ pc' \in [Thread -> PCs]
          /\ loc' = [u \in Thread |-> loc'[u]]
          /\ \A u \in Thread : LocalTypeOK(u)'
      BY <3>1, MoveType DEF PCs
    <3> QED
      BY <1>14, <3>2 DEF CompactMerge, CoreTypeOK
  <2>2. CASE /\ file_id < MaxFile
             /\ \E fs : \E out \in MergeResults(fs) :
                   Keep(t, [task |-> loc[t].task, out |-> out, fid |-> file_id])
             /\ Goto(t, "merged")
    <3>1. PICK fs : \E o \in MergeResults(fs) :
             Keep(t, [task |-> loc[t].task, out |-> o, fid |-> file_id])
      BY <2>2
    <3>2. PICK out \in MergeResults(fs) :
             Keep(t, [task |-> loc[t].task, out |-> out, fid |-> file_id])
      BY <3>1
    <3>3. out \in SSTable /\ file_id \in 0 .. MaxFile - 1
      BY <2>2, MergeResultsType DEF CoreTypeOK, FileId
    <3> QED
      BY <1>14, <2>2, <3>2, <3>3 DEF CompactMerge, Goto, Keep, CoreTypeOK, LocalTypeOK, PCs
  <2> QED
    BY <1>14, <2>1, <2>2 DEF CompactMerge
<1>15. ASSUME NEW t \in Thread, CompactWrite(t)
      PROVE  CoreTypeOK'
  <2>1. loc[t].out \in SSTable /\ loc[t].fid \in 0 .. MaxFile - 1
    BY <1>15 DEF CompactWrite, CoreTypeOK, LocalTypeOK
  <2>2. file_id' \in FileId /\ files' \in [FileId -> SSTable \cup {NotFound}]
    BY <1>15, <2>1 DEF CompactWrite, FileId, CoreTypeOK
  <2>3. /\ pc' \in [Thread -> PCs]
        /\ loc' = [u \in Thread |-> loc'[u]]
        /\ \A u \in Thread : LocalTypeOK(u)'
    <3>1. pc' = [pc EXCEPT ![t] = "compact_written"]
      BY <1>15 DEF CompactWrite, Goto
    <3>2. PICK r : loc' = [loc EXCEPT ![t] = r]
      BY <1>15 DEF CompactWrite, Keep
    <3> QED
      BY <3>1, <3>2, MoveType DEF PCs
  <2> QED
    BY <1>15, <2>2, <2>3 DEF CompactWrite, CoreTypeOK
<1>16. ASSUME NEW t \in Thread, CompactDropSource(t)
      PROVE  CoreTypeOK'
  BY <1>16 DEF CompactDropSource, UpdateLevelMetadata, Goto, Keep, CoreTypeOK, LocalTypeOK, PCs
<1>17. ASSUME NEW t \in Thread, CompactDropTarget(t)
      PROVE  CoreTypeOK'
  BY <1>17 DEF CompactDropTarget, UpdateLevelMetadata, Goto, CoreTypeOK, LocalTypeOK, PCs
<1>18. ASSUME NEW t \in Thread, CompactInstall(t) \/ CompactPersist(t)
      PROVE  CoreTypeOK'
  BY <1>18, SMTT(60) DEF CompactInstall, CompactPersist, Return, Home, Goto, Keep, CoreTypeOK, LocalTypeOK, PCs
<1>19. ASSUME Die
      PROVE  CoreTypeOK'
  <2>1. \A u \in Client : pc[u] = "logged" => loc[u].value \in Stored
    BY DEF CoreTypeOK, LocalTypeOK, Thread
  <2>2. ASSUME NEW k \in Key, \E u \in Client : pc[u] = "logged" /\ loc[u].key = k
        PROVE  loc[CHOOSE u \in Client : pc[u] = "logged" /\ loc[u].key = k].value \in Stored
    BY <2>1, <2>2
  <2>3. acked' \in [Key -> Stored \cup {NotFound}]
    BY <1>19, <2>2 DEF Die, CoreTypeOK
  <2>4. file_id' \in FileId /\ seq' \in Nat /\ pos' \in Nat
    BY <1>19 DEF Die, FileId
  <2>5. /\ pc' \in [Thread -> PCs]
        /\ loc' = [u \in Thread |-> loc'[u]]
        /\ \A u \in Thread : LocalTypeOK(u)'
    BY <1>19 DEF Die, Home, LocalTypeOK, PCs
  <2> QED
    BY <1>19, <2>3, <2>4, <2>5, EmptyTableType DEF Die, CoreTypeOK
<1>20. ASSUME Restart \/ RecoverLine \/ RecoverEnd \/ ReplayEnd
      PROVE  CoreTypeOK'
  BY <1>20, SMTT(60) DEF Restart, RecoverLine, RecoverEnd, ReplayEnd, CoreTypeOK, LocalTypeOK
<1>21. ASSUME ReplayLine
      PROVE  CoreTypeOK'
  <2> DEFINE Line == [key : Key, value : Stored]
  <2>1. wal \in Seq(Line) /\ pos + 1 \in 1 .. Len(wal)
    BY <1>21 DEF ReplayLine, CoreTypeOK
  <2> HIDE DEF Line
  <2>2. wal[pos + 1] \in Line
    BY <2>1, ElementType
  <2>3. wal[pos + 1].key \in Key /\ wal[pos + 1].value \in Stored
    BY <2>2 DEF Line
  <2>4. memtable' \in MemTable
    BY <1>21, <2>3, MemTablePutType, WordType DEF ReplayLine, CoreTypeOK
  <2> QED
    BY <1>21, <2>4 DEF ReplayLine, CoreTypeOK, LocalTypeOK
<1>22. CASE UNCHANGED vars
  BY <1>22 DEF vars, CoreTypeOK, LocalTypeOK
<1> QED
  BY <1>1, <1>2, <1>3, <1>4, <1>5, <1>6, <1>7, <1>8, <1>9, <1>10, <1>11, <1>12, <1>13, <1>14,
     <1>15, <1>16, <1>17, <1>18, <1>19, <1>20, <1>21, <1>22
     DEF Next, Write, Put, Del, Flush, Compact, MetaThrows, Crash, Recovery, Stored

\* Type correctness: in every reachable state the WAL, the files, the MemTable,
\* the counters and the threads' local data have their types, whatever the
\* clients, the workers, crashes and recovery do.
THEOREM TypeCorrect == Spec => []CoreTypeOK
<1>1. Init => CoreTypeOK
  <2> SUFFICES ASSUME Init PROVE CoreTypeOK
    OBVIOUS
  <2>1. /\ pc \in [Thread -> PCs]
        /\ loc = [t \in Thread |-> loc[t]]
        /\ \A t \in Thread : LocalTypeOK(t)
    BY DEF Init, Home, LocalTypeOK, PCs
  <2>2. file_id \in FileId /\ restarts \in 0 .. MaxRestart
    BY KVDBAssumption DEF Init, FileId
  <2> QED
    BY <2>1, <2>2, EmptyTableType DEF Init, CoreTypeOK
<1> QED
  BY <1>1, TypeStep, PTL DEF Spec

(***************************************************************************)
(* The order of the MemTable.                                              *)
(***************************************************************************)
\* All versions in the table were numbered before s.
Below(m, s) == \A k \in Key : \A i \in DOMAIN m[k] : m[k][i].seq < s

\* A write in progress holds db_rw_mutex_.
WriterHoldsLock ==
    \A t \in Thread : pc[t] \in {"write", "logged"} => db_rw_mutex = t

\* No thread is inside an operation before the engine is up.
QuietWhileStarting == phase # "up" => \A t \in Thread : pc[t] = Home(t)

\* The number that a logged write carries is used up and above all others.
LoggedIsNext ==
    \A t \in Thread : pc[t] = "logged" => loc[t].seq < seq /\ Below(memtable, loc[t].seq)

OrderInv ==
    /\ WriterHoldsLock
    /\ QuietWhileStarting
    /\ Below(memtable, seq)
    /\ LoggedIsNext
    /\ MemTableOrdered

\* MemTable::put with a number above all others keeps the order.
LEMMA PutKeepsOrder ==
  ASSUME NEW m \in MemTable, NEW k \in Key, NEW v \in Stored, NEW s \in Nat,
         Ordered(m), Below(m, s), NEW n \in Nat, s < n
  PROVE  Ordered(MemTablePut(m, k, v, s)) /\ Below(MemTablePut(m, k, v, s), n)
<1> DEFINE new == [seq |-> s, value |-> v]
           p   == MemTablePut(m, k, v, s)
<1>1. \A j \in Key : j # k => p[j] = m[j]
  BY DEF MemTablePut, MemTable
<1>2. p[k] = Append(m[k], new)
  BY DEF MemTablePut, MemTable
<1>3. \A j \in Key : m[j] \in Seq(Version)
  BY DEF MemTable
<1>4. \A j \in Key : \A i \in DOMAIN m[j] : m[j][i].seq \in Nat
  <2> SUFFICES ASSUME NEW j \in Key, NEW i \in DOMAIN m[j] PROVE m[j][i].seq \in Nat
    OBVIOUS
  <2>1. m[j][i] \in Version
    BY <1>3
  <2> QED
    BY <2>1 DEF Version
<1>5. /\ DOMAIN p[k] = 1 .. Len(m[k]) + 1 /\ DOMAIN m[k] = 1 .. Len(m[k]) /\ Len(m[k]) \in Nat
      /\ \A i \in 1 .. Len(m[k]) : p[k][i] = m[k][i]
      /\ p[k][Len(m[k]) + 1] = new
  BY <1>2, <1>3
<1>6. new.seq = s
  OBVIOUS
<1> HIDE DEF new, p
<1>7. \A i, j \in DOMAIN p[k] : i < j => p[k][i].seq < p[k][j].seq
  BY <1>5, <1>6 DEF Ordered, Below
<1>8. \A i \in DOMAIN p[k] : p[k][i].seq < n
  BY <1>4, <1>5, <1>6, SMTT(60) DEF Below
<1>9. \A j \in Key : j # k => \A i \in DOMAIN m[j] : m[j][i].seq < n
  BY <1>4 DEF Below
<1> QED
  BY <1>1, <1>7, <1>8, <1>9 DEF Ordered, Below, p

\* Thread t moves between places outside a write and leaves the MemTable, the
\* counter, the mutex and the phase alone.
Moves(t) ==
    /\ phase = "up" /\ pc[t] \notin {"write", "logged"}
    /\ \E l : l \notin {"write", "logged"} /\ pc' = [pc EXCEPT ![t] = l]
    /\ loc' = loc \/ \E r : loc' = [loc EXCEPT ![t] = r]
    /\ UNCHANGED <<memtable, seq, db_rw_mutex, phase>>

\* Such a move keeps the writer's lock, the order and the bound.
LEMMA MovesStep ==
  ASSUME CoreTypeOK, OrderInv, NEW t \in Thread, Moves(t)
  PROVE  OrderInv'
<1>1. \A u \in Thread : u # t => loc'[u] = loc[u]
  BY DEF Moves, CoreTypeOK
<1>2. \A u \in Thread : pc'[u] \in {"write", "logged"} => u # t /\ pc'[u] = pc[u]
  BY DEF Moves, CoreTypeOK
<1> QED
  BY <1>1, <1>2 DEF Moves, OrderInv, WriterHoldsLock, QuietWhileStarting, LoggedIsNext,
                    MemTableOrdered

\* Every step that keeps the order of the MemTable.
LEMMA OrderStep == CoreTypeOK /\ CoreTypeOK' /\ OrderInv /\ [Next]_vars => OrderInv'
<1> SUFFICES ASSUME CoreTypeOK, CoreTypeOK', OrderInv, [Next]_vars
             PROVE  OrderInv'
  OBVIOUS
<1> USE KVDBAssumption DEF disk, startup
<1>1. ASSUME NEW t \in Client, NEW k \in Key, NEW v \in Stored, BeginWrite(t, k, v)
      PROVE  OrderInv'
  <2>1. \A u \in Thread : pc[u] \notin {"write", "logged"}
    BY <1>1 DEF BeginWrite, OrderInv, WriterHoldsLock, Thread
  <2>2. pc' = [pc EXCEPT ![t] = "write"] /\ t \in Thread
    BY <1>1 DEF BeginWrite, Goto, Thread
  <2>3. \A u \in Thread : pc'[u] \in {"write", "logged"} => u = t /\ pc'[u] = "write"
    BY <2>1, <2>2 DEF CoreTypeOK
  <2> QED
    BY <1>1, <2>3 DEF BeginWrite, OrderInv, WriterHoldsLock, QuietWhileStarting, LoggedIsNext,
                      MemTableOrdered
<1>2. ASSUME NEW t \in Client, LogWrite(t)
      PROVE  OrderInv'
  <2>1. t \in Thread /\ pc[t] = "write" /\ seq \in Nat
    BY <1>2 DEF LogWrite, Thread, CoreTypeOK
  <2>2. \A u \in Thread : pc[u] \in {"write", "logged"} => u = t
    BY <2>1 DEF OrderInv, WriterHoldsLock
  <2>3. pc' = [pc EXCEPT ![t] = "logged"] /\ loc'[t].seq = seq
    BY <1>2, <2>1 DEF LogWrite, Goto, Keep, CoreTypeOK
  <2>4. \A u \in Thread : pc'[u] \in {"write", "logged"} => u = t
    BY <2>1, <2>2, <2>3 DEF CoreTypeOK
  <2>5. Below(memtable, seq + 1)
    <3> SUFFICES ASSUME NEW k \in Key, NEW i \in DOMAIN memtable[k]
                 PROVE  memtable[k][i].seq < seq + 1
      BY DEF Below
    <3>1. memtable[k] \in Seq(Version) /\ memtable[k][i].seq < seq
      BY DEF CoreTypeOK, MemTable, OrderInv, Below
    <3>2. memtable[k][i] \in Version
      BY <3>1
    <3>3. memtable[k][i].seq \in Nat
      BY <3>2 DEF Version
    <3> QED
      BY <2>1, <3>1, <3>3
  <2>6. WriterHoldsLock'
    BY <1>2, <2>1, <2>4 DEF LogWrite, OrderInv, WriterHoldsLock
  <2>7. LoggedIsNext'
    BY <1>2, <2>1, <2>3, <2>4 DEF LogWrite, OrderInv, LoggedIsNext
  <2> QED
    BY <1>2, <2>5, <2>6, <2>7 DEF LogWrite, OrderInv, QuietWhileStarting, MemTableOrdered
<1>3. ASSUME NEW t \in Client, ApplyWrite(t)
      PROVE  OrderInv'
  <2>1. t \in Thread /\ pc[t] = "logged" /\ Flusher \in Thread /\ t # Flusher
    BY <1>3 DEF ApplyWrite, Thread
  <2>2. loc[t] \in [key : Key, value : Stored, seq : Nat]
    BY <2>1 DEF CoreTypeOK, LocalTypeOK
  <2>3. \A u \in Thread : pc[u] \in {"write", "logged"} => u = t
    BY <2>1 DEF OrderInv, WriterHoldsLock
  <2>4. \/ pc' = [pc EXCEPT ![t] = "idle"]
        \/ pc' = [[pc EXCEPT ![t] = "idle"] EXCEPT ![Flusher] = IF @ = "wait" THEN "eval" ELSE @]
    BY <1>3 DEF ApplyWrite, Notified
  <2>5. \A u \in Thread : pc'[u] \notin {"write", "logged"}
    BY <2>1, <2>3, <2>4 DEF CoreTypeOK
  <2>6. memtable' = MemTablePut(memtable, loc[t].key, loc[t].value, loc[t].seq) /\ seq' = seq
    BY <1>3 DEF ApplyWrite
  <2>7. Ordered(memtable') /\ Below(memtable', seq')
    BY <2>1, <2>2, <2>6, PutKeepsOrder DEF CoreTypeOK, OrderInv, LoggedIsNext, MemTableOrdered
  <2> QED
    BY <1>3, <2>5, <2>7 DEF ApplyWrite, OrderInv, WriterHoldsLock, QuietWhileStarting, LoggedIsNext,
                            MemTableOrdered
<1>4. ASSUME NEW t \in Client, Get(t)
      PROVE  OrderInv'
  <2>1. Moves(t)
    BY <1>4 DEF Get, GetBegin, GetLevel, GetReturn, Return, Home, Goto, Keep, Moves
  <2> QED
    BY <2>1, MovesStep DEF Thread
<1>5. ASSUME NEW t \in Thread, FlushEmpty(t) \/ FlushCopy(t)
      PROVE  OrderInv'
  <2>1. Moves(t)
    BY <1>5 DEF FlushEmpty, FlushCopy, FlushCaller, AfterFlush, Goto, Keep, Moves
  <2> QED
    BY <2>1, MovesStep
<1>6. ASSUME NEW t \in Thread, FlushWrite(t) \/ FlushAdd(t) \/ FlushTruncate(t)
      PROVE  OrderInv'
  <2>1. Moves(t)
    BY <1>6 DEF FlushWrite, FlushAdd, FlushTruncate, AfterFlush, Goto, Keep, Moves
  <2> QED
    BY <2>1, MovesStep
<1>7. ASSUME NEW t \in Thread, FlushClear(t)
      PROVE  OrderInv'
  <2>1. \A u \in Thread : pc'[u] \in {"write", "logged"} => pc'[u] = pc[u]
    BY <1>7 DEF FlushClear, Goto, CoreTypeOK
  <2>2. Ordered(EmptyTable) /\ \A n : Below(EmptyTable, n)
    BY DEF Ordered, Below, EmptyTable
  <2> QED
    BY <1>7, <2>1, <2>2 DEF FlushClear, OrderInv, WriterHoldsLock, QuietWhileStarting, LoggedIsNext,
                            MemTableOrdered
<1>8. ASSUME FlushWorker
      PROVE  OrderInv'
  <2>1. Moves(Flusher)
    BY <1>8 DEF FlushWorker, FlusherTest, FlusherPark, FlusherCheck, Goto, Moves
  <2> QED
    BY <2>1, MovesStep DEF Thread
<1>9. ASSUME NEW t \in Thread, CompactBegin(t) \/ CompactPick(t) \/ CompactMerge(t) \/ CompactWrite(t)
      PROVE  OrderInv'
  <2>1. Moves(t)
    BY <1>9 DEF CompactBegin, CompactPick, CompactMerge, CompactWrite, Return, Home, Goto, Keep, Moves
  <2> QED
    BY <2>1, MovesStep
<1>10. ASSUME NEW t \in Thread, CompactScan(t)
       PROVE  OrderInv'
  <2>1. \A u \in Thread : u # t => loc'[u] = loc[u]
    BY <1>10 DEF CompactScan, Keep, CoreTypeOK
  <2> QED
    BY <1>10, <2>1 DEF CompactScan, OrderInv, WriterHoldsLock, QuietWhileStarting, LoggedIsNext,
                       MemTableOrdered
<1>11. ASSUME NEW t \in Thread,
              \/ CompactDropSource(t) \/ CompactDropTarget(t)
              \/ CompactInstall(t) \/ CompactPersist(t)
       PROVE  OrderInv'
  <2>1. Moves(t)
    BY <1>11 DEF CompactDropSource, CompactDropTarget, CompactInstall, CompactPersist, Return, Home,
                 Goto, Keep, Moves
  <2> QED
    BY <2>1, MovesStep
<1>12. ASSUME Die
       PROVE  OrderInv'
  <2>1. Ordered(EmptyTable) /\ \A n : Below(EmptyTable, n)
    BY DEF Ordered, Below, EmptyTable
  <2>2. \A u \in Thread : pc'[u] = Home(u) /\ Home(u) \notin {"write", "logged"}
    BY <1>12 DEF Die, Home
  <2> QED
    BY <1>12, <2>1, <2>2 DEF Die, Home, OrderInv, WriterHoldsLock, QuietWhileStarting, LoggedIsNext,
                             MemTableOrdered
<1>13. ASSUME Restart \/ RecoverLine \/ RecoverEnd \/ ReplayEnd
       PROVE  OrderInv'
  BY <1>13 DEF Restart, RecoverLine, RecoverEnd, ReplayEnd, Home, OrderInv, WriterHoldsLock,
               QuietWhileStarting, LoggedIsNext, MemTableOrdered
<1>14. ASSUME ReplayLine
       PROVE  OrderInv'
  <2> DEFINE Line == [key : Key, value : Stored]
  <2>1. wal \in Seq(Line) /\ pos + 1 \in 1 .. Len(wal)
    BY <1>14 DEF ReplayLine, CoreTypeOK
  <2> HIDE DEF Line
  <2>2. wal[pos + 1] \in Line
    BY <2>1, ElementType
  <2>3. wal[pos + 1].key \in Key /\ Word(wal[pos + 1].value) \in Stored
    BY <2>2, WordType DEF Line
  <2>4. Ordered(memtable') /\ Below(memtable', seq')
    BY <1>14, <2>3, PutKeepsOrder DEF ReplayLine, CoreTypeOK, OrderInv, MemTableOrdered
  <2>5. \A u \in Thread : pc'[u] = Home(u) /\ Home(u) \notin {"write", "logged"}
    BY <1>14 DEF ReplayLine, Home, OrderInv, QuietWhileStarting
  <2> QED
    BY <1>14, <2>4, <2>5 DEF ReplayLine, Home, OrderInv, WriterHoldsLock, QuietWhileStarting,
                             LoggedIsNext, MemTableOrdered
<1>15. CASE UNCHANGED vars
  BY <1>15 DEF vars, OrderInv, WriterHoldsLock, QuietWhileStarting, LoggedIsNext, MemTableOrdered
<1> QED
  BY <1>1, <1>2, <1>3, <1>4, <1>5, <1>6, <1>7, <1>8, <1>9, <1>10, <1>11, <1>12, <1>13, <1>14, <1>15
     DEF Next, Write, Put, Del, Flush, Compact, MetaThrows, Crash, Recovery, Stored

\* OrderInv holds in every state.
LEMMA OrderHolds == Spec => []OrderInv
<1>1. Init => OrderInv
  <2> SUFFICES ASSUME Init PROVE OrderInv
    OBVIOUS
  <2>1. Ordered(EmptyTable) /\ Below(EmptyTable, 0)
    BY DEF Ordered, Below, EmptyTable
  <2>2. \A t \in Thread : pc[t] = Home(t) /\ Home(t) \notin {"write", "logged"}
    BY DEF Init, Home
  <2> QED
    BY <2>1, <2>2 DEF Init, OrderInv, WriterHoldsLock, QuietWhileStarting, LoggedIsNext,
                      MemTableOrdered
<1> QED
  BY <1>1, TypeCorrect, OrderStep, PTL DEF Spec

\* The versions of every key lie in the MemTable in ascending order of their
\* sequence numbers, so that the last visible one MemTable::get returns is the
\* newest: for any number of writers, with flushes clearing the table under
\* them, and after any crash and WAL replay.
THEOREM MemTableAlwaysOrdered == Spec => []MemTableOrdered
<1>1. OrderInv => MemTableOrdered
  BY DEF OrderInv
<1> QED
  BY <1>1, OrderHolds, PTL
(***************************************************************************)
(* What the steps of a thread leave alone.                                 *)
(***************************************************************************)
\* A get moves its thread among its places and changes nothing else.
LEMMA GetFrame ==
  ASSUME NEW t \in Client, Get(t)
  PROVE  /\ phase = "up" /\ pc[t] \in {"idle", "get", "got"} /\ t \in Thread
         /\ UNCHANGED <<wal, manifest, files, phase, pos, restarts, memtable, levels, seq, file_id,
                        db_rw_mutex, acked>>
         /\ \E l : l \in {"get", "got", "idle"} /\ pc' = [pc EXCEPT ![t] = l]
         /\ \E r : loc' = [loc EXCEPT ![t] = r]
  BY KVDBAssumption
  DEF Get, GetBegin, GetLevel, GetReturn, Return, Home, Goto, Keep, disk, startup, Thread

\* The flush worker's own steps move it among its places.
LEMMA WorkerFrame ==
  ASSUME FlushWorker
  PROVE  /\ phase = "up" /\ pc[Flusher] \in {"eval", "parking", "check"} /\ Flusher \in Thread
         /\ UNCHANGED <<wal, manifest, files, phase, pos, restarts, memtable, levels, seq, file_id,
                        db_rw_mutex, acked, loc>>
         /\ \E l : /\ l \in {"flush", "parking", "wait", "compact", "eval"}
                   /\ pc' = [pc EXCEPT ![Flusher] = l]
  BY DEF FlushWorker, FlusherTest, FlusherPark, FlusherCheck, Goto, disk, startup, Thread

\* A flush of an empty table returns, another one copies it.
LEMMA FlushFrame ==
  ASSUME NEW t \in Thread, FlushEmpty(t) \/ FlushCopy(t)
  PROVE  /\ phase = "up" /\ pc[t] \in {"idle", "flush"}
         /\ UNCHANGED <<wal, manifest, files, phase, pos, restarts, memtable, levels, seq, file_id,
                        db_rw_mutex, acked>>
         /\ \E l : l \in {"check", "idle", "flush_copied"} /\ pc' = [pc EXCEPT ![t] = l]
         /\ loc' = loc \/ \E r : loc' = [loc EXCEPT ![t] = r]
<1>1. CASE FlushEmpty(t)
  BY <1>1 DEF FlushEmpty, FlushCaller, AfterFlush, Goto, disk, startup
<1>2. CASE FlushCopy(t)
  <2>1. /\ phase = "up" /\ pc[t] \in {"idle", "flush"}
        /\ UNCHANGED <<wal, manifest, files, phase, pos, restarts, memtable, levels, seq, file_id,
                       db_rw_mutex, acked>>
    BY <1>2 DEF FlushCopy, FlushCaller, disk, startup
  <2>2. pc' = [pc EXCEPT ![t] = "flush_copied"]
    BY <1>2 DEF FlushCopy, Goto
  <2>3. \E r : loc' = [loc EXCEPT ![t] = r]
    BY <1>2 DEF FlushCopy, Keep
  <2> QED
    BY <2>1, <2>2, <2>3
<1> QED
  BY <1>1, <1>2

(***************************************************************************)
(* The numbers of the versions.                                            *)
(***************************************************************************)
\* Text files give every value back unchanged.
OneWordValues == \A v \in Value : FirstWord[v] = v

\* Where a version of k may be: in the MemTable, in the copy that a flush works
\* on, in a file, in the output of a merge, or logged and not yet applied.
InTable(k, v) == \E i \in DOMAIN memtable[k] : memtable[k][i] = v
InCopy(k, v)  == \E t \in Thread : /\ pc[t] = "flush_copied"
                                   /\ \E i \in DOMAIN loc[t].data[k] : loc[t].data[k][i] = v
InFile(k, v)  == \E f \in FileId : files[f] # NotFound /\ v \in files[f][k]
InMerge(k, v) == \E t \in Thread : pc[t] = "merged" /\ v \in loc[t].out[k]
InLog(k, v)   == \E t \in Client : /\ pc[t] = "logged" /\ loc[t].key = k
                                   /\ v = [seq |-> loc[t].seq, value |-> loc[t].value]

HasVersion(k, v) == InTable(k, v) \/ InCopy(k, v) \/ InFile(k, v) \/ InMerge(k, v) \/ InLog(k, v)

\* Until the first restart the numbers of all versions, wherever they are, were
\* drawn from seq_ and no two of them are equal, but for the number that
\* compactions write.
AgeInv ==
    restarts = 0 =>
      /\ phase \in {"up", "down"}
      /\ phase = "up" => \A k \in Key, v \in Version :
                            HasVersion(k, v) => v.seq < seq \/ v.seq = UINT64_MAX
      /\ \A j, k \in Key : \A v, w \in Version :
            HasVersion(j, v) /\ HasVersion(k, w) /\ v.seq = w.seq /\ v.seq # UINT64_MAX
              => j = k /\ v = w

\* No version appears, but for a compaction's.
NoNewVersion ==
    \A k \in Key, v \in Version : HasVersion(k, v)' => HasVersion(k, v) \/ v.seq = UINT64_MAX

\* A step without a new version and without a new number keeps AgeInv.
LEMMA NoNewVersionKeepsAge ==
  ASSUME AgeInv, NoNewVersion, seq' = seq, restarts' = restarts,
         phase' = phase \/ phase' = "down"
  PROVE  AgeInv'
<1> SUFFICES ASSUME restarts = 0
             PROVE  AgeInv'
  BY DEF AgeInv
<1>1. phase' = "up" => \A k \in Key, v \in Version :
                          HasVersion(k, v)' => v.seq < seq' \/ v.seq = UINT64_MAX
  BY DEF AgeInv, NoNewVersion
<1>2. \A j, k \in Key : \A v, w \in Version :
         HasVersion(j, v)' /\ HasVersion(k, w)' /\ v.seq = w.seq /\ v.seq # UINT64_MAX
           => j = k /\ v = w
  BY DEF AgeInv, NoNewVersion
<1> QED
  BY <1>1, <1>2 DEF AgeInv

\* A thread moves to a place that holds no version; tables and files only lose.
LEMMA MoveHasNoVersion ==
  ASSUME CoreTypeOK, NEW t \in Thread, NEW l, l \notin {"flush_copied", "merged", "logged"},
         pc' = [pc EXCEPT ![t] = l],
         loc' = loc \/ \E r : loc' = [loc EXCEPT ![t] = r],
         memtable' = memtable \/ memtable' = EmptyTable,
         \A f \in FileId : files'[f] = files[f] \/ files'[f] = NotFound
  PROVE  NoNewVersion
<1>1. \A u \in Thread : u # t => pc'[u] = pc[u] /\ loc'[u] = loc[u]
  BY DEF CoreTypeOK
<1>2. pc'[t] = l
  BY DEF CoreTypeOK
<1> SUFFICES ASSUME NEW k \in Key, NEW v \in Version, HasVersion(k, v)'
             PROVE  HasVersion(k, v)
  BY DEF NoNewVersion
<1>3. InTable(k, v)' => InTable(k, v)
  BY DEF InTable, EmptyTable
<1>4. InCopy(k, v)' => InCopy(k, v)
  BY <1>1, <1>2 DEF InCopy
<1>5. InFile(k, v)' => InFile(k, v)
  BY DEF InFile
<1>6. InMerge(k, v)' => InMerge(k, v)
  BY <1>1, <1>2 DEF InMerge
<1>7. InLog(k, v)' => InLog(k, v)
  BY <1>1, <1>2 DEF InLog, Thread
<1> QED
  BY <1>3, <1>4, <1>5, <1>6, <1>7 DEF HasVersion

\* A write draws a number that nobody has.
LEMMA LogKeepsAge ==
  ASSUME CoreTypeOK, AgeInv, NEW t \in Client, LogWrite(t)
  PROVE  AgeInv'
<1> SUFFICES ASSUME restarts = 0
             PROVE  AgeInv'
  BY DEF AgeInv, LogWrite, startup
<1>1. t \in Thread /\ loc[t] \in [key : Key, value : Stored] /\ seq \in Nat /\ phase = "up"
  BY DEF LogWrite, CoreTypeOK, LocalTypeOK, Thread
<1> DEFINE new == [seq |-> seq, value |-> loc[t].value]
<1>2. /\ phase' = phase /\ seq' = seq + 1 /\ memtable' = memtable /\ files' = files
      /\ restarts' = restarts
      /\ pc' = [pc EXCEPT ![t] = "logged"]
      /\ loc' = [loc EXCEPT ![t] = [key |-> loc[t].key, value |-> loc[t].value, seq |-> seq]]
  BY DEF LogWrite, Goto, Keep, startup
<1>3. \A u \in Thread : u # t => pc'[u] = pc[u] /\ loc'[u] = loc[u]
  BY <1>2 DEF CoreTypeOK
<1>4. pc'[t] = "logged" /\ loc'[t].key = loc[t].key /\ loc'[t].value = loc[t].value
      /\ loc'[t].seq = seq
  BY <1>1, <1>2 DEF CoreTypeOK
<1>5. ASSUME NEW k \in Key, NEW v \in Version, HasVersion(k, v)'
      PROVE  HasVersion(k, v) \/ (k = loc[t].key /\ v = new)
  <2>1. InTable(k, v)' => InTable(k, v)
    BY <1>2 DEF InTable
  <2>2. InCopy(k, v)' => InCopy(k, v)
    BY <1>3, <1>4 DEF InCopy
  <2>3. InFile(k, v)' => InFile(k, v)
    BY <1>2 DEF InFile
  <2>4. InMerge(k, v)' => InMerge(k, v)
    BY <1>3, <1>4 DEF InMerge
  <2>5. InLog(k, v)' => InLog(k, v) \/ (k = loc[t].key /\ v = new)
    BY <1>3, <1>4 DEF InLog, Thread
  <2> QED
    BY <1>5, <2>1, <2>2, <2>3, <2>4, <2>5 DEF HasVersion
<1>6. \A k \in Key, v \in Version : HasVersion(k, v) => v.seq < seq \/ v.seq = UINT64_MAX
  BY <1>1 DEF AgeInv
<1>7. new.seq = seq /\ \A v \in Version : v.seq \in Nat
  BY DEF Version
<1> HIDE DEF new
<1>8. \A k \in Key, v \in Version : HasVersion(k, v)' => v.seq < seq + 1 \/ v.seq = UINT64_MAX
  BY <1>1, <1>5, <1>6, <1>7
<1>9. ASSUME NEW j \in Key, NEW k \in Key, NEW v \in Version, NEW w \in Version,
             HasVersion(j, v)', HasVersion(k, w)', v.seq = w.seq, v.seq # UINT64_MAX
      PROVE  j = k /\ v = w
  <2>1. CASE HasVersion(j, v) /\ HasVersion(k, w)
    BY <1>9, <2>1 DEF AgeInv
  <2>2. ASSUME NEW a \in Key, NEW b \in Key, NEW x \in Version, NEW y \in Version,
               HasVersion(a, x)', HasVersion(b, y)', x.seq = y.seq, x.seq # UINT64_MAX,
               ~HasVersion(a, x)
        PROVE  a = b /\ x = y
    <3>1. x.seq = seq /\ a = loc[t].key /\ x = new
      BY <1>5, <1>7, <2>2
    <3>2. ~(y.seq < seq) /\ y.seq # UINT64_MAX
      BY <1>1, <2>2, <3>1
    <3>3. ~HasVersion(b, y)
      BY <1>6, <3>2
    <3> QED
      BY <1>5, <2>2, <3>1, <3>3
  <2>3. CASE ~HasVersion(j, v)
    BY <1>9, <2>2, <2>3
  <2>4. CASE ~HasVersion(k, w)
    BY <1>9, <2>2, <2>4
  <2> QED
    BY <2>1, <2>3, <2>4
<1> QED
  BY <1>1, <1>2, <1>8, <1>9 DEF AgeInv

\* Applied, the write moves from the log to the MemTable.
LEMMA ApplyHasNoVersion ==
  ASSUME CoreTypeOK, NEW t \in Client, ApplyWrite(t)
  PROVE  NoNewVersion
<1>1. t \in Thread /\ t # Flusher /\ Flusher \in Thread /\ Flusher \notin Client
  BY KVDBAssumption DEF Thread
<1>2. loc[t] \in [key : Key, value : Stored, seq : Nat] /\ pc[t] = "logged"
  BY <1>1 DEF ApplyWrite, CoreTypeOK, LocalTypeOK
<1>3. \/ pc' = [pc EXCEPT ![t] = "idle"]
      \/ pc' = [[pc EXCEPT ![t] = "idle"] EXCEPT ![Flusher] = IF @ = "wait" THEN "eval" ELSE @]
  BY DEF ApplyWrite, Notified
<1>4. \A u \in Thread : pc'[u] = pc[u] \/ pc'[u] \in {"idle", "eval"}
  BY <1>1, <1>3 DEF CoreTypeOK
<1>5. pc'[t] = "idle" /\ \A u \in Thread : u # t => loc'[u] = loc[u]
  BY <1>1, <1>3 DEF ApplyWrite, Keep, CoreTypeOK
<1>6. files' = files /\ memtable' = MemTablePut(memtable, loc[t].key, loc[t].value, loc[t].seq)
  BY DEF ApplyWrite, disk
<1> SUFFICES ASSUME NEW k \in Key, NEW v \in Version, HasVersion(k, v)'
             PROVE  HasVersion(k, v)
  BY DEF NoNewVersion
<1>7. InTable(k, v)' => InTable(k, v) \/ InLog(k, v)
  <2> DEFINE new == [seq |-> loc[t].seq, value |-> loc[t].value]
  <2>1. memtable'[k] = IF k = loc[t].key THEN Append(memtable[k], new) ELSE memtable[k]
    BY <1>2, <1>6 DEF MemTablePut, CoreTypeOK, MemTable
  <2>2. memtable[k] \in Seq(Version)
    BY DEF CoreTypeOK, MemTable
  <2>3. k = loc[t].key => InLog(k, new)
    BY <1>2 DEF InLog
  <2> HIDE DEF new
  <2>4. \A i \in DOMAIN Append(memtable[k], new) :
           \/ i \in DOMAIN memtable[k] /\ Append(memtable[k], new)[i] = memtable[k][i]
           \/ Append(memtable[k], new)[i] = new
    BY <2>2
  <2> QED
    BY <2>1, <2>3, <2>4 DEF InTable
<1>8. InCopy(k, v)' => InCopy(k, v)
  BY <1>4, <1>5 DEF InCopy
<1>9. InFile(k, v)' => InFile(k, v)
  BY <1>6 DEF InFile
<1>10. InMerge(k, v)' => InMerge(k, v)
  BY <1>4, <1>5 DEF InMerge
<1>11. InLog(k, v)' => InLog(k, v)
  BY <1>4, <1>5 DEF InLog, Thread
<1> QED
  BY <1>7, <1>8, <1>9, <1>10, <1>11 DEF HasVersion

\* What a flush writes are the versions of its copy.
LEMMA WrittenIsCopied ==
  ASSUME OneWordValues, NEW m \in MemTable, NEW k \in Key, NEW v
  PROVE  v \in SSTableWrite(m)[k] <=> \E i \in DOMAIN m[k] : m[k][i] = v
<1>1. m[k] \in Seq(Version)
  BY DEF MemTable
<1>2. \A i \in DOMAIN m[k] : m[k][i] \in Version
  BY <1>1
<1>3. \A w \in Version : [seq |-> w.seq, value |-> Word(w.value)] = w
  BY DEF Version, Word, Stored, OneWordValues
<1> QED
  BY <1>2, <1>3 DEF SSTableWrite, Range

\* What a compaction writes has its one number.
LEMMA MergedNumber ==
  ASSUME NEW fs, NEW out \in MergeResults(fs), NEW k \in Key, NEW v \in out[k]
  PROVE  v.seq = UINT64_MAX
<1> DEFINE keys == UNION {Walk(f, UINT64_MAX) : f \in fs}
<1>1. PICK p : out = [j \in Key |-> IF j \in keys THEN {[seq |-> UINT64_MAX, value |-> p[j]]} ELSE {}]
  BY DEF MergeResults
<1> HIDE DEF keys
<1> QED
  BY <1>1
\* One step of the engine keeps the numbers apart.
LEMMA AgeStep ==
  ASSUME OneWordValues, CoreTypeOK, AgeInv, [Next]_vars
  PROVE  AgeInv'
<1> USE KVDBAssumption DEF disk, startup
<1>1. ASSUME NEW t \in Client, NEW k \in Key, NEW v \in Stored, BeginWrite(t, k, v)
      PROVE  AgeInv'
  <2>1. NoNewVersion
    BY <1>1, MoveHasNoVersion DEF BeginWrite, Goto, Keep, Thread
  <2> QED
    BY <1>1, <2>1, NoNewVersionKeepsAge DEF BeginWrite
<1>2. ASSUME NEW t \in Client, LogWrite(t)
      PROVE  AgeInv'
  BY <1>2, LogKeepsAge
<1>3. ASSUME NEW t \in Client, ApplyWrite(t)
      PROVE  AgeInv'
  BY <1>3, ApplyHasNoVersion, NoNewVersionKeepsAge DEF ApplyWrite
<1>4. ASSUME NEW t \in Client, Get(t)
      PROVE  AgeInv'
  <2>1. NoNewVersion
    BY <1>4, GetFrame, MoveHasNoVersion
  <2> QED
    BY <1>4, <2>1, GetFrame, NoNewVersionKeepsAge
<1>5. ASSUME NEW t \in Thread, FlushEmpty(t)
      PROVE  AgeInv'
  <2>1. NoNewVersion
    <3>1. /\ \E l : l \in {"idle", "check"} /\ pc' = [pc EXCEPT ![t] = l]
          /\ UNCHANGED <<loc, memtable, files>>
      BY <1>5 DEF FlushEmpty, AfterFlush, Goto
    <3> QED
      BY <3>1, MoveHasNoVersion
  <2> QED
    BY <1>5, <2>1, NoNewVersionKeepsAge DEF FlushEmpty
<1>6. ASSUME NEW t \in Thread, FlushCopy(t)
      PROVE  AgeInv'
  <2>1. /\ pc' = [pc EXCEPT ![t] = "flush_copied"]
        /\ loc' = [loc EXCEPT ![t] = [data |-> memtable, fid |-> file_id]]
        /\ files' = files /\ memtable' = memtable
    BY <1>6 DEF FlushCopy, Goto, Keep
  <2>2. /\ \A u \in Thread : u # t => pc'[u] = pc[u] /\ loc'[u] = loc[u]
        /\ pc'[t] = "flush_copied" /\ loc'[t].data = memtable
    BY <2>1 DEF CoreTypeOK
  <2>3. ASSUME NEW k \in Key, NEW v \in Version, HasVersion(k, v)'
        PROVE  HasVersion(k, v)
    <3>1. InTable(k, v)' => InTable(k, v)
      BY <2>1 DEF InTable
    <3>2. InCopy(k, v)' => InCopy(k, v) \/ InTable(k, v)
      BY <2>2 DEF InCopy, InTable
    <3>3. InFile(k, v)' => InFile(k, v)
      BY <2>1 DEF InFile
    <3>4. InMerge(k, v)' => InMerge(k, v)
      BY <2>2 DEF InMerge
    <3>5. InLog(k, v)' => InLog(k, v)
      BY <2>2 DEF InLog, Thread
    <3> QED
      BY <2>3, <3>1, <3>2, <3>3, <3>4, <3>5 DEF HasVersion
  <2> QED
    BY <1>6, <2>3, NoNewVersionKeepsAge DEF FlushCopy, NoNewVersion
<1>7. ASSUME NEW t \in Thread, FlushWrite(t)
      PROVE  AgeInv'
  <2>1. loc[t] \in [data : MemTable, fid : 0 .. MaxFile - 1] /\ pc[t] = "flush_copied"
    BY <1>7 DEF FlushWrite, CoreTypeOK, LocalTypeOK
  <2>2. /\ pc' = [pc EXCEPT ![t] = "flush_written"]
        /\ loc' = [loc EXCEPT ![t] = [fid |-> loc[t].fid]]
        /\ files' = [files EXCEPT ![loc[t].fid] = SSTableWrite(loc[t].data)]
        /\ memtable' = memtable
    BY <1>7 DEF FlushWrite, Goto, Keep
  <2>3. /\ \A u \in Thread : u # t => pc'[u] = pc[u] /\ loc'[u] = loc[u]
        /\ pc'[t] = "flush_written"
    BY <2>2 DEF CoreTypeOK
  <2>4. \A f \in FileId : f # loc[t].fid => files'[f] = files[f]
    BY <2>2 DEF CoreTypeOK
  <2>5. loc[t].fid \in FileId /\ files'[loc[t].fid] = SSTableWrite(loc[t].data)
    BY <2>1, <2>2 DEF CoreTypeOK, FileId
  <2>6. ASSUME NEW k \in Key, NEW v \in Version, HasVersion(k, v)'
        PROVE  HasVersion(k, v)
    <3>1. InTable(k, v)' => InTable(k, v)
      BY <2>2 DEF InTable
    <3>2. InCopy(k, v)' => InCopy(k, v)
      BY <2>3 DEF InCopy
    <3>3. v \in SSTableWrite(loc[t].data)[k] => InCopy(k, v)
      BY <2>1, WrittenIsCopied DEF InCopy
    <3>4. InFile(k, v)' => InFile(k, v) \/ InCopy(k, v)
      BY <2>4, <2>5, <3>3 DEF InFile
    <3>5. InMerge(k, v)' => InMerge(k, v)
      BY <2>3 DEF InMerge
    <3>6. InLog(k, v)' => InLog(k, v)
      BY <2>3 DEF InLog, Thread
    <3> QED
      BY <2>6, <3>1, <3>2, <3>4, <3>5, <3>6 DEF HasVersion
  <2> QED
    BY <1>7, <2>6, NoNewVersionKeepsAge DEF FlushWrite, NoNewVersion
<1>8. ASSUME NEW t \in Thread, FlushAdd(t)
      PROVE  AgeInv'
  <2>1. NoNewVersion
    BY <1>8, MoveHasNoVersion DEF FlushAdd, Goto, Keep
  <2> QED
    BY <1>8, <2>1, NoNewVersionKeepsAge DEF FlushAdd
<1>9. ASSUME NEW t \in Thread, FlushClear(t)
      PROVE  AgeInv'
  <2>1. NoNewVersion
    BY <1>9, MoveHasNoVersion DEF FlushClear, Goto
  <2> QED
    BY <1>9, <2>1, NoNewVersionKeepsAge DEF FlushClear
<1>10. ASSUME NEW t \in Thread, FlushTruncate(t)
       PROVE  AgeInv'
  <2>1. NoNewVersion
    BY <1>10, MoveHasNoVersion DEF FlushTruncate, AfterFlush, Goto
  <2> QED
    BY <1>10, <2>1, NoNewVersionKeepsAge DEF FlushTruncate
<1>11. ASSUME FlushWorker
       PROVE  AgeInv'
  <2>1. NoNewVersion
    BY <1>11, WorkerFrame, MoveHasNoVersion
  <2> QED
    BY <1>11, <2>1, WorkerFrame, NoNewVersionKeepsAge
<1>12. ASSUME NEW t \in Thread, CompactBegin(t) \/ CompactScan(t)
       PROVE  AgeInv'
  <2>1. pc' = [pc EXCEPT ![t] = "scan"]
    BY <1>12 DEF CompactBegin, CompactScan, Goto, CoreTypeOK
  <2>2. /\ \E r : loc' = [loc EXCEPT ![t] = r]
        /\ UNCHANGED <<memtable, files, seq, restarts, phase>>
    BY <1>12 DEF CompactBegin, CompactScan, Keep
  <2>3. NoNewVersion
    BY <2>1, <2>2, MoveHasNoVersion
  <2> QED
    BY <2>2, <2>3, NoNewVersionKeepsAge
<1>13. ASSUME NEW t \in Thread, CompactPick(t)
       PROVE  AgeInv'
  <2>1. /\ \E l : l \in {"idle", "eval", "merge"} /\ pc' = [pc EXCEPT ![t] = l]
        /\ \E r : loc' = [loc EXCEPT ![t] = r]
    <3>1. \/ Return(t)
          \/ Goto(t, "merge") /\ \E task : Keep(t, [task |-> task])
      BY <1>13 DEF CompactPick
    <3> QED
      BY <3>1 DEF Return, Home, Goto, Keep
  <2>2. UNCHANGED <<memtable, files, seq, restarts, phase>>
    BY <1>13 DEF CompactPick
  <2>3. NoNewVersion
    BY <2>1, <2>2, MoveHasNoVersion
  <2> QED
    BY <2>2, <2>3, NoNewVersionKeepsAge
<1>14. ASSUME NEW t \in Thread, CompactMerge(t)
       PROVE  AgeInv'
  <2>1. UNCHANGED <<memtable, files, seq, restarts, phase>>
    BY <1>14 DEF CompactMerge
  <2>2. CASE Return(t)
    <3>0. /\ \E l : l \in {"idle", "eval"} /\ pc' = [pc EXCEPT ![t] = l]
          /\ \E r : loc' = [loc EXCEPT ![t] = r]
      BY <2>2 DEF Return, Home, Goto, Keep
    <3>1. NoNewVersion
      BY <2>1, <3>0, MoveHasNoVersion
    <3> QED
      BY <2>1, <3>1, NoNewVersionKeepsAge
  <2>3. CASE \E fs : \E out \in MergeResults(fs) :
                /\ Keep(t, [task |-> loc[t].task, out |-> out, fid |-> file_id])
                /\ Goto(t, "merged")
    <3>1. PICK fs : \E o \in MergeResults(fs) :
                /\ Keep(t, [task |-> loc[t].task, out |-> o, fid |-> file_id])
                /\ Goto(t, "merged")
      BY <2>3
    <3>2. PICK out \in MergeResults(fs) :
                /\ Keep(t, [task |-> loc[t].task, out |-> out, fid |-> file_id])
                /\ Goto(t, "merged")
      BY <3>1
    <3>3. /\ \A u \in Thread : u # t => pc'[u] = pc[u] /\ loc'[u] = loc[u]
          /\ pc'[t] = "merged" /\ loc'[t].out = out
      BY <3>2 DEF Goto, Keep, CoreTypeOK
    <3>4. ASSUME NEW k \in Key, NEW v \in Version, HasVersion(k, v)'
          PROVE  HasVersion(k, v) \/ v.seq = UINT64_MAX
      <4>1. InTable(k, v)' => InTable(k, v)
        BY <2>1 DEF InTable
      <4>2. InCopy(k, v)' => InCopy(k, v)
        BY <3>3 DEF InCopy
      <4>3. InFile(k, v)' => InFile(k, v)
        BY <2>1 DEF InFile
      <4>4. InMerge(k, v)' => InMerge(k, v) \/ v.seq = UINT64_MAX
        BY <3>3, MergedNumber DEF InMerge
      <4>5. InLog(k, v)' => InLog(k, v)
        BY <3>3 DEF InLog, Thread
      <4> QED
        BY <3>4, <4>1, <4>2, <4>3, <4>4, <4>5 DEF HasVersion
    <3> QED
      BY <2>1, <3>4, NoNewVersionKeepsAge DEF NoNewVersion
  <2> QED
    BY <1>14, <2>2, <2>3 DEF CompactMerge
<1>15. ASSUME NEW t \in Thread, CompactWrite(t)
       PROVE  AgeInv'
  <2>1. loc[t].fid \in 0 .. MaxFile - 1 /\ pc[t] = "merged"
    BY <1>15 DEF CompactWrite, CoreTypeOK, LocalTypeOK
  <2>2. /\ pc' = [pc EXCEPT ![t] = "compact_written"]
        /\ \E r : loc' = [loc EXCEPT ![t] = r]
        /\ files' = [files EXCEPT ![loc[t].fid] = loc[t].out]
        /\ memtable' = memtable
    BY <1>15 DEF CompactWrite, Goto, Keep
  <2>3. /\ \A u \in Thread : u # t => pc'[u] = pc[u] /\ loc'[u] = loc[u]
        /\ pc'[t] = "compact_written"
    BY <2>2 DEF CoreTypeOK
  <2>4. /\ loc[t].fid \in FileId /\ files'[loc[t].fid] = loc[t].out
        /\ \A f \in FileId : f # loc[t].fid => files'[f] = files[f]
    BY <2>1, <2>2 DEF CoreTypeOK, FileId
  <2>5. ASSUME NEW k \in Key, NEW v \in Version, HasVersion(k, v)'
        PROVE  HasVersion(k, v)
    <3>1. InTable(k, v)' => InTable(k, v)
      BY <2>2 DEF InTable
    <3>2. InCopy(k, v)' => InCopy(k, v)
      BY <2>3 DEF InCopy
    <3>3. InFile(k, v)' => InFile(k, v) \/ InMerge(k, v)
      BY <2>1, <2>4 DEF InFile, InMerge
    <3>4. InMerge(k, v)' => InMerge(k, v)
      BY <2>3 DEF InMerge
    <3>5. InLog(k, v)' => InLog(k, v)
      BY <2>3 DEF InLog, Thread
    <3> QED
      BY <2>5, <3>1, <3>2, <3>3, <3>4, <3>5 DEF HasVersion
  <2> QED
    BY <1>15, <2>5, NoNewVersionKeepsAge DEF CompactWrite, NoNewVersion
<1>16. ASSUME NEW t \in Thread,
              \/ CompactDropSource(t) \/ CompactDropTarget(t)
              \/ CompactInstall(t) \/ CompactPersist(t)
       PROVE  AgeInv'
  <2>1. /\ \E l : /\ l \in {"compact_source", "compact_target", "compact_installed", "idle", "eval"}
                  /\ pc' = [pc EXCEPT ![t] = l]
        /\ loc' = loc \/ \E r : loc' = [loc EXCEPT ![t] = r]
    BY <1>16 DEF CompactDropSource, CompactDropTarget, CompactInstall, CompactPersist, Return, Home,
                 Goto, Keep
  <2>2. \A f \in FileId : files'[f] = files[f] \/ files'[f] = NotFound
    BY <1>16 DEF CompactDropSource, CompactDropTarget, CompactInstall, CompactPersist,
                 UpdateLevelMetadata
  <2>3. UNCHANGED <<memtable, seq, restarts, phase>>
    BY <1>16 DEF CompactDropSource, CompactDropTarget, CompactInstall, CompactPersist
  <2>4. NoNewVersion
    BY <2>1, <2>2, <2>3, MoveHasNoVersion
  <2> QED
    BY <2>3, <2>4, NoNewVersionKeepsAge
<1>17. ASSUME Die
       PROVE  AgeInv'
  <2>1. /\ phase' = "down" /\ restarts' = restarts /\ files' = files /\ memtable' = EmptyTable
        /\ \A u \in Thread : pc'[u] \in {"idle", "eval"}
    BY <1>17 DEF Die, Home
  <2>2. \A k \in Key, v \in Version : HasVersion(k, v)' => HasVersion(k, v)
    BY <2>1 DEF HasVersion, InTable, InCopy, InFile, InMerge, InLog, EmptyTable, Thread
  <2> QED
    BY <2>1, <2>2 DEF AgeInv
<1>18. ASSUME Recovery
       PROVE  AgeInv'
  <2>1. restarts \in Nat
    BY DEF CoreTypeOK
  <2>2. CASE Restart
    BY <2>1, <2>2 DEF Restart, AgeInv
  <2>3. CASE phase \in {"recover", "replay"} /\ restarts' = restarts
    BY <2>3 DEF AgeInv
  <2> QED
    BY <1>18, <2>2, <2>3 DEF Recovery, RecoverLine, RecoverEnd, ReplayLine, ReplayEnd
<1>19. CASE UNCHANGED vars
  <2>1. NoNewVersion
    BY <1>19 DEF vars, NoNewVersion, HasVersion, InTable, InCopy, InFile, InMerge, InLog
  <2> QED
    BY <1>19, <2>1, NoNewVersionKeepsAge DEF vars
<1> QED
  BY <1>1, <1>2, <1>3, <1>4, <1>5, <1>6, <1>7, <1>8, <1>9, <1>10, <1>11, <1>12, <1>13, <1>14,
     <1>15, <1>16, <1>17, <1>18, <1>19
     DEF Next, Write, Put, Del, Flush, Compact, MetaThrows, Crash, Stored

\* Until the first restart a sequence number names one write: two versions with
\* the same number, in the MemTable or in files, are the same version, however
\* writers, flushes and compactions of any number of threads interleave.
THEOREM NumbersNameOneWrite == ASSUME OneWordValues PROVE Spec => []SeqNamesOneWrite
<1>1. Init => AgeInv
  <2> SUFFICES ASSUME Init PROVE AgeInv
    OBVIOUS
  <2>1. \A t \in Thread : pc[t] \in {"idle", "eval"}
    BY DEF Init, Home
  <2>2. \A k \in Key : memtable[k] = <<>>
    BY DEF Init, EmptyTable
  <2>3. \A f \in FileId : files[f] = NotFound
    BY DEF Init
  <2>4. \A k \in Key, v \in Version : ~HasVersion(k, v)
    BY <2>1, <2>2, <2>3 DEF HasVersion, InTable, InCopy, InFile, InMerge, InLog, Thread
  <2> QED
    BY <2>4 DEF Init, AgeInv
<1>2. CoreTypeOK /\ AgeInv /\ [Next]_vars => AgeInv'
  BY AgeStep
<1>3. CoreTypeOK /\ AgeInv => SeqNamesOneWrite
  <2> SUFFICES ASSUME CoreTypeOK, AgeInv, restarts = 0, NEW x \in AllVersions, NEW y \in AllVersions,
                      x[2].seq = y[2].seq, x[2].seq # UINT64_MAX
               PROVE  x = y
    BY DEF SeqNamesOneWrite
  <2>1. \A k \in Key : \A i \in DOMAIN memtable[k] : memtable[k][i] \in Version
    BY ElementType DEF CoreTypeOK, MemTable
  <2>2. \A f \in FileId, k \in Key : files[f] # NotFound => files[f][k] \subseteq Version
    BY DEF CoreTypeOK, SSTable
  <2>3. ASSUME NEW z \in AllVersions
        PROVE  \E k \in Key, v \in Version : z = <<k, v>> /\ HasVersion(k, v)
    <3>1. CASE \E k \in Key : \E i \in DOMAIN memtable[k] : z = <<k, memtable[k][i]>>
      BY <2>1, <3>1 DEF HasVersion, InTable
    <3>2. CASE \E k \in Key, f \in FileId : files[f] # NotFound /\ \E v \in files[f][k] : z = <<k, v>>
      BY <2>2, <3>2 DEF HasVersion, InFile
    <3>3. CASE z \in UNION {{<<k, memtable[k][i]>> : i \in DOMAIN memtable[k]} : k \in Key}
      BY <3>1, <3>3
    <3>4. CASE z \in UNION {UNION {{<<k, v>> : v \in files[f][k]} : k \in Key}
                             : f \in {g \in FileId : files[g] # NotFound}}
      BY <3>2, <3>4
    <3> QED
      BY <3>3, <3>4 DEF AllVersions
  <2>4. PICK j \in Key, v \in Version : x = <<j, v>> /\ HasVersion(j, v)
    BY <2>3
  <2>5. PICK k \in Key, w \in Version : y = <<k, w>> /\ HasVersion(k, w)
    BY <2>3
  <2>6. v.seq = w.seq /\ v.seq # UINT64_MAX
    BY <2>4, <2>5
  <2> QED
    BY <2>4, <2>5, <2>6 DEF AgeInv
<1> QED
  BY <1>1, <1>2, <1>3, TypeCorrect, PTL DEF Spec

(***************************************************************************)
(* Folds over nothing, and what the strategies pick from empty levels.     *)
(***************************************************************************)
\* A level without files has size 0.
LEMMA EmptyLevelSize == LevelSize(<<>>) = 0
<1> DEFINE g == [i \in DOMAIN <<>> |-> <<>>[i].size]
<1>1. DOMAIN g = {}
  OBVIOUS
<1> HIDE DEF g
<1>2. SumFunction(g) = MapThenFoldSet(+, 0, LAMBDA i : g[i], LAMBDA s : CHOOSE x \in s : TRUE, {})
  BY <1>1, Zenon DEF SumFunction, SumFunctionOnSet, FoldFunctionOnSet
<1>3. MapThenFoldSet(+, 0, LAMBDA i : g[i], LAMBDA s : CHOOSE x \in s : TRUE, {}) = 0
  BY DEF MapThenFoldSet
<1> QED
  BY <1>2, <1>3, Zenon DEF LevelSize, g

\* A level without files has no time window.
LEMMA EmptyLevelWindows == WindowStarts(<<>>) = {}
<1> DEFINE step(f, s) == IF s = {} THEN {} ELSE OpenWindow(f[s \ {Max(s)}], <<>>[Max(s)])
<1>1. DOMAIN <<>> = {} /\ SUBSET {} = {{}}
  OBVIOUS
<1>2. [s \in SUBSET {} |-> {}] = [s \in SUBSET {} |-> step([t \in SUBSET {} |-> {}], s)]
  BY <1>1
<1>3. \A f : f = [s \in SUBSET {} |-> step(f, s)] => f[{}] = {}
  BY <1>1
<1>4. (CHOOSE f : f = [s \in SUBSET {} |-> step(f, s)])[{}] = {}
  BY <1>2, <1>3
<1> QED
  BY <1>1, <1>4 DEF WindowStarts, FoldLeft, MapThenFoldSet

\* No strategy finds anything to compact in empty levels.
LEMMA NothingToPick == PickCompaction(Strategy, [n \in Level |-> <<>>]) = NoTask
<1> DEFINE lv == [n \in Level |-> <<>>]
<1>1. \A n \in Level : lv[n] = <<>> /\ Len(lv[n]) = 0
  OBVIOUS
<1>2. 0 \in Level
  BY StrategyAssumption DEF Level
<1> HIDE DEF lv
<1>3. OverLimit(lv) = {}
  <2>1. \A n \in Level : Score(lv, n) = 0
    <3>1. \A d \in Nat \ {0} : 0 \div d = 0
      OBVIOUS
    <3> QED
      BY <1>1, <1>2, <3>1, EmptyLevelSize, StrategyAssumption DEF Score
  <2> QED
    BY <2>1 DEF OverLimit
<1>4. FullTiers(lv) = {}
  BY <1>1, StrategyAssumption DEF FullTiers
<1>5. SimilarGroups(lv) = {}
  BY <1>1 DEF SimilarGroups
<1>6. FullWindows(lv) = {}
  BY <1>1, EmptyLevelWindows DEF FullWindows
<1> QED
  BY <1>3, <1>4, <1>5, <1>6, KVDBAssumption
  DEF lv, PickCompaction, LeveledPick, TieredPick, SizeTieredPick, TimeWindowPick, StrategyType

(***************************************************************************)
(* What a WAL says about a key.                                            *)
(***************************************************************************)
\* v is what the first n lines of w say about k: the value of the last line of
\* the key, NotFound if there is none.
Says(w, n, k, v) ==
    \/ v = NotFound /\ \A i \in 1 .. n : w[i].key # k
    \/ \E i \in 1 .. n : /\ w[i].key = k /\ w[i].value = v
                         /\ \A j \in i + 1 .. n : w[j].key # k

\* The value of the version of k that was pushed last.
LastValue(m, k) == IF m[k] = <<>> THEN NotFound ELSE m[k][Len(m[k])].value

Line == [key : Key, value : Stored]

\* A new line changes nothing about the lines before it.
LEMMA SaysAfterAppend ==
  ASSUME NEW w \in Seq(Line), NEW x \in Line, NEW n \in 0 .. Len(w), NEW k, NEW v
  PROVE  Says(Append(w, x), n, k, v) <=> Says(w, n, k, v)
<1>1. \A i \in 1 .. n : Append(w, x)[i] = w[i]
  OBVIOUS
<1> QED
  BY <1>1 DEF Says

\* One line more: the value of its key is its value, the others stay.
LEMMA SaysNextLine ==
  ASSUME NEW w, NEW n \in Nat, NEW k, NEW v, Says(w, n, k, v)
  PROVE  Says(w, n + 1, k, IF w[n + 1].key = k THEN w[n + 1].value ELSE v)
<1>1. CASE w[n + 1].key = k
  BY <1>1 DEF Says
<1>2. CASE w[n + 1].key # k
  <2>1. CASE v = NotFound /\ \A i \in 1 .. n : w[i].key # k
    BY <1>2, <2>1 DEF Says
  <2>2. ASSUME NEW i \in 1 .. n, w[i].key = k, w[i].value = v,
               \A j \in i + 1 .. n : w[j].key # k
        PROVE  Says(w, n + 1, k, v)
    <3>1. i \in 1 .. n + 1 /\ \A j \in i + 1 .. n + 1 : w[j].key # k
      BY <1>2, <2>2
    <3> QED
      BY <2>2, <3>1 DEF Says
  <2> QED
    BY <1>2, <2>1, <2>2 DEF Says
<1> QED
  BY <1>1, <1>2

\* A WAL says one thing about a key.
LEMMA SaysOnce ==
  ASSUME NEW w \in Seq(Line), NEW n \in 0 .. Len(w), NEW k, NEW u, NEW v,
         Says(w, n, k, u), Says(w, n, k, v)
  PROVE  u = v
<1>1. \A i \in 1 .. n : w[i] \in Line
  OBVIOUS
<1>2. \A i, j \in 1 .. n : i < j \/ j < i \/ i = j
  OBVIOUS
<1> QED
  BY <1>1, <1>2 DEF Says

\* MemTable::put makes its value the last one of its key.
LEMMA LastValueAfterPut ==
  ASSUME NEW m \in MemTable, NEW k \in Key, NEW v \in Stored, NEW s \in Nat, NEW j \in Key
  PROVE  LastValue(MemTablePut(m, k, v, s), j) = IF j = k THEN v ELSE LastValue(m, j)
<1> DEFINE new == [seq |-> s, value |-> v]
<1>1. m[k] \in Seq(Version) /\ new \in Version
  BY DEF MemTable, Version
<1>2. MemTablePut(m, k, v, s)[j] = IF j = k THEN Append(m[k], new) ELSE m[j]
  BY DEF MemTablePut, MemTable
<1>3. new.value = v
  OBVIOUS
<1> HIDE DEF new
<1>4. /\ Append(m[k], new) # <<>>
      /\ Append(m[k], new)[Len(Append(m[k], new))] = new
  BY <1>1
<1> QED
  BY <1>2, <1>3, <1>4 DEF LastValue
(***************************************************************************)
(* Replay.  As long as the MANIFEST is empty, the WAL, the MemTable and    *)
(* the acknowledged writes agree.                                          *)
(***************************************************************************)
\* Places that a thread reaches only after a file was listed.
AfterListing ==
    {"flush_added", "flush_cleared", "merge", "merged", "compact_written", "compact_source",
     "compact_target", "compact_installed"}

IsSequence(s) == \E S : s \in Seq(S)

\* Nothing is listed, and no compaction has found anything.
NothingListed ==
    /\ levels = [n \in Level |-> <<>>]
    /\ \A t \in Thread : /\ pc[t] \notin AfterListing
                         /\ pc[t] = "scan" => loc[t].scan \in Seq({<<>>})

\* The WAL lines whose write has been applied: all but that of a write that
\* holds db_rw_mutex_ between its log and its MemTable::put.
AppliedLines == IF \E t \in Client : pc[t] = "logged" THEN Len(wal) - 1 ELSE Len(wal)

LoggedIsLastLine ==
    \A t \in Client : pc[t] = "logged" =>
        /\ wal # <<>>
        /\ wal[Len(wal)].key = loc[t].key /\ wal[Len(wal)].value = loc[t].value

AckedAreLogged == \A k \in Key : Says(wal, AppliedLines, k, acked[k])

MemTableFollowsWal ==
    /\ phase = "up" => \A k \in Key : Says(wal, AppliedLines, k, LastValue(memtable, k))
    /\ phase = "replay" => /\ pos <= Len(wal)
                           /\ \A k \in Key : Says(wal, pos, k, LastValue(memtable, k))
    /\ phase \in {"down", "recover"} => memtable = EmptyTable

TableAgrees == LoggedIsLastLine /\ MemTableFollowsWal
WalAgrees   == TableAgrees /\ AckedAreLogged

ReplayInv ==
    /\ IsSequence(manifest)
    /\ manifest = <<>> => NothingListed /\ WalAgrees

\* A line more makes a longer file.
LEMMA AppendIsSequence ==
  ASSUME NEW s, NEW x, IsSequence(s)
  PROVE  IsSequence(Append(s, x)) /\ Append(s, x) # <<>>
<1>1. PICK S : s \in Seq(S)
  BY DEF IsSequence
<1>2. s \in Seq(S \cup {x})
  BY <1>1, SeqMonotonic
<1> DEFINE T == S \cup {x}
<1>3. s \in Seq(T) /\ x \in T
  BY <1>2
<1> HIDE DEF T
<1>4. Append(s, x) \in Seq(T) /\ Append(s, x) # <<>>
  <2>1. Append(s, x) \in Seq(T) /\ Len(Append(s, x)) = Len(s) + 1 /\ Len(s) \in Nat
    BY <1>3, AppendProperties, LenProperties
  <2>2. Len(<<>>) = 0
    OBVIOUS
  <2> QED
    BY <2>1, <2>2
<1> QED
  BY <1>4 DEF IsSequence

\* At most one client is between its log and its MemTable::put.
LEMMA OneLogged ==
  ASSUME OrderInv, NEW t \in Client, NEW u \in Client,
         pc[t] \in {"write", "logged"}, pc[u] \in {"write", "logged"}
  PROVE  t = u
  BY DEF OrderInv, WriterHoldsLock, Thread

\* A put or del logs its line.
LEMMA LogAgrees ==
  ASSUME CoreTypeOK, OrderInv, TableAgrees, NEW t \in Client, LogWrite(t)
  PROVE  TableAgrees' /\ (AckedAreLogged => AckedAreLogged')
<1>1. t \in Thread /\ loc[t] \in Line
  BY DEF LogWrite, CoreTypeOK, LocalTypeOK, Thread, Line
<1>2. wal \in Seq(Line) /\ wal' = Append(wal, loc[t])
  BY DEF LogWrite, CoreTypeOK, Line
<1>3. \A u \in Client : pc[u] # "logged"
  BY OneLogged DEF LogWrite
<1>4. AppliedLines = Len(wal)
  BY <1>3 DEF AppliedLines
<1>5. pc' = [pc EXCEPT ![t] = "logged"]
      /\ loc' = [loc EXCEPT ![t] = [key |-> loc[t].key, value |-> loc[t].value, seq |-> seq]]
  BY DEF LogWrite, Goto, Keep
<1>6. \A u \in Client : pc'[u] = "logged" <=> u = t
  BY <1>1, <1>3, <1>5 DEF CoreTypeOK, Thread
<1>7. AppliedLines' = Len(wal)
  BY <1>1, <1>2, <1>6 DEF AppliedLines
<1>8. loc'[t].key = loc[t].key /\ loc'[t].value = loc[t].value
  BY <1>1, <1>5 DEF CoreTypeOK
<1>9. wal' # <<>> /\ wal'[Len(wal')] = loc[t]
  BY <1>1, <1>2
<1>10. \A k, v : Says(wal, Len(wal), k, v) => Says(wal', Len(wal), k, v)
  BY <1>1, <1>2, SaysAfterAppend
<1>11. LoggedIsLastLine'
  BY <1>6, <1>8, <1>9 DEF LoggedIsLastLine
<1>12. AckedAreLogged => AckedAreLogged'
  BY <1>4, <1>7, <1>10 DEF LogWrite, TableAgrees, AckedAreLogged
<1>13. MemTableFollowsWal'
  BY <1>4, <1>7, <1>10 DEF LogWrite, TableAgrees, MemTableFollowsWal, startup
<1> QED
  BY <1>11, <1>12, <1>13 DEF TableAgrees

\* A put or del applies its line and is acknowledged.
LEMMA ApplyAgrees ==
  ASSUME CoreTypeOK, OrderInv, TableAgrees, NEW t \in Client, ApplyWrite(t)
  PROVE  TableAgrees' /\ (AckedAreLogged => AckedAreLogged')
<1>1. t \in Thread /\ t # Flusher /\ Flusher \notin Client /\ Flusher \in Thread
  BY KVDBAssumption DEF Thread
<1>2. loc[t] \in [key : Key, value : Stored, seq : Nat] /\ pc[t] = "logged"
  BY <1>1 DEF ApplyWrite, CoreTypeOK, LocalTypeOK
<1>3. /\ wal \in Seq(Line) /\ wal' = wal /\ wal # <<>>
      /\ wal[Len(wal)].key = loc[t].key /\ wal[Len(wal)].value = loc[t].value
  BY <1>2 DEF ApplyWrite, CoreTypeOK, Line, disk, TableAgrees, LoggedIsLastLine
<1>4. AppliedLines = Len(wal) - 1 /\ Len(wal) - 1 \in Nat
  BY <1>2, <1>3 DEF AppliedLines
<1>5. \A u \in Client : pc[u] = "logged" => u = t
  BY <1>2, OneLogged
<1>6. \/ pc' = [pc EXCEPT ![t] = "idle"]
      \/ pc' = [[pc EXCEPT ![t] = "idle"] EXCEPT ![Flusher] = IF @ = "wait" THEN "eval" ELSE @]
  BY DEF ApplyWrite, Notified
<1>7. \A u \in Client : pc'[u] # "logged"
  BY <1>1, <1>5, <1>6 DEF CoreTypeOK, Thread
<1>8. AppliedLines' = Len(wal)
  BY <1>3, <1>7 DEF AppliedLines
<1>9. \A k, v : Says(wal, Len(wal) - 1, k, v) =>
                  Says(wal, Len(wal), k, IF k = loc[t].key THEN loc[t].value ELSE v)
  <2> SUFFICES ASSUME NEW k, NEW v, Says(wal, Len(wal) - 1, k, v)
               PROVE  Says(wal, Len(wal), k, IF k = loc[t].key THEN loc[t].value ELSE v)
    OBVIOUS
  <2>1. Says(wal, Len(wal) - 1 + 1, k, IF wal[Len(wal) - 1 + 1].key = k
                                       THEN wal[Len(wal) - 1 + 1].value ELSE v)
    BY <1>4, SaysNextLine
  <2>2. Len(wal) - 1 + 1 = Len(wal)
    BY <1>3
  <2> QED
    BY <1>3, <2>1, <2>2
<1>10. acked' = [acked EXCEPT ![loc[t].key] = loc[t].value]
       /\ memtable' = MemTablePut(memtable, loc[t].key, loc[t].value, loc[t].seq)
       /\ phase' = phase /\ phase = "up"
  BY DEF ApplyWrite, startup
<1>11. AckedAreLogged => AckedAreLogged'
  BY <1>2, <1>3, <1>4, <1>8, <1>9, <1>10 DEF TableAgrees, AckedAreLogged, CoreTypeOK
<1>12. \A k \in Key : LastValue(memtable', k)
                        = IF k = loc[t].key THEN loc[t].value ELSE LastValue(memtable, k)
  BY <1>2, <1>10, LastValueAfterPut DEF CoreTypeOK
<1>13. MemTableFollowsWal'
  BY <1>3, <1>4, <1>8, <1>9, <1>10, <1>12 DEF TableAgrees, MemTableFollowsWal
<1> QED
  BY <1>7, <1>11, <1>13 DEF TableAgrees, LoggedIsLastLine

\* The process dies.
LEMMA DieAgrees ==
  ASSUME CoreTypeOK, OrderInv, WalAgrees, Die
  PROVE  WalAgrees'
<1>1. wal' = wal /\ wal \in Seq(Line)
  BY DEF Die, disk, CoreTypeOK, Line
<1>2. \A u \in Client : pc'[u] # "logged"
  BY DEF Die, Home, Thread
<1>3. AppliedLines' = Len(wal)
  BY <1>1, <1>2 DEF AppliedLines
<1>4. AckedAreLogged'
  <2> SUFFICES ASSUME NEW k \in Key
               PROVE  Says(wal, Len(wal), k, acked'[k])
    BY <1>1, <1>3 DEF AckedAreLogged
  <2>1. CASE \A t \in Client : pc[t] # "logged"
    BY <2>1 DEF Die, WalAgrees, TableAgrees, AckedAreLogged, AppliedLines
  <2>2. ASSUME NEW t \in Client, pc[t] = "logged"
        PROVE  Says(wal, Len(wal), k, acked'[k])
    <3>1. \A u \in Client : pc[u] = "logged" => u = t
      BY <2>2, OneLogged
    <3>2. acked'[k] = IF loc[t].key = k THEN loc[t].value ELSE acked[k]
      BY <2>2, <3>1 DEF Die
    <3>3. /\ wal # <<>> /\ Len(wal) - 1 \in Nat /\ Len(wal) - 1 + 1 = Len(wal)
          /\ wal[Len(wal)].key = loc[t].key /\ wal[Len(wal)].value = loc[t].value
      BY <1>1, <2>2 DEF WalAgrees, TableAgrees, LoggedIsLastLine
    <3>4. Says(wal, Len(wal) - 1, k, acked[k])
      BY <2>2 DEF WalAgrees, TableAgrees, AckedAreLogged, AppliedLines
    <3> QED
      BY <3>2, <3>3, <3>4, SaysNextLine
  <2> QED
    BY <2>1, <2>2
<1> QED
  BY <1>2, <1>4 DEF Die, WalAgrees, TableAgrees, LoggedIsLastLine, MemTableFollowsWal
\* Replay of one line.
LEMMA ReplayAgrees ==
  ASSUME OneWordValues, CoreTypeOK, OrderInv, WalAgrees, ReplayLine
  PROVE  WalAgrees'
<1>1. wal' = wal /\ wal \in Seq(Line) /\ pos + 1 \in 1 .. Len(wal) /\ pos \in Nat
  BY DEF ReplayLine, disk, CoreTypeOK, Line
<1>2. wal[pos + 1] \in Line
  BY <1>1, ElementType
<1>3. wal[pos + 1].key \in Key /\ wal[pos + 1].value \in Stored
      /\ Word(wal[pos + 1].value) = wal[pos + 1].value
  BY <1>2 DEF Line, OneWordValues, Word, Stored
<1>4. \A k \in Key : LastValue(memtable', k)
         = IF wal[pos + 1].key = k THEN wal[pos + 1].value ELSE LastValue(memtable, k)
  BY <1>3, LastValueAfterPut DEF ReplayLine, CoreTypeOK
<1>5. \A k \in Key : Says(wal, pos + 1, k, LastValue(memtable', k))
  BY <1>1, <1>4, SaysNextLine DEF ReplayLine, WalAgrees, TableAgrees, MemTableFollowsWal
<1>6. MemTableFollowsWal'
  BY <1>1, <1>5 DEF ReplayLine, MemTableFollowsWal
<1> QED
  BY <1>1, <1>6 DEF ReplayLine, WalAgrees, TableAgrees, LoggedIsLastLine, AckedAreLogged, AppliedLines

\* The other steps of a restart, with nothing in the MANIFEST.
LEMMA StartAgrees ==
  ASSUME CoreTypeOK, OrderInv, WalAgrees, Restart \/ RecoverEnd \/ ReplayEnd
  PROVE  WalAgrees'
<1>1. wal' = wal /\ pc' = pc /\ loc' = loc /\ acked' = acked /\ memtable' = memtable
  BY DEF Restart, RecoverEnd, ReplayEnd, disk
<1>2. \A t \in Client : pc[t] # "logged"
  BY DEF Restart, RecoverEnd, ReplayEnd, OrderInv, QuietWhileStarting, Thread, Home
<1>3. AppliedLines = Len(wal) /\ AppliedLines' = Len(wal) /\ Len(wal) \in Nat
  BY <1>1, <1>2 DEF AppliedLines, CoreTypeOK
<1>4. \A k \in Key : LastValue(EmptyTable, k) = NotFound /\ Says(wal, 0, k, NotFound)
  BY DEF LastValue, EmptyTable, Says
<1>5. MemTableFollowsWal'
  BY <1>1, <1>3, <1>4 DEF Restart, RecoverEnd, ReplayEnd, WalAgrees, TableAgrees, MemTableFollowsWal
<1> QED
  BY <1>1, <1>3, <1>5 DEF WalAgrees, TableAgrees, LoggedIsLastLine, AckedAreLogged

\* A step that is no write, clears nothing, truncates nothing and restarts
\* nothing keeps the agreement.
LEMMA OthersAgree ==
  ASSUME CoreTypeOK, TableAgrees, NEW t \in Thread, pc[t] # "logged",
         UNCHANGED <<wal, phase, pos, memtable, acked>>,
         pc' = pc \/ \E l : l # "logged" /\ pc' = [pc EXCEPT ![t] = l],
         loc' = loc \/ \E r : loc' = [loc EXCEPT ![t] = r]
  PROVE  TableAgrees' /\ (AckedAreLogged => AckedAreLogged')
<1>1. \A u \in Client : pc'[u] = "logged" <=> pc[u] = "logged"
  BY DEF CoreTypeOK, Thread
<1>2. \A u \in Client : pc[u] = "logged" => loc'[u] = loc[u]
  BY DEF CoreTypeOK, Thread
<1>3. AppliedLines' = AppliedLines
  BY <1>1 DEF AppliedLines
<1> QED
  BY <1>1, <1>2, <1>3 DEF TableAgrees, LoggedIsLastLine, AckedAreLogged, MemTableFollowsWal

\* A thread moves to a place that asks for no listed file.
LEMMA StillNothingListed ==
  ASSUME CoreTypeOK, NothingListed, NEW t \in Thread, NEW l,
         l \notin AfterListing, l # "scan",
         levels' = levels,
         pc' = [pc EXCEPT ![t] = l],
         loc' = loc \/ \E r : loc' = [loc EXCEPT ![t] = r]
  PROVE  NothingListed'
<1>1. \A u \in Thread : u # t => pc'[u] = pc[u] /\ loc'[u] = loc[u]
  BY DEF CoreTypeOK
<1>2. pc'[t] = l
  BY DEF CoreTypeOK
<1> QED
  BY <1>1, <1>2 DEF NothingListed

\* One step of the engine keeps ReplayInv.
LEMMA ReplayStep ==
  ASSUME OneWordValues, CoreTypeOK, OrderInv, ReplayInv, [Next]_vars
  PROVE  ReplayInv'
<1>1. CASE manifest' # manifest
  <2>1. \E x : manifest' = Append(manifest, x)
    BY <1>1, ZenonT(60)
    DEF Next, vars, Write, Put, Del, BeginWrite, LogWrite, ApplyWrite, Get, GetBegin, GetLevel,
        GetReturn, Flush, FlushEmpty, FlushCopy, FlushWrite, FlushAdd, FlushClear, FlushTruncate,
        Compact, CompactBegin, CompactScan, CompactPick, CompactMerge, CompactWrite,
        CompactDropSource, CompactDropTarget, CompactInstall, CompactPersist, MetaThrows, Die,
        FlushWorker, FlusherTest, FlusherPark, FlusherCheck, Crash, Recovery, Restart, RecoverLine,
        RecoverEnd, ReplayLine, ReplayEnd, disk, startup
  <2> QED
    BY <2>1, AppendIsSequence DEF ReplayInv
<1> SUFFICES ASSUME manifest' = manifest, manifest = <<>>, NothingListed, WalAgrees
             PROVE  NothingListed' /\ WalAgrees'
  BY <1>1 DEF ReplayInv
<1> USE KVDBAssumption DEF disk, startup
<1>2. ASSUME NEW t \in Client, NEW k \in Key, NEW v \in Stored, BeginWrite(t, k, v)
      PROVE  NothingListed' /\ WalAgrees'
  BY <1>2, StillNothingListed, OthersAgree DEF WalAgrees, BeginWrite, Goto, Keep, Thread, AfterListing
<1>3. ASSUME NEW t \in Client, LogWrite(t)
      PROVE  NothingListed' /\ WalAgrees'
  BY <1>3, StillNothingListed, LogAgrees DEF WalAgrees, LogWrite, Goto, Keep, Thread, AfterListing
<1>4. ASSUME NEW t \in Client, ApplyWrite(t)
      PROVE  NothingListed' /\ WalAgrees'
  <2>1. \/ pc' = [pc EXCEPT ![t] = "idle"]
        \/ pc' = [[pc EXCEPT ![t] = "idle"] EXCEPT ![Flusher] = IF @ = "wait" THEN "eval" ELSE @]
    BY <1>4 DEF ApplyWrite, Notified
  <2>2. \A u \in Thread : pc'[u] = pc[u] \/ pc'[u] \in {"idle", "eval"}
    BY <2>1 DEF CoreTypeOK, Thread
  <2>3. pc'[t] = "idle" /\ \A u \in Thread : u # t => loc'[u] = loc[u]
    BY <1>4, <2>1 DEF ApplyWrite, Keep, CoreTypeOK, Thread
  <2>4. NothingListed'
    BY <1>4, <2>2, <2>3 DEF ApplyWrite, NothingListed, AfterListing
  <2> QED
    BY <1>4, <2>4, ApplyAgrees DEF WalAgrees
<1>5. ASSUME NEW t \in Client, Get(t)
      PROVE  NothingListed' /\ WalAgrees'
  BY <1>5, GetFrame, StillNothingListed, OthersAgree DEF WalAgrees, AfterListing
<1>6. ASSUME NEW t \in Thread, FlushEmpty(t) \/ FlushCopy(t)
      PROVE  NothingListed' /\ WalAgrees'
  BY <1>6, FlushFrame, StillNothingListed, OthersAgree DEF WalAgrees, AfterListing
<1>18. ASSUME NEW t \in Thread, FlushWrite(t)
       PROVE  NothingListed' /\ WalAgrees'
  BY <1>18, StillNothingListed, OthersAgree DEF WalAgrees, FlushWrite, Goto, Keep, AfterListing
<1>7. ASSUME NEW t \in Thread, FlushAdd(t)
      PROVE  NothingListed' /\ WalAgrees'
  BY <1>7, AppendIsSequence DEF FlushAdd, ReplayInv
<1>8. ASSUME NEW t \in Thread,
             \/ FlushClear(t) \/ FlushTruncate(t) \/ CompactMerge(t) \/ CompactWrite(t)
             \/ CompactDropSource(t) \/ CompactDropTarget(t) \/ CompactInstall(t)
             \/ CompactPersist(t)
      PROVE  FALSE
  BY <1>8 DEF FlushClear, FlushTruncate, CompactMerge, CompactWrite, CompactDropSource,
              CompactDropTarget, CompactInstall, CompactPersist, NothingListed, AfterListing
<1>9. ASSUME FlushWorker
      PROVE  NothingListed' /\ WalAgrees'
  BY <1>9, WorkerFrame, StillNothingListed, OthersAgree DEF WalAgrees, AfterListing
<1>10. ASSUME NEW t \in Thread, CompactBegin(t)
       PROVE  NothingListed' /\ WalAgrees'
  <2>1. /\ pc' = [pc EXCEPT ![t] = "scan"] /\ loc' = [loc EXCEPT ![t] = [scan |-> <<>>]]
        /\ pc[t] # "logged" /\ UNCHANGED <<wal, phase, pos, memtable, acked, levels>>
    BY <1>10 DEF CompactBegin, Goto, Keep
  <2>2. loc'[t].scan = <<>> /\ pc'[t] = "scan"
        /\ \A u \in Thread : u # t => pc'[u] = pc[u] /\ loc'[u] = loc[u]
    BY <2>1 DEF CoreTypeOK
  <2>3. <<>> \in Seq({<<>>})
    OBVIOUS
  <2>4. NothingListed'
    BY <2>1, <2>2, <2>3 DEF NothingListed, AfterListing
  <2>5. WalAgrees'
    BY <2>1, OthersAgree DEF WalAgrees
  <2> QED
    BY <2>4, <2>5
<1>11. ASSUME NEW t \in Thread, CompactScan(t)
       PROVE  NothingListed' /\ WalAgrees'
  <2>0. loc[t].scan \in Seq({<<>>}) /\ Len(loc[t].scan) < MAX_LEVEL
    BY <1>11 DEF CompactScan, NothingListed
  <2>1. loc[t].scan \in Seq({<<>>}) /\ Len(loc[t].scan) \in Level
    BY <2>0, StrategyAssumption, SMTT(60) DEF Level
  <2>2. levels[Len(loc[t].scan)] = <<>>
    BY <2>1 DEF NothingListed
  <2> DEFINE longer == Append(loc[t].scan, <<>>)
  <2>3. longer \in Seq({<<>>})
    BY <2>1
  <2>4. /\ pc' = pc /\ loc' = [loc EXCEPT ![t] = [scan |-> longer]]
        /\ pc[t] # "logged" /\ UNCHANGED <<wal, phase, pos, memtable, acked, levels>>
    BY <1>11, <2>2 DEF CompactScan, Keep
  <2> HIDE DEF longer
  <2>5. loc'[t].scan = longer /\ \A u \in Thread : u # t => loc'[u] = loc[u]
    BY <2>4 DEF CoreTypeOK
  <2> QED
    BY <2>3, <2>4, <2>5, OthersAgree DEF WalAgrees, NothingListed
<1>12. ASSUME NEW t \in Thread, CompactPick(t)
       PROVE  NothingListed' /\ WalAgrees'
  <2>1. loc[t].scan \in Seq({<<>>}) /\ Len(loc[t].scan) = MAX_LEVEL
    BY <1>12 DEF CompactPick, NothingListed
  <2>2. [n \in Level |-> loc[t].scan[n + 1]] = [n \in Level |-> <<>>]
    BY <2>1, StrategyAssumption, SMTT(60) DEF Level
  <2>3. Return(t)
    BY <1>12, <2>2, NothingToPick DEF CompactPick
  <2>4. /\ pc' = [pc EXCEPT ![t] = Home(t)] /\ loc' = [loc EXCEPT ![t] = NoLoc]
        /\ pc[t] # "logged" /\ UNCHANGED <<wal, phase, pos, memtable, acked, levels>>
    BY <1>12, <2>3 DEF CompactPick, Return, Goto, Keep
  <2>5. Home(t) \in {"idle", "eval"}
    BY DEF Home
  <2> QED
    BY <2>4, <2>5, StillNothingListed, OthersAgree DEF WalAgrees, AfterListing
<1>13. ASSUME Die
       PROVE  NothingListed' /\ WalAgrees'
  <2>1. NothingListed'
    BY <1>13 DEF Die, Home, NothingListed, AfterListing
  <2> QED
    BY <1>13, <2>1, DieAgrees
<1>14. ASSUME Restart \/ RecoverEnd \/ ReplayEnd
       PROVE  NothingListed' /\ WalAgrees'
  BY <1>14, StartAgrees DEF Restart, RecoverEnd, ReplayEnd, NothingListed
<1>15. ASSUME RecoverLine
       PROVE  FALSE
  BY <1>15 DEF RecoverLine, CoreTypeOK
<1>16. ASSUME ReplayLine
       PROVE  NothingListed' /\ WalAgrees'
  BY <1>16, ReplayAgrees DEF ReplayLine, NothingListed
<1>17. CASE UNCHANGED vars
  BY <1>17 DEF vars, NothingListed, WalAgrees, TableAgrees, LoggedIsLastLine, AckedAreLogged, AppliedLines,
               MemTableFollowsWal
<1> QED
  BY <1>2, <1>3, <1>4, <1>5, <1>6, <1>7, <1>8, <1>9, <1>10, <1>11, <1>12, <1>13, <1>14, <1>15,
     <1>16, <1>17, <1>18 DEF Next, Write, Put, Del, Flush, Compact, MetaThrows, Crash, Recovery, Stored

\* ReplayInv holds in every state.
LEMMA ReplayInvHolds == ASSUME OneWordValues PROVE Spec => []ReplayInv
<1>1. Init => ReplayInv
  <2> SUFFICES ASSUME Init PROVE ReplayInv
    OBVIOUS
  <2>1. manifest \in Seq({}) /\ manifest = <<>>
    BY DEF Init
  <2>2. NothingListed
    BY DEF Init, NothingListed, AfterListing, Home
  <2>3. \A t \in Client : pc[t] # "logged"
    BY DEF Init, Home, Thread
  <2>4. AppliedLines = 0
    BY <2>3 DEF Init, AppliedLines
  <2>5. \A k \in Key : LastValue(memtable, k) = NotFound /\ acked[k] = NotFound
    BY DEF Init, LastValue, EmptyTable
  <2>6. wal = <<>> /\ phase = "up" /\ \A k \in Key : Says(wal, 0, k, NotFound)
    BY DEF Init, Says
  <2>7. LoggedIsLastLine
    BY <2>3 DEF LoggedIsLastLine
  <2>8. AckedAreLogged /\ MemTableFollowsWal
    BY <2>4, <2>5, <2>6 DEF AckedAreLogged, MemTableFollowsWal
  <2>9. WalAgrees
    BY <2>7, <2>8 DEF WalAgrees, TableAgrees
  <2> QED
    BY <2>1, <2>2, <2>9 DEF ReplayInv, IsSequence
<1>2. CoreTypeOK /\ OrderInv /\ ReplayInv /\ [Next]_vars => ReplayInv'
  BY ReplayStep
<1> QED
  BY <1>1, <1>2, TypeCorrect, OrderHolds, PTL DEF Spec

\* The greatest position of a sequence is its length.
LEMMA MaxOfFirst == ASSUME NEW n \in Nat, n > 0 PROVE Max(1 .. n) = n
<1>1. n \in 1 .. n /\ \A y \in 1 .. n : n >= y
  OBVIOUS
<1>2. \A x \in 1 .. n : (\A y \in 1 .. n : x >= y) => x = n
  OBVIOUS
<1> QED
  BY <1>1, <1>2 DEF Max

\* MemTable::get with a number above all versions returns the last one.
LEMMA GetLastValue ==
  ASSUME NEW m \in MemTable, NEW s \in Nat, Below(m, s), NEW k \in Key
  PROVE  MemTableGet(m, k, s) = IF LastValue(m, k) = TOMBSTONE THEN NotFound ELSE LastValue(m, k)
<1>1. m[k] \in Seq(Version)
  BY DEF MemTable
<1>2. DOMAIN m[k] = 1 .. Len(m[k]) /\ Len(m[k]) \in Nat
  BY <1>1
<1>3. \A i \in DOMAIN m[k] : m[k][i] \in Version
  BY <1>1
<1>4. \A i \in DOMAIN m[k] : m[k][i].seq <= s
  BY <1>3 DEF Below, Version
<1>5. {i \in DOMAIN m[k] : m[k][i].seq <= s} = 1 .. Len(m[k])
  BY <1>2, <1>4
<1>6. CASE m[k] = <<>>
  BY <1>2, <1>5, <1>6 DEF MemTableGet, LastValue
<1>7. CASE m[k] # <<>>
  <2>1. Len(m[k]) > 0
    BY <1>1, <1>7, EmptySeq
  <2>2. Max(1 .. Len(m[k])) = Len(m[k]) /\ 1 \in 1 .. Len(m[k])
    BY <1>2, <2>1, MaxOfFirst
  <2> QED
    BY <1>5, <1>7, <2>2 DEF MemTableGet, LastValue
<1> QED
  BY <1>6, <1>7

\* As long as no file is listed, a get between two client calls returns the last
\* acknowledged write of its key, through any number of crashes, replays of the
\* WAL and crashes during a replay, with flushes and compactions under way.  Only
\* values that the text format gives back unchanged are claimed anything about.
THEOREM ReplayIsFaithful == ASSUME OneWordValues PROVE Spec => []ReplayRestores
<1>1. CoreTypeOK /\ OrderInv /\ ReplayInv => ReplayRestores
  <2> SUFFICES ASSUME CoreTypeOK, OrderInv, NothingListed, WalAgrees, Quiet, NEW k \in Key
               PROVE  Lookup(k) = IF acked[k] = TOMBSTONE THEN NotFound ELSE acked[k]
    BY DEF ReplayInv, ReplayRestores, ReadYourWrites
  <2>1. \A n \in Level : LevelGet(n, k, seq) = NotFound
    <3>1. FirstHit(<<>>, k, seq) = NotFound /\ Reverse(<<>>) = <<>>
      BY DEF FirstHit, Reverse
    <3> QED
      BY <3>1 DEF LevelGet, NothingListed
  <2>2. Lookup(k) = MemTableGet(memtable, k, seq)
    BY <2>1 DEF Lookup
  <2>3. AppliedLines = Len(wal) /\ wal \in Seq(Line)
    BY DEF AppliedLines, Quiet, CoreTypeOK, Line
  <2>4. LastValue(memtable, k) = acked[k]
    BY <2>3, SaysOnce DEF WalAgrees, TableAgrees, AckedAreLogged, MemTableFollowsWal, Quiet
  <2> QED
    BY <2>2, <2>4, GetLastValue DEF CoreTypeOK, OrderInv
<1> QED
  BY <1>1, TypeCorrect, OrderHolds, ReplayInvHolds, PTL
(***************************************************************************)
(* The MANIFEST lists what the levels list, as long as nothing is          *)
(* compacted.                                                              *)
(***************************************************************************)
\* No compaction ever begins.
NoCompaction == \A t \in Thread : pc[t] # "scan"

CompactingPlaces ==
    {"scan", "merge", "merged", "compact_written", "compact_source", "compact_target",
     "compact_installed"}

\* The number of MANIFEST lines that the levels reflect.
LinesListed == IF phase = "down" THEN 0 ELSE IF phase = "recover" THEN pos ELSE Len(manifest)

ListInv ==
    /\ IsSequence(manifest) /\ IsSequence(levels[0]) /\ DOMAIN levels = Level
    /\ \A i \in 1 .. Len(manifest) : manifest[i].level = 0
    /\ \A t \in Thread : pc[t] \notin CompactingPlaces
    /\ phase = "down" => pos = 0
    /\ LinesListed <= Len(manifest) /\ Len(levels[0]) = LinesListed
    /\ \A i \in 1 .. LinesListed : /\ levels[0][i].file = manifest[i].meta.file
                                   /\ levels[0][i].min = manifest[i].meta.min
                                   /\ levels[0][i].max = manifest[i].meta.max

\* The entries of a sequence with one more at its end.
LEMMA AppendEntries ==
  ASSUME NEW s, NEW x, IsSequence(s)
  PROVE  /\ Len(s) \in Nat /\ DOMAIN s = 1 .. Len(s)
         /\ Len(Append(s, x)) = Len(s) + 1
         /\ \A i \in 1 .. Len(s) : Append(s, x)[i] = s[i]
         /\ Append(s, x)[Len(s) + 1] = x
<1>1. PICK S : s \in Seq(S)
  BY DEF IsSequence
<1> DEFINE T == S \cup {x}
<1>2. s \in Seq(T) /\ x \in T
  BY <1>1, SeqMonotonic
<1> HIDE DEF T
<1> QED
  BY <1>2, AppendProperties, LenProperties

\* A thread moves outside compactions; the lists stay.
LEMMA ListMove ==
  ASSUME CoreTypeOK, ListInv, NEW t \in Thread, NEW l, l \notin CompactingPlaces,
         pc' = [pc EXCEPT ![t] = l],
         UNCHANGED <<manifest, levels, phase, pos>>
  PROVE  ListInv'
<1>1. \A u \in Thread : pc'[u] \notin CompactingPlaces
  BY DEF CoreTypeOK, ListInv
<1>2. LinesListed' = LinesListed
  BY DEF LinesListed
<1> QED
  BY <1>1, <1>2 DEF ListInv

\* With no compaction under way, none takes a step.
LEMMA NobodyCompacts ==
  ASSUME CoreTypeOK, ListInv, NoCompaction', NEW t \in Thread, Compact(t)
  PROVE  FALSE
<1>1. CASE CompactBegin(t)
  BY <1>1 DEF CompactBegin, Goto, NoCompaction, CoreTypeOK
<1> QED
  BY <1>1
  DEF Compact, CompactScan, CompactPick, CompactMerge, CompactWrite, CompactDropSource,
      CompactDropTarget, CompactInstall, CompactPersist, ListInv, CompactingPlaces

\* Every step keeps ListInv.
LEMMA ListStep ==
  ASSUME CoreTypeOK, ListInv, NoCompaction', [Next]_vars
  PROVE  ListInv'
<1> USE KVDBAssumption DEF disk, startup
<1>0. 0 \in Level
  BY StrategyAssumption DEF Level
<1>1. ASSUME NEW t \in Client, NEW k \in Key, NEW v \in Stored, BeginWrite(t, k, v)
      PROVE  ListInv'
  BY <1>1, ListMove DEF BeginWrite, Goto, Thread, CompactingPlaces
<1>2. ASSUME NEW t \in Client, LogWrite(t)
      PROVE  ListInv'
  BY <1>2, ListMove DEF LogWrite, Goto, Thread, CompactingPlaces
<1>3. ASSUME NEW t \in Client, ApplyWrite(t)
      PROVE  ListInv'
  <2>1. \/ pc' = [pc EXCEPT ![t] = "idle"]
        \/ pc' = [[pc EXCEPT ![t] = "idle"] EXCEPT ![Flusher] = IF @ = "wait" THEN "eval" ELSE @]
    BY <1>3 DEF ApplyWrite, Notified
  <2>2. \A u \in Thread : pc'[u] = pc[u] \/ pc'[u] \in {"idle", "eval"}
    BY <2>1 DEF CoreTypeOK, Thread
  <2>3. \A u \in Thread : pc'[u] \notin CompactingPlaces
    BY <2>2 DEF ListInv, CompactingPlaces
  <2>4. UNCHANGED <<manifest, levels, phase, pos>>
    BY <1>3 DEF ApplyWrite
  <2>5. LinesListed' = LinesListed
    BY <2>4 DEF LinesListed
  <2> QED
    BY <2>3, <2>4, <2>5 DEF ListInv
<1>4. ASSUME NEW t \in Client, Get(t)
      PROVE  ListInv'
  BY <1>4, GetFrame, ListMove DEF CompactingPlaces
<1>5. ASSUME NEW t \in Thread, FlushEmpty(t) \/ FlushCopy(t)
      PROVE  ListInv'
  BY <1>5, FlushFrame, ListMove DEF CompactingPlaces
<1>6. ASSUME NEW t \in Thread, FlushWrite(t)
      PROVE  ListInv'
  BY <1>6, ListMove DEF FlushWrite, Goto, CompactingPlaces
<1>7. ASSUME NEW t \in Thread, FlushClear(t) \/ FlushTruncate(t)
      PROVE  ListInv'
  <2>1. CASE FlushClear(t)
    BY <2>1, ListMove DEF FlushClear, Goto, CompactingPlaces
  <2>2. CASE FlushTruncate(t)
    BY <2>2, ListMove DEF FlushTruncate, AfterFlush, Goto, CompactingPlaces
  <2> QED
    BY <1>7, <2>1, <2>2
<1>8. ASSUME NEW t \in Thread, FlushAdd(t)
      PROVE  ListInv'
  <2> DEFINE meta == MetaOf(loc[t].fid, files[loc[t].fid])
             line == [level |-> 0, meta |-> meta]
  <2>1. line.level = 0 /\ line.meta = meta
    OBVIOUS
  <2>2. /\ phase = "up" /\ phase' = phase /\ pos' = pos
        /\ levels' = [levels EXCEPT ![0] = Append(@, meta)]
        /\ manifest' = Append(manifest, line)
        /\ pc' = [pc EXCEPT ![t] = "flush_added"]
    BY <1>8 DEF FlushAdd, Goto
  <2> HIDE DEF meta, line
  <2>3. \A u \in Thread : pc'[u] \notin CompactingPlaces
    BY <2>2 DEF CoreTypeOK, ListInv, CompactingPlaces
  <2>4. levels'[0] = Append(levels[0], meta) /\ DOMAIN levels' = Level
    BY <1>0, <2>2 DEF ListInv
  <2>5. IsSequence(manifest') /\ IsSequence(levels'[0])
    BY <2>2, <2>4, AppendIsSequence DEF ListInv
  <2>6. /\ Len(manifest) \in Nat /\ Len(manifest') = Len(manifest) + 1
        /\ \A i \in 1 .. Len(manifest) : manifest'[i] = manifest[i]
        /\ manifest'[Len(manifest) + 1] = line
    BY <2>2, AppendEntries DEF ListInv
  <2>7. /\ Len(levels[0]) = Len(manifest) /\ Len(levels'[0]) = Len(manifest) + 1
        /\ \A i \in 1 .. Len(manifest) : levels'[0][i] = levels[0][i]
        /\ levels'[0][Len(manifest) + 1] = meta
    BY <2>2, <2>4, AppendEntries DEF ListInv, LinesListed
  <2>8. LinesListed = Len(manifest) /\ LinesListed' = Len(manifest) + 1
    BY <2>2, <2>6 DEF LinesListed
  <2>9. \A i \in 1 .. Len(manifest) + 1 : i \in 1 .. Len(manifest) \/ i = Len(manifest) + 1
    BY <2>6
  <2>10. \A i \in 1 .. Len(manifest') : manifest'[i].level = 0
    BY <2>1, <2>6, <2>9 DEF ListInv
  <2>11. \A i \in 1 .. Len(manifest) + 1 : /\ levels'[0][i].file = manifest'[i].meta.file
                                           /\ levels'[0][i].min = manifest'[i].meta.min
                                           /\ levels'[0][i].max = manifest'[i].meta.max
    <3>1. \A i \in 1 .. Len(manifest) : /\ levels[0][i].file = manifest[i].meta.file
                                        /\ levels[0][i].min = manifest[i].meta.min
                                        /\ levels[0][i].max = manifest[i].meta.max
      BY <2>8 DEF ListInv
    <3> QED
      BY <2>1, <2>6, <2>7, <2>9, <3>1, SMTT(60)
  <2> QED
    BY <2>2, <2>3, <2>4, <2>5, <2>6, <2>7, <2>8, <2>10, <2>11 DEF ListInv
<1>9. ASSUME FlushWorker
      PROVE  ListInv'
  BY <1>9, WorkerFrame, ListMove DEF CompactingPlaces
<1>10. ASSUME NEW t \in Thread, Compact(t)
       PROVE  FALSE
  BY <1>10, NobodyCompacts
<1>11. ASSUME Die
       PROVE  ListInv'
  <2>1. /\ phase' = "down" /\ pos' = 0 /\ manifest' = manifest
        /\ levels' = [n \in Level |-> <<>>] /\ pc' = [t \in Thread |-> Home(t)]
    BY <1>11 DEF Die
  <2>2. levels'[0] = <<>> /\ <<>> \in Seq({}) /\ Len(<<>>) = 0 /\ DOMAIN levels' = Level
    BY <1>0, <2>1
  <2>3. \A u \in Thread : pc'[u] \notin CompactingPlaces
    BY <2>1 DEF Home, CompactingPlaces
  <2>4. LinesListed' = 0 /\ Len(manifest) \in Nat
    BY <2>1, AppendEntries DEF LinesListed, ListInv
  <2>5. IsSequence(levels'[0]) /\ IsSequence(manifest')
    BY <2>1, <2>2 DEF ListInv, IsSequence
  <2>6. \A i \in 1 .. LinesListed' : FALSE
    BY <2>4
  <2> QED
    BY <2>1, <2>2, <2>3, <2>4, <2>5, <2>6 DEF ListInv
<1>12. ASSUME Restart \/ RecoverEnd \/ ReplayEnd \/ ReplayLine
       PROVE  ListInv'
  <2>1. manifest' = manifest /\ levels' = levels /\ pc' = pc
    BY <1>12 DEF Restart, RecoverEnd, ReplayEnd, ReplayLine
  <2>2. LinesListed' = LinesListed /\ (phase' = "down" => pos' = 0)
    BY <1>12, <2>1 DEF Restart, RecoverEnd, ReplayEnd, ReplayLine, LinesListed, ListInv
  <2> QED
    BY <2>1, <2>2 DEF ListInv
<1>13. ASSUME RecoverLine
       PROVE  ListInv'
  <2> DEFINE line == manifest[pos + 1]
             meta == [line.meta EXCEPT !.size = 0]
  <2>1. pos \in Nat /\ pos < Len(manifest) /\ Len(manifest) \in Nat /\ LinesListed = pos
    BY <1>13, AppendEntries DEF RecoverLine, CoreTypeOK, ListInv, LinesListed
  <2>2. line.level = 0
    BY <2>1 DEF ListInv
  <2>3. /\ levels' = [levels EXCEPT ![0] = Append(@, meta)]
        /\ phase = "recover" /\ phase' = phase /\ pos' = pos + 1
        /\ manifest' = manifest /\ pc' = pc
    BY <1>0, <1>13, <2>2 DEF RecoverLine
  <2>4. meta.file = line.meta.file /\ meta.min = line.meta.min /\ meta.max = line.meta.max
    OBVIOUS
  <2> HIDE DEF meta
  <2>5. levels'[0] = Append(levels[0], meta) /\ DOMAIN levels' = Level
    BY <1>0, <2>3 DEF ListInv
  <2>6. /\ Len(levels[0]) = pos /\ Len(levels'[0]) = pos + 1
        /\ \A i \in 1 .. pos : levels'[0][i] = levels[0][i]
        /\ levels'[0][pos + 1] = meta
    BY <2>1, <2>5, AppendEntries DEF ListInv
  <2>7. IsSequence(levels'[0])
    BY <2>5, AppendIsSequence DEF ListInv
  <2>8. LinesListed' = pos + 1
    BY <2>3 DEF LinesListed
  <2>9. \A i \in 1 .. pos + 1 : i \in 1 .. pos \/ i = pos + 1
    BY <2>1
  <2>10. \A i \in 1 .. pos + 1 : /\ levels'[0][i].file = manifest[i].meta.file
                                 /\ levels'[0][i].min = manifest[i].meta.min
                                 /\ levels'[0][i].max = manifest[i].meta.max
    <3>1. \A i \in 1 .. pos : /\ levels[0][i].file = manifest[i].meta.file
                              /\ levels[0][i].min = manifest[i].meta.min
                              /\ levels[0][i].max = manifest[i].meta.max
      BY <2>1 DEF ListInv, LinesListed
    <3>2. \A i \in 1 .. pos : /\ levels'[0][i].file = manifest[i].meta.file
                              /\ levels'[0][i].min = manifest[i].meta.min
                              /\ levels'[0][i].max = manifest[i].meta.max
      BY <2>6, <3>1, Zenon
    <3>3. /\ levels'[0][pos + 1].file = manifest[pos + 1].meta.file
          /\ levels'[0][pos + 1].min = manifest[pos + 1].meta.min
          /\ levels'[0][pos + 1].max = manifest[pos + 1].meta.max
      BY <2>4, <2>6, Zenon
    <3> QED
      BY <2>9, <3>2, <3>3, Zenon
  <2> QED
    BY <2>1, <2>3, <2>5, <2>6, <2>7, <2>8, <2>10 DEF ListInv
<1>14. CASE UNCHANGED vars
  BY <1>14 DEF vars, ListInv, LinesListed
<1> QED
  BY <1>1, <1>2, <1>3, <1>4, <1>5, <1>6, <1>7, <1>8, <1>9, <1>10, <1>11, <1>12, <1>13, <1>14
     DEF Next, Write, Put, Del, Flush, MetaThrows, Crash, Recovery, Stored

\* The engine starts with nothing listed.
LEMMA ListInit == Init => ListInv
<1> SUFFICES ASSUME Init PROVE ListInv
  OBVIOUS
<1>1. 0 \in Level
  BY StrategyAssumption DEF Level
<1>2. manifest = <<>> /\ levels[0] = <<>> /\ DOMAIN levels = Level /\ <<>> \in Seq({})
      /\ Len(<<>>) = 0 /\ phase = "up"
  BY <1>1 DEF Init
<1>3. \A t \in Thread : pc[t] \notin CompactingPlaces
  BY DEF Init, Home, CompactingPlaces
<1> QED
  BY <1>2, <1>3 DEF ListInv, IsSequence, LinesListed

\* Recovery lists what the engine had listed: in a behaviour in which nothing is
\* compacted, L0 is the list of the MANIFEST's ADD lines whenever the engine is
\* up, whichever threads flushed and wherever crashes cut a flush or an earlier
\* recovery short.
THEOREM RecoveryListsEverything == Spec /\ []NoCompaction => []LevelsFollowManifest
<1>1. Init => ListInv
  BY ListInit
<1>2. CoreTypeOK /\ ListInv /\ NoCompaction' /\ [Next]_vars => ListInv'
  BY ListStep
<1>3. ListInv => LevelsFollowManifest
  <2> SUFFICES ASSUME ListInv, phase = "up" PROVE LevelsFollowManifest
    BY DEF LevelsFollowManifest
  <2>1. LinesListed = Len(manifest) /\ DOMAIN levels[0] = 1 .. Len(levels[0])
    BY AppendEntries DEF LinesListed, ListInv
  <2> QED
    BY <2>1 DEF ListInv, LevelsFollowManifest
<1> QED
  BY <1>1, <1>2, <1>3, TypeCorrect, PTL DEF Spec

(***************************************************************************)
(* The order of L0.  As long as at most one thread flushes at a time and   *)
(* nothing is compacted, what a flush adds is newer than what is there.    *)
(***************************************************************************)
FlushPlaces == {"flush_copied", "flush_written", "flush_added", "flush_cleared"}

\* At most one thread is inside flush: the code does not see to it, the caller
\* has to.
OneFlush == \A t, u \in Thread : pc[t] \in FlushPlaces /\ pc[u] \in FlushPlaces => t = u

\* Every version of k in L0 was numbered before s.
OldInL0(k, s) == \A i \in 1 .. Len(levels[0]) : \A v \in files[levels[0][i].file][k] : v.seq < s

\* v is a version of k that thread t is about to add to L0.
InFlush(t, k, v) ==
    \/ pc[t] = "flush_copied" /\ \E i \in DOMAIN loc[t].data[k] : loc[t].data[k][i] = v
    \/ pc[t] = "flush_written" /\ v \in files[loc[t].fid][k]

\* file_id_ is above the ids in use, and a flush that copied will use it.
IdsAreFresh ==
    /\ \A i \in 1 .. Len(levels[0]) : /\ levels[0][i].file \in FileId
                                      /\ levels[0][i].file < file_id
                                      /\ files[levels[0][i].file] \in SSTable
    /\ \A t \in Thread :
          /\ pc[t] = "flush_copied" => loc[t].fid = file_id
          /\ pc[t] = "flush_written" =>
                /\ files[loc[t].fid] \in SSTable /\ loc[t].fid < file_id
                /\ \A i \in 1 .. Len(levels[0]) : levels[0][i].file # loc[t].fid

\* What will come to L0 is newer than what is there: the next number, the
\* number of a logged write, the MemTable and what a flush carries.
L0IsOld ==
    /\ \A k \in Key : OldInL0(k, seq)
    /\ \A t \in Client : pc[t] = "logged" => \A k \in Key : OldInL0(k, loc[t].seq)
    /\ (\A t \in Thread : pc[t] # "flush_added") =>
          \A k \in Key : \A i \in DOMAIN memtable[k] : OldInL0(k, memtable[k][i].seq)

\* What a flush carries lies between L0 and the writes to come.
FlushIsBetween ==
    \A t \in Thread, k \in Key, v \in Version : InFlush(t, k, v) =>
        /\ OldInL0(k, v.seq) /\ v.seq < seq
        /\ \A u \in Client : pc[u] = "logged" => v.seq < loc[u].seq

L0Sorted ==
    \A i, j \in 1 .. Len(levels[0]) : i < j =>
        \A k \in Key :
            \A v \in files[levels[0][i].file][k], w \in files[levels[0][j].file][k] : v.seq < w.seq

L0Aged == IdsAreFresh /\ L0IsOld /\ FlushIsBetween /\ L0Sorted

L0Inv == restarts = 0 => phase \in {"up", "down"} /\ (phase = "up" => L0Aged)

\* A step that leaves the files, the levels and the counters alone, and takes
\* nobody to a place that carries a number or a file.
LEMMA AgedFrame ==
  ASSUME CoreTypeOK, L0Aged,
         UNCHANGED <<files, levels, seq, file_id>>,
         \A u \in Thread : pc'[u] \in {"logged", "flush_copied", "flush_written"} =>
                              pc'[u] = pc[u] /\ loc'[u] = loc[u],
         (\A u \in Thread : pc'[u] # "flush_added") =>
            \A k \in Key : \A i \in DOMAIN memtable'[k] : OldInL0(k, memtable'[k][i].seq)
  PROVE  L0Aged'
<1>1. \A k, s : OldInL0(k, s)' <=> OldInL0(k, s)
  BY DEF OldInL0
<1>2. \A t \in Thread : \A k, v : InFlush(t, k, v)' => InFlush(t, k, v)
  BY DEF InFlush
<1>3. \A t \in Client : pc'[t] = "logged" => pc[t] = "logged" /\ loc'[t] = loc[t]
  BY DEF Thread
<1>4. IdsAreFresh'
  BY DEF L0Aged, IdsAreFresh
<1>5. L0IsOld'
  <2>1. (\A t \in Thread : pc'[t] # "flush_added") =>
          \A k \in Key : \A i \in DOMAIN memtable'[k] : OldInL0(k, memtable[k][i].seq)'
    BY DEF OldInL0
  <2>2. \A k \in Key : OldInL0(k, seq)'
    BY DEF L0Aged, L0IsOld, OldInL0
  <2>3. \A t \in Client : pc'[t] = "logged" => \A k \in Key : OldInL0(k, loc[t].seq)'
    BY <1>3 DEF L0Aged, L0IsOld, OldInL0
  <2> QED
    BY <1>3, <2>1, <2>2, <2>3 DEF L0IsOld
<1>6. FlushIsBetween'
  <2> SUFFICES ASSUME NEW t \in Thread, NEW k \in Key, NEW v \in Version, InFlush(t, k, v)'
               PROVE  /\ OldInL0(k, v.seq)' /\ v.seq < seq'
                      /\ \A u \in Client : pc'[u] = "logged" => v.seq < loc'[u].seq
    BY DEF FlushIsBetween
  <2>1. InFlush(t, k, v)
    BY <1>2
  <2>2. /\ OldInL0(k, v.seq) /\ v.seq < seq
        /\ \A u \in Client : pc[u] = "logged" => v.seq < loc[u].seq
    BY <2>1 DEF L0Aged, FlushIsBetween
  <2>3. OldInL0(k, v.seq)'
    BY <2>2 DEF OldInL0
  <2> QED
    BY <1>3, <2>2, <2>3
<1>7. L0Sorted'
  BY DEF L0Aged, L0Sorted
<1> QED
  BY <1>4, <1>5, <1>6, <1>7 DEF L0Aged

\* A thread moves outside writes and flushes.
LEMMA AgedMove ==
  ASSUME CoreTypeOK, L0Aged, NEW t \in Thread, NEW l,
         l \notin {"logged", "flush_copied", "flush_written"}, pc[t] # "flush_added",
         pc' = [pc EXCEPT ![t] = l],
         loc' = loc \/ \E r : loc' = [loc EXCEPT ![t] = r],
         UNCHANGED <<memtable, files, levels, seq, file_id>>
  PROVE  L0Aged'
<1>1. \A u \in Thread : u # t => pc'[u] = pc[u] /\ loc'[u] = loc[u]
  BY DEF CoreTypeOK
<1>2. pc'[t] = l
  BY DEF CoreTypeOK
<1>3. (\A u \in Thread : pc'[u] # "flush_added") => \A u \in Thread : pc[u] # "flush_added"
  BY <1>1
<1>4. (\A u \in Thread : pc'[u] # "flush_added") =>
         \A k \in Key : \A i \in DOMAIN memtable'[k] : OldInL0(k, memtable'[k][i].seq)
  BY <1>3 DEF L0Aged, L0IsOld
<1> QED
  BY <1>1, <1>2, <1>4, AgedFrame

\* A write takes the next number.
LEMMA AgedLog ==
  ASSUME CoreTypeOK, OrderInv, L0Aged, NEW t \in Client, LogWrite(t)
  PROVE  L0Aged'
<1>1. /\ pc' = [pc EXCEPT ![t] = "logged"]
      /\ loc' = [loc EXCEPT ![t] = [key |-> loc[t].key, value |-> loc[t].value, seq |-> seq]]
      /\ seq' = seq + 1 /\ UNCHANGED <<memtable, files, levels, file_id>>
  BY DEF LogWrite, Goto, Keep
<1>2. t \in Thread /\ seq \in Nat
  BY DEF Thread, CoreTypeOK
<1>3. /\ \A u \in Thread : u # t => pc'[u] = pc[u] /\ loc'[u] = loc[u]
      /\ pc'[t] = "logged" /\ loc'[t].seq = seq
  BY <1>1, <1>2 DEF CoreTypeOK
<1>4. \A u \in Client : pc'[u] = "logged" => u = t
  BY <1>3, OneLogged DEF LogWrite, Thread
<1>5. \A i \in 1 .. Len(levels[0]) : \A k \in Key : \A v \in files[levels[0][i].file][k] : v.seq \in Nat
  BY DEF L0Aged, IdsAreFresh, SSTable, Version
<1>6. IdsAreFresh'
  BY <1>1, <1>3 DEF L0Aged, IdsAreFresh
<1>7. L0IsOld'
  <2>1. \A k \in Key : OldInL0(k, seq)'
    BY <1>1, <1>2, <1>5 DEF L0Aged, L0IsOld, OldInL0
  <2>2. \A u \in Client : pc'[u] = "logged" => \A k \in Key : OldInL0(k, loc[u].seq)'
    BY <1>1, <1>3, <1>4 DEF L0Aged, L0IsOld, OldInL0
  <2>3. (\A u \in Thread : pc'[u] # "flush_added") => \A u \in Thread : pc[u] # "flush_added"
    BY <1>3 DEF LogWrite
  <2>4. (\A u \in Thread : pc'[u] # "flush_added") =>
          \A k \in Key : \A i \in DOMAIN memtable'[k] : OldInL0(k, memtable[k][i].seq)'
    BY <1>1, <2>3 DEF L0Aged, L0IsOld, OldInL0
  <2> QED
    BY <2>1, <2>2, <2>4 DEF L0IsOld
<1>8. FlushIsBetween'
  <2> SUFFICES ASSUME NEW u \in Thread, NEW k \in Key, NEW v \in Version, InFlush(u, k, v)'
               PROVE  /\ OldInL0(k, v.seq)' /\ v.seq < seq'
                      /\ \A c \in Client : pc'[c] = "logged" => v.seq < loc'[c].seq
    BY DEF FlushIsBetween
  <2>1. InFlush(u, k, v)
    BY <1>1, <1>3 DEF InFlush
  <2>2. OldInL0(k, v.seq) /\ v.seq < seq /\ v.seq \in Nat
    BY <2>1 DEF L0Aged, FlushIsBetween, Version
  <2>3. OldInL0(k, v.seq)'
    BY <1>1, <2>2 DEF OldInL0
  <2> QED
    BY <1>1, <1>2, <1>3, <1>4, <2>2, <2>3
<1>9. L0Sorted'
  BY <1>1 DEF L0Aged, L0Sorted
<1> QED
  BY <1>6, <1>7, <1>8, <1>9 DEF L0Aged

\* A write reaches the MemTable.
LEMMA AgedApply ==
  ASSUME CoreTypeOK, OrderInv, L0Aged, NEW t \in Client, ApplyWrite(t)
  PROVE  L0Aged'
<1>1. t \in Thread /\ t # Flusher /\ Flusher \in Thread /\ pc[t] = "logged"
  BY KVDBAssumption DEF ApplyWrite, Thread
<1>2. loc[t] \in [key : Key, value : Stored, seq : Nat]
  BY <1>1 DEF CoreTypeOK, LocalTypeOK
<1>3. \/ pc' = [pc EXCEPT ![t] = "idle"]
      \/ pc' = [[pc EXCEPT ![t] = "idle"] EXCEPT ![Flusher] = IF @ = "wait" THEN "eval" ELSE @]
  BY DEF ApplyWrite, Notified
<1>4. /\ \A u \in Thread : u # t => pc'[u] = pc[u] \/ (pc[u] = "wait" /\ pc'[u] = "eval")
      /\ pc'[t] = "idle"
  <2>1. CASE pc' = [pc EXCEPT ![t] = "idle"]
    BY <1>1, <2>1 DEF CoreTypeOK
  <2>2. CASE pc' = [[pc EXCEPT ![t] = "idle"] EXCEPT ![Flusher] = IF @ = "wait" THEN "eval" ELSE @]
    <3>1. \A u \in Thread : u # t /\ u # Flusher => pc'[u] = pc[u]
      BY <1>1, <2>2 DEF CoreTypeOK
    <3>2. pc'[t] = "idle"
      BY <1>1, <2>2 DEF CoreTypeOK
    <3>3. pc'[Flusher] = IF pc[Flusher] = "wait" THEN "eval" ELSE pc[Flusher]
      BY <1>1, <2>2 DEF CoreTypeOK
    <3> QED
      BY <3>1, <3>2, <3>3
  <2> QED
    BY <1>3, <2>1, <2>2
<1>5. \A u \in Thread : u # t => loc'[u] = loc[u]
  BY DEF ApplyWrite, Keep, CoreTypeOK
<1>6. /\ memtable' = MemTablePut(memtable, loc[t].key, loc[t].value, loc[t].seq)
      /\ UNCHANGED <<files, levels, seq, file_id>>
  BY DEF ApplyWrite, disk
<1>7. ASSUME \A u \in Thread : pc'[u] # "flush_added", NEW k \in Key, NEW i \in DOMAIN memtable'[k]
      PROVE  OldInL0(k, memtable'[k][i].seq)
  <2>1. \A u \in Thread : pc[u] # "flush_added"
    BY <1>1, <1>4, <1>7
  <2>2. \A j \in DOMAIN memtable[k] : OldInL0(k, memtable[k][j].seq)
    BY <2>1 DEF L0Aged, L0IsOld
  <2>3. OldInL0(k, loc[t].seq)
    BY <1>1 DEF L0Aged, L0IsOld
  <2> DEFINE new == [seq |-> loc[t].seq, value |-> loc[t].value]
  <2>4. memtable'[k] = memtable[k] \/ memtable'[k] = Append(memtable[k], new)
    BY <1>2, <1>6 DEF MemTablePut, CoreTypeOK, MemTable
  <2>5. memtable[k] \in Seq(Version) /\ new \in Version /\ new.seq = loc[t].seq
    BY <1>2 DEF CoreTypeOK, MemTable, Version
  <2> HIDE DEF new
  <2>6. (i \in DOMAIN memtable[k] /\ memtable'[k][i] = memtable[k][i]) \/ memtable'[k][i] = new
    <3>1. CASE memtable'[k] = memtable[k]
      BY <1>7, <3>1
    <3>2. CASE memtable'[k] = Append(memtable[k], new)
      <4>1. /\ Len(memtable[k]) \in Nat /\ DOMAIN memtable[k] = 1 .. Len(memtable[k])
            /\ DOMAIN memtable'[k] = 1 .. Len(memtable[k]) + 1
            /\ \A j \in 1 .. Len(memtable[k]) : memtable'[k][j] = memtable[k][j]
            /\ memtable'[k][Len(memtable[k]) + 1] = new
        BY <2>5, <3>2
      <4>2. i \in 1 .. Len(memtable[k]) \/ i = Len(memtable[k]) + 1
        BY <1>7, <4>1
      <4> QED
        BY <4>1, <4>2
    <3> QED
      BY <2>4, <3>1, <3>2
  <2> QED
    BY <2>2, <2>3, <2>5, <2>6
<1> QED
  BY <1>1, <1>4, <1>5, <1>6, <1>7, AgedFrame

\* A flush copies the MemTable.
LEMMA AgedCopy ==
  ASSUME CoreTypeOK, OrderInv, L0Aged, OneFlush', NEW t \in Thread, FlushCopy(t)
  PROVE  L0Aged'
<1>1. /\ pc' = [pc EXCEPT ![t] = "flush_copied"]
      /\ loc' = [loc EXCEPT ![t] = [data |-> memtable, fid |-> file_id]]
      /\ UNCHANGED <<memtable, files, levels, seq, file_id>>
  BY DEF FlushCopy, Goto, Keep, disk
<1>2. /\ \A u \in Thread : u # t => pc'[u] = pc[u] /\ loc'[u] = loc[u]
      /\ pc'[t] = "flush_copied" /\ loc'[t].data = memtable /\ loc'[t].fid = file_id
  BY <1>1 DEF CoreTypeOK
<1>3. \A u \in Thread : u # t => pc'[u] \notin FlushPlaces
  BY <1>2 DEF OneFlush, FlushPlaces
<1>4. pc[t] \in {"idle", "flush"}
  BY DEF FlushCopy, FlushCaller
<1>5. \A u \in Thread : pc[u] # "flush_added"
  BY <1>2, <1>3, <1>4 DEF FlushPlaces
<1>6. \A u \in Client : pc'[u] = "logged" => pc[u] = "logged" /\ loc'[u] = loc[u] /\ u \in Thread
  BY <1>2 DEF Thread
<1>7. IdsAreFresh'
  BY <1>1, <1>2 DEF L0Aged, IdsAreFresh
<1>8. L0IsOld'
  <2>1. \A k \in Key : OldInL0(k, seq)'
    BY <1>1 DEF L0Aged, L0IsOld, OldInL0
  <2>2. \A u \in Client : pc'[u] = "logged" => \A k \in Key : OldInL0(k, loc[u].seq)'
    BY <1>1, <1>6 DEF L0Aged, L0IsOld, OldInL0
  <2>3. \A k \in Key : \A i \in DOMAIN memtable'[k] : OldInL0(k, memtable[k][i].seq)'
    BY <1>1, <1>5 DEF L0Aged, L0IsOld, OldInL0
  <2> QED
    BY <2>1, <2>2, <2>3 DEF L0IsOld
<1>9. FlushIsBetween'
  <2> SUFFICES ASSUME NEW u \in Thread, NEW k \in Key, NEW v \in Version, InFlush(u, k, v)'
               PROVE  /\ OldInL0(k, v.seq)' /\ v.seq < seq'
                      /\ \A c \in Client : pc'[c] = "logged" => v.seq < loc'[c].seq
    BY DEF FlushIsBetween
  <2>1. u = t
    BY <1>3 DEF InFlush, FlushPlaces
  <2>2. PICK i \in DOMAIN memtable[k] : memtable[k][i] = v
    BY <1>1, <1>2, <2>1 DEF InFlush
  <2>3. OldInL0(k, v.seq)'
    BY <1>1, <1>5, <2>2 DEF L0Aged, L0IsOld, OldInL0
  <2>4. v.seq < seq
    BY <2>2 DEF OrderInv, Below
  <2>5. \A c \in Client : pc'[c] = "logged" => v.seq < loc'[c].seq
    BY <1>6, <2>2 DEF OrderInv, LoggedIsNext, Below
  <2> QED
    BY <1>1, <2>3, <2>4, <2>5
<1>10. L0Sorted'
  BY <1>1 DEF L0Aged, L0Sorted
<1> QED
  BY <1>7, <1>8, <1>9, <1>10 DEF L0Aged

\* A flush writes its file, under an id that no file in L0 has.
LEMMA AgedWrite ==
  ASSUME OneWordValues, CoreTypeOK, L0Aged, OneFlush, NEW t \in Thread, FlushWrite(t)
  PROVE  L0Aged'
<1>1. /\ pc' = [pc EXCEPT ![t] = "flush_written"]
      /\ loc' = [loc EXCEPT ![t] = [fid |-> loc[t].fid]]
      /\ files' = [files EXCEPT ![loc[t].fid] = SSTableWrite(loc[t].data)]
      /\ file_id' = loc[t].fid + 1
      /\ UNCHANGED <<memtable, levels, seq>>
  BY DEF FlushWrite, Goto, Keep
<1>2. /\ pc[t] = "flush_copied" /\ loc[t] \in [data : MemTable, fid : 0 .. MaxFile - 1]
      /\ loc[t].fid \in FileId /\ loc[t].fid = file_id /\ file_id \in Nat
  BY DEF FlushWrite, CoreTypeOK, LocalTypeOK, L0Aged, IdsAreFresh, FileId
<1>3. /\ \A u \in Thread : u # t => pc'[u] = pc[u] /\ loc'[u] = loc[u]
      /\ pc'[t] = "flush_written" /\ loc'[t].fid = loc[t].fid
  BY <1>1 DEF CoreTypeOK
<1>4. \A u \in Thread : u # t => pc'[u] \notin FlushPlaces
  BY <1>2, <1>3 DEF OneFlush, FlushPlaces
<1>5. /\ files'[loc[t].fid] = SSTableWrite(loc[t].data) /\ SSTableWrite(loc[t].data) \in SSTable
      /\ \A f \in FileId : f # loc[t].fid => files'[f] = files[f]
  BY <1>1, <1>2, SSTableWriteType DEF CoreTypeOK
<1>6. \A i \in 1 .. Len(levels[0]) : /\ levels[0][i].file \in FileId /\ levels[0][i].file < file_id
                                     /\ levels[0][i].file # loc[t].fid
                                     /\ files'[levels[0][i].file] = files[levels[0][i].file]
                                     /\ files[levels[0][i].file] \in SSTable
  BY <1>2, <1>5 DEF L0Aged, IdsAreFresh, FileId
<1>7. \A u \in Client : pc'[u] = "logged" => pc[u] = "logged" /\ loc'[u] = loc[u] /\ u \in Thread
  BY <1>3 DEF Thread
<1>8. IdsAreFresh'
  <2>1. \A i \in 1 .. Len(levels'[0]) : /\ levels'[0][i].file \in FileId
                                        /\ levels'[0][i].file < file_id'
                                        /\ files'[levels'[0][i].file] \in SSTable
    <3>1. \A f \in FileId : f < file_id => f < file_id + 1
      BY <1>2 DEF FileId
    <3> QED
      BY <1>1, <1>2, <1>6, <3>1
  <2>2. ASSUME NEW u \in Thread
        PROVE  /\ pc'[u] # "flush_copied"
               /\ pc'[u] = "flush_written" => u = t
    BY <1>3, <1>4 DEF FlushPlaces
  <2>3. /\ files'[loc'[t].fid] \in SSTable /\ loc'[t].fid < file_id'
        /\ \A i \in 1 .. Len(levels'[0]) : levels'[0][i].file # loc'[t].fid
    BY <1>1, <1>2, <1>3, <1>5, <1>6
  <2> QED
    BY <2>1, <2>2, <2>3 DEF IdsAreFresh
<1>9. L0IsOld'
  <2>1. \A k \in Key : OldInL0(k, seq)'
    BY <1>1, <1>6 DEF L0Aged, L0IsOld, OldInL0
  <2>2. \A u \in Client : pc'[u] = "logged" => \A k \in Key : OldInL0(k, loc[u].seq)'
    BY <1>1, <1>6, <1>7 DEF L0Aged, L0IsOld, OldInL0
  <2>3. \A u \in Thread : pc[u] # "flush_added"
    BY <1>2, <1>3, <1>4 DEF FlushPlaces
  <2>4. \A k \in Key : \A i \in DOMAIN memtable'[k] : OldInL0(k, memtable[k][i].seq)'
    BY <1>1, <1>6, <2>3 DEF L0Aged, L0IsOld, OldInL0
  <2> QED
    BY <2>1, <2>2, <2>4 DEF L0IsOld
<1>10. FlushIsBetween'
  <2> SUFFICES ASSUME NEW u \in Thread, NEW k \in Key, NEW v \in Version, InFlush(u, k, v)'
               PROVE  /\ OldInL0(k, v.seq)' /\ v.seq < seq'
                      /\ \A c \in Client : pc'[c] = "logged" => v.seq < loc'[c].seq
    BY DEF FlushIsBetween
  <2>1. u = t
    BY <1>4 DEF InFlush, FlushPlaces
  <2>2. v \in SSTableWrite(loc[t].data)[k]
    BY <1>3, <1>5, <2>1 DEF InFlush
  <2>3. InFlush(t, k, v)
    BY <1>2, <2>2, WrittenIsCopied DEF InFlush
  <2>4. /\ OldInL0(k, v.seq) /\ v.seq < seq
        /\ \A c \in Client : pc[c] = "logged" => v.seq < loc[c].seq
    BY <2>3 DEF L0Aged, FlushIsBetween
  <2>5. OldInL0(k, v.seq)'
    BY <1>1, <1>6, <2>4 DEF OldInL0
  <2> QED
    BY <1>1, <1>7, <2>4, <2>5
<1>11. L0Sorted'
  BY <1>1, <1>6 DEF L0Aged, L0Sorted
<1> QED
  BY <1>8, <1>9, <1>10, <1>11 DEF L0Aged

\* A flush adds its file at the end of L0.
LEMMA AgedAdd ==
  ASSUME CoreTypeOK, ListInv, L0Aged, OneFlush, NEW t \in Thread, FlushAdd(t)
  PROVE  L0Aged'
<1> DEFINE n == Len(levels[0])
           fid == loc[t].fid
           meta == MetaOf(fid, files[fid])
<1>1. meta.file = fid
  BY DEF MetaOf
<1>2. /\ pc' = [pc EXCEPT ![t] = "flush_added"] /\ loc' = [loc EXCEPT ![t] = NoLoc]
      /\ levels' = [levels EXCEPT ![0] = Append(@, meta)]
      /\ pc[t] = "flush_written"
      /\ UNCHANGED <<memtable, files, seq, file_id>>
  BY DEF FlushAdd, Goto, Keep
<1> HIDE DEF meta
<1>3. 0 \in Level
  BY StrategyAssumption DEF Level
<1>4. /\ n \in Nat /\ Len(levels'[0]) = n + 1
      /\ \A i \in 1 .. n : levels'[0][i] = levels[0][i]
      /\ levels'[0][n + 1] = meta
  BY <1>2, <1>3, AppendEntries DEF ListInv
<1>5. \A i \in 1 .. n + 1 : i \in 1 .. n \/ i = n + 1
  BY <1>4
<1>6. /\ fid \in FileId /\ fid < file_id /\ files[fid] \in SSTable
      /\ \A i \in 1 .. n : levels[0][i].file # fid
  <2>1. loc[t] \in [fid : 0 .. MaxFile - 1]
    BY <1>2 DEF CoreTypeOK, LocalTypeOK
  <2>2. fid \in FileId
    BY <2>1, KVDBAssumption DEF FileId
  <2> QED
    BY <1>2, <2>2 DEF L0Aged, IdsAreFresh
<1>7. \A i \in 1 .. n : levels[0][i].file \in FileId /\ levels[0][i].file < file_id
                        /\ files[levels[0][i].file] \in SSTable
  BY DEF L0Aged, IdsAreFresh
<1>8. /\ \A u \in Thread : u # t => pc'[u] = pc[u] /\ loc'[u] = loc[u]
      /\ pc'[t] = "flush_added"
  BY <1>2 DEF CoreTypeOK
<1>9. \A u \in Thread : u # t => pc'[u] \notin FlushPlaces
  BY <1>2, <1>8 DEF OneFlush, FlushPlaces
<1>10. \A k \in Key : \A v \in files[fid][k] : v \in Version /\ InFlush(t, k, v)
  BY <1>2, <1>6 DEF InFlush, SSTable
<1>11. ASSUME NEW k \in Key, NEW s, OldInL0(k, s), \A v \in files[fid][k] : v.seq < s
       PROVE  \A i \in 1 .. Len(levels'[0]) : \A v \in files'[levels'[0][i].file][k] : v.seq < s
  BY <1>1, <1>2, <1>4, <1>5, <1>11 DEF OldInL0
<1>12. IdsAreFresh'
  <2>1. \A i \in 1 .. n + 1 : /\ levels'[0][i].file \in FileId /\ levels'[0][i].file < file_id
                              /\ files[levels'[0][i].file] \in SSTable
    BY <1>1, <1>4, <1>5, <1>6, <1>7
  <2>2. \A u \in Thread : pc'[u] \notin {"flush_copied", "flush_written"}
    BY <1>8, <1>9 DEF FlushPlaces
  <2> QED
    BY <1>2, <1>4, <2>1, <2>2 DEF IdsAreFresh
<1>13. L0IsOld'
  <2>1. \A k \in Key : OldInL0(k, seq) /\ \A v \in files[fid][k] : v.seq < seq
    BY <1>10 DEF L0Aged, L0IsOld, FlushIsBetween
  <2>2. \A k \in Key : OldInL0(k, seq)'
    BY <1>2, <1>11, <2>1 DEF OldInL0
  <2>3. ASSUME NEW u \in Client, pc'[u] = "logged", NEW k \in Key
        PROVE  OldInL0(k, loc[u].seq)'
    <3>1. u \in Thread /\ pc[u] = "logged" /\ loc'[u] = loc[u]
      BY <1>8, <2>3 DEF Thread
    <3>2. OldInL0(k, loc[u].seq) /\ \A v \in files[fid][k] : v.seq < loc[u].seq
      BY <1>10, <3>1 DEF L0Aged, L0IsOld, FlushIsBetween
    <3>3. \A i \in 1 .. Len(levels'[0]) : \A v \in files'[levels'[0][i].file][k] : v.seq < loc[u].seq
      BY <1>11, <3>2
    <3> QED
      BY <3>1, <3>3 DEF OldInL0
  <2> QED
    BY <1>8, <2>2, <2>3 DEF L0IsOld
<1>14. FlushIsBetween'
  BY <1>8, <1>9 DEF FlushIsBetween, InFlush, FlushPlaces
<1>15. L0Sorted'
  <2> SUFFICES ASSUME NEW i \in 1 .. n + 1, NEW j \in 1 .. n + 1, i < j, NEW k \in Key,
                      NEW v \in files[levels'[0][i].file][k], NEW w \in files[levels'[0][j].file][k]
               PROVE  v.seq < w.seq
    BY <1>2, <1>4 DEF L0Sorted
  <2>1. i \in 1 .. n /\ levels'[0][i] = levels[0][i]
    BY <1>4
  <2>2. CASE j \in 1 .. n
    BY <1>4, <2>1, <2>2 DEF L0Aged, L0Sorted
  <2>3. CASE j = n + 1
    <3>1. w \in Version /\ InFlush(t, k, w)
      BY <1>1, <1>4, <1>10, <2>3
    <3>2. OldInL0(k, w.seq)
      BY <3>1 DEF L0Aged, FlushIsBetween
    <3> QED
      BY <2>1, <3>2 DEF OldInL0
  <2> QED
    BY <1>5, <2>2, <2>3
<1> QED
  BY <1>12, <1>13, <1>14, <1>15 DEF L0Aged

\* Every step of a running engine keeps the ages.
LEMMA AgedStep ==
  ASSUME OneWordValues, CoreTypeOK, OrderInv, ListInv, NoCompaction', OneFlush, OneFlush',
         phase = "up", L0Aged, [Next]_vars, phase' = "up"
  PROVE  L0Aged'
<1> USE KVDBAssumption DEF disk, startup
<1>1. ASSUME NEW t \in Client, NEW k \in Key, NEW v \in Stored, BeginWrite(t, k, v)
      PROVE  L0Aged'
  BY <1>1, AgedMove DEF BeginWrite, Goto, Keep, Thread
<1>2. ASSUME NEW t \in Client, LogWrite(t)
      PROVE  L0Aged'
  BY <1>2, AgedLog
<1>3. ASSUME NEW t \in Client, ApplyWrite(t)
      PROVE  L0Aged'
  BY <1>3, AgedApply
<1>4. ASSUME NEW t \in Client, Get(t)
      PROVE  L0Aged'
  <2>1. pc[t] # "flush_added" /\ UNCHANGED <<levels, file_id>>
    BY <1>4 DEF Get, GetBegin, GetLevel, GetReturn
  <2> QED
    BY <1>4, <2>1, GetFrame, AgedMove
<1>5. ASSUME NEW t \in Thread, FlushEmpty(t)
      PROVE  L0Aged'
  BY <1>5, AgedMove DEF FlushEmpty, FlushCaller, AfterFlush, Goto
<1>6. ASSUME NEW t \in Thread, FlushCopy(t)
      PROVE  L0Aged'
  BY <1>6, AgedCopy
<1>7. ASSUME NEW t \in Thread, FlushWrite(t)
      PROVE  L0Aged'
  BY <1>7, AgedWrite
<1>8. ASSUME NEW t \in Thread, FlushAdd(t)
      PROVE  L0Aged'
  BY <1>8, AgedAdd
<1>9. ASSUME NEW t \in Thread, FlushClear(t)
      PROVE  L0Aged'
  <2>1. /\ memtable' = EmptyTable /\ pc' = [pc EXCEPT ![t] = "flush_cleared"]
        /\ UNCHANGED <<loc, files, levels, seq, file_id>>
    BY <1>9 DEF FlushClear, Goto
  <2>2. \A k \in Key : DOMAIN memtable'[k] = {}
    BY <2>1 DEF EmptyTable
  <2>3. \A u \in Thread : pc'[u] \in {"logged", "flush_copied", "flush_written"} => pc'[u] = pc[u]
    BY <2>1 DEF CoreTypeOK
  <2> QED
    BY <2>1, <2>2, <2>3, AgedFrame
<1>10. ASSUME NEW t \in Thread, FlushTruncate(t)
       PROVE  L0Aged'
  BY <1>10, AgedMove DEF FlushTruncate, AfterFlush, Goto
<1>11. ASSUME FlushWorker
       PROVE  L0Aged'
  <2>1. pc[Flusher] # "flush_added" /\ UNCHANGED <<levels, file_id>>
    BY <1>11 DEF FlushWorker, FlusherTest, FlusherPark, FlusherCheck
  <2> QED
    BY <1>11, <2>1, WorkerFrame, AgedMove DEF Thread
<1>12. ASSUME NEW t \in Thread, Compact(t)
       PROVE  FALSE
  BY <1>12, NobodyCompacts
<1>13. ASSUME Die
       PROVE  FALSE
  BY <1>13 DEF Die
<1>14. ASSUME Recovery
       PROVE  FALSE
  BY <1>14 DEF Recovery, Restart, RecoverLine, RecoverEnd, ReplayLine, ReplayEnd
<1>15. CASE UNCHANGED vars
  <2>1. UNCHANGED <<memtable, files, levels, seq, file_id, pc, loc>>
    BY <1>15 DEF vars
  <2> QED
    BY <2>1, AgedFrame DEF L0Aged, L0IsOld
<1> QED
  BY <1>1, <1>2, <1>3, <1>4, <1>5, <1>6, <1>7, <1>8, <1>9, <1>10, <1>11, <1>12, <1>13, <1>14,
     <1>15 DEF Next, Write, Put, Del, Flush, MetaThrows, Crash, Stored

\* A restart is counted, and only a restart leaves the state "down".
LEMMA RestartsCount ==
  ASSUME CoreTypeOK, [Next]_vars, restarts' = 0
  PROVE  /\ restarts = 0
         /\ phase = "down" => phase' = "down"
         /\ phase = "up" => phase' \in {"up", "down"}
<1> USE DEF disk, startup
<1>1. CASE restarts' = restarts + 1
  BY <1>1 DEF CoreTypeOK
<1>2. CASE /\ restarts' = restarts
           /\ phase = "down" => phase' = "down"
           /\ phase = "up" => phase' \in {"up", "down"}
  BY <1>2
<1> QED
  BY <1>1, <1>2, ZenonT(60) DEF Next, vars, Write, Put, Del, BeginWrite, LogWrite, ApplyWrite, Get, GetBegin,
     GetLevel, GetReturn, Flush, FlushEmpty, FlushCopy, FlushWrite, FlushAdd, FlushClear,
     FlushTruncate, FlushWorker, FlusherTest, FlusherPark, FlusherCheck, Compact, CompactBegin,
     CompactScan, CompactPick, CompactMerge, CompactWrite, CompactDropSource, CompactDropTarget,
     CompactInstall, CompactPersist, MetaThrows, Crash, Die, Recovery, Restart, RecoverLine,
     RecoverEnd, ReplayLine, ReplayEnd

\* The engine starts with nothing in L0.
LEMMA L0Init == Init => L0Inv
<1> SUFFICES ASSUME Init PROVE L0Inv
  OBVIOUS
<1>1. /\ \A t \in Thread : pc[t] \in {"idle", "eval"}
      /\ \A k \in Key : DOMAIN memtable[k] = {}
  BY DEF Init, Home, EmptyTable
<1>2. Len(levels[0]) = 0 /\ phase = "up"
  BY StrategyAssumption DEF Init, Level
<1>3. 1 .. Len(levels[0]) = {}
  BY <1>2
<1> QED
  BY <1>1, <1>2, <1>3 DEF L0Inv, L0Aged, IdsAreFresh, L0IsOld, OldInL0, FlushIsBetween, InFlush,
                          L0Sorted, Thread

\* Until the first restart sequence numbers tell the age of versions: a number
\* names one write, and in L0 a file further back holds only newer versions of a
\* key than one further to the front, which is what get relies on when it stops
\* at the first hit.  For any number of clients and of flushes, as long as two
\* flushes do not overlap and nothing is compacted; writes may overlap a flush
\* at any point.
THEOREM NumbersTellTheAge ==
  ASSUME OneWordValues
  PROVE  Spec /\ []NoCompaction /\ []OneFlush => []NumbersTellAge
<1>1. Init => ListInv
  BY ListInit
<1>2. CoreTypeOK /\ ListInv /\ NoCompaction' /\ [Next]_vars => ListInv'
  BY ListStep
<1>3. Init => L0Inv
  BY L0Init
<1>4. CoreTypeOK /\ OrderInv /\ ListInv /\ NoCompaction' /\ OneFlush /\ OneFlush' /\ L0Inv
        /\ [Next]_vars => L0Inv'
  BY AgedStep, RestartsCount DEF L0Inv
<1>5. ListInv /\ L0Inv => L0NewestLast
  <2> SUFFICES ASSUME ListInv, L0Inv, restarts = 0,
                      NEW i \in DOMAIN levels[0], NEW j \in DOMAIN levels[0], i < j, NEW k \in Key,
                      NEW v \in files[levels[0][i].file][k], NEW w \in files[levels[0][j].file][k]
               PROVE  v.seq < w.seq
    BY DEF L0NewestLast
  <2>1. DOMAIN levels[0] = 1 .. Len(levels[0]) /\ Len(levels[0]) \in Nat
    BY AppendEntries DEF ListInv
  <2>2. phase # "down"
    BY <2>1 DEF ListInv, LinesListed
  <2> QED
    BY <2>1, <2>2 DEF L0Inv, L0Aged, L0Sorted
<1> QED
  BY <1>1, <1>2, <1>3, <1>4, <1>5, TypeCorrect, OrderHolds, NumbersNameOneWrite, PTL
  DEF Spec, NumbersTellAge

(***************************************************************************)
(* The disk is a crash-safe map.  Every step of a flush leaves the value   *)
(* that the disk determines for a key alone, because the file holds what   *)
(* the WAL says when the WAL is emptied.                                   *)
(***************************************************************************)
\* A flush overlaps neither another flush nor a write.  The code does not see
\* to it either: a write that overlaps a flush can be lost.
CleanFlush ==
    \A t, u \in Thread :
        pc[t] \in FlushPlaces /\ pc[u] \in FlushPlaces \cup {"write", "logged"} => t = u

\* Nothing was listed before the last restart.
FreshManifest == restarts = 0 \/ manifest = <<>>

\* val is the value of the newest version of k in a listed file, and no other
\* version of k has its number.
Newest(k, val) ==
    \E v \in ListedVersions(k) :
        v.value = val /\ \A w \in ListedVersions(k) : w # v => w.seq < v.seq

\* How far the thread that flushes has carried what the WAL says.
FlushCarries(t) ==
    /\ pc[t] = "flush_copied" => loc[t].data = memtable
    /\ pc[t] = "flush_written" => files[loc[t].fid] = SSTableWrite(memtable)
    /\ pc[t] = "flush_added" =>
          \A k \in Key : memtable[k] # <<>> => Newest(k, LastValue(memtable, k))
    /\ pc[t] = "flush_cleared" =>
          /\ memtable = EmptyTable
          /\ \A k \in Key : \E val : Says(wal, Len(wal), k, val)
                                     /\ (val # NotFound => Newest(k, val))

DiskAgrees ==
    /\ LoggedIsLastLine
    /\ (\A t \in Thread : pc[t] # "flush_cleared") =>
          \A k \in Key : Says(wal, AppliedLines, k, LastValue(memtable, k))
    /\ \A t \in Thread : FlushCarries(t)

DiskInv == restarts = 0 /\ phase = "up" => DiskAgrees

\* No write is under way while a flush is.
LEMMA NoWriteInFlush ==
  ASSUME CleanFlush, NEW t \in Thread, pc[t] \in FlushPlaces
  PROVE  /\ \A u \in Thread : u # t => pc[u] \notin FlushPlaces
         /\ \A u \in Client : pc[u] \notin {"write", "logged"}
         /\ AppliedLines = Len(wal)
<1>1. \A u \in Thread : pc[u] \in FlushPlaces \cup {"write", "logged"} => u = t
  BY DEF CleanFlush
<1>2. \A u \in Client : u \in Thread
  BY DEF Thread
<1>3. \A u \in Client : pc[u] \notin {"write", "logged"}
  BY <1>1, <1>2 DEF FlushPlaces
<1> QED
  BY <1>1, <1>3 DEF AppliedLines

\* What a table says about a key it holds nothing of, or something of.
LEMMA LastValueType ==
  ASSUME NEW m \in MemTable, NEW k \in Key
  PROVE  m[k] = <<>> <=> LastValue(m, k) = NotFound
<1>1. m[k] \in Seq(Version)
  BY DEF MemTable
<1>2. ASSUME m[k] # <<>>
      PROVE  m[k][Len(m[k])] \in Version
  BY <1>1, <1>2, EmptySeq, LenProperties
<1>3. NotFound \notin Stored
  BY ValueAssumption DEF Stored
<1> QED
  BY <1>2, <1>3 DEF LastValue, Version

\* The listed versions are those of the listed files.
LEMMA ListedInFiles ==
  ASSUME IsSequence(manifest), NEW k, NEW v
  PROVE  v \in ListedVersions(k) <=>
            \E i \in 1 .. Len(manifest) : /\ files[manifest[i].meta.file] # NotFound
                                          /\ v \in files[manifest[i].meta.file][k]
<1>1. DOMAIN manifest = 1 .. Len(manifest)
  BY AppendEntries
<1> QED
  BY <1>1 DEF ListedVersions, Range

\* A step that leaves the disk and the MemTable alone and takes nobody into a
\* flush or a write.
LEMMA DiskFrame ==
  ASSUME CoreTypeOK, DiskAgrees,
         UNCHANGED <<wal, manifest, files, memtable>>,
         \A u \in Thread : pc'[u] \in FlushPlaces \cup {"logged"} => pc'[u] = pc[u] /\ loc'[u] = loc[u],
         \A u \in Thread : pc[u] \in {"logged", "flush_cleared"} => pc'[u] = pc[u]
  PROVE  DiskAgrees'
<1>1. \A u \in Client : pc'[u] = "logged" <=> pc[u] = "logged"
  BY DEF Thread
<1>2. AppliedLines' = AppliedLines
  BY <1>1 DEF AppliedLines
<1>3. \A u \in Client : pc'[u] = "logged" => loc'[u] = loc[u]
  BY DEF Thread
<1>4. LoggedIsLastLine'
  BY <1>1, <1>3 DEF DiskAgrees, LoggedIsLastLine
<1>5. (\A t \in Thread : pc'[t] # "flush_cleared") =>
        \A k \in Key : Says(wal', AppliedLines', k, LastValue(memtable', k))
  BY <1>2 DEF DiskAgrees
<1>6. \A k, val : Newest(k, val) => Newest(k, val)'
  BY DEF Newest, ListedVersions
<1>7. ASSUME NEW t \in Thread
      PROVE  FlushCarries(t)'
  <2>1. FlushCarries(t)
    BY DEF DiskAgrees
  <2>2. pc'[t] \in FlushPlaces => pc'[t] = pc[t] /\ loc'[t] = loc[t]
    OBVIOUS
  <2>3. pc'[t] = "flush_copied" => loc'[t].data = memtable'
    BY <2>1, <2>2 DEF FlushCarries, FlushPlaces
  <2>4. pc'[t] = "flush_written" => files'[loc'[t].fid] = SSTableWrite(memtable')
    BY <2>1, <2>2 DEF FlushCarries, FlushPlaces
  <2>5. pc'[t] = "flush_added" =>
          \A k \in Key : memtable'[k] # <<>> => Newest(k, LastValue(memtable, k))'
    BY <2>1, <2>2 DEF FlushCarries, FlushPlaces, Newest, ListedVersions, LastValue
  <2>6. pc'[t] = "flush_cleared" =>
          /\ memtable' = EmptyTable
          /\ \A k \in Key : \E val : Says(wal', Len(wal'), k, val)
                                     /\ (val # NotFound => Newest(k, val)')
    BY <1>6, <2>1, <2>2 DEF FlushCarries, FlushPlaces
  <2> QED
    BY <2>3, <2>4, <2>5, <2>6 DEF FlushCarries
<1> QED
  BY <1>4, <1>5, <1>7 DEF DiskAgrees

\* A put or del logs its line, or applies it.
LEMMA DiskWrite ==
  ASSUME CoreTypeOK, OrderInv, CleanFlush, phase = "up", DiskAgrees, NEW t \in Client,
         LogWrite(t) \/ ApplyWrite(t)
  PROVE  DiskAgrees'
<1> USE KVDBAssumption
<1>1. t \in Thread /\ pc[t] \in {"write", "logged"} /\ Flusher \in Thread /\ t # Flusher
  BY DEF LogWrite, ApplyWrite, Thread
<1>2. \A u \in Thread : pc[u] \notin FlushPlaces
  BY <1>1, NoWriteInFlush
<1>3. \A u \in Thread : pc'[u] = pc[u] \/ pc'[u] \in {"logged", "idle", "eval"}
  <2>1. CASE LogWrite(t)
    BY <1>1, <2>1 DEF LogWrite, Goto, CoreTypeOK
  <2>2. CASE ApplyWrite(t)
    <3>1. \/ pc' = [pc EXCEPT ![t] = "idle"]
          \/ pc' = [[pc EXCEPT ![t] = "idle"] EXCEPT ![Flusher] = IF @ = "wait" THEN "eval" ELSE @]
      BY <2>2 DEF ApplyWrite, Notified
    <3> QED
      BY <1>1, <3>1 DEF CoreTypeOK
  <2> QED
    BY <2>1, <2>2
<1>4. \A u \in Thread : pc'[u] \notin FlushPlaces
  BY <1>2, <1>3 DEF FlushPlaces
<1>5. TableAgrees
  BY <1>2 DEF DiskAgrees, TableAgrees, MemTableFollowsWal, FlushPlaces
<1>6. TableAgrees' /\ phase' = "up"
  BY <1>5, LogAgrees, ApplyAgrees DEF LogWrite, ApplyWrite, startup
<1> QED
  BY <1>4, <1>6 DEF DiskAgrees, TableAgrees, MemTableFollowsWal, FlushCarries, FlushPlaces

\* A flush copies the MemTable, or writes its file under an id that is not
\* listed.
LEMMA DiskFlushFile ==
  ASSUME CoreTypeOK, ListInv, L0Aged, CleanFlush', phase = "up", DiskAgrees, NEW t \in Thread,
         FlushCopy(t) \/ FlushWrite(t)
  PROVE  /\ DiskAgrees'
         /\ \A k, v : v \in ListedVersions(k)' <=> v \in ListedVersions(k)
<1> USE KVDBAssumption
<1>1. /\ UNCHANGED <<wal, manifest, memtable>>
      /\ \A u \in Thread : u # t => pc'[u] = pc[u] /\ loc'[u] = loc[u]
      /\ pc[t] \in {"idle", "flush", "flush_copied"}
      /\ pc'[t] \in {"flush_copied", "flush_written"}
  BY DEF FlushCopy, FlushWrite, FlushCaller, Goto, Keep, disk, CoreTypeOK
<1>2. /\ \A u \in Thread : u # t => pc'[u] \notin FlushPlaces
      /\ \A u \in Client : pc'[u] \notin {"write", "logged"}
  BY <1>1 DEF CleanFlush, FlushPlaces, Thread
<1>3. \A u \in Thread : pc[u] # "flush_cleared"
  BY <1>1, <1>2 DEF FlushPlaces
<1>4. \A u \in Client : pc[u] # "logged"
  BY <1>1, <1>2 DEF Thread
<1>5. AppliedLines' = AppliedLines
  BY <1>1, <1>2, <1>4 DEF AppliedLines
<1>6. FlushCarries(t)'
  <2>1. CASE FlushCopy(t)
    BY <2>1 DEF FlushCopy, Goto, Keep, CoreTypeOK, FlushCarries
  <2>2. CASE FlushWrite(t)
    <3>1. /\ pc'[t] = "flush_written" /\ loc'[t].fid = loc[t].fid
          /\ files' = [files EXCEPT ![loc[t].fid] = SSTableWrite(loc[t].data)]
          /\ pc[t] = "flush_copied"
      BY <2>2 DEF FlushWrite, Goto, Keep, CoreTypeOK
    <3>2. loc[t].data = memtable /\ loc[t].fid \in FileId
      BY <3>1 DEF DiskAgrees, FlushCarries, CoreTypeOK, LocalTypeOK, FileId
    <3> QED
      BY <1>1, <3>1, <3>2 DEF FlushCarries, CoreTypeOK
  <2> QED
    BY <2>1, <2>2
<1>7. DiskAgrees'
  BY <1>1, <1>2, <1>3, <1>5, <1>6
  DEF DiskAgrees, LoggedIsLastLine, FlushCarries, FlushPlaces, LastValue
<1>8. \A i \in 1 .. Len(manifest) : files'[manifest[i].meta.file] = files[manifest[i].meta.file]
  <2>1. CASE FlushCopy(t)
    BY <2>1 DEF FlushCopy, disk
  <2>2. CASE FlushWrite(t)
    <3>1. loc[t].fid = file_id /\ file_id \in Nat
      BY <2>2 DEF FlushWrite, L0Aged, IdsAreFresh, CoreTypeOK, FileId
    <3>2. \A i \in 1 .. Len(manifest) : manifest[i].meta.file = levels[0][i].file
      BY DEF ListInv, LinesListed
    <3>3. Len(levels[0]) = Len(manifest)
      BY DEF ListInv, LinesListed
    <3>4. \A i \in 1 .. Len(manifest) : /\ manifest[i].meta.file \in FileId
                                        /\ manifest[i].meta.file < file_id
      BY <3>2, <3>3 DEF L0Aged, IdsAreFresh
    <3>5. \A i \in 1 .. Len(manifest) : manifest[i].meta.file # loc[t].fid
      BY <3>1, <3>4 DEF FileId
    <3> QED
      BY <2>2, <3>4, <3>5 DEF FlushWrite, CoreTypeOK
  <2> QED
    BY <2>1, <2>2
<1>9. \A k, v : v \in ListedVersions(k)' <=> v \in ListedVersions(k)
  <2>1. IsSequence(manifest) /\ DOMAIN manifest = 1 .. Len(manifest)
    BY AppendEntries DEF ListInv
  <2> QED
    BY <1>1, <1>8, <2>1 DEF ListedVersions, Range
<1> QED
  BY <1>7, <1>9

\* A flush lists its file: what the MemTable holds last becomes the newest.
LEMMA DiskFlushAdd ==
  ASSUME OneWordValues, CoreTypeOK, OrderInv, ListInv, L0Aged, CleanFlush, phase = "up", DiskAgrees,
         NEW t \in Thread, FlushAdd(t)
  PROVE  /\ DiskAgrees'
         /\ \A k \in Key : memtable[k] = <<>> =>
               \A v : v \in ListedVersions(k)' <=> v \in ListedVersions(k)
<1> USE KVDBAssumption
<1> DEFINE fid == loc[t].fid
           meta == MetaOf(fid, files[fid])
           line == [level |-> 0, meta |-> meta]
           n == Len(manifest)
<1>1. line.meta.file = fid
  BY DEF MetaOf
<1>2. /\ UNCHANGED <<wal, files, memtable>> /\ manifest' = Append(manifest, line)
      /\ pc[t] = "flush_written" /\ files[fid] # NotFound
  BY DEF FlushAdd
<1>3. /\ \A u \in Thread : u # t => pc'[u] = pc[u] /\ loc'[u] = loc[u]
      /\ pc'[t] = "flush_added"
  BY DEF FlushAdd, Goto, Keep, CoreTypeOK
<1> HIDE DEF line
<1>4. /\ \A u \in Thread : u # t => pc'[u] \notin FlushPlaces
      /\ \A u \in Client : pc'[u] # "logged" /\ pc[u] # "logged"
      /\ \A u \in Thread : pc[u] \notin {"flush_added", "flush_cleared"}
  BY <1>2, <1>3, NoWriteInFlush DEF FlushPlaces, Thread
<1>5. AppliedLines' = AppliedLines
  BY <1>2, <1>4 DEF AppliedLines
<1>6. /\ n \in Nat /\ Len(manifest') = n + 1
      /\ \A i \in 1 .. n : manifest'[i] = manifest[i]
      /\ manifest'[n + 1] = line /\ DOMAIN manifest = 1 .. n /\ IsSequence(manifest')
  BY <1>2, AppendEntries, AppendIsSequence DEF ListInv
<1>7. DOMAIN manifest' = 1 .. n + 1
  BY <1>6, AppendEntries
<1>8. \A i \in 1 .. n + 1 : i \in 1 .. n \/ i = n + 1
  BY <1>6
<1>9. \A k, v : v \in ListedVersions(k)' <=> v \in ListedVersions(k) \/ v \in files[fid][k]
  <2> SUFFICES ASSUME NEW k, NEW v
               PROVE  v \in ListedVersions(k)' <=> v \in ListedVersions(k) \/ v \in files[fid][k]
    OBVIOUS
  <2>1. v \in ListedVersions(k) <=> \E i \in 1 .. n : /\ files[manifest[i].meta.file] # NotFound
                                                      /\ v \in files[manifest[i].meta.file][k]
    BY <1>6 DEF ListedVersions, Range
  <2>2. v \in ListedVersions(k)' <=>
          \E i \in 1 .. n + 1 : /\ files[manifest'[i].meta.file] # NotFound
                                /\ v \in files[manifest'[i].meta.file][k]
    BY <1>2, <1>7, SMTT(60) DEF ListedVersions, Range
  <2>3. n + 1 \in 1 .. n + 1 /\ \A i \in 1 .. n : i \in 1 .. n + 1
    BY <1>6
  <2> QED
    BY <1>1, <1>2, <1>6, <1>8, <2>1, <2>2, <2>3
<1>10. files[fid] = SSTableWrite(memtable)
  BY <1>2 DEF DiskAgrees, FlushCarries
<1>11. \A k \in Key : \A v : v \in files[fid][k] <=> \E i \in DOMAIN memtable[k] : memtable[k][i] = v
  BY <1>10, WrittenIsCopied DEF CoreTypeOK
<1>12. ASSUME NEW k \in Key, memtable[k] = <<>>
       PROVE  \A v : v \in ListedVersions(k)' <=> v \in ListedVersions(k)
  BY <1>9, <1>11, <1>12
<1>13. ASSUME NEW k \in Key, memtable[k] # <<>>
       PROVE  Newest(k, LastValue(memtable, k))'
  <2> DEFINE last == memtable[k][Len(memtable[k])]
  <2>1. memtable[k] \in Seq(Version)
    BY DEF CoreTypeOK, MemTable
  <2>2. Len(memtable[k]) \in Nat /\ Len(memtable[k]) > 0 /\ DOMAIN memtable[k] = 1 .. Len(memtable[k])
    BY <1>13, <2>1, EmptySeq, LenProperties
  <2>3. Len(memtable[k]) \in DOMAIN memtable[k]
    BY <2>2
  <2>4. last \in ListedVersions(k)'
    BY <1>9, <1>11, <2>3
  <2>5. \A i \in DOMAIN memtable[k] : memtable[k][i] # last => memtable[k][i].seq < last.seq
    BY <2>2, <2>3 DEF OrderInv, MemTableOrdered, Ordered
  <2>6. OldInL0(k, last.seq)
    BY <1>4, <2>3 DEF L0Aged, L0IsOld
  <2>7. \A w \in ListedVersions(k) : w.seq < last.seq
    <3>1. \A i \in 1 .. n : manifest[i].meta.file = levels[0][i].file /\ n = Len(levels[0])
      BY DEF ListInv, LinesListed
    <3> QED
      BY <1>6, <2>6, <3>1, SMTT(60) DEF ListedVersions, Range, OldInL0
  <2>8. \A w \in ListedVersions(k)' : w # last => w.seq < last.seq
    BY <1>9, <1>11, <2>5, <2>7
  <2>9. LastValue(memtable', k) = last.value
    BY <1>2, <1>13 DEF LastValue
  <2> HIDE DEF last
  <2> QED
    BY <2>4, <2>8, <2>9 DEF Newest
<1>14. DiskAgrees'
  <2>1. LoggedIsLastLine'
    BY <1>4 DEF LoggedIsLastLine
  <2>2. \A k \in Key : Says(wal', AppliedLines', k, LastValue(memtable', k))
    BY <1>2, <1>4, <1>5 DEF DiskAgrees
  <2>3. FlushCarries(t)'
    BY <1>2, <1>3, <1>13 DEF FlushCarries
  <2>4. \A u \in Thread : u # t => FlushCarries(u)'
    BY <1>4 DEF FlushCarries, FlushPlaces
  <2> QED
    BY <2>1, <2>2, <2>3, <2>4 DEF DiskAgrees
<1> QED
  BY <1>12, <1>14

\* A flush clears the MemTable.
LEMMA DiskFlushClear ==
  ASSUME CoreTypeOK, CleanFlush, phase = "up", DiskAgrees, NEW t \in Thread, FlushClear(t)
  PROVE  DiskAgrees'
<1>1. /\ UNCHANGED <<wal, files, manifest, loc>> /\ memtable' = EmptyTable
      /\ pc[t] = "flush_added" /\ pc' = [pc EXCEPT ![t] = "flush_cleared"]
  BY DEF FlushClear, Goto, disk
<1>2. /\ \A u \in Thread : u # t => pc'[u] = pc[u]
      /\ pc'[t] = "flush_cleared"
  BY <1>1 DEF CoreTypeOK
<1>3. /\ \A u \in Thread : u # t => pc[u] \notin FlushPlaces
      /\ \A u \in Client : pc[u] # "logged"
      /\ AppliedLines = Len(wal)
  BY <1>1, NoWriteInFlush DEF FlushPlaces
<1>4. \A u \in Client : pc'[u] # "logged"
  BY <1>2, <1>3 DEF Thread
<1>5. \A u \in Thread : pc[u] # "flush_cleared"
  BY <1>1, <1>3 DEF FlushPlaces
<1>6. ASSUME NEW k \in Key
      PROVE  \E val : Says(wal, Len(wal), k, val) /\ (val # NotFound => Newest(k, val)')
  <2>1. PICK val : val = LastValue(memtable, k)
    OBVIOUS
  <2>2. Says(wal, Len(wal), k, val)
    BY <1>3, <1>5, <2>1 DEF DiskAgrees
  <2>3. val # NotFound => memtable[k] # <<>>
    BY <2>1, LastValueType DEF CoreTypeOK
  <2>4. val # NotFound => Newest(k, val)
    BY <1>1, <2>1, <2>3 DEF DiskAgrees, FlushCarries
  <2>5. Newest(k, val) => Newest(k, val)'
    BY <1>1 DEF Newest, ListedVersions
  <2> QED
    BY <2>2, <2>4, <2>5
<1>7. FlushCarries(t)'
  BY <1>1, <1>2, <1>6 DEF FlushCarries
<1>8. \A u \in Thread : u # t => FlushCarries(u)'
  BY <1>2, <1>3 DEF FlushCarries, FlushPlaces
<1> QED
  BY <1>2, <1>4, <1>7, <1>8 DEF DiskAgrees, LoggedIsLastLine

\* A flush truncates the WAL.
LEMMA DiskFlushTruncate ==
  ASSUME CoreTypeOK, CleanFlush, phase = "up", DiskAgrees, NEW t \in Thread, FlushTruncate(t)
  PROVE  DiskAgrees'
<1>1. /\ UNCHANGED <<files, manifest, loc, memtable>> /\ wal' = <<>>
      /\ pc[t] = "flush_cleared" /\ pc' = [pc EXCEPT ![t] = AfterFlush(t)]
      /\ AfterFlush(t) \in {"check", "idle"}
  BY DEF FlushTruncate, Goto, AfterFlush
<1>2. /\ \A u \in Thread : u # t => pc'[u] = pc[u]
      /\ pc'[t] \in {"check", "idle"}
  BY <1>1 DEF CoreTypeOK
<1>3. /\ \A u \in Thread : u # t => pc[u] \notin FlushPlaces
      /\ \A u \in Client : pc[u] # "logged"
  BY <1>1, NoWriteInFlush DEF FlushPlaces
<1>4. \A u \in Client : pc'[u] # "logged"
  BY <1>2, <1>3 DEF Thread
<1>5. \A u \in Thread : pc'[u] \notin FlushPlaces
  BY <1>2, <1>3 DEF FlushPlaces
<1>6. memtable' = EmptyTable
  BY <1>1 DEF DiskAgrees, FlushCarries
<1>7. AppliedLines' = 0
  BY <1>1, <1>4 DEF AppliedLines
<1>8. \A k \in Key : Says(wal', AppliedLines', k, LastValue(memtable', k))
  BY <1>6, <1>7 DEF Says, LastValue, EmptyTable
<1> QED
  BY <1>4, <1>5, <1>8 DEF DiskAgrees, LoggedIsLastLine, FlushCarries, FlushPlaces

\* Every step keeps DiskInv.
LEMMA DiskStep ==
  ASSUME OneWordValues, CoreTypeOK, OrderInv, ListInv, L0Inv, NoCompaction', CleanFlush, CleanFlush',
         DiskInv, [Next]_vars
  PROVE  DiskInv'
<1> SUFFICES ASSUME restarts' = 0, phase' = "up"
             PROVE  DiskAgrees'
  BY DEF DiskInv
<1>0. restarts = 0 /\ phase = "up"
  BY RestartsCount DEF L0Inv
<1>1. DiskAgrees /\ L0Aged
  BY <1>0 DEF DiskInv, L0Inv
<1> USE KVDBAssumption DEF disk, startup
<1>2. ASSUME NEW t \in Thread, NEW l, l \notin FlushPlaces \cup {"logged"},
             pc[t] \notin {"logged", "flush_cleared"},
             pc' = [pc EXCEPT ![t] = l],
             loc' = loc \/ \E r : loc' = [loc EXCEPT ![t] = r],
             UNCHANGED <<wal, manifest, files, memtable>>
      PROVE  DiskAgrees'
  <2>1. /\ \A u \in Thread : u # t => pc'[u] = pc[u] /\ loc'[u] = loc[u]
        /\ pc'[t] = l
    BY <1>2 DEF CoreTypeOK
  <2> QED
    BY <1>1, <1>2, <2>1, DiskFrame
<1>3. ASSUME NEW t \in Client, NEW k \in Key, NEW v \in Stored, BeginWrite(t, k, v)
      PROVE  DiskAgrees'
  BY <1>2, <1>3 DEF BeginWrite, Goto, Keep, Thread, FlushPlaces
<1>4. ASSUME NEW t \in Client, LogWrite(t) \/ ApplyWrite(t)
      PROVE  DiskAgrees'
  BY <1>0, <1>1, <1>4, DiskWrite
<1>5. ASSUME NEW t \in Client, Get(t)
      PROVE  DiskAgrees'
  BY <1>2, <1>5, GetFrame DEF FlushPlaces
<1>6. ASSUME NEW t \in Thread, FlushEmpty(t)
      PROVE  DiskAgrees'
  BY <1>2, <1>6 DEF FlushEmpty, FlushCaller, AfterFlush, Goto, FlushPlaces
<1>7. ASSUME NEW t \in Thread, FlushCopy(t) \/ FlushWrite(t)
      PROVE  DiskAgrees'
  BY <1>0, <1>1, <1>7, DiskFlushFile
<1>8. ASSUME NEW t \in Thread, FlushAdd(t)
      PROVE  DiskAgrees'
  BY <1>0, <1>1, <1>8, DiskFlushAdd
<1>9. ASSUME NEW t \in Thread, FlushClear(t)
      PROVE  DiskAgrees'
  BY <1>0, <1>1, <1>9, DiskFlushClear
<1>10. ASSUME NEW t \in Thread, FlushTruncate(t)
       PROVE  DiskAgrees'
  BY <1>0, <1>1, <1>10, DiskFlushTruncate
<1>11. ASSUME FlushWorker
       PROVE  DiskAgrees'
  BY <1>2, <1>11, WorkerFrame DEF FlushPlaces
<1>12. ASSUME NEW t \in Thread, Compact(t)
       PROVE  FALSE
  BY <1>12, NobodyCompacts
<1>13. ASSUME Die
       PROVE  FALSE
  BY <1>13 DEF Die
<1>14. ASSUME Recovery
       PROVE  FALSE
  BY <1>0, <1>14 DEF Recovery, Restart, RecoverLine, RecoverEnd, ReplayLine, ReplayEnd
<1>15. CASE UNCHANGED vars
  <2>1. UNCHANGED <<wal, manifest, files, memtable, pc, loc>>
    BY <1>15 DEF vars
  <2> QED
    BY <1>1, <2>1, DiskFrame
<1> QED
  BY <1>3, <1>4, <1>5, <1>6, <1>7, <1>8, <1>9, <1>10, <1>11, <1>12, <1>13, <1>14, <1>15
     DEF Next, Write, Put, Del, Flush, MetaThrows, Crash, Stored

\* The value that a WAL w and the listed versions vs determine for k.
FileValue(vs) == IF vs = {} THEN NotFound
                 ELSE (CHOOSE v \in vs : \A w \in vs : v.seq >= w.seq).value

ValueOf(w, vs, k) ==
    LET lines == {i \in DOMAIN w : w[i].key = k}
    IN  IF lines # {} THEN Word(w[Max(lines)].value) ELSE FileValue(vs)

\* The last line of the key decides, otherwise the files.
LEMMA ValueSaid ==
  ASSUME OneWordValues, NEW w \in Seq(Line), NEW vs, NEW k, NEW val, Says(w, Len(w), k, val)
  PROVE  ValueOf(w, vs, k) = IF val # NotFound THEN val ELSE FileValue(vs)
<1> DEFINE lines == {i \in DOMAIN w : w[i].key = k}
<1>1. DOMAIN w = 1 .. Len(w) /\ Len(w) \in Nat /\ \A i \in 1 .. Len(w) : w[i] \in Line
  OBVIOUS
<1>2. \A x \in Stored : Word(x) = x /\ x # NotFound
  BY ValueAssumption DEF Word, Stored, OneWordValues
<1>3. CASE val = NotFound /\ \A i \in 1 .. Len(w) : w[i].key # k
  <2>1. lines = {}
    BY <1>1, <1>3
  <2> QED
    BY <1>3, <2>1 DEF ValueOf
<1>4. ASSUME NEW i \in 1 .. Len(w), w[i].key = k, w[i].value = val,
             \A j \in i + 1 .. Len(w) : w[j].key # k
      PROVE  ValueOf(w, vs, k) = IF val # NotFound THEN val ELSE FileValue(vs)
  <2>1. i \in lines /\ \A j \in lines : j \in 1 .. Len(w) /\ i >= j
    BY <1>1, <1>4
  <2>2. \A x \in lines : (\A y \in lines : x >= y) => x = i
    BY <1>1, <2>1
  <2>3. Max(lines) = i
    BY <2>1, <2>2 DEF Max
  <2>4. val \in Stored
    BY <1>1, <1>4 DEF Line
  <2> QED
    BY <1>2, <1>4, <2>1, <2>3, <2>4 DEF ValueOf
<1> QED
  BY <1>3, <1>4 DEF Says

\* The newest version is the one that the files give.
LEMMA NewestIsFileValue ==
  ASSUME NEW vs, \A v \in vs : v.seq \in Nat, NEW v \in vs, \A w \in vs : w # v => w.seq < v.seq
  PROVE  FileValue(vs) = v.value
<1>1. \A w \in vs : v.seq >= w.seq
  OBVIOUS
<1>2. \A x \in vs : (\A w \in vs : x.seq >= w.seq) => x = v
  OBVIOUS
<1> QED
  BY <1>1, <1>2 DEF FileValue

\* The refinement mapping.
Store == [k \in Key |-> DurableValue(k)]
OpOf(c) ==
    CASE pc[c] = "write"  -> [key |-> loc[c].key, value |-> loc[c].value, done |-> FALSE]
      [] pc[c] = "logged" -> [key |-> loc[c].key, value |-> loc[c].value, done |-> TRUE]
      [] OTHER            -> NoThread

\* What the mapping makes of the WAL and the MANIFEST.
LEMMA StoreIs ==
  /\ \A k : DurableValue(k) = ValueOf(wal, ListedVersions(k), k)
  /\ \A k : DurableValue(k)' = ValueOf(wal', ListedVersions(k)', k)
  BY DEF DurableValue, ValueOf, FileValue

\* What the WAL says about a key while a write is about to be logged, or a file
\* to be listed.
LEMMA WalSays ==
  ASSUME CoreTypeOK, L0Inv, ReplayInv, DiskInv, FreshManifest, phase = "up",
         \A t \in Client : pc[t] # "logged",
         \A t \in Thread : pc[t] # "flush_cleared", NEW k \in Key
  PROVE  Says(wal, Len(wal), k, LastValue(memtable, k))
<1>1. AppliedLines = Len(wal)
  BY DEF AppliedLines
<1>2. CASE restarts = 0
  BY <1>1, <1>2 DEF DiskInv, DiskAgrees
<1>3. CASE manifest = <<>>
  BY <1>1, <1>3 DEF ReplayInv, WalAgrees, TableAgrees, MemTableFollowsWal
<1> QED
  BY <1>2, <1>3 DEF FreshManifest

\* An unchanged disk says what it said.
LEMMA DiskStays ==
  ASSUME UNCHANGED <<wal, manifest, files>>
  PROVE  \A k : DurableValue(k)' = DurableValue(k)
  BY DEF DurableValue, ListedVersions

\* A logged line decides the value of its key, and of no other.
LEMMA LogTakesEffect ==
  ASSUME OneWordValues, CoreTypeOK, OrderInv, L0Inv, ReplayInv, DiskInv, FreshManifest, CleanFlush,
         NEW t \in Client, LogWrite(t), NEW k \in Key
  PROVE  DurableValue(k)' = IF k = loc[t].key THEN loc[t].value ELSE DurableValue(k)
<1>1. /\ t \in Thread /\ pc[t] = "write" /\ phase = "up" /\ loc[t] \in Line
      /\ wal \in Seq(Line) /\ wal' = Append(wal, loc[t]) /\ UNCHANGED <<manifest, files>>
  BY DEF LogWrite, CoreTypeOK, LocalTypeOK, Thread, Line
<1>2. \A u \in Thread : pc[u] \notin FlushPlaces
  BY <1>1, NoWriteInFlush
<1>3. \A u \in Client : pc[u] # "logged"
  BY <1>1, OneLogged
<1>4. PICK u : u = LastValue(memtable, k)
  OBVIOUS
<1>5. Says(wal, Len(wal), k, u)
  BY <1>1, <1>2, <1>3, <1>4, WalSays DEF FlushPlaces
<1>6. /\ wal' \in Seq(Line) /\ Len(wal') = Len(wal) + 1 /\ Len(wal) \in Nat
      /\ wal'[Len(wal) + 1] = loc[t]
  BY <1>1
<1>7. Says(wal', Len(wal), k, u)
  BY <1>1, <1>5, <1>6, SaysAfterAppend
<1>8. Says(wal', Len(wal'), k, IF loc[t].key = k THEN loc[t].value ELSE u)
  BY <1>6, <1>7, SaysNextLine
<1>9. loc[t].value # NotFound
  BY <1>1, ValueAssumption DEF Line, Stored
<1>10. ListedVersions(k)' = ListedVersions(k)
  BY <1>1 DEF ListedVersions
<1>11. DurableValue(k) = IF u # NotFound THEN u ELSE FileValue(ListedVersions(k))
  BY <1>1, <1>5, StoreIs, ValueSaid
<1>12. CASE loc[t].key = k
  <2>1. Says(wal', Len(wal'), k, loc[t].value)
    BY <1>8, <1>12
  <2> QED
    BY <1>6, <1>9, <1>12, <2>1, StoreIs, ValueSaid
<1>13. CASE loc[t].key # k
  <2>1. Says(wal', Len(wal'), k, u)
    BY <1>8, <1>13
  <2> QED
    BY <1>6, <1>10, <1>11, <1>13, <2>1, StoreIs, ValueSaid
<1> QED
  BY <1>12, <1>13

\* A listed version is a version, in an engine that has not been restarted.
LEMMA ListedType ==
  ASSUME CoreTypeOK, ListInv, phase = "up", L0Aged, NEW k \in Key, NEW v \in ListedVersions(k)
  PROVE  v.seq \in Nat
<1>1. PICK i \in 1 .. Len(manifest) : v \in files[manifest[i].meta.file][k]
  BY ListedInFiles DEF ListInv
<1>2. manifest[i].meta.file = levels[0][i].file /\ i \in 1 .. Len(levels[0])
  BY DEF ListInv, LinesListed
<1>3. files[levels[0][i].file] \in SSTable
  BY <1>2 DEF L0Aged, IdsAreFresh
<1>4. v \in Version
  BY <1>1, <1>2, <1>3 DEF SSTable
<1> QED
  BY <1>4 DEF Version

\* No step of a flush changes what the disk says about a key.
LEMMA FlushKeepsStore ==
  ASSUME OneWordValues, CoreTypeOK, OrderInv, ListInv, L0Inv, ReplayInv, DiskInv,
         FreshManifest, FreshManifest', CleanFlush, CleanFlush',
         NEW t \in Thread, Flush(t), NEW k \in Key
  PROVE  DurableValue(k)' = DurableValue(k)
<1>1. phase = "up"
  BY DEF Flush, FlushEmpty, FlushCopy, FlushWrite, FlushAdd, FlushClear, FlushTruncate
<1>2. CASE FlushEmpty(t) \/ FlushCopy(t) \/ FlushClear(t)
  <2>1. UNCHANGED <<wal, manifest, files>>
    BY <1>2 DEF FlushEmpty, FlushCopy, FlushClear, disk
  <2> QED
    BY <2>1, DiskStays
<1>3. CASE FlushWrite(t)
  <2>1. ListedVersions(k)' = ListedVersions(k)
    <3>1. CASE restarts = 0
      BY <1>1, <1>3, <3>1, DiskFlushFile DEF DiskInv, L0Inv
    <3>2. CASE manifest = <<>>
      <4>1. manifest' = manifest
        BY <1>3 DEF FlushWrite
      <4>2. Range(manifest) = {}
        BY <3>2 DEF Range
      <4> QED
        BY <4>1, <4>2 DEF ListedVersions
    <3> QED
      BY <3>1, <3>2 DEF FreshManifest
  <2>2. wal' = wal
    BY <1>3 DEF FlushWrite
  <2> QED
    BY <2>1, <2>2, StoreIs
<1>4. CASE FlushAdd(t)
  <2>1. restarts = 0
    <3>1. manifest' # <<>> /\ restarts' = restarts
      BY <1>4, AppendIsSequence DEF FlushAdd, ListInv, startup
    <3> QED
      BY <3>1 DEF FreshManifest
  <2>2. DiskAgrees /\ L0Aged /\ wal' = wal /\ wal \in Seq(Line)
    BY <1>1, <1>4, <2>1 DEF DiskInv, L0Inv, FlushAdd, CoreTypeOK, Line
  <2>3. PICK u : u = LastValue(memtable, k)
    OBVIOUS
  <2>4. pc[t] = "flush_written"
    BY <1>4 DEF FlushAdd
  <2>5. /\ \A c \in Client : pc[c] # "logged"
        /\ \A c \in Thread : pc[c] # "flush_cleared"
    BY <2>4, NoWriteInFlush DEF FlushPlaces
  <2>6. Says(wal, Len(wal), k, u)
    BY <1>1, <2>3, <2>5, WalSays
  <2>7. DurableValue(k) = IF u # NotFound THEN u ELSE FileValue(ListedVersions(k))
    BY <2>2, <2>6, StoreIs, ValueSaid
  <2>8. DurableValue(k)' = IF u # NotFound THEN u ELSE FileValue(ListedVersions(k)')
    BY <2>2, <2>6, StoreIs, ValueSaid
  <2>9. ASSUME u = NotFound
        PROVE  ListedVersions(k)' = ListedVersions(k)
    <3>1. memtable[k] = <<>>
      BY <2>3, <2>9, LastValueType DEF CoreTypeOK
    <3> QED
      BY <1>1, <1>4, <2>2, <3>1, DiskFlushAdd
  <2> QED
    BY <2>7, <2>8, <2>9
<1>5. CASE FlushTruncate(t)
  <2>1. pc[t] = "flush_cleared" /\ wal' = <<>> /\ UNCHANGED <<manifest, files>>
    BY <1>5 DEF FlushTruncate
  <2>2. restarts = 0
    BY <2>1 DEF FreshManifest, ReplayInv, NothingListed, AfterListing
  <2>3. DiskAgrees /\ L0Aged /\ wal \in Seq(Line) /\ <<>> \in Seq(Line) /\ Len(<<>>) = 0
    BY <1>1, <2>2 DEF DiskInv, L0Inv, CoreTypeOK, Line
  <2>4. PICK val : Says(wal, Len(wal), k, val) /\ (val # NotFound => Newest(k, val))
    BY <2>1, <2>3 DEF DiskAgrees, FlushCarries
  <2>5. DurableValue(k) = IF val # NotFound THEN val ELSE FileValue(ListedVersions(k))
    BY <2>3, <2>4, StoreIs, ValueSaid
  <2>6. Says(<<>>, Len(<<>>), k, NotFound)
    BY DEF Says
  <2>7. DurableValue(k)' = FileValue(ListedVersions(k))
    <3>1. ListedVersions(k)' = ListedVersions(k)
      BY <2>1 DEF ListedVersions
    <3> QED
      BY <2>1, <2>3, <2>6, <3>1, StoreIs, ValueSaid
  <2>8. ASSUME val # NotFound
        PROVE  FileValue(ListedVersions(k)) = val
    <3>1. PICK v \in ListedVersions(k) :
             v.value = val /\ \A w \in ListedVersions(k) : w # v => w.seq < v.seq
      BY <2>4, <2>8 DEF Newest
    <3>2. \A w \in ListedVersions(k) : w.seq \in Nat
      BY <1>1, <2>3, ListedType
    <3> QED
      BY <3>1, <3>2, NewestIsFileValue
  <2> QED
    BY <2>5, <2>7, <2>8
<1> QED
  BY <1>2, <1>3, <1>4, <1>5 DEF Flush

\* A step that takes no client into or out of a write leaves the operations.
LEMMA OpsStay ==
  ASSUME CoreTypeOK, NEW t \in Thread, NEW l, l \notin {"write", "logged"},
         pc[t] \notin {"write", "logged"},
         pc' = [pc EXCEPT ![t] = l],
         loc' = loc \/ \E r : loc' = [loc EXCEPT ![t] = r]
  PROVE  \A c \in Client : OpOf(c)' = OpOf(c)
<1>1. \A u \in Thread : u # t => pc'[u] = pc[u] /\ loc'[u] = loc[u]
  BY DEF CoreTypeOK
<1>2. pc'[t] = l
  BY DEF CoreTypeOK
<1> QED
  BY <1>1, <1>2 DEF OpOf, Thread

Ops0 == [c \in Client |-> OpOf(c)]

\* A write in progress is told from none.
LEMMA WriteRecord ==
  ASSUME NEW k \in Key, NEW v \in Stored, NEW d \in BOOLEAN, NEW r,
         r = [key |-> k, value |-> v, done |-> d]
  PROVE  r # NoThread
<1>1. r \in [key : Key, value : Stored, done : BOOLEAN]
  OBVIOUS
<1> QED
  BY <1>1, KVDBAssumption

\* A step of the engine is a step of the map, or none.
LEMMA MapStep ==
  ASSUME OneWordValues, CoreTypeOK, OrderInv, ListInv, L0Inv, ReplayInv, DiskInv, NoCompaction',
         FreshManifest, FreshManifest', CleanFlush, CleanFlush', [Next]_vars
  PROVE  \/ \E c \in Client, k \in Key, v \in Stored :
               /\ OpOf(c) = NoThread
               /\ Ops0' = [Ops0 EXCEPT ![c] = [key |-> k, value |-> v, done |-> FALSE]]
               /\ Store' = Store
         \/ \E c \in Client :
               /\ OpOf(c) # NoThread /\ ~OpOf(c).done
               /\ Store' = [Store EXCEPT ![OpOf(c).key] = OpOf(c).value]
               /\ Ops0' = [Ops0 EXCEPT ![c] = [OpOf(c) EXCEPT !.done = TRUE]]
         \/ \E c \in Client :
               /\ OpOf(c) # NoThread /\ OpOf(c).done
               /\ Ops0' = [Ops0 EXCEPT ![c] = NoThread]
               /\ Store' = Store
         \/ Ops0' = [c \in Client |-> NoThread] /\ Store' = Store
         \/ Ops0' = Ops0 /\ Store' = Store
<1> USE KVDBAssumption DEF disk, startup
<1>1. ASSUME NEW t \in Client, NEW k \in Key, NEW v \in Stored, BeginWrite(t, k, v)
      PROVE  /\ OpOf(t) = NoThread
             /\ Ops0' = [Ops0 EXCEPT ![t] = [key |-> k, value |-> v, done |-> FALSE]]
             /\ Store' = Store
  <2>1. /\ pc' = [pc EXCEPT ![t] = "write"] /\ loc' = [loc EXCEPT ![t] = [key |-> k, value |-> v]]
        /\ pc[t] = "idle" /\ t \in Thread /\ UNCHANGED <<wal, manifest, files>>
    BY <1>1 DEF BeginWrite, Goto, Keep, Thread
  <2>2. /\ \A u \in Client : u # t => pc'[u] = pc[u] /\ loc'[u] = loc[u]
        /\ pc'[t] = "write" /\ loc'[t] = [key |-> k, value |-> v]
    BY <2>1 DEF CoreTypeOK, Thread
  <2>3. OpOf(t) = NoThread
    BY <2>1 DEF OpOf
  <2>4. /\ OpOf(t)' = [key |-> k, value |-> v, done |-> FALSE]
        /\ \A u \in Client : u # t => OpOf(u)' = OpOf(u)
    <3>1. loc'[t].key = k /\ loc'[t].value = v
      BY <2>2
    <3>2. OpOf(t)' = [key |-> k, value |-> v, done |-> FALSE]
      BY <2>2, <3>1 DEF OpOf
    <3>3. \A u \in Client : u # t => OpOf(u)' = OpOf(u)
      BY <2>2 DEF OpOf
    <3> QED
      BY <3>2, <3>3
  <2>5. Store' = Store
    BY <2>1, DiskStays DEF Store
  <2> QED
    BY <2>3, <2>4, <2>5 DEF Ops0
<1>2. ASSUME NEW t \in Client, LogWrite(t)
      PROVE  /\ OpOf(t) # NoThread /\ ~OpOf(t).done
             /\ Store' = [Store EXCEPT ![OpOf(t).key] = OpOf(t).value]
             /\ Ops0' = [Ops0 EXCEPT ![t] = [OpOf(t) EXCEPT !.done = TRUE]]
  <2>1. /\ pc' = [pc EXCEPT ![t] = "logged"] /\ pc[t] = "write" /\ t \in Thread
        /\ loc' = [loc EXCEPT ![t] = [key |-> loc[t].key, value |-> loc[t].value, seq |-> seq]]
    BY <1>2 DEF LogWrite, Goto, Keep, Thread
  <2>2. loc[t].key \in Key /\ loc[t].value \in Stored
    BY <2>1 DEF CoreTypeOK, LocalTypeOK
  <2>3. /\ \A u \in Client : u # t => pc'[u] = pc[u] /\ loc'[u] = loc[u]
        /\ pc'[t] = "logged" /\ loc'[t].key = loc[t].key /\ loc'[t].value = loc[t].value
    BY <2>1 DEF CoreTypeOK, Thread
  <2>4. OpOf(t) = [key |-> loc[t].key, value |-> loc[t].value, done |-> FALSE]
    BY <2>1 DEF OpOf
  <2>5. /\ OpOf(t)' = [key |-> loc[t].key, value |-> loc[t].value, done |-> TRUE]
        /\ \A u \in Client : u # t => OpOf(u)' = OpOf(u)
    BY <2>3 DEF OpOf
  <2>6. /\ OpOf(t) # NoThread /\ ~OpOf(t).done
        /\ [OpOf(t) EXCEPT !.done = TRUE]
              = [key |-> loc[t].key, value |-> loc[t].value, done |-> TRUE]
    <3>1. PICK k, v, r : k = loc[t].key /\ v = loc[t].value /\ r = OpOf(t)
      OBVIOUS
    <3>2. k \in Key /\ v \in Stored /\ r = [key |-> k, value |-> v, done |-> FALSE]
      BY <2>2, <2>4, <3>1
    <3>3. PICK d \in BOOLEAN, e \in BOOLEAN : d = FALSE /\ e = TRUE
      OBVIOUS
    <3>4. r = [key |-> k, value |-> v, done |-> d]
      BY <3>2, <3>3
    <3>5. r # NoThread
      BY <3>2, <3>4, WriteRecord
    <3>6. ~r.done
      BY <3>2
    <3>7. [r EXCEPT !.done = e] = [key |-> k, value |-> v, done |-> e]
      BY <3>4
    <3>8. [r EXCEPT !.done = TRUE] = [key |-> k, value |-> v, done |-> TRUE]
      BY <3>3, <3>7, Zenon
    <3> QED
      BY <3>1, <3>5, <3>6, <3>8, Zenon
  <2>7. \A k \in Key : DurableValue(k)' = IF k = loc[t].key THEN loc[t].value ELSE DurableValue(k)
    BY <1>2, LogTakesEffect
  <2>8. Store' = [Store EXCEPT ![loc[t].key] = loc[t].value]
    BY <2>7 DEF Store
  <2>9. Ops0' = [Ops0 EXCEPT ![t] = [key |-> loc[t].key, value |-> loc[t].value, done |-> TRUE]]
    BY <2>5 DEF Ops0
  <2>10. OpOf(t).key = loc[t].key /\ OpOf(t).value = loc[t].value
    BY <2>4
  <2> QED
    BY <2>6, <2>8, <2>9, <2>10, Zenon
<1>3. ASSUME NEW t \in Client, ApplyWrite(t)
      PROVE  /\ OpOf(t) # NoThread /\ OpOf(t).done
             /\ Ops0' = [Ops0 EXCEPT ![t] = NoThread]
             /\ Store' = Store
  <2>1. pc[t] = "logged" /\ t \in Thread /\ t # Flusher /\ Flusher \in Thread /\ Flusher \notin Client
    BY <1>3 DEF ApplyWrite, Thread
  <2>2. loc[t].key \in Key /\ loc[t].value \in Stored
    BY <2>1 DEF CoreTypeOK, LocalTypeOK
  <2>3. OpOf(t) = [key |-> loc[t].key, value |-> loc[t].value, done |-> TRUE]
    BY <2>1 DEF OpOf
  <2>4. \/ pc' = [pc EXCEPT ![t] = "idle"]
        \/ pc' = [[pc EXCEPT ![t] = "idle"] EXCEPT ![Flusher] = IF @ = "wait" THEN "eval" ELSE @]
    BY <1>3 DEF ApplyWrite, Notified
  <2>5. /\ \A u \in Client : u # t => pc'[u] = pc[u]
        /\ pc'[t] = "idle"
    BY <2>1, <2>4 DEF CoreTypeOK, Thread
  <2>6. \A u \in Client : u # t => loc'[u] = loc[u]
    BY <1>3 DEF ApplyWrite, Keep, CoreTypeOK, Thread
  <2>7. OpOf(t)' = NoThread /\ \A u \in Client : u # t => OpOf(u)' = OpOf(u)
    BY <2>5, <2>6 DEF OpOf
  <2>8. Store' = Store
    BY <1>3, DiskStays DEF ApplyWrite, Store
  <2>9. OpOf(t) # NoThread /\ OpOf(t).done
    <3>1. PICK k, v, r : k = loc[t].key /\ v = loc[t].value /\ r = OpOf(t)
      OBVIOUS
    <3>2. k \in Key /\ v \in Stored /\ r = [key |-> k, value |-> v, done |-> TRUE]
      BY <2>2, <2>3, <3>1
    <3>3. r # NoThread
      BY <3>2, WriteRecord
    <3>4. r.done
      BY <3>2
    <3> QED
      BY <3>1, <3>3, <3>4, Zenon
  <2>10. Ops0' = [Ops0 EXCEPT ![t] = NoThread]
    BY <2>7 DEF Ops0
  <2> QED
    BY <2>8, <2>9, <2>10, Zenon
<1>4. ASSUME NEW t \in Client, Get(t)
      PROVE  Ops0' = Ops0 /\ Store' = Store
  <2>1. \A c \in Client : OpOf(c)' = OpOf(c)
    BY <1>4, GetFrame, OpsStay
  <2>2. \A k : DurableValue(k)' = DurableValue(k)
    BY <1>4, GetFrame, DiskStays
  <2> QED
    BY <2>1, <2>2 DEF Ops0, Store
<1>5. ASSUME NEW t \in Thread, Flush(t)
      PROVE  Ops0' = Ops0 /\ Store' = Store
  <2>1. /\ pc[t] \notin {"write", "logged"}
        /\ \E l : l \notin {"write", "logged"} /\ pc' = [pc EXCEPT ![t] = l]
        /\ loc' = loc \/ \E r : loc' = [loc EXCEPT ![t] = r]
    BY <1>5 DEF Flush, FlushEmpty, FlushCopy, FlushWrite, FlushAdd, FlushClear, FlushTruncate,
                FlushCaller, AfterFlush, Goto, Keep
  <2>2. \A c \in Client : OpOf(c)' = OpOf(c)
    BY <2>1, OpsStay
  <2>3. \A k \in Key : DurableValue(k)' = DurableValue(k)
    BY <1>5, FlushKeepsStore
  <2> QED
    BY <2>2, <2>3 DEF Ops0, Store
<1>6. ASSUME FlushWorker
      PROVE  Ops0' = Ops0 /\ Store' = Store
  <2>1. \A c \in Client : OpOf(c)' = OpOf(c)
    BY <1>6, WorkerFrame, OpsStay
  <2>2. \A k : DurableValue(k)' = DurableValue(k)
    BY <1>6, WorkerFrame, DiskStays
  <2> QED
    BY <2>1, <2>2 DEF Ops0, Store
<1>7. ASSUME Die
      PROVE  Ops0' = [c \in Client |-> NoThread] /\ Store' = Store
  <2>1. /\ \A c \in Client : pc'[c] \in {"idle", "eval"}
        /\ UNCHANGED <<wal, manifest, files>>
    BY <1>7 DEF Die, Home, Thread
  <2>2. \A c \in Client : OpOf(c)' = NoThread
    BY <2>1 DEF OpOf
  <2> QED
    BY <2>1, <2>2, DiskStays DEF Ops0, Store
<1>8. ASSUME Recovery \/ UNCHANGED vars
      PROVE  Ops0' = Ops0 /\ Store' = Store
  <2>1. UNCHANGED <<wal, manifest, files, pc, loc>>
    BY <1>8 DEF Recovery, Restart, RecoverLine, RecoverEnd, ReplayLine, ReplayEnd, vars
  <2>2. \A c \in Client : OpOf(c)' = OpOf(c)
    BY <2>1 DEF OpOf
  <2> QED
    BY <2>1, <2>2, DiskStays DEF Ops0, Store
<1>9. ASSUME NEW t \in Thread, Compact(t)
      PROVE  FALSE
  BY <1>9, NobodyCompacts
<1>10. CASE \E t \in Client : Write(t)
  <2>1. PICK t \in Client : Write(t)
    BY <1>10
  <2>2. CASE \E k \in Key, v \in Stored : BeginWrite(t, k, v)
    BY <1>1, <2>2
  <2> QED
    BY <1>2, <1>3, <2>1, <2>2 DEF Write, Put, Del, Stored
<1> QED
  BY <1>4, <1>5, <1>6, <1>7, <1>8, <1>9, <1>10 DEF Next, MetaThrows, Crash

\* A clean flush is the only one.
LEMMA CleanIsOne == CleanFlush => OneFlush
  BY DEF CleanFlush, OneFlush, FlushPlaces

\* Every step of a clean behaviour keeps L0Inv.
LEMMA CleanL0Step ==
  ASSUME OneWordValues, CoreTypeOK, OrderInv, ListInv, NoCompaction', CleanFlush, CleanFlush', L0Inv,
         [Next]_vars
  PROVE  L0Inv'
<1>1. CleanFlush' => OneFlush'
  BY DEF CleanFlush, OneFlush, FlushPlaces
<1> QED
  BY <1>1, CleanIsOne, AgedStep, RestartsCount DEF L0Inv

\* The engine starts with an empty disk.
LEMMA DiskInit == Init => DiskInv
<1> SUFFICES ASSUME Init PROVE DiskInv
  OBVIOUS
<1>1. /\ \A t \in Thread : pc[t] \in {"idle", "eval"}
      /\ \A c \in Client : pc[c] # "logged"
  BY DEF Init, Home, Thread
<1>2. AppliedLines = 0 /\ wal = <<>>
  BY <1>1 DEF Init, AppliedLines
<1>3. \A k \in Key : Says(wal, 0, k, LastValue(memtable, k))
  BY DEF Init, Says, LastValue, EmptyTable
<1> QED
  BY <1>1, <1>2, <1>3 DEF DiskInv, DiskAgrees, LoggedIsLastLine, FlushCarries

\* The disk is a crash-safe map (DurableMap): the value that the WAL and the
\* listed files determine for a key changes only when a put or del of that key
\* writes its WAL line, once, before it is acknowledged; no step of a flush, no
\* crash and no restart changes it.  For any number of clients, keys, values and
\* flushes, in behaviours in which nothing is compacted, no flush overlaps
\* another flush or a write, and an engine that was restarted has listed nothing.
THEOREM DiskImplementsDurableMap ==
  ASSUME OneWordValues
  PROVE  Spec /\ []NoCompaction /\ []CleanFlush /\ []FreshManifest => DiskIsDurableMap
<1>1. Init => ListInv /\ L0Inv
  BY ListInit, L0Init
<1>2. Init => DiskInv
  BY DiskInit
<1>3. Init => Durable!DurableInit
  <2> SUFFICES ASSUME Init PROVE Durable!DurableInit
    OBVIOUS
  <2>1. \A c \in Client : pc[c] \notin {"write", "logged"}
    BY DEF Init, Home, Thread
  <2>2. \A k : DurableValue(k) = NotFound
    <3>1. wal = <<>> /\ manifest = <<>> /\ DOMAIN <<>> = {}
      BY DEF Init
    <3>2. \A k : ListedVersions(k) = {}
      BY <3>1 DEF ListedVersions, Range
    <3> QED
      BY <3>1, <3>2 DEF DurableValue
  <2> QED
    BY <2>1, <2>2 DEF Durable!DurableInit
<1>4. CoreTypeOK /\ ListInv /\ NoCompaction' /\ [Next]_vars => ListInv'
  BY ListStep
<1>5. CoreTypeOK /\ OrderInv /\ ListInv /\ NoCompaction' /\ CleanFlush /\ CleanFlush' /\ L0Inv
        /\ [Next]_vars => L0Inv'
  BY CleanL0Step
<1>6. CoreTypeOK /\ OrderInv /\ ListInv /\ L0Inv /\ NoCompaction' /\ CleanFlush /\ CleanFlush' /\ DiskInv
        /\ [Next]_vars => DiskInv'
  BY DiskStep
<1>7. /\ CoreTypeOK /\ OrderInv /\ ListInv /\ L0Inv /\ ReplayInv /\ DiskInv /\ NoCompaction'
      /\ FreshManifest /\ FreshManifest' /\ CleanFlush /\ CleanFlush' /\ [Next]_vars
      => [Durable!DurableNext]_<<Store, Ops0>>
  <2> SUFFICES ASSUME CoreTypeOK, OrderInv, ListInv, L0Inv, ReplayInv, DiskInv, NoCompaction',
                      FreshManifest, FreshManifest', CleanFlush, CleanFlush', [Next]_vars
               PROVE  [Durable!DurableNext]_<<Store, Ops0>>
    OBVIOUS
  <2>1. ASSUME NEW c \in Client, NEW k \in Key, NEW v \in Stored,
               OpOf(c) = NoThread,
               Ops0' = [Ops0 EXCEPT ![c] = [key |-> k, value |-> v, done |-> FALSE]],
               Store' = Store
        PROVE  Durable!Begin(c, k, v)
    BY <2>1 DEF Durable!Begin, Ops0, OpOf, Store
  <2>2. ASSUME NEW c \in Client,
               OpOf(c) # NoThread, ~OpOf(c).done,
               Store' = [Store EXCEPT ![OpOf(c).key] = OpOf(c).value],
               Ops0' = [Ops0 EXCEPT ![c] = [OpOf(c) EXCEPT !.done = TRUE]]
        PROVE  Durable!TakeEffect(c)
    BY <2>2 DEF Durable!TakeEffect, Ops0, OpOf, Store
  <2>3. ASSUME NEW c \in Client,
               OpOf(c) # NoThread, OpOf(c).done,
               Ops0' = [Ops0 EXCEPT ![c] = NoThread],
               Store' = Store
        PROVE  Durable!Acknowledge(c)
    BY <2>3 DEF Durable!Acknowledge, Ops0, OpOf, Store
  <2>4. ASSUME Ops0' = [c \in Client |-> NoThread], Store' = Store
        PROVE  Durable!Crash
    BY <2>4 DEF Durable!Crash, Ops0, OpOf, Store
  <2> QED
    BY <2>1, <2>2, <2>3, <2>4, MapStep DEF Durable!DurableNext
<1> QED
  BY <1>1, <1>2, <1>3, <1>4, <1>5, <1>6, <1>7, TypeCorrect, OrderHolds, ReplayInvHolds, PTL
  DEF Spec, DiskIsDurableMap, Durable!DurableSpec, Store, Ops0, OpOf

(***************************************************************************)
(* What was acknowledged is on disk.                                       *)
(***************************************************************************)
\* A logged write decides the value of its key; without one the last
\* acknowledged write does.
AckInv ==
    /\ AckedIsDurable
    /\ \A t \in Client, k \in Key :
           pc[t] = "logged" /\ loc[t].key = k => DurableValue(k) = loc[t].value

\* A step that logs nothing, acknowledges nothing and leaves the map alone.
LEMMA AckFrame ==
  ASSUME CoreTypeOK, AckInv, acked' = acked,
         \A k \in Key : DurableValue(k)' = DurableValue(k),
         \A c \in Client : /\ pc'[c] = "logged" <=> pc[c] = "logged"
                           /\ pc[c] = "logged" => loc'[c] = loc[c]
  PROVE  AckInv'
<1>1. AckedIsDurable'
  BY DEF AckInv, AckedIsDurable
<1>2. ASSUME NEW c \in Client, NEW k \in Key, pc'[c] = "logged", loc'[c].key = k
      PROVE  DurableValue(k)' = loc'[c].value
  BY <1>2 DEF AckInv
<1> QED
  BY <1>1, <1>2 DEF AckInv

\* Every step keeps AckInv.
LEMMA AckStep ==
  ASSUME OneWordValues, CoreTypeOK, OrderInv, ListInv, L0Inv, ReplayInv, DiskInv, NoCompaction',
         FreshManifest, FreshManifest', CleanFlush, CleanFlush', AckInv, [Next]_vars
  PROVE  AckInv'
<1> USE KVDBAssumption DEF disk, startup
<1>1. ASSUME NEW t \in Thread, NEW l, l # "logged", pc[t] # "logged",
             pc' = [pc EXCEPT ![t] = l],
             loc' = loc \/ \E r : loc' = [loc EXCEPT ![t] = r],
             acked' = acked, \A k \in Key : DurableValue(k)' = DurableValue(k)
      PROVE  AckInv'
  <2>1. /\ \A u \in Thread : u # t => pc'[u] = pc[u] /\ loc'[u] = loc[u]
        /\ pc'[t] = l
    BY <1>1 DEF CoreTypeOK
  <2>2. \A c \in Client : /\ pc'[c] = "logged" <=> pc[c] = "logged"
                          /\ pc[c] = "logged" => loc'[c] = loc[c]
    BY <1>1, <2>1 DEF Thread
  <2> QED
    BY <1>1, <2>2, AckFrame
<1>2. ASSUME NEW t \in Client, NEW k \in Key, NEW v \in Stored, BeginWrite(t, k, v)
      PROVE  AckInv'
  <2>1. \A j \in Key : DurableValue(j)' = DurableValue(j)
    BY <1>2, DiskStays DEF BeginWrite
  <2> QED
    BY <1>1, <1>2, <2>1 DEF BeginWrite, Goto, Keep, Thread
<1>3. ASSUME NEW t \in Client, LogWrite(t)
      PROVE  AckInv'
  <2>1. /\ pc' = [pc EXCEPT ![t] = "logged"] /\ t \in Thread /\ acked' = acked
        /\ loc' = [loc EXCEPT ![t] = [key |-> loc[t].key, value |-> loc[t].value, seq |-> seq]]
    BY <1>3 DEF LogWrite, Goto, Keep, Thread
  <2>2. \A c \in Client : pc[c] # "logged"
    BY <1>3, OneLogged DEF LogWrite
  <2>3. /\ \A c \in Client : pc'[c] = "logged" <=> c = t
        /\ loc'[t].key = loc[t].key /\ loc'[t].value = loc[t].value
    BY <2>1, <2>2 DEF CoreTypeOK, Thread
  <2>4. \A k \in Key : DurableValue(k)' = IF k = loc[t].key THEN loc[t].value ELSE DurableValue(k)
    BY <1>3, LogTakesEffect
  <2>5. AckedIsDurable'
    BY <2>1, <2>2, <2>3, <2>4 DEF AckInv, AckedIsDurable
  <2>6. ASSUME NEW c \in Client, NEW k \in Key, pc'[c] = "logged", loc'[c].key = k
        PROVE  DurableValue(k)' = loc'[c].value
    BY <2>3, <2>4, <2>6
  <2> QED
    BY <2>5, <2>6 DEF AckInv
<1>4. ASSUME NEW t \in Client, ApplyWrite(t)
      PROVE  AckInv'
  <2>1. t \in Thread /\ t # Flusher /\ Flusher \notin Client /\ Flusher \in Thread /\ pc[t] = "logged"
    BY <1>4 DEF ApplyWrite, Thread
  <2>2. loc[t].key \in Key
    BY <2>1 DEF CoreTypeOK, LocalTypeOK
  <2>3. \A c \in Client : pc[c] = "logged" => c = t
    BY <2>1, OneLogged
  <2>4. \/ pc' = [pc EXCEPT ![t] = "idle"]
        \/ pc' = [[pc EXCEPT ![t] = "idle"] EXCEPT ![Flusher] = IF @ = "wait" THEN "eval" ELSE @]
    BY <1>4 DEF ApplyWrite, Notified
  <2>5. \A c \in Client : pc'[c] # "logged"
    BY <2>1, <2>3, <2>4 DEF CoreTypeOK, Thread
  <2>6. acked' = [acked EXCEPT ![loc[t].key] = loc[t].value]
    BY <1>4 DEF ApplyWrite
  <2>7. \A k \in Key : DurableValue(k)' = DurableValue(k)
    BY <1>4, DiskStays DEF ApplyWrite
  <2>8. DurableValue(loc[t].key) = loc[t].value
    BY <2>1, <2>2 DEF AckInv
  <2>9. ASSUME NEW k \in Key, acked'[k] # NotFound
        PROVE  DurableValue(k)' = acked'[k]
    <3>1. CASE k = loc[t].key
      BY <2>6, <2>7, <2>8, <3>1 DEF CoreTypeOK
    <3>2. CASE k # loc[t].key
      BY <2>3, <2>6, <2>7, <2>9, <3>2 DEF CoreTypeOK, AckInv, AckedIsDurable
    <3> QED
      BY <3>1, <3>2
  <2> QED
    BY <2>5, <2>9 DEF AckInv, AckedIsDurable
<1>5. ASSUME NEW t \in Client, Get(t)
      PROVE  AckInv'
  <2>1. \A k \in Key : DurableValue(k)' = DurableValue(k)
    BY <1>5, GetFrame, DiskStays
  <2> QED
    BY <1>1, <1>5, <2>1, GetFrame
<1>6. ASSUME NEW t \in Thread, Flush(t)
      PROVE  AckInv'
  <2>1. /\ pc[t] # "logged" /\ acked' = acked
        /\ \E l : l # "logged" /\ pc' = [pc EXCEPT ![t] = l]
        /\ loc' = loc \/ \E r : loc' = [loc EXCEPT ![t] = r]
    BY <1>6 DEF Flush, FlushEmpty, FlushCopy, FlushWrite, FlushAdd, FlushClear, FlushTruncate,
                FlushCaller, AfterFlush, Goto, Keep
  <2>2. \A k \in Key : DurableValue(k)' = DurableValue(k)
    BY <1>6, FlushKeepsStore
  <2> QED
    BY <1>1, <2>1, <2>2
<1>7. ASSUME FlushWorker
      PROVE  AckInv'
  <2>1. \A k \in Key : DurableValue(k)' = DurableValue(k)
    BY <1>7, WorkerFrame, DiskStays
  <2> QED
    BY <1>1, <1>7, <2>1, WorkerFrame
<1>8. ASSUME Die
      PROVE  AckInv'
  <2>1. \A c \in Client : pc'[c] # "logged"
    BY <1>8 DEF Die, Home, Thread
  <2>2. \A k \in Key : DurableValue(k)' = DurableValue(k)
    BY <1>8, DiskStays DEF Die
  <2>3. ASSUME NEW k \in Key, acked'[k] # NotFound
        PROVE  DurableValue(k) = acked'[k]
    <3>1. CASE \A c \in Client : pc[c] = "logged" => loc[c].key # k
      BY <1>8, <2>3, <3>1 DEF Die, AckInv, AckedIsDurable
    <3>2. ASSUME NEW c \in Client, pc[c] = "logged", loc[c].key = k
          PROVE  DurableValue(k) = acked'[k]
      <4>1. \A u \in Client : pc[u] = "logged" => u = c
        BY <3>2, OneLogged
      <4>2. acked'[k] = loc[c].value
        BY <1>8, <3>2, <4>1 DEF Die
      <4> QED
        BY <3>2, <4>2 DEF AckInv
    <3> QED
      BY <3>1, <3>2
  <2> QED
    BY <2>1, <2>2, <2>3 DEF AckInv, AckedIsDurable
<1>9. ASSUME Recovery \/ UNCHANGED vars
      PROVE  AckInv'
  <2>1. UNCHANGED <<wal, manifest, files, pc, loc, acked>>
    BY <1>9 DEF Recovery, Restart, RecoverLine, RecoverEnd, ReplayLine, ReplayEnd, vars
  <2> QED
    BY <2>1, DiskStays, AckFrame
<1>10. ASSUME NEW t \in Thread, Compact(t)
       PROVE  FALSE
  BY <1>10, NobodyCompacts
<1> QED
  BY <1>2, <1>3, <1>4, <1>5, <1>6, <1>7, <1>8, <1>9, <1>10
     DEF Next, Write, Put, Del, MetaThrows, Crash, Stored

\* In the same behaviours, once put or del has returned true and no later write
\* of the key is under way, the disk holds that write, at every moment of a flush
\* and after any crash.  (A flush that overlaps a write breaks this: the run
\* kvdb_lost_write shows it.)
THEOREM AckedWritesAreDurable ==
  ASSUME OneWordValues
  PROVE  Spec /\ []NoCompaction /\ []CleanFlush /\ []FreshManifest => []AckedIsDurable
<1>1. Init => ListInv /\ L0Inv /\ DiskInv
  BY ListInit, L0Init, DiskInit
<1>2. Init => AckInv
  BY DEF Init, Home, Thread, AckInv, AckedIsDurable
<1>3. CoreTypeOK /\ ListInv /\ NoCompaction' /\ [Next]_vars => ListInv'
  BY ListStep
<1>4. CoreTypeOK /\ OrderInv /\ ListInv /\ NoCompaction' /\ CleanFlush /\ CleanFlush' /\ L0Inv
        /\ [Next]_vars => L0Inv'
  BY CleanL0Step
<1>5. CoreTypeOK /\ OrderInv /\ ListInv /\ L0Inv /\ NoCompaction' /\ CleanFlush /\ CleanFlush' /\ DiskInv
        /\ [Next]_vars => DiskInv'
  BY DiskStep
<1>6. CoreTypeOK /\ OrderInv /\ ListInv /\ L0Inv /\ ReplayInv /\ DiskInv /\ NoCompaction'
        /\ FreshManifest /\ FreshManifest' /\ CleanFlush /\ CleanFlush' /\ AckInv
        /\ [Next]_vars => AckInv'
  BY AckStep
<1>7. AckInv => AckedIsDurable
  BY DEF AckInv
<1> QED
  BY <1>1, <1>2, <1>3, <1>4, <1>5, <1>6, <1>7, TypeCorrect, OrderHolds, ReplayInvHolds, PTL DEF Spec

(***************************************************************************)
(* What the compaction strategies pick.                                    *)
(***************************************************************************)
\* The greatest of finitely many numbers is one of them.
LEMMA MaxOfFinite ==
  ASSUME NEW S \in SUBSET Nat, IsFiniteSet(S), S # {}
  PROVE  Max(S) \in S /\ \A x \in S : x <= Max(S)
<1> DEFINE R == {p \in S \X S : p[1] >= p[2]}
<1>1. \A x, y \in S : <<x, y>> \in R <=> x >= y
  OBVIOUS
<1>2. /\ \A x, y \in S : <<x, y>> \in R \/ <<y, x>> \in R
      /\ \A x, y, z \in S : <<x, y>> \in R /\ <<y, z>> \in R => <<x, z>> \in R
  BY <1>1
<1> HIDE DEF R
<1>3. PICK m \in S : \A y \in S : <<m, y>> \in R
  BY <1>2, BestExists
<1>4. \A y \in S : m >= y
  BY <1>1, <1>3
<1> QED
  BY <1>4 DEF Max

\* Among finitely many levels there is a first one with the highest score.
LEMMA BestLevel ==
  ASSUME NEW S \in SUBSET Level, S # {}, NEW sc, \A n \in S : sc[n] \in Int
  PROVE  \E n \in S : \A m \in S : sc[n] > sc[m] \/ (sc[n] = sc[m] /\ n <= m)
<1> DEFINE R == {p \in S \X S : sc[p[1]] > sc[p[2]] \/ (sc[p[1]] = sc[p[2]] /\ p[1] <= p[2])}
<1>1. \A n, m \in S : <<n, m>> \in R <=> sc[n] > sc[m] \/ (sc[n] = sc[m] /\ n <= m)
  OBVIOUS
<1>2. S \subseteq Int
  BY DEF Level
<1>3. /\ \A x, y \in S : <<x, y>> \in R \/ <<y, x>> \in R
      /\ \A x, y, z \in S : <<x, y>> \in R /\ <<y, z>> \in R => <<x, z>> \in R
  BY <1>1, <1>2
<1>4. IsFiniteSet(S)
  <2>1. IsFiniteSet(Level)
    BY FS_Interval, StrategyAssumption DEF Level
  <2> QED
    BY <2>1, FS_Subset
<1> HIDE DEF R
<1>5. PICK n \in S : \A m \in S : <<n, m>> \in R
  BY <1>3, <1>4, BestExists
<1> QED
  BY <1>1, <1>5

\* The size of a level is a number.
LEMMA LevelSizeType ==
  ASSUME NEW l \in Seq(MetaType)
  PROVE  LevelSize(l) \in Nat
<1> DEFINE f == [i \in DOMAIN l |-> l[i].size]
<1>1. DOMAIN l = 1..Len(l) /\ Len(l) \in Nat /\ \A i \in DOMAIN l : l[i] \in MetaType
  OBVIOUS
<1>2. f \in [DOMAIN l -> Nat]
  BY <1>1 DEF MetaType
<1>3. IsFiniteSet(DOMAIN l)
  BY <1>1, FS_Interval
<1> HIDE DEF f
<1>4. SumFunction(f) \in Nat
  BY <1>2, <1>3, SumIsNatural
<1> QED
  BY <1>4 DEF LevelSize, f

\* Scores compare.
LEMMA ScoreType ==
  ASSUME NEW lv \in [Level -> Seq(MetaType)], NEW n \in Level
  PROVE  Score(lv, n) \in Int
<1>1. 0 \in Level /\ lv[n] \in Seq(MetaType) /\ lv[0] \in Seq(MetaType)
  BY StrategyAssumption DEF Level
<1>2. LevelSize(lv[n]) \in Nat /\ Len(lv[0]) \in Nat
  BY <1>1, LevelSizeType
<1>3. L0Divisor \in Nat \ {0} /\ LevelLimit \in Nat \ {0}
  BY StrategyAssumption
<1> QED
  BY <1>2, <1>3 DEF Score

\* What a task has to be: finitely many files of one level, and of the next, that
\* go to the same or the next.
LegalTask(task) ==
  /\ task.src \in Level /\ task.dst \in {task.src, task.src + 1}
  /\ IsFiniteSet(DOMAIN task.input) /\ IsFiniteSet(DOMAIN task.overlap)

\* A list of files names finitely many.
LEMMA ListFinite ==
  ASSUME NEW E, NEW l \in Seq(E)
  PROVE  IsFiniteSet(DOMAIN l)
<1>1. DOMAIN l = 1 .. Len(l) /\ Len(l) \in Nat
  OBVIOUS
<1> QED
  BY <1>1, FS_Interval

\* A task that stays in its level.
LEMMA SameLevelLegal ==
  ASSUME NEW n \in Level, NEW l \in Seq(MetaType)
  PROVE  LegalTask(SameLevelTask(n, l))
<1>1. IsFiniteSet(DOMAIN l)
  BY ListFinite
<1>2. IsFiniteSet(DOMAIN << >>)
  BY FS_EmptySet
<1> QED
  BY <1>1, <1>2 DEF SameLevelTask, LegalTask

\* LeveledCompactionStrategy::pick_compaction takes files of a level that has some.
LEMMA LeveledIsLegal ==
  ASSUME NEW lv \in [Level -> Seq(MetaType)]
  PROVE  LeveledPick(lv) = NoTask \/ LegalTask(LeveledPick(lv))
<1> DEFINE S == OverLimit(lv)
           Best(n) == \A m \in S : \/ Score(lv, n) > Score(lv, m)
                                   \/ Score(lv, n) = Score(lv, m) /\ n <= m
           sc == [n \in S |-> Score(lv, n)]
<1>1. S \in SUBSET Level
  BY DEF OverLimit
<1>2. \A n \in S : sc[n] = Score(lv, n) /\ sc[n] \in Int
  BY <1>1, ScoreType
<1> HIDE DEF S, sc
<1> SUFFICES ASSUME S # {} PROVE LegalTask(LeveledPick(lv))
  BY DEF LeveledPick, S
<1>3. PICK n \in S : \A m \in S : sc[n] > sc[m] \/ (sc[n] = sc[m] /\ n <= m)
  BY <1>1, <1>2, BestLevel
<1>4. Best(n)
  BY <1>2, <1>3
<1>5. (CHOOSE m \in S : Best(m)) \in S
  BY <1>4
<1>6. LeveledPick(lv) = LeveledTask(lv, CHOOSE m \in S : Best(m))
  BY DEF LeveledPick, S
<1> HIDE DEF Best
<1>7. PICK m \in Level : LeveledPick(lv) = LeveledTask(lv, m)
  BY <1>1, <1>5, <1>6
<1> DEFINE task == LeveledTask(lv, m)
<1>8. IsFiniteSet(DOMAIN task.input)
  <2>1. task.input = lv[0] \/ task.input = <<lv[m][1]>>
    BY DEF LeveledTask
  <2>2. 0 \in Level
    BY StrategyAssumption DEF Level
  <2>3. IsFiniteSet(DOMAIN lv[0])
    BY <2>2, ListFinite
  <2>4. DOMAIN <<lv[m][1]>> = {1}
    OBVIOUS
  <2>5. IsFiniteSet({1})
    BY FS_Singleton
  <2> QED
    BY <2>1, <2>3, <2>4, <2>5
<1>9. IsFiniteSet(DOMAIN task.overlap)
  <2> DEFINE lo == Min({x.min : x \in Range(task.input)})
             hi == Max({x.max : x \in Range(task.input)})
  <2>1. task.overlap = IF m + 1 < MAX_LEVEL THEN FindOverlapping(lv[m + 1], lo, hi) ELSE <<>>
    BY DEF LeveledTask
  <2> HIDE DEF task, lo, hi
  <2>2. CASE m + 1 < MAX_LEVEL
    <3> DEFINE O == {i \in DOMAIN lv[m + 1] : lv[m + 1][i].max >= lo /\ lv[m + 1][i].min <= hi}
    <3>1. m + 1 \in Level
      BY <2>2, StrategyAssumption DEF Level
    <3>2. lv[m + 1] \in Seq(MetaType) /\ O \in SUBSET (DOMAIN lv[m + 1])
      BY <3>1
    <3>3. task.overlap = Select(lv[m + 1], O)
      BY <2>1, <2>2 DEF FindOverlapping
    <3> HIDE DEF O
    <3>4. Select(lv[m + 1], O) \in Seq(MetaType)
      BY <3>2, SelectFacts
    <3> QED
      BY <3>3, <3>4, ListFinite
  <2>3. CASE ~(m + 1 < MAX_LEVEL)
    BY <2>1, <2>3, FS_EmptySet
  <2> QED
    BY <2>2, <2>3
<1>10. task.src = m /\ task.dst = m + 1
  BY DEF LeveledTask
<1> QED
  BY <1>7, <1>8, <1>9, <1>10 DEF LegalTask

\* So does TieredCompactionStrategy's.
LEMMA TieredIsLegal ==
  ASSUME NEW lv \in [Level -> Seq(MetaType)]
  PROVE  TieredPick(lv) = NoTask \/ LegalTask(TieredPick(lv))
<1> DEFINE S == FullTiers(lv)
           Best(n) == \A m \in S : \/ Len(lv[n]) > Len(lv[m])
                                   \/ Len(lv[n]) = Len(lv[m]) /\ n <= m
           sc == [n \in S |-> Len(lv[n])]
<1>1. S \in SUBSET Level
  BY DEF FullTiers
<1>2. \A n \in S : sc[n] = Len(lv[n]) /\ sc[n] \in Int
  BY <1>1
<1> HIDE DEF S, sc
<1> SUFFICES ASSUME S # {} PROVE LegalTask(TieredPick(lv))
  BY DEF TieredPick, S
<1>3. PICK n \in S : \A m \in S : sc[n] > sc[m] \/ (sc[n] = sc[m] /\ n <= m)
  BY <1>1, <1>2, BestLevel
<1>4. Best(n)
  BY <1>2, <1>3
<1>5. (CHOOSE m \in S : Best(m)) \in S
  BY <1>4
<1>6. TieredPick(lv) = SameLevelTask(CHOOSE m \in S : Best(m), lv[CHOOSE m \in S : Best(m)])
  BY DEF TieredPick, S
<1> HIDE DEF Best
<1>7. PICK m \in Level : TieredPick(lv) = SameLevelTask(m, lv[m])
  BY <1>1, <1>5, <1>6
<1> QED
  BY <1>7, SameLevelLegal

\* Fractions compare like numbers: p/x against q/y by cross-multiplication.
LEMMA FractionOrder ==
  ASSUME NEW p \in Nat, NEW q \in Nat, NEW r \in Nat,
         NEW x \in Nat \ {0}, NEW y \in Nat \ {0}, NEW z \in Nat \ {0},
         p * y >= q * x, q * z >= r * y
  PROVE  /\ p * z >= r * x
         /\ p * y > q * x \/ q * z > r * y => p * z > r * x
<1>1. (p * z) * y >= (q * x) * z /\ (q * z) * x >= (r * y) * x
  BY SMTT(60)
<1>2. (q * x) * z = (q * z) * x /\ (r * y) * x = (r * x) * y
  BY SMTT(60)
<1>3. (p * z) * y >= (r * x) * y
  BY <1>1, <1>2
<1>4. ASSUME p * y > q * x \/ q * z > r * y PROVE (p * z) * y > (r * x) * y
  <2>1. CASE p * y > q * x
    <3>1. (p * z) * y > (q * x) * z
      BY <2>1, SMTT(60)
    <3> QED
      BY <1>1, <1>2, <3>1
  <2>2. CASE q * z > r * y
    <3>1. (q * z) * x > (r * y) * x
      BY <2>2, SMTT(60)
    <3> QED
      BY <1>1, <1>2, <3>1
  <2> QED
    BY <1>4, <2>1, <2>2
<1>5. \A a, b \in Nat : /\ a * y >= b * y => a >= b
                        /\ a * y > b * y => a > b
  BY SMTT(60)
<1>6. p * z \in Nat /\ r * x \in Nat
  OBVIOUS
<1> QED
  BY <1>3, <1>4, <1>5, <1>6

\* Lengths of the sequences of similar files.
LEMMA SimilarType ==
  ASSUME NEW l \in Seq(MetaType), NEW base
  PROVE  SimilarFiles(l, base) \in Seq(MetaType)
<1> DEFINE S == {i \in DOMAIN l : Similar(l[i].size, base)}
<1>1. S \in SUBSET (DOMAIN l)
  OBVIOUS
<1> HIDE DEF S
<1>2. Select(l, S) \in Seq(MetaType)
  BY <1>1, SelectFacts
<1> QED
  BY <1>2 DEF SimilarFiles, S

\* A group has a level and an entry of it.
LEMMA GroupsFinite ==
  ASSUME NEW lv \in [Level -> Seq(MetaType)]
  PROVE  /\ IsFiniteSet(SimilarGroups(lv))
         /\ SimilarGroups(lv) \subseteq Level \X Nat
<1> DEFINE L == {Len(lv[l]) : l \in Level}
           N == Max(L)
<1>1. IsFiniteSet(Level) /\ 0 \in Level
  BY FS_Interval, StrategyAssumption DEF Level
<1>2. IsFiniteSet(L)
  BY <1>1, FS_Image
<1>3. L \in SUBSET Nat /\ L # {}
  <2>1. \A l \in Level : Len(lv[l]) \in Nat
    OBVIOUS
  <2> QED
    BY <1>1, <2>1
<1> HIDE DEF L
<1>4. N \in Nat
  BY <1>2, <1>3, MaxOfFinite
<1>5. SimilarGroups(lv) \subseteq Level \X (1 .. N)
  BY DEF SimilarGroups, L
<1> HIDE DEF N
<1>6. IsFiniteSet(1 .. N)
  BY <1>4, FS_Interval
<1>7. IsFiniteSet(Level \X (1 .. N))
  BY <1>1, <1>6, FS_Product
<1> QED
  BY <1>4, <1>5, <1>7, FS_Subset

\* SizeTieredCompactionStrategy's groups are files of one level.
LEMMA SizeTieredIsLegal ==
  ASSUME NEW lv \in [Level -> Seq(MetaType)]
  PROVE  SizeTieredPick(lv) = NoTask \/ LegalTask(SizeTieredPick(lv))
<1> DEFINE G == SimilarGroups(lv)
           Like(g) == SimilarFiles(lv[g[1]], lv[g[1]][g[2]].size)
           w(g) == Len(Like(g)) * LevelSize(Like(g))
           Before(g, h) == g[1] < h[1] \/ (g[1] = h[1] /\ g[2] <= h[2])
           Over(g, h) == w(g) * (h[1] + 1) > w(h) * (g[1] + 1)
           Beats(g, h) == Over(g, h) \/ (~Over(h, g) /\ Before(g, h))
           R == {p \in G \X G : Beats(p[1], p[2])}
<1>1. IsFiniteSet(G) /\ G \subseteq Level \X Nat
  BY GroupsFinite
<1>2. \A g \in G : /\ w(g) \in Nat /\ g[1] \in Nat /\ g[2] \in Nat
                   /\ g[1] + 1 \in Nat \ {0}
  <2> SUFFICES ASSUME NEW g \in G
               PROVE  w(g) \in Nat /\ g[1] \in Nat /\ g[2] \in Nat /\ g[1] + 1 \in Nat \ {0}
    OBVIOUS
  <2>1. g[1] \in Level /\ g[2] \in Nat
    BY <1>1
  <2>2. Like(g) \in Seq(MetaType)
    BY <2>1, SimilarType
  <2> HIDE DEF Like
  <2>3. LevelSize(Like(g)) \in Nat /\ Len(Like(g)) \in Nat
    BY <2>2, LevelSizeType
  <2>4. \A a, b \in Nat : a * b \in Nat
    OBVIOUS
  <2> QED
    BY <2>1, <2>3, <2>4 DEF Level
<1>3. \A g, h \in G : Outranks(lv, g, h) <=> Over(g, h)
  BY DEF Outranks
<1> HIDE DEF w
<1>4. \A g, h \in G : <<g, h>> \in R <=> Beats(g, h)
  OBVIOUS
<1>5. \A g, h \in G : w(g) * (h[1] + 1) \in Nat
  BY <1>2
<1>6. ASSUME NEW g \in G, NEW h \in G PROVE Beats(g, h) \/ Beats(h, g)
  <2>1. PICK a \in Nat, b \in Nat : a = w(g) * (h[1] + 1) /\ b = w(h) * (g[1] + 1)
    BY <1>5
  <2>2. Over(g, h) <=> a > b
    BY <2>1
  <2>3. Over(h, g) <=> b > a
    BY <2>1
  <2>4. Before(g, h) \/ Before(h, g)
    BY <1>2
  <2> HIDE DEF Over, Before
  <2> QED
    BY <2>2, <2>3, <2>4
<1>7. ASSUME NEW g \in G, NEW h \in G, NEW i \in G, Beats(g, h), Beats(h, i)
      PROVE  Beats(g, i)
  <2>1. PICK p \in Nat, q \in Nat, r \in Nat : p = w(g) /\ q = w(h) /\ r = w(i)
    BY <1>2
  <2>2. PICK x \in Nat \ {0}, y \in Nat \ {0}, z \in Nat \ {0} :
           x = g[1] + 1 /\ y = h[1] + 1 /\ z = i[1] + 1
    BY <1>2
  <2>3. p * y >= q * x /\ q * z >= r * y
    <3>1. \A a, b \in Nat : a > b \/ ~(b > a) => a >= b
      OBVIOUS
    <3>2. p * y \in Nat /\ q * x \in Nat /\ q * z \in Nat /\ r * y \in Nat
      BY <1>5, <2>1, <2>2
    <3>3. /\ p * y > q * x \/ ~(q * x > p * y)
          /\ q * z > r * y \/ ~(r * y > q * z)
      BY <1>7, <2>1, <2>2
    <3> QED
      BY <3>1, <3>2, <3>3
  <2>4. p * z >= r * x /\ (p * y > q * x \/ q * z > r * y => p * z > r * x)
    BY <2>3, FractionOrder
  <2>5. /\ w(g) * (i[1] + 1) >= w(i) * (g[1] + 1)
        /\ Over(g, h) \/ Over(h, i) => Over(g, i)
    BY <2>1, <2>2, <2>4
  <2>6. CASE Over(g, h) \/ Over(h, i)
    BY <2>5, <2>6
  <2>7. CASE ~(Over(g, h) \/ Over(h, i))
    <3>1. Before(g, h) /\ Before(h, i)
      BY <1>7, <2>7
    <3>2. Before(g, i)
      BY <1>2, <3>1, SMTT(60)
    <3>3. ~Over(i, g)
      BY <1>5, <2>5
    <3> QED
      BY <3>2, <3>3
  <2> QED
    BY <2>6, <2>7
<1> SUFFICES ASSUME G # {} PROVE LegalTask(SizeTieredPick(lv))
  BY DEF SizeTieredPick
<1>8. PICK g \in G : \A h \in G : Beats(g, h)
  <2>1. /\ \A x, y \in G : <<x, y>> \in R \/ <<y, x>> \in R
        /\ \A x, y, z \in G : <<x, y>> \in R /\ <<y, z>> \in R => <<x, z>> \in R
    BY <1>4, <1>6, <1>7
  <2> HIDE DEF R, G
  <2>2. PICK g \in G : \A h \in G : <<g, h>> \in R
    BY <1>1, <2>1, BestExists
  <2> QED
    BY <1>4, <2>2
<1> DEFINE best == CHOOSE x \in G : \A h \in G :
                      Outranks(lv, x, h) \/ (~Outranks(lv, h, x) /\ Before(x, h))
<1>9. best \in G
  <2>1. \A h \in G : Outranks(lv, g, h) \/ (~Outranks(lv, h, g) /\ Before(g, h))
    BY <1>3, <1>8
  <2> QED
    BY <2>1
<1>10. SizeTieredPick(lv) = SameLevelTask(best[1], SimilarFiles(lv[best[1]], lv[best[1]][best[2]].size))
  <2>1. SizeTieredPick(lv) = GroupTasks(lv)[best]
    BY DEF SizeTieredPick
  <2> HIDE DEF best
  <2> QED
    BY <1>9, <2>1 DEF GroupTasks
<1> HIDE DEF best
<1>11. best[1] \in Level
  BY <1>1, <1>9
<1>12. SimilarFiles(lv[best[1]], lv[best[1]][best[2]].size) \in Seq(MetaType)
  BY <1>11, SimilarType
<1> QED
  BY <1>10, <1>11, <1>12, SameLevelLegal

\* A window starts at the hour of one of the files.
LEMMA WindowsType ==
  ASSUME NEW l \in Seq(MetaType)
  PROVE  /\ IsFiniteSet(WindowStarts(l))
         /\ \A s \in WindowStarts(l) : \E i \in DOMAIN l : s = Hour(l[i])
<1> DEFINE H == {Hour(l[i]) : i \in DOMAIN l}
           V == SUBSET H
           D == DOMAIN l
           step(g, s) == IF s = {} THEN {} ELSE OpenWindow(g[s \ {Max(s)}], l[Max(s)])
           c == [s \in SUBSET D |-> Max(s)]
           F == [s \in SUBSET D |-> [v \in V |-> OpenWindow(v, l[Max(s)])]]
           k == CHOOSE g : g = [s \in SUBSET D |-> step(g, s)]
<1>1. D = 1..Len(l) /\ Len(l) \in Nat /\ IsFiniteSet(D)
  BY FS_Interval
<1>2. \A s \in SUBSET D : s # {} => Max(s) \in s
  <2> SUFFICES ASSUME NEW s \in SUBSET D, s # {} PROVE Max(s) \in s
    OBVIOUS
  <2>1. s \in SUBSET Nat /\ IsFiniteSet(s)
    BY <1>1, FS_Subset
  <2> QED
    BY <2>1, MaxOfFinite
<1>3. \A v \in V : \A i \in D : OpenWindow(v, l[i]) \in V
  BY DEF OpenWindow
<1>4. Chooses(c, D) /\ \A s \in SUBSET D : c[s] = Max(s)
  BY <1>2 DEF Chooses
<1> HIDE DEF D, V, c
<1>5. /\ Makes(F, V, D)
      /\ \A s \in SUBSET D : s # {} => \A v \in V : F[s][v] = OpenWindow(v, l[Max(s)])
  BY <1>2, <1>3 DEF Makes
<1> HIDE DEF F
<1>6. {} \in V
  BY DEF V
<1>7. PICK g \in [SUBSET D -> V] : Folds(g, F, {}, c, D)
  BY <1>1, <1>4, <1>5, <1>6, FoldExists
<1>8. \A s \in SUBSET D : g[s] = step(g, s)
  <2> SUFFICES ASSUME NEW s \in SUBSET D PROVE g[s] = step(g, s)
    OBVIOUS
  <2>1. CASE s = {}
    BY <1>7, <2>1 DEF Folds
  <2>2. CASE s # {}
    <3>1. g[s] = F[s][g[s \ {c[s]}]] /\ s \ {c[s]} \in SUBSET D /\ c[s] = Max(s)
      BY <1>4, <1>7, <2>2 DEF Folds
    <3> QED
      BY <1>5, <2>2, <3>1
  <2> QED
    BY <2>1, <2>2
<1>9. g = [s \in SUBSET D |-> step(g, s)]
  BY <1>8
<1>10. k = [s \in SUBSET D |-> step(k, s)]
  BY <1>9
<1>11. \A s \in SUBSET D : k[s] = step(k, s)
  BY <1>10
<1> HIDE DEF k
<1> DEFINE Good == {s \in SUBSET D : k[s] \in V}
<1>12. {} \in Good
  <2>1. {} \in SUBSET D /\ k[{}] = {}
    BY <1>11
  <2> QED
    BY <1>6, <2>1
<1>13. ASSUME NEW s \in SUBSET D, s # {}, s \ {c[s]} \in Good PROVE s \in Good
  <2>1. k[s] = OpenWindow(k[s \ {c[s]}], l[c[s]]) /\ c[s] \in D
    BY <1>2, <1>4, <1>11, <1>13
  <2> QED
    BY <1>3, <1>13, <2>1
<1> HIDE DEF Good
<1>14. D \in Good
  <2>1. \A s \in SUBSET D : s # {} /\ s \ {c[s]} \in Good => s \in Good
    BY <1>13
  <2>2. IsFiniteSet(D) /\ Chooses(c, D)
    BY <1>1, <1>4
  <2> QED
    BY <1>12, <2>1, <2>2, FoldInduction, SMTT(60)
<1>15. k[D] \in V
  BY <1>14 DEF Good
<1>16. WindowStarts(l) = k[D]
  BY DEF WindowStarts, FoldLeft, MapThenFoldSet, k, D
<1>17. WindowStarts(l) \in SUBSET H
  BY <1>15, <1>16 DEF V
<1>18. IsFiniteSet(H)
  <2> DEFINE h == [i \in D |-> Hour(l[i])]
  <2>1. \A i \in D : h[i] = Hour(l[i])
    OBVIOUS
  <2>2. H = ImageOf(h, D)
    BY <2>1 DEF D, ImageOf
  <2>3. IsFiniteSet(D)
    BY <1>1
  <2> HIDE DEF h, H
  <2> QED
    BY <2>2, <2>3, ImageFinite
<1> QED
  BY <1>17, <1>18, FS_Subset

\* A window has an opener, and files.
LEMMA WindowFacts ==
  ASSUME NEW l \in Seq(MetaType), NEW s \in WindowStarts(l)
  PROVE  Opened(l, s) \in Nat /\ WindowFiles(l, s) \in Seq(MetaType)
<1> DEFINE O == {i \in DOMAIN l : Hour(l[i]) = s}
<1>1. PICK i \in O : TRUE
  BY WindowsType
<1>2. O \in SUBSET Nat
  OBVIOUS
<1> HIDE DEF O
<1>3. Min(O) \in Nat
  BY <1>1, <1>2, MinOfNumbers
<1> DEFINE home(m) == CHOOSE w \in WindowOf(WindowStarts(l), m) :
                        \A x \in WindowOf(WindowStarts(l), m) : Opened(l, w) <= Opened(l, x)
           S == {j \in DOMAIN l : home(l[j]) = s}
<1>4. S \in SUBSET (DOMAIN l)
  OBVIOUS
<1> HIDE DEF S
<1>5. Select(l, S) \in Seq(MetaType)
  BY <1>4, SelectFacts
<1> QED
  BY <1>3, <1>5 DEF Opened, O, WindowFiles, S

\* TimeWindowCompactionStrategy's windows too.
LEMMA TimeWindowIsLegal ==
  ASSUME NEW lv \in [Level -> Seq(MetaType)]
  PROVE  TimeWindowPick(lv) = NoTask \/ LegalTask(TimeWindowPick(lv))
<1> DEFINE G == FullWindows(lv)
           size(g) == Len(WindowFiles(lv[g[1]], g[2]))
           open(g) == Opened(lv[g[1]], g[2])
           Beats(x, y) == \/ size(x) > size(y)
                          \/ size(x) = size(y) /\ x[1] < y[1]
                          \/ /\ size(x) = size(y) /\ x[1] = y[1]
                             /\ open(x) <= open(y)
           R == {p \in G \X G : Beats(p[1], p[2])}
<1>1. \A g \in G : g[1] \in Level /\ g[2] \in WindowStarts(lv[g[1]])
  BY DEF FullWindows
<1>2. IsFiniteSet(G)
  <2> DEFINE W == {WindowStarts(lv[n]) : n \in Level}
  <2>1. IsFiniteSet(Level)
    BY FS_Interval, StrategyAssumption DEF Level
  <2>2. IsFiniteSet(W)
    <3> DEFINE h == [n \in Level |-> WindowStarts(lv[n])]
    <3>1. W = ImageOf(h, Level)
      BY DEF ImageOf
    <3> HIDE DEF h, W
    <3> QED
      BY <2>1, <3>1, ImageFinite
  <2>3. \A s \in W : IsFiniteSet(s)
    BY WindowsType
  <2> HIDE DEF W
  <2>4. IsFiniteSet(UNION W)
    BY <2>2, <2>3, FS_UNION
  <2>5. IsFiniteSet(Level \X UNION W)
    BY <2>1, <2>4, FS_Product
  <2>6. G \in SUBSET (Level \X UNION W)
    BY DEF FullWindows, W
  <2> QED
    BY <2>5, <2>6, FS_Subset
<1>3. \A g \in G : size(g) \in Nat /\ open(g) \in Nat /\ g[1] \in Nat
  <2>1. \A g \in G : Opened(lv[g[1]], g[2]) \in Nat /\ WindowFiles(lv[g[1]], g[2]) \in Seq(MetaType)
    BY <1>1, WindowFacts
  <2> QED
    BY <1>1, <2>1 DEF Level
<1> SUFFICES ASSUME G # {} PROVE LegalTask(TimeWindowPick(lv))
  BY DEF TimeWindowPick
<1> DEFINE best == CHOOSE x \in G : \A y \in G : Beats(x, y)
<1>4. TimeWindowPick(lv) = WindowTasks(lv)[best]
  BY DEF TimeWindowPick
<1> HIDE DEF G, size, open
<1>5. best \in G
  <2>1. \A x, y \in G : <<x, y>> \in R <=> Beats(x, y)
    OBVIOUS
  <2>2. ASSUME NEW x \in G, NEW y \in G PROVE Beats(x, y) \/ Beats(y, x)
    BY <1>3
  <2>3. ASSUME NEW x \in G, NEW y \in G, NEW z \in G, Beats(x, y), Beats(y, z)
        PROVE  Beats(x, z)
    BY <1>3, <2>3
  <2>4. /\ \A x, y \in G : <<x, y>> \in R \/ <<y, x>> \in R
        /\ \A x, y, z \in G : <<x, y>> \in R /\ <<y, z>> \in R => <<x, z>> \in R
    BY <2>1, <2>2, <2>3
  <2> HIDE DEF R
  <2>5. PICK x \in G : \A y \in G : <<x, y>> \in R
    BY <1>2, <2>4, BestExists
  <2> QED
    BY <2>1, <2>5
<1> HIDE DEF best
<1>6. best[1] \in Level /\ WindowFiles(lv[best[1]], best[2]) \in Seq(MetaType)
  BY <1>1, <1>5, WindowFacts
<1>7. TimeWindowPick(lv) = SameLevelTask(best[1], WindowFiles(lv[best[1]], best[2]))
  BY <1>4, <1>5 DEF WindowTasks, G
<1> QED
  BY <1>6, <1>7, SameLevelLegal

\* Whatever the strategy and the levels, what compact() is given is a legal task or
\* none: the best candidate that each strategy looks for exists.
LEMMA PickIsLegal ==
  ASSUME NEW lv \in [Level -> Seq(MetaType)]
  PROVE  PickCompaction(Strategy, lv) = NoTask \/ LegalTask(PickCompaction(Strategy, lv))
  BY LeveledIsLegal, TieredIsLegal, SizeTieredIsLegal, TimeWindowIsLegal, KVDBAssumption
     DEF PickCompaction, StrategyType

(***************************************************************************)
(* The types of what is computed: file metadata, levels, the MANIFEST.     *)
(***************************************************************************)
\* A file has lines, finitely many: so its key range is well-defined.
SoundFile(f) == f \in SSTable /\ KeysOf(f) # {} /\ \A k \in Key : IsFiniteSet(f[k])

\* What a thread at l holds in its local variables r.
LocalShape(l, r) ==
  /\ l = "flush_copied" => r.data # EmptyTable
  /\ l = "scan" => r.scan \in Seq(Seq(MetaType))
  /\ l \in {"merge", "merged", "compact_written", "compact_source", "compact_target",
            "compact_installed"} => LegalTask(r.task)
  /\ l = "merged" => SoundFile(r.out)
  /\ l = "compact_written" => r.fid \in FileId
  /\ l \in {"compact_source", "compact_target", "compact_installed"} => r.meta \in MetaType

\* Metadata is read back from files that have lines; the lists of files are
\* lists of metadata, and nothing but legal tasks is carried out.
ManifestLine == [level : 0 .. MAX_LEVEL, meta : MetaType]
ShapeInv ==
  /\ \A f \in FileId : files[f] # NotFound => SoundFile(files[f])
  /\ manifest \in Seq(ManifestLine)
  /\ levels \in [Level -> Seq(MetaType)]
  /\ \A t \in Thread : LocalShape(pc[t], loc[t])

\* A copy of a MemTable with versions is written to a file with lines.
LEMMA FlushedIsSound ==
  ASSUME NEW m \in MemTable, m # EmptyTable
  PROVE  SoundFile(SSTableWrite(m))
<1> DEFINE f == SSTableWrite(m)
           text(v) == [seq |-> v.seq, value |-> Word(v.value)]
<1>1. f \in SSTable
  BY SSTableWriteType
<1>2. \A k \in Key : f[k] = {text(v) : v \in Range(m[k])} /\ m[k] \in Seq(Version)
  BY DEF SSTableWrite, MemTable
<1>3. PICK k \in Key : m[k] # <<>>
  BY DEF MemTable, EmptyTable
<1>4. f[k] # {}
  <2>1. 1 \in DOMAIN m[k]
    BY <1>2, <1>3
  <2>2. m[k][1] \in Range(m[k])
    BY <2>1 DEF Range
  <2> HIDE DEF f, text
  <2>3. text(m[k][1]) \in f[k]
    BY <1>2, <2>2
  <2> QED
    BY <2>3
<1>5. ASSUME NEW j \in Key PROVE IsFiniteSet(f[j])
  <2>1. Range(m[j]) = ImageOf(m[j], DOMAIN m[j])
    BY DEF Range, ImageOf
  <2>2. IsFiniteSet(DOMAIN m[j])
    BY <1>2, FS_Interval
  <2>3. IsFiniteSet(Range(m[j]))
    BY <2>1, <2>2, ImageFinite
  <2> DEFINE g == [v \in Range(m[j]) |-> text(v)]
  <2>4. f[j] = ImageOf(g, Range(m[j]))
    BY <1>2 DEF ImageOf
  <2> HIDE DEF g, f
  <2> QED
    BY <2>3, <2>4, ImageFinite
<1>6. KeysOf(f) # {}
  BY <1>4 DEF KeysOf
<1> QED
  BY <1>1, <1>5, <1>6 DEF SoundFile

\* So is what a merge of files with a valid iterator among them gives.
LEMMA MergedIsSound ==
  ASSUME NEW fs, NEW f \in fs, Walk(f, UINT64_MAX) # {}, NEW out \in MergeResults(fs)
  PROVE  SoundFile(out)
<1> DEFINE keys == UNION {Walk(g, UINT64_MAX) : g \in fs}
<1>1. out \in SSTable
  BY MergeResultsType
<1>2. PICK pick : out = [k \in Key |-> IF k \in keys THEN {[seq |-> UINT64_MAX, value |-> pick[k]]} ELSE {}]
  BY DEF MergeResults
<1>3. PICK k \in Key : k \in keys
  BY DEF Walk, KeysOf
<1> HIDE DEF keys
<1>4. k \in KeysOf(out)
  BY <1>2, <1>3 DEF KeysOf
<1>5. ASSUME NEW j \in Key PROVE IsFiniteSet(out[j])
  <2>1. out[j] = {} \/ \E x : out[j] = {x}
    BY <1>2
  <2> QED
    BY <2>1, FS_EmptySet, FS_Singleton
<1> QED
  BY <1>1, <1>4, <1>5 DEF SoundFile

\* get_meta_from_file gives metadata.
LEMMA MetaOfType ==
  ASSUME NEW name \in FileId, NEW f, SoundFile(f)
  PROVE  MetaOf(name, f) \in MetaType
<1>1. KeysOf(f) \in SUBSET Key /\ Key \in SUBSET Nat /\ KeysOf(f) # {}
  BY KeyAssumption DEF SoundFile, KeysOf
<1>2. IsFiniteSet(KeysOf(f))
  BY <1>1, KeyAssumption, FS_Subset
<1>3. KeysOf(f) \in SUBSET Nat
  BY <1>1
<1>4. Min(KeysOf(f)) \in KeysOf(f)
  BY <1>1, <1>3, MinOfNumbers
<1>5. Max(KeysOf(f)) \in KeysOf(f)
  BY <1>1, <1>2, <1>3, MaxOfFinite
<1>6. LastKeyRead(f) \in Key
  <2> DEFINE last == Max(KeysOf(f))
             rest == KeysOf(f) \ {last}
  <2>1. CASE Cardinality(f[last]) > 1 \/ KeysOf(f) = {last}
    BY <1>1, <1>5, <2>1 DEF LastKeyRead
  <2>2. CASE ~(Cardinality(f[last]) > 1 \/ KeysOf(f) = {last})
    <3>1. rest \in SUBSET Nat /\ rest # {} /\ IsFiniteSet(rest) /\ rest \subseteq Key
      BY <1>1, <1>2, <1>3, <1>5, <2>2, FS_Subset
    <3>2. Max(rest) \in rest
      BY <3>1, MaxOfFinite
    <3>3. LastKeyRead(f) = Max(rest)
      BY <2>2 DEF LastKeyRead
    <3> QED
      BY <3>1, <3>2, <3>3
  <2> QED
    BY <2>1, <2>2
<1> DEFINE n == [k \in Key |-> Cardinality(f[k])]
<1>7. n \in [Key -> Nat]
  BY FS_CardinalityType DEF SoundFile
<1>8. FileSize(f) = SumFunction(n)
  BY DEF FileSize
<1> HIDE DEF n
<1>9. FileSize(f) \in Nat
  BY <1>7, <1>8, KeyAssumption, SumIsNatural
<1> QED
  BY <1>1, <1>4, <1>6, <1>9 DEF MetaOf, MetaType

\* Threads stay, or go where their data has its shape.
ShapeFrame ==
  \A t \in Thread : (pc'[t] = pc[t] /\ loc'[t] = loc[t]) \/ LocalShape(pc'[t], loc'[t])

\* A step of one thread that leaves the files and the lists alone keeps the shape
\* when what the thread then holds has it.
LEMMA ShapeFrameHolds ==
  ASSUME CoreTypeOK, NEW t \in Thread, NEW l, NEW r, LocalShape(l, r),
         pc' = [pc EXCEPT ![t] = l], loc' = [loc EXCEPT ![t] = r]
  PROVE  ShapeFrame
<1>1. \A u \in Thread : u # t => pc'[u] = pc[u] /\ loc'[u] = loc[u]
  BY DEF CoreTypeOK
<1>2. pc'[t] = l /\ loc'[t] = r
  BY DEF CoreTypeOK
<1> QED
  BY <1>1, <1>2 DEF ShapeFrame

\* The part of the shape that is about the threads, after a step.
LEMMA ShapeFrameGives ==
  ASSUME ShapeInv, ShapeFrame
  PROVE  \A t \in Thread : LocalShape(pc'[t], loc'[t])
  BY DEF ShapeInv, ShapeFrame

\* Places where nothing is asked of a thread's data.
Plain == PCs \ {"flush_copied", "scan", "merge", "merged", "compact_written",
                "compact_source", "compact_target", "compact_installed"}

\* At the other program points a thread may hold anything.
LEMMA PlainShape == \A l \in Plain : \A r : LocalShape(l, r)
  BY DEF Plain, LocalShape

\* Erasing entries from a level leaves metadata.
LEMMA ErasedType ==
  ASSUME NEW lv \in [Level -> Seq(MetaType)], NEW n, NEW olds
  PROVE  [lv EXCEPT ![n] = Select(@, Kept(@, olds))] \in [Level -> Seq(MetaType)]
<1>1. ASSUME n \in Level PROVE Select(lv[n], Kept(lv[n], olds)) \in Seq(MetaType)
  <2>1. Kept(lv[n], olds) \in SUBSET (DOMAIN lv[n])
    BY DEF Kept
  <2> QED
    BY <1>1, <2>1, SelectFacts
<1> QED
  BY <1>1

\* The same with the removal of their files.
LEMMA EraseKeepsShape ==
  ASSUME ShapeInv, CoreTypeOK, NEW n, NEW olds, UpdateLevelMetadata(n, olds)
  PROVE  /\ levels' \in [Level -> Seq(MetaType)]
         /\ \A f \in FileId : files'[f] # NotFound => SoundFile(files'[f])
<1>1. levels' \in [Level -> Seq(MetaType)]
  BY ErasedType DEF UpdateLevelMetadata, ShapeInv
<1>2. \A f \in FileId : files'[f] = NotFound \/ files'[f] = files[f]
  BY DEF UpdateLevelMetadata
<1> QED
  BY <1>1, <1>2 DEF ShapeInv

\* An entry at the end of a list.
LEMMA AppendType ==
  ASSUME NEW E, NEW s \in Seq(E), NEW x \in E
  PROVE  Append(s, x) \in Seq(E)
  OBVIOUS

\* Every step keeps the shape.
LEMMA ShapeStep == CoreTypeOK /\ ShapeInv /\ [Next]_vars => ShapeInv'
<1> SUFFICES ASSUME CoreTypeOK, ShapeInv, [Next]_vars
             PROVE  ShapeInv'
  OBVIOUS
<1> USE DEF disk, startup
<1>1. /\ pc \in [Thread -> PCs]
      /\ files \in [FileId -> SSTable \cup {NotFound}]
      /\ 0 \in Level /\ 0 \in 0 .. MAX_LEVEL /\ Level \subseteq 0 .. MAX_LEVEL
      /\ \A n \in Level : n + 1 \in 0 .. MAX_LEVEL
  BY StrategyAssumption DEF CoreTypeOK, Level
<1>2. ASSUME UNCHANGED <<files, manifest, levels>>, ShapeFrame
      PROVE  ShapeInv'
  BY <1>2, ShapeFrameGives DEF ShapeInv
<1>3. ASSUME NEW t \in Client, Write(t)
      PROVE  ShapeInv'
  <2>1. UNCHANGED <<files, manifest, levels>>
    BY <1>3 DEF Write, Put, Del, BeginWrite, LogWrite, ApplyWrite
  <2>2. ASSUME NEW u \in Thread
        PROVE  (pc'[u] = pc[u] /\ loc'[u] = loc[u]) \/ pc'[u] \in Plain
    <3>1. CASE ApplyWrite(t)
      <4>1. \/ pc' = [pc EXCEPT ![t] = "idle"]
            \/ pc' = [[pc EXCEPT ![t] = "idle"] EXCEPT ![Flusher] = IF @ = "wait" THEN "eval" ELSE @]
        BY <3>1 DEF ApplyWrite, Notified
      <4>2. u # t => loc'[u] = loc[u]
        BY <3>1 DEF ApplyWrite, Keep, CoreTypeOK
      <4>3. t # Flusher /\ t \in Thread /\ Flusher \in Thread
        BY KVDBAssumption DEF Thread
      <4>4. (u # t /\ pc'[u] = pc[u]) \/ pc'[u] \in {"idle", "eval"}
        BY <1>1, <4>1, <4>3
      <4> QED
        BY <4>2, <4>4 DEF Plain, PCs
    <3>2. CASE ~ApplyWrite(t)
      <4>1. PICK l, r : /\ l \in {"write", "logged"}
                        /\ pc' = [pc EXCEPT ![t] = l] /\ loc' = [loc EXCEPT ![t] = r]
        BY <1>3, <3>2 DEF Write, Put, Del, BeginWrite, LogWrite, Goto, Keep
      <4> QED
        BY <1>1, <4>1 DEF CoreTypeOK, Thread, Plain, PCs
    <3> QED
      BY <3>1, <3>2
  <2>3. ShapeFrame
    BY <2>2, PlainShape DEF ShapeFrame
  <2> QED
    BY <1>2, <2>1, <2>3
<1>4. ASSUME NEW t \in Client, Get(t)
      PROVE  ShapeInv'
  <2>5. PICK l \in {"get", "got", "idle"} : pc' = [pc EXCEPT ![t] = l]
    <3>1. \A k : (IF MemTableGet(memtable, k, seq) = NotFound THEN "get" ELSE "got") \in {"get", "got"}
      OBVIOUS
    <3>2. Home(t) = "idle"
      BY KVDBAssumption DEF Home
    <3> QED
      BY <1>4, <3>1, <3>2 DEF Get, GetBegin, GetLevel, GetReturn, Return, Goto
  <2>6. PICK r : loc' = [loc EXCEPT ![t] = r]
    BY <1>4, Zenon DEF Get, GetBegin, GetLevel, GetReturn, Return, Keep
  <2>2. LocalShape(l, r) /\ t \in Thread
    BY DEF LocalShape, Thread
  <2>3. UNCHANGED <<files, manifest, levels>>
    BY <1>4 DEF Get, GetBegin, GetLevel, GetReturn
  <2> QED
    BY <1>2, <2>2, <2>3, <2>5, <2>6, ShapeFrameHolds

<1>5. ASSUME NEW t \in Thread, FlushEmpty(t) \/ FlushClear(t) \/ FlushTruncate(t)
      PROVE  ShapeInv'
  <2>1. PICK l \in {"check", "idle", "flush_cleared"} : pc' = [pc EXCEPT ![t] = l]
    BY <1>5 DEF FlushEmpty, FlushClear, FlushTruncate, AfterFlush, Goto
  <2>2. UNCHANGED <<files, manifest, levels, loc>>
    BY <1>5 DEF FlushEmpty, FlushClear, FlushTruncate
  <2>3. loc' = [loc EXCEPT ![t] = loc[t]]
    BY <2>2 DEF CoreTypeOK
  <2>4. LocalShape(l, loc[t])
    BY DEF LocalShape
  <2> QED
    BY <1>2, <2>1, <2>2, <2>3, <2>4, ShapeFrameHolds
<1>6. ASSUME NEW t \in Thread, FlushCopy(t)
      PROVE  ShapeInv'
  <2>1. PICK r : /\ r = [data |-> memtable, fid |-> file_id]
                 /\ loc' = [loc EXCEPT ![t] = r]
    BY <1>6 DEF FlushCopy, Keep
  <2>2. LocalShape("flush_copied", r)
    BY <1>6, <2>1 DEF FlushCopy, LocalShape
  <2>3. pc' = [pc EXCEPT ![t] = "flush_copied"] /\ UNCHANGED <<files, manifest, levels>>
    BY <1>6 DEF FlushCopy, Goto
  <2> QED
    BY <1>2, <2>1, <2>2, <2>3, ShapeFrameHolds
<1>7. ASSUME NEW t \in Thread, FlushWrite(t)
      PROVE  ShapeInv'
  <2>1. loc[t].data \in MemTable /\ loc[t].data # EmptyTable
    BY <1>7 DEF FlushWrite, CoreTypeOK, LocalTypeOK, ShapeInv, LocalShape
  <2>2. SoundFile(SSTableWrite(loc[t].data))
    BY <2>1, FlushedIsSound
  <2>3. \A f \in FileId : files'[f] = files[f] \/ files'[f] = SSTableWrite(loc[t].data)
    BY <1>1, <1>7 DEF FlushWrite
  <2>4. PICK r : loc' = [loc EXCEPT ![t] = r]
    BY <1>7 DEF FlushWrite, Keep
  <2>5. LocalShape("flush_written", r) /\ pc' = [pc EXCEPT ![t] = "flush_written"]
    BY <1>7 DEF FlushWrite, Goto, LocalShape
  <2>6. \A u \in Thread : LocalShape(pc'[u], loc'[u])
    BY <2>4, <2>5, ShapeFrameHolds, ShapeFrameGives
  <2> QED
    BY <1>7, <2>2, <2>3, <2>6 DEF FlushWrite, ShapeInv
<1>8. ASSUME NEW t \in Thread, FlushAdd(t)
      PROVE  ShapeInv'
  <2>1. loc[t].fid \in 0 .. MaxFile - 1 /\ MaxFile \in Nat
    BY <1>8, KVDBAssumption DEF FlushAdd, CoreTypeOK, LocalTypeOK
  <2>2. loc[t].fid \in FileId /\ files[loc[t].fid] # NotFound
    BY <1>8, <2>1 DEF FlushAdd, FileId
  <2>3. PICK meta \in MetaType : meta = MetaOf(loc[t].fid, files[loc[t].fid])
    BY <2>2, MetaOfType DEF ShapeInv
  <2>4. levels' = [levels EXCEPT ![0] = Append(@, meta)]
    BY <1>8, <2>3 DEF FlushAdd
  <2>5. levels' \in [Level -> Seq(MetaType)]
    <3>1. levels[0] \in Seq(MetaType)
      BY <1>1 DEF ShapeInv
    <3>2. Append(levels[0], meta) \in Seq(MetaType)
      BY <3>1, AppendType
    <3> QED
      BY <2>4, <3>2 DEF ShapeInv
  <2>6. manifest' \in Seq(ManifestLine)
    <3>1. [level |-> 0, meta |-> meta] \in ManifestLine
      BY <1>1 DEF ManifestLine
    <3>2. manifest' = Append(manifest, [level |-> 0, meta |-> meta])
      BY <1>8, <2>3 DEF FlushAdd
    <3> QED
      BY <3>1, <3>2, AppendType DEF ShapeInv
  <2>7. PICK r : loc' = [loc EXCEPT ![t] = r]
    BY <1>8 DEF FlushAdd, Keep
  <2>8. LocalShape("flush_added", r) /\ pc' = [pc EXCEPT ![t] = "flush_added"]
    BY <1>8 DEF FlushAdd, Goto, LocalShape
  <2>9. \A u \in Thread : LocalShape(pc'[u], loc'[u])
    BY <2>7, <2>8, ShapeFrameHolds, ShapeFrameGives
  <2>10. UNCHANGED files
    BY <1>8 DEF FlushAdd
  <2> QED
    BY <2>5, <2>6, <2>9, <2>10 DEF ShapeInv
<1>9. ASSUME FlushWorker
      PROVE  ShapeInv'
  <2>1. PICK l \in {"flush", "parking", "wait", "compact", "eval"} : pc' = [pc EXCEPT ![Flusher] = l]
    BY <1>9 DEF FlushWorker, FlusherTest, FlusherPark, FlusherCheck, Goto
  <2>2. UNCHANGED <<files, manifest, levels, loc>> /\ Flusher \in Thread
    BY <1>9 DEF FlushWorker, FlusherTest, FlusherPark, FlusherCheck, Thread
  <2>3. loc' = [loc EXCEPT ![Flusher] = loc[Flusher]]
    BY <2>2 DEF CoreTypeOK
  <2>4. LocalShape(l, loc[Flusher])
    BY DEF LocalShape
  <2> QED
    BY <1>2, <2>1, <2>2, <2>3, <2>4, ShapeFrameHolds
<1>10. ASSUME NEW t \in Thread, CompactBegin(t)
      PROVE  ShapeInv'
  <2>1. PICK r : r = [scan |-> <<>>] /\ loc' = [loc EXCEPT ![t] = r]
    BY <1>10 DEF CompactBegin, Keep
  <2>2. LocalShape("scan", r)
    BY <2>1 DEF LocalShape
  <2>3. pc' = [pc EXCEPT ![t] = "scan"] /\ UNCHANGED <<files, manifest, levels>>
    BY <1>10 DEF CompactBegin, Goto
  <2> QED
    BY <1>2, <2>1, <2>2, <2>3, ShapeFrameHolds
<1>11. ASSUME NEW t \in Thread, CompactScan(t)
      PROVE  ShapeInv'
  <2>1. loc[t].scan \in Seq(Seq(MetaType)) /\ pc[t] = "scan"
    BY <1>11 DEF CompactScan, ShapeInv, LocalShape
  <2>2. Len(loc[t].scan) \in Level
    BY <1>11, <2>1, StrategyAssumption DEF CompactScan, Level
  <2>3. levels[Len(loc[t].scan)] \in Seq(MetaType)
    BY <2>2 DEF ShapeInv
  <2>4. PICK r : r = [scan |-> Append(loc[t].scan, levels[Len(loc[t].scan)])] /\ loc' = [loc EXCEPT ![t] = r]
    BY <1>11 DEF CompactScan, Keep
  <2>5. Append(loc[t].scan, levels[Len(loc[t].scan)]) \in Seq(Seq(MetaType))
    BY <2>1, <2>3, AppendType
  <2>6. LocalShape("scan", r)
    BY <2>4, <2>5 DEF LocalShape
  <2>7. pc' = [pc EXCEPT ![t] = "scan"] /\ UNCHANGED <<files, manifest, levels>>
    BY <1>1, <1>11, <2>1 DEF CompactScan
  <2> QED
    BY <1>2, <2>4, <2>6, <2>7, ShapeFrameHolds
<1>12. ASSUME NEW t \in Thread, CompactPick(t)
      PROVE  ShapeInv'
  <2> DEFINE lv == [n \in Level |-> loc[t].scan[n + 1]]
  <2>1. lv \in [Level -> Seq(MetaType)]
    <3>1. loc[t].scan \in Seq(Seq(MetaType)) /\ Len(loc[t].scan) = MAX_LEVEL
      BY <1>12 DEF CompactPick, ShapeInv, LocalShape
    <3>2. \A n \in Level : n + 1 \in 1 .. MAX_LEVEL
      BY StrategyAssumption DEF Level
    <3>3. \A n \in Level : loc[t].scan[n + 1] \in Seq(MetaType)
      BY <3>1, <3>2, ElementType
    <3> QED
      BY <3>3
  <2> HIDE DEF lv
  <2>2. PICK task : task = PickCompaction(Strategy, lv)
    OBVIOUS
  <2>3. task = NoTask \/ LegalTask(task)
    BY <2>1, <2>2, PickIsLegal
  <2>4. UNCHANGED <<files, manifest, levels>>
    BY <1>12 DEF CompactPick
  <2>5. CASE task = NoTask
    <3>1. pc' = [pc EXCEPT ![t] = Home(t)] /\ loc' = [loc EXCEPT ![t] = NoLoc]
      BY <1>12, <2>2, <2>5 DEF CompactPick, Return, Goto, Keep, lv
    <3>2. LocalShape(Home(t), NoLoc)
      BY DEF LocalShape, Home
    <3> QED
      BY <1>2, <2>4, <3>1, <3>2, ShapeFrameHolds
  <2>6. CASE task # NoTask
    <3>1. PICK r : r = [task |-> task] /\ loc' = [loc EXCEPT ![t] = r]
      BY <1>12, <2>2, <2>6 DEF CompactPick, Keep, lv
    <3>2. pc' = [pc EXCEPT ![t] = "merge"]
      BY <1>12, <2>2, <2>6 DEF CompactPick, Goto, lv
    <3>3. LocalShape("merge", r)
      BY <2>3, <2>6, <3>1 DEF LocalShape
    <3> QED
      BY <1>2, <2>4, <3>1, <3>2, <3>3, ShapeFrameHolds
  <2> QED
    BY <2>5, <2>6
<1>13. ASSUME NEW t \in Thread, CompactMerge(t)
      PROVE  ShapeInv'
  <2>1. UNCHANGED <<files, manifest, levels>>
    BY <1>13 DEF CompactMerge
  <2>2. CASE Return(t)
    <3>1. pc' = [pc EXCEPT ![t] = Home(t)] /\ loc' = [loc EXCEPT ![t] = NoLoc]
      BY <2>2 DEF Return, Goto, Keep
    <3>2. LocalShape(Home(t), NoLoc)
      BY DEF LocalShape, Home
    <3> QED
      BY <1>2, <2>1, <3>1, <3>2, ShapeFrameHolds
  <2>3. CASE ~Return(t)
    <3>1. PICK live, out : /\ live # {} /\ \A f \in live : Walk(f, UINT64_MAX) # {}
                           /\ out \in MergeResults(live)
                           /\ Keep(t, [task |-> loc[t].task, out |-> out, fid |-> file_id])
                           /\ Goto(t, "merged")
      <4> DEFINE names == NamesOf(loc[t].task.input) \cup NamesOf(loc[t].task.overlap)
                 opened == {files[n] : n \in {m \in names : files[m] # NotFound}}
                 alive == {f \in opened : Walk(f, UINT64_MAX) # {}}
      <4>1. /\ alive # {}
            /\ \E o \in MergeResults(alive) : Keep(t, [task |-> loc[t].task, out |-> o, fid |-> file_id])
            /\ Goto(t, "merged")
        BY <1>13, <2>3 DEF CompactMerge
      <4>2. \A f \in alive : Walk(f, UINT64_MAX) # {}
        OBVIOUS
      <4> HIDE DEF alive
      <4> QED
        BY <4>1, <4>2
    <3>2. PICK f \in live : Walk(f, UINT64_MAX) # {}
      BY <3>1
    <3>3. SoundFile(out)
      BY <3>1, <3>2, MergedIsSound
    <3>4. LegalTask(loc[t].task)
      BY <1>13 DEF CompactMerge, ShapeInv, LocalShape
    <3>5. PICK r : r = [task |-> loc[t].task, out |-> out, fid |-> file_id] /\ loc' = [loc EXCEPT ![t] = r]
      BY <3>1 DEF Keep
    <3>6. LocalShape("merged", r)
      BY <3>3, <3>4, <3>5 DEF LocalShape
    <3>7. pc' = [pc EXCEPT ![t] = "merged"]
      BY <3>1 DEF Goto
    <3> QED
      BY <1>2, <2>1, <3>5, <3>6, <3>7, ShapeFrameHolds
  <2> QED
    BY <2>2, <2>3
<1>14. ASSUME NEW t \in Thread, CompactWrite(t)
      PROVE  ShapeInv'
  <2>1. SoundFile(loc[t].out) /\ LegalTask(loc[t].task)
    BY <1>14 DEF CompactWrite, ShapeInv, LocalShape
  <2>2. loc[t].fid \in FileId
    <3>1. loc[t].fid \in 0 .. MaxFile - 1 /\ MaxFile \in Nat
      BY <1>14, KVDBAssumption DEF CompactWrite, CoreTypeOK, LocalTypeOK
    <3> QED
      BY <3>1 DEF FileId
  <2>3. \A f \in FileId : files'[f] = files[f] \/ files'[f] = loc[t].out
    BY <1>1, <1>14 DEF CompactWrite
  <2>4. PICK r : r = [task |-> loc[t].task, fid |-> loc[t].fid] /\ loc' = [loc EXCEPT ![t] = r]
    BY <1>14 DEF CompactWrite, Keep
  <2>5. LocalShape("compact_written", r)
    BY <2>1, <2>2, <2>4 DEF LocalShape
  <2>6. pc' = [pc EXCEPT ![t] = "compact_written"]
    BY <1>14 DEF CompactWrite, Goto
  <2>7. \A u \in Thread : LocalShape(pc'[u], loc'[u])
    BY <2>4, <2>5, <2>6, ShapeFrameHolds, ShapeFrameGives
  <2> QED
    BY <1>14, <2>1, <2>3, <2>7 DEF CompactWrite, ShapeInv
<1>15. ASSUME NEW t \in Thread, CompactDropSource(t)
      PROVE  ShapeInv'
  <2>1. loc[t].fid \in FileId /\ LegalTask(loc[t].task)
    BY <1>15 DEF CompactDropSource, ShapeInv, LocalShape
  <2>2. files[loc[t].fid] # NotFound
    BY <1>15 DEF CompactDropSource
  <2>3. PICK meta \in MetaType : meta = MetaOf(loc[t].fid, files[loc[t].fid])
    BY <2>1, <2>2, MetaOfType DEF ShapeInv
  <2>4. PICK r : r = [task |-> loc[t].task, meta |-> meta] /\ loc' = [loc EXCEPT ![t] = r]
    BY <1>15, <2>3 DEF CompactDropSource, Keep
  <2>5. LocalShape("compact_source", r)
    BY <2>1, <2>4 DEF LocalShape
  <2>6. pc' = [pc EXCEPT ![t] = "compact_source"] /\ UNCHANGED manifest
    BY <1>15 DEF CompactDropSource, Goto
  <2>7. \A u \in Thread : LocalShape(pc'[u], loc'[u])
    BY <2>4, <2>5, <2>6, ShapeFrameHolds, ShapeFrameGives
  <2>8. UpdateLevelMetadata(loc[t].task.src, loc[t].task.input)
    BY <1>15 DEF CompactDropSource
  <2>9. /\ levels' \in [Level -> Seq(MetaType)]
        /\ \A f \in FileId : files'[f] # NotFound => SoundFile(files'[f])
    BY <2>8, EraseKeepsShape
  <2> QED
    BY <2>6, <2>7, <2>9 DEF ShapeInv
<1>16. ASSUME NEW t \in Thread, CompactDropTarget(t)
      PROVE  ShapeInv'
  <2>1. LocalShape("compact_source", loc[t])
    BY <1>16 DEF CompactDropTarget, ShapeInv
  <2>2. LocalShape("compact_target", loc[t])
    BY <2>1 DEF LocalShape
  <2>3. /\ pc' = [pc EXCEPT ![t] = "compact_target"]
        /\ loc' = [loc EXCEPT ![t] = loc[t]]
        /\ UNCHANGED manifest
    BY <1>16 DEF CompactDropTarget, Goto, CoreTypeOK
  <2>4. \A u \in Thread : LocalShape(pc'[u], loc'[u])
    BY <2>2, <2>3, ShapeFrameHolds, ShapeFrameGives
  <2>5. UNCHANGED <<levels, files>> \/ UpdateLevelMetadata(loc[t].task.dst, loc[t].task.overlap)
    BY <1>16 DEF CompactDropTarget
  <2>6. /\ levels' \in [Level -> Seq(MetaType)]
        /\ \A f \in FileId : files'[f] # NotFound => SoundFile(files'[f])
    BY <2>5, EraseKeepsShape DEF ShapeInv
  <2> QED
    BY <2>3, <2>4, <2>6 DEF ShapeInv
<1>17. ASSUME NEW t \in Thread, CompactInstall(t)
      PROVE  ShapeInv'
  <2>1. LocalShape("compact_target", loc[t])
    BY <1>17 DEF CompactInstall, ShapeInv
  <2>2. LocalShape("compact_installed", loc[t]) /\ loc[t].meta \in MetaType
    BY <2>1 DEF LocalShape
  <2>3. /\ pc' = [pc EXCEPT ![t] = "compact_installed"]
        /\ loc' = [loc EXCEPT ![t] = loc[t]]
        /\ UNCHANGED <<manifest, files>>
    BY <1>17 DEF CompactInstall, Goto, CoreTypeOK
  <2>4. \A u \in Thread : LocalShape(pc'[u], loc'[u])
    BY <2>2, <2>3, ShapeFrameHolds, ShapeFrameGives
  <2>5. \A n \in Level : levels[n] \in Seq(MetaType) /\ Append(levels[n], loc[t].meta) \in Seq(MetaType)
    BY <2>2, AppendType DEF ShapeInv
  <2>6. levels' \in [Level -> Seq(MetaType)]
    BY <1>17, <2>5 DEF CompactInstall
  <2> QED
    BY <2>3, <2>4, <2>6 DEF ShapeInv
<1>18. ASSUME NEW t \in Thread, CompactPersist(t)
      PROVE  ShapeInv'
  <2>1. LocalShape("compact_installed", loc[t])
    BY <1>18 DEF CompactPersist, ShapeInv
  <2>2. loc[t].meta \in MetaType /\ loc[t].task.dst \in 0 .. MAX_LEVEL
    BY <1>1, <2>1 DEF LocalShape, LegalTask
  <2>3. [level |-> loc[t].task.dst, meta |-> loc[t].meta] \in ManifestLine
    BY <2>2 DEF ManifestLine
  <2>4. manifest' \in Seq(ManifestLine)
    BY <1>18, <2>3, AppendType DEF CompactPersist, ShapeInv
  <2>5. /\ pc' = [pc EXCEPT ![t] = Home(t)] /\ loc' = [loc EXCEPT ![t] = NoLoc]
        /\ UNCHANGED <<files, levels>>
    BY <1>18 DEF CompactPersist, Return, Goto, Keep
  <2>6. LocalShape(Home(t), NoLoc)
    BY DEF LocalShape, Home
  <2>7. \A u \in Thread : LocalShape(pc'[u], loc'[u])
    BY <2>5, <2>6, ShapeFrameHolds, ShapeFrameGives
  <2> QED
    BY <2>4, <2>5, <2>7 DEF ShapeInv
<1>19. ASSUME Die
      PROVE  ShapeInv'
  <2>1. /\ UNCHANGED <<files, manifest>>
        /\ levels' \in [Level -> Seq(MetaType)]
    BY <1>19 DEF Die
  <2>2. \A u \in Thread : pc'[u] \in {"eval", "idle"}
    BY <1>19 DEF Die, Home
  <2>3. \A u \in Thread : LocalShape(pc'[u], loc'[u])
    BY <2>2 DEF LocalShape
  <2> QED
    BY <2>1, <2>3 DEF ShapeInv
<1>20. ASSUME Restart \/ RecoverEnd \/ ReplayLine \/ ReplayEnd \/ UNCHANGED vars
      PROVE  ShapeInv'
  <2>1. UNCHANGED <<files, manifest, levels, pc, loc>>
    BY <1>20 DEF Restart, RecoverEnd, ReplayLine, ReplayEnd, vars
  <2> QED
    BY <2>1 DEF ShapeInv
<1>21. ASSUME RecoverLine
      PROVE  ShapeInv'
  <2>1. UNCHANGED <<files, manifest, pc, loc>>
    BY <1>21 DEF RecoverLine
  <2>2. PICK line \in ManifestLine : line = manifest[pos + 1]
    <3>1. pos + 1 \in 1 .. Len(manifest)
      BY <1>21 DEF RecoverLine, CoreTypeOK, ShapeInv
    <3> QED
      BY <3>1, ElementType DEF ShapeInv
  <2>3. PICK m \in MetaType : m = [line.meta EXCEPT !.size = 0]
    BY <2>2 DEF ManifestLine, MetaType
  <2>4. levels' = IF line.level \in Level THEN [levels EXCEPT ![line.level] = Append(@, m)] ELSE levels
    BY <1>21, <2>2, <2>3 DEF RecoverLine
  <2>5. \A n \in Level : Append(levels[n], m) \in Seq(MetaType)
    BY AppendType DEF ShapeInv
  <2>6. levels' \in [Level -> Seq(MetaType)]
    BY <2>4, <2>5 DEF ShapeInv
  <2> QED
    BY <2>1, <2>6 DEF ShapeInv
<1> QED
  BY <1>3, <1>4, <1>5, <1>6, <1>7, <1>8, <1>9, <1>10, <1>11, <1>12, <1>13, <1>14, <1>15, <1>16,
     <1>17, <1>18, <1>19, <1>20, <1>21
     DEF Next, Flush, Compact, MetaThrows, Crash, Recovery

\* The engine starts without files.
LEMMA ShapeStart == Init => ShapeInv
<1> SUFFICES ASSUME Init PROVE ShapeInv
  OBVIOUS
<1>1. levels \in [Level -> Seq(MetaType)] /\ manifest \in Seq(ManifestLine)
  BY DEF Init
<1>2. \A t \in Thread : LocalShape(pc[t], loc[t])
  BY DEF Init, Home, LocalShape
<1> QED
  BY <1>1, <1>2 DEF Init, ShapeInv

\* Every variable of the engine has its type in every reachable state, whatever the
\* strategy compacts: metadata is read back from files that have lines, and the
\* levels and the MANIFEST list metadata, through flushes, compactions, crashes and
\* recoveries.
THEOREM EverythingHasItsType == Spec => []TypeOK
<1>1. CoreTypeOK /\ ShapeInv => TypeOK
  BY DEF ShapeInv, TypeOK, ManifestLine
<1> QED
  BY <1>1, ShapeStart, ShapeStep, TypeCorrect, PTL DEF Spec

(***************************************************************************)
(* Files that levels list.  A file id has owners: the threads that drew it *)
(* from file_id_ and the ADD lines that name it.  No step but the death of *)
(* the process takes an owner away, so an id with one owner now never had  *)
(* two, and what is done to its file is what that one owner does.          *)
(***************************************************************************)
\* The file ids that a thread at l holds in its local variables r.
Held(l, r) ==
  IF l \in {"flush_copied", "flush_written", "merged", "compact_written"} THEN {r.fid}
  ELSE IF l \in {"compact_source", "compact_target", "compact_installed"} THEN {r.meta.file}
  ELSE {}

\* f was drawn once at most.
OneOwner(f) ==
  /\ \A l, m \in DOMAIN manifest : manifest[l].meta.file = f /\ manifest[m].meta.file = f => l = m
  /\ \A t, u \in Thread : f \in Held(pc[t], loc[t]) /\ f \in Held(pc[u], loc[u]) => t = u
  /\ \A l \in DOMAIN manifest : \A t \in Thread :
        ~(manifest[l].meta.file = f /\ f \in Held(pc[t], loc[t]))

\* The MANIFEST names f, or a compaction is about to name it.
Named(f) ==
  \/ \E l \in DOMAIN manifest : manifest[l].meta.file = f
  \/ \E t \in Thread : pc[t] = "compact_installed" /\ loc[t].meta.file = f

\* Whether the levels lv list f, and whether they list it once at most.
Lists(lv, f) == \E n \in Level : \E i \in DOMAIN lv[n] : lv[n][i].file = f
ListsOnce(lv, f) ==
  \A n, m \in Level : \A i \in DOMAIN lv[n] : \A j \in DOMAIN lv[m] :
    lv[n][i].file = f /\ lv[m][j].file = f => n = m /\ i = j

\* The levels new are the levels lv with g listed once more.
OneMore(lv, new, g) ==
  /\ \A f : Lists(new, f) <=> Lists(lv, f) \/ f = g
  /\ \A f : ListsOnce(lv, f) /\ f # g => ListsOnce(new, f)
  /\ ~Lists(lv, g) => ListsOnce(new, g)

\* The levels new are the levels lv without entries, gone being ids whose only
\* entry went.
SomeLess(lv, new, gone) ==
  /\ \A f : Lists(new, f) => Lists(lv, f)
  /\ \A f : ListsOnce(lv, f) => ListsOnce(new, f)
  /\ \A f : ListsOnce(lv, f) /\ f \in gone => ~Lists(new, f)

\* A listed file exists and is listed once; so does the output of a compaction
\* that has dropped its inputs and not listed its output yet.
FileFine(f) ==
  /\ Lists(levels, f) => files[f] # NotFound
  /\ ListsOnce(levels, f)
  /\ \A t \in Thread : pc[t] \in {"compact_source", "compact_target"} /\ loc[t].meta.file = f
        => files[f] # NotFound

FileInv ==
  /\ \A f : Lists(levels, f) => Named(f)
  /\ restarts = 0 => phase \in {"up", "down"}
  /\ restarts = 0 => \A f \in FileId : OneOwner(f) => FileFine(f)

\* A set with two elements counts two at least.
LEMMA TwoOfSet ==
  ASSUME NEW S, IsFiniteSet(S), NEW x \in S, NEW y \in S, x # y
  PROVE  Cardinality(S) >= 2
<1>1. IsFiniteSet({x}) /\ Cardinality({x}) = 1
  BY FS_Singleton
<1>2. Cardinality({x} \cup {y}) = 2
  BY <1>1, FS_AddElement
<1>3. ({x} \cup {y}) \in SUBSET S
  OBVIOUS
<1>4. Cardinality({x} \cup {y}) <= Cardinality(S)
  BY <1>3, FS_Subset
<1>5. Cardinality(S) \in Nat
  BY FS_CardinalityType
<1> QED
  BY <1>2, <1>4, <1>5

\* A set with an element counts one at least.
LEMMA OneOfSet ==
  ASSUME NEW S, IsFiniteSet(S), NEW x \in S
  PROVE  Cardinality(S) >= 1
<1>1. Cardinality(S) \in Nat /\ Cardinality(S) # 0
  BY FS_CardinalityType, FS_EmptySet
<1> QED
  BY <1>1

\* The process has finitely many threads.
LEMMA ThreadsFinite == IsFiniteSet(Thread)
<1>1. IsFiniteSet(Client \cup {Flusher})
  BY ClientAssumption, FS_AddElement
<1>2. IsFiniteSet((Client \cup {Flusher}) \cup {Compactor})
  BY <1>1, FS_AddElement
<1>3. Thread = (Client \cup {Flusher}) \cup {Compactor}
  BY DEF Thread
<1> QED
  BY <1>2, <1>3

\* What Draws counts as one draw has one owner.
LEMMA DrawnOnce ==
  ASSUME CoreTypeOK, ShapeInv, NEW f, ~(Draws(f) > 1)
  PROVE  OneOwner(f)
<1> DEFINE A == {l \in DOMAIN manifest : manifest[l].meta.file = f}
           B == {t \in Thread :
                   \/ pc[t] \in {"flush_copied", "flush_written", "merged", "compact_written"} /\ loc[t].fid = f
                   \/ pc[t] \in {"compact_source", "compact_target", "compact_installed"} /\ loc[t].meta.file = f}
<1>1. IsFiniteSet(DOMAIN manifest)
  BY ListFinite DEF ShapeInv
<1>2. IsFiniteSet(A)
  <2>1. A \in SUBSET (DOMAIN manifest)
    OBVIOUS
  <2> HIDE DEF A
  <2> QED
    BY <1>1, <2>1, FS_Subset
<1>3. IsFiniteSet(B)
  <2>1. B \in SUBSET Thread
    OBVIOUS
  <2> HIDE DEF B
  <2> QED
    BY <2>1, ThreadsFinite, FS_Subset
<1>4. \A t \in Thread : f \in Held(pc[t], loc[t]) => t \in B
  BY DEF Held
<1>5. Draws(f) = Cardinality(A) + Cardinality(B)
  BY DEF Draws
<1>6. \A l \in DOMAIN manifest : manifest[l].meta.file = f => l \in A
  OBVIOUS
<1> HIDE DEF A, B
<1>7. Cardinality(A) \in Nat /\ Cardinality(B) \in Nat
  BY <1>2, <1>3, FS_CardinalityType
<1>8. \A l, m \in A : l = m
  BY <1>2, <1>5, <1>7, TwoOfSet
<1>9. \A t, u \in B : t = u
  BY <1>3, <1>5, <1>7, TwoOfSet
<1>10. \A l \in A : \A t \in B : FALSE
  <2> SUFFICES ASSUME NEW l \in A, NEW t \in B PROVE FALSE
    OBVIOUS
  <2>1. Cardinality(A) >= 1
    BY <1>2, OneOfSet
  <2>2. Cardinality(B) >= 1
    BY <1>3, OneOfSet
  <2> QED
    BY <1>5, <1>7, <2>1, <2>2
<1> QED
  BY <1>4, <1>6, <1>8, <1>9, <1>10 DEF OneOwner

\* Owners stay, as holders or as ADD lines: an id that has one after a step had no
\* more before it.
LEMMA OwnersGrow ==
  ASSUME CoreTypeOK, manifest \in Seq(ManifestLine), NEW t \in Thread, NEW l, NEW r,
         pc' = [pc EXCEPT ![t] = l], loc' = [loc EXCEPT ![t] = r],
         \/ manifest' = manifest /\ Held(pc[t], loc[t]) \subseteq Held(l, r)
         \/ \E x : manifest' = Append(manifest, x) /\ Held(pc[t], loc[t]) \subseteq {x.meta.file},
         NEW f, OneOwner(f)'
  PROVE  OneOwner(f)
<1>1. \A u \in Thread : u # t => pc'[u] = pc[u] /\ loc'[u] = loc[u]
  BY DEF CoreTypeOK
<1>2. pc'[t] = l /\ loc'[t] = r
  BY DEF CoreTypeOK
<1>3. \A k \in DOMAIN manifest : k \in DOMAIN manifest' /\ manifest'[k] = manifest[k]
  OBVIOUS
<1>4. ASSUME NEW u \in Thread, f \in Held(pc[u], loc[u])
      PROVE  \/ f \in Held(pc'[u], loc'[u])
             \/ u = t /\ \E k \in DOMAIN manifest' \ DOMAIN manifest : manifest'[k].meta.file = f
  <2>1. CASE u # t
    BY <1>1, <1>4, <2>1
  <2>2. CASE u = t /\ manifest' = manifest
    <3>1. Len(Append(manifest, 1)) # Len(manifest)
      OBVIOUS
    <3>2. CASE Held(pc[t], loc[t]) \subseteq Held(l, r)
      BY <1>2, <1>4, <2>2, <3>2
    <3>3. CASE \E x : manifest' = Append(manifest, x)
      <4>1. PICK x : manifest' = Append(manifest, x)
        BY <3>3
      <4>2. Len(Append(manifest, x)) = Len(manifest) + 1 /\ Len(manifest) \in Nat
        OBVIOUS
      <4> QED
        BY <2>2, <4>1, <4>2
    <3> QED
      BY <3>2, <3>3
  <2>3. CASE u = t /\ manifest' # manifest
    <3>1. PICK x : manifest' = Append(manifest, x) /\ Held(pc[t], loc[t]) \subseteq {x.meta.file}
      BY <2>3
    <3>2. /\ Len(manifest) + 1 \in DOMAIN manifest' \ DOMAIN manifest
          /\ manifest'[Len(manifest) + 1] = x
      BY <3>1
    <3>3. x.meta.file = f
      BY <1>4, <2>3, <3>1
    <3> QED
      BY <2>3, <3>2, <3>3
  <2> QED
    BY <2>1, <2>2, <2>3
<1>5. /\ \A k, m \in DOMAIN manifest' : manifest'[k].meta.file = f /\ manifest'[m].meta.file = f => k = m
      /\ \A u, v \in Thread : f \in Held(pc'[u], loc'[u]) /\ f \in Held(pc'[v], loc'[v]) => u = v
      /\ \A k \in DOMAIN manifest' : \A u \in Thread :
            ~(manifest'[k].meta.file = f /\ f \in Held(pc'[u], loc'[u]))
  BY DEF OneOwner
<1>6. ASSUME NEW k \in DOMAIN manifest, NEW m \in DOMAIN manifest,
             manifest[k].meta.file = f, manifest[m].meta.file = f
      PROVE  k = m
  BY <1>3, <1>5, <1>6
<1>7. ASSUME NEW k \in DOMAIN manifest, NEW u \in Thread,
             manifest[k].meta.file = f, f \in Held(pc[u], loc[u])
      PROVE  FALSE
  BY <1>3, <1>4, <1>5, <1>7
<1>8. ASSUME NEW u \in Thread, NEW v \in Thread,
             f \in Held(pc[u], loc[u]), f \in Held(pc[v], loc[v])
      PROVE  u = v
  BY <1>4, <1>5, <1>8
<1> QED
  BY <1>6, <1>7, <1>8 DEF OneOwner

\* A file that the MANIFEST names, or is about to, stays so.
LEMMA NamesGrow ==
  ASSUME CoreTypeOK, manifest \in Seq(ManifestLine), NEW t \in Thread, NEW l, NEW r,
         pc' = [pc EXCEPT ![t] = l], loc' = [loc EXCEPT ![t] = r],
         \/ manifest' = manifest /\ pc[t] # "compact_installed"
         \/ \E x : /\ manifest' = Append(manifest, x)
                   /\ pc[t] = "compact_installed" => loc[t].meta.file = x.meta.file,
         NEW f, Named(f)
  PROVE  Named(f)'
<1>1. \A u \in Thread : u # t => pc'[u] = pc[u] /\ loc'[u] = loc[u]
  BY DEF CoreTypeOK
<1>2. \A k \in DOMAIN manifest : k \in DOMAIN manifest' /\ manifest'[k] = manifest[k]
  OBVIOUS
<1>3. CASE \E k \in DOMAIN manifest : manifest[k].meta.file = f
  BY <1>2, <1>3 DEF Named
<1>4. ASSUME NEW u \in Thread, pc[u] = "compact_installed", loc[u].meta.file = f
      PROVE  Named(f)'
  <2>1. CASE u # t
    BY <1>1, <1>4, <2>1 DEF Named
  <2>2. CASE u = t
    <3>1. PICK x : manifest' = Append(manifest, x) /\ loc[t].meta.file = x.meta.file
      BY <1>4, <2>2
    <3>2. Len(manifest) + 1 \in DOMAIN manifest' /\ manifest'[Len(manifest) + 1] = x
      BY <3>1
    <3> QED
      BY <1>4, <2>2, <3>1, <3>2 DEF Named
  <2> QED
    BY <2>1, <2>2
<1> QED
  BY <1>3, <1>4 DEF Named

\* What a thread owns alone nobody lists, until it has listed it itself.
LEMMA OwnedIsUnlisted ==
  ASSUME FileInv, NEW t \in Thread, NEW f, OneOwner(f), f \in Held(pc[t], loc[t]),
         pc[t] # "compact_installed"
  PROVE  ~Lists(levels, f)
<1> SUFFICES ASSUME Named(f) PROVE FALSE
  BY DEF FileInv
<1>1. \A u \in Thread : pc[u] = "compact_installed" /\ loc[u].meta.file = f => f \in Held(pc[u], loc[u])
  BY DEF Held
<1> QED
  BY <1>1 DEF OneOwner, Named

\* A step of a thread that lists nothing, drops nothing and may write a file.
LEMMA QuietStep ==
  ASSUME CoreTypeOK, ShapeInv, FileInv, NEW t \in Thread, NEW l, NEW r,
         pc' = [pc EXCEPT ![t] = l], loc' = [loc EXCEPT ![t] = r],
         levels' = levels, restarts' = restarts, phase' = phase,
         \A f \in FileId : files[f] # NotFound => files'[f] # NotFound,
         \/ /\ manifest' = manifest /\ Held(pc[t], loc[t]) \subseteq Held(l, r)
            /\ pc[t] # "compact_installed"
         \/ \E x : manifest' = Append(manifest, x) /\ Held(pc[t], loc[t]) \subseteq {x.meta.file},
         \/ l \notin {"compact_source", "compact_target"}
         \/ pc[t] = "compact_source" /\ r = loc[t]
  PROVE  FileInv'
<1>1. /\ \A u \in Thread : u # t => pc'[u] = pc[u] /\ loc'[u] = loc[u]
      /\ pc'[t] = l /\ loc'[t] = r
  BY DEF CoreTypeOK
<1>2. manifest \in Seq(ManifestLine)
  BY DEF ShapeInv
<1>3. ASSUME NEW f, Lists(levels, f) PROVE Named(f)'
  <2>1. Named(f)
    BY <1>3 DEF FileInv
  <2>2. \/ manifest' = manifest /\ pc[t] # "compact_installed"
        \/ \E x : /\ manifest' = Append(manifest, x)
                  /\ pc[t] = "compact_installed" => loc[t].meta.file = x.meta.file
    BY DEF Held
  <2> QED
    BY <1>2, <2>1, <2>2, NamesGrow
<1>4. ASSUME restarts = 0, NEW f \in FileId, OneOwner(f)'
      PROVE  FileFine(f)'
  <2>1. \/ manifest' = manifest /\ Held(pc[t], loc[t]) \subseteq Held(l, r)
        \/ \E x : manifest' = Append(manifest, x) /\ Held(pc[t], loc[t]) \subseteq {x.meta.file}
    OBVIOUS
  <2>2. OneOwner(f)
    BY <1>2, <1>4, <2>1, OwnersGrow
  <2>3. FileFine(f)
    BY <1>4, <2>2 DEF FileInv
  <2>4. ASSUME NEW u \in Thread, pc'[u] \in {"compact_source", "compact_target"}, loc'[u].meta.file = f
        PROVE  files[f] # NotFound
    BY <1>1, <2>3, <2>4 DEF FileFine
  <2> QED
    BY <2>3, <2>4 DEF FileFine
<1> QED
  BY <1>3, <1>4 DEF FileInv

\* What one more entry in the lists changes.
LEMMA ListsAppend ==
  ASSUME NEW lv \in [Level -> Seq(MetaType)], NEW n \in Level, NEW m \in MetaType, NEW new,
         new = [lv EXCEPT ![n] = Append(lv[n], m)]
  PROVE  OneMore(lv, new, m.file)
<1>1. /\ \A k \in Level : k # n => new[k] = lv[k]
      /\ new[n] = Append(lv[n], m)
  OBVIOUS
<1>2. lv[n] \in Seq(MetaType)
  OBVIOUS
<1> DEFINE z == Len(lv[n]) + 1
<1>3. /\ DOMAIN new[n] = DOMAIN lv[n] \cup {z} /\ z \notin DOMAIN lv[n]
      /\ \A i \in DOMAIN lv[n] : new[n][i] = lv[n][i]
      /\ new[n][z] = m
  BY <1>1, <1>2
<1> HIDE DEF z
<1>4. ASSUME NEW k \in Level, NEW i \in DOMAIN new[k]
      PROVE  (i \in DOMAIN lv[k] /\ new[k][i] = lv[k][i]) \/ (k = n /\ i = z)
  BY <1>1, <1>3
<1>5. ASSUME NEW f, Lists(lv, f) PROVE Lists(new, f)
  BY <1>1, <1>3, <1>5 DEF Lists
<1>6. Lists(new, m.file)
  BY <1>3 DEF Lists
<1>7. ASSUME NEW f, Lists(new, f) PROVE Lists(lv, f) \/ f = m.file
  BY <1>3, <1>4, <1>7 DEF Lists
<1>8. ASSUME NEW f, ListsOnce(lv, f), f # m.file PROVE ListsOnce(new, f)
  BY <1>3, <1>4, <1>8 DEF ListsOnce
<1>9. ASSUME ~Lists(lv, m.file) PROVE ListsOnce(new, m.file)
  <2> SUFFICES ASSUME NEW k \in Level, NEW h \in Level, NEW i \in DOMAIN new[k], NEW j \in DOMAIN new[h],
                      new[k][i].file = m.file, new[h][j].file = m.file
               PROVE  k = h /\ i = j
    BY DEF ListsOnce
  <2>1. k = n /\ i = z
    BY <1>4, <1>9 DEF Lists
  <2>2. h = n /\ j = z
    BY <1>4, <1>9 DEF Lists
  <2> QED
    BY <2>1, <2>2
<1> QED
  BY <1>5, <1>6, <1>7, <1>8, <1>9 DEF OneMore

\* A step of a thread that lists a file that it owns and that exists.
LEMMA EnterStep ==
  ASSUME CoreTypeOK, ShapeInv, FileInv, NEW t \in Thread, NEW l, NEW r,
         pc' = [pc EXCEPT ![t] = l], loc' = [loc EXCEPT ![t] = r],
         NEW n \in Level, NEW m \in MetaType, levels' = [levels EXCEPT ![n] = Append(@, m)],
         restarts' = restarts, phase' = phase, files' = files,
         Held(pc[t], loc[t]) = {m.file}, pc[t] # "compact_installed", Named(m.file)',
         \/ manifest' = manifest /\ Held(l, r) = {m.file}
         \/ \E x : manifest' = Append(manifest, x) /\ x.meta.file = m.file,
         l \notin {"compact_source", "compact_target"},
         OneOwner(m.file) /\ restarts = 0 => files[m.file] # NotFound
  PROVE  FileInv'
<1>1. /\ \A u \in Thread : u # t => pc'[u] = pc[u] /\ loc'[u] = loc[u]
      /\ pc'[t] = l /\ loc'[t] = r
  BY DEF CoreTypeOK
<1>2. manifest \in Seq(ManifestLine) /\ levels \in [Level -> Seq(MetaType)]
  BY DEF ShapeInv
<1>3. /\ \A f : Lists(levels', f) <=> Lists(levels, f) \/ f = m.file
      /\ \A f : ListsOnce(levels, f) /\ f # m.file => ListsOnce(levels', f)
      /\ ~Lists(levels, m.file) => ListsOnce(levels', m.file)
  <2>1. levels' = [levels EXCEPT ![n] = Append(levels[n], m)]
    OBVIOUS
  <2>2. OneMore(levels, levels', m.file)
    BY <1>2, <2>1, ListsAppend
  <2> QED
    BY <2>2 DEF OneMore
<1>4. ASSUME NEW f, Lists(levels', f) PROVE Named(f)'
  <2>1. CASE f = m.file
    BY <2>1
  <2>2. CASE f # m.file
    <3>1. Named(f)
      BY <1>3, <1>4, <2>2 DEF FileInv
    <3>2. \/ manifest' = manifest /\ pc[t] # "compact_installed"
          \/ \E x : /\ manifest' = Append(manifest, x)
                    /\ pc[t] = "compact_installed" => loc[t].meta.file = x.meta.file
      OBVIOUS
    <3> QED
      BY <1>2, <3>1, <3>2, NamesGrow
  <2> QED
    BY <2>1, <2>2
<1>5. ASSUME restarts = 0, NEW f \in FileId, OneOwner(f)'
      PROVE  FileFine(f)'
  <2>1. \/ manifest' = manifest /\ Held(pc[t], loc[t]) \subseteq Held(l, r)
        \/ \E x : manifest' = Append(manifest, x) /\ Held(pc[t], loc[t]) \subseteq {x.meta.file}
    OBVIOUS
  <2>2. OneOwner(f)
    BY <1>2, <1>5, <2>1, OwnersGrow
  <2>3. FileFine(f)
    BY <1>5, <2>2 DEF FileInv
  <2>4. f = m.file => ~Lists(levels, f)
    BY <2>2, OwnedIsUnlisted
  <2>5. ListsOnce(levels', f)
    BY <1>3, <2>3, <2>4 DEF FileFine
  <2>6. Lists(levels', f) => files[f] # NotFound
    BY <1>3, <1>5, <2>2, <2>3 DEF FileFine
  <2>7. ASSUME NEW u \in Thread, pc'[u] \in {"compact_source", "compact_target"}, loc'[u].meta.file = f
        PROVE  files[f] # NotFound
    BY <1>1, <2>3, <2>7 DEF FileFine
  <2> QED
    BY <2>5, <2>6, <2>7 DEF FileFine
<1> QED
  BY <1>4, <1>5 DEF FileInv

\* What erasing entries changes: of a file listed once that an old entry names
\* nothing is left.
LEMMA ListsDrop ==
  ASSUME NEW lv \in [Level -> Seq(MetaType)], NEW n \in Level, NEW olds, IsFiniteSet(DOMAIN olds),
         NEW new, new = [lv EXCEPT ![n] = Select(lv[n], Kept(lv[n], olds))]
  PROVE  SomeLess(lv, new, NamesOf(olds) \cap NamesOf(lv[n]))
<1> DEFINE s == lv[n]
           S == Kept(s, olds)
<1>1. /\ \A k \in Level : k # n => new[k] = lv[k]
      /\ new[n] = Select(s, S)
  OBVIOUS
<1>2. s \in Seq(MetaType) /\ S \in SUBSET (DOMAIN s)
  BY DEF Kept
<1>3. \A i \in S : Cardinality({j \in 1 .. i : s[j].file = s[i].file})
                     > Cardinality({j \in DOMAIN olds : olds[j].file = s[i].file})
  BY DEF Kept
<1>4. \A i \in DOMAIN s : lv[n][i] = s[i] /\ i \in DOMAIN lv[n]
  OBVIOUS
<1> HIDE DEF s, S
<1>5. /\ Select(s, S) \in Seq(MetaType)
      /\ \A i \in DOMAIN Select(s, S) : \E j \in S : Select(s, S)[i] = s[j]
      /\ \A i, j \in DOMAIN Select(s, S) : i < j =>
           \E x, y \in S : x < y /\ Select(s, S)[i] = s[x] /\ Select(s, S)[j] = s[y]
  BY <1>2, SelectFacts
<1>6. ASSUME NEW k \in Level, NEW i \in DOMAIN new[k]
      PROVE  \E j \in DOMAIN lv[k] : /\ lv[k][j] = new[k][i]
                                     /\ k = n => j \in S
                                     /\ k # n => j = i
  <2>1. CASE k # n
    BY <1>1, <1>6, <2>1
  <2>2. CASE k = n
    BY <1>1, <1>2, <1>4, <1>5, <1>6, <2>2
  <2> QED
    BY <2>1, <2>2
<1>7. ASSUME NEW f, Lists(new, f) PROVE Lists(lv, f)
  <2>4. PICK k \in Level : \E i \in DOMAIN new[k] : new[k][i].file = f
    BY <1>7 DEF Lists
  <2>1. PICK i \in DOMAIN new[k] : new[k][i].file = f
    BY <2>4
  <2>2. PICK j \in DOMAIN lv[k] : lv[k][j] = new[k][i]
    BY <1>6
  <2> QED
    BY <2>1, <2>2 DEF Lists
<1>8. ASSUME NEW f, ListsOnce(lv, f) PROVE ListsOnce(new, f)
  <2> SUFFICES ASSUME NEW k \in Level, NEW h \in Level, NEW i \in DOMAIN new[k], NEW j \in DOMAIN new[h],
                      new[k][i].file = f, new[h][j].file = f
               PROVE  k = h /\ i = j
    BY DEF ListsOnce
  <2>1. PICK x \in DOMAIN lv[k] : lv[k][x] = new[k][i] /\ (k # n => x = i)
    BY <1>6
  <2>2. PICK y \in DOMAIN lv[h] : lv[h][y] = new[h][j] /\ (h # n => y = j)
    BY <1>6
  <2>3. k = h /\ x = y
    BY <1>8, <2>1, <2>2 DEF ListsOnce
  <2>4. CASE k # n
    BY <2>1, <2>2, <2>3, <2>4
  <2>5. CASE k = n
    <3> SUFFICES ASSUME i # j PROVE FALSE
      BY <2>3
    <3>1. i \in Nat /\ j \in Nat /\ i \in DOMAIN Select(s, S) /\ j \in DOMAIN Select(s, S)
      BY <1>1, <1>5, <2>3, <2>5
    <3>2. ASSUME NEW a \in DOMAIN Select(s, S), NEW b \in DOMAIN Select(s, S), a < b,
                 Select(s, S)[a].file = f, Select(s, S)[b].file = f
          PROVE  FALSE
      <4>1. PICK c \in S, d \in S : c < d /\ Select(s, S)[a] = s[c] /\ Select(s, S)[b] = s[d]
        BY <1>5, <3>2
      <4>2. c \in DOMAIN lv[n] /\ d \in DOMAIN lv[n] /\ lv[n][c].file = f /\ lv[n][d].file = f
        BY <1>2, <1>4, <3>2, <4>1
      <4>3. c = d
        BY <1>8, <4>2 DEF ListsOnce
      <4>4. c \in Nat
        BY <1>2
      <4> QED
        BY <4>1, <4>3, <4>4
    <3>3. Select(s, S)[i].file = f /\ Select(s, S)[j].file = f
      BY <1>1, <2>3, <2>5
    <3>4. i < j \/ j < i
      BY <3>1
    <3> QED
      BY <3>1, <3>2, <3>3, <3>4
  <2> QED
    BY <2>4, <2>5
<1>9. ASSUME NEW f, ListsOnce(lv, f), f \in NamesOf(olds), Lists(new, f), f \in NamesOf(lv[n])
      PROVE  FALSE
  <2>1. PICK x \in DOMAIN lv[n] : lv[n][x].file = f
    BY <1>9 DEF NamesOf, Range
  <2>12. PICK k \in Level : \E i \in DOMAIN new[k] : new[k][i].file = f
    BY <1>9 DEF Lists
  <2>2. PICK i \in DOMAIN new[k] : new[k][i].file = f
    BY <2>12
  <2>3. PICK y \in DOMAIN lv[k] : lv[k][y] = new[k][i] /\ (k = n => y \in S)
    BY <1>6
  <2>4. k = n /\ y = x
    BY <1>9, <2>1, <2>2, <2>3 DEF ListsOnce
  <2>5. y \in S /\ y \in DOMAIN s /\ s[y].file = f
    BY <1>2, <1>4, <2>1, <2>3, <2>4
  <2> DEFINE E == {j \in 1 .. y : s[j].file = f}
             O == {j \in DOMAIN olds : olds[j].file = f}
  <2>6. E = {y}
    <3>1. y \in 1 .. y /\ \A j \in 1 .. y : j \in DOMAIN s
      BY <1>2, <2>5
    <3>2. \A j \in DOMAIN s : s[j].file = f => j = y
      BY <1>4, <1>9, <2>1, <2>4 DEF ListsOnce, s
    <3> QED
      BY <2>5, <3>1, <3>2
  <2>7. Cardinality(E) = 1
    BY <2>6, FS_Singleton
  <2>8. IsFiniteSet(O)
    <3>1. O \in SUBSET (DOMAIN olds)
      OBVIOUS
    <3> HIDE DEF O
    <3> QED
      BY <3>1, FS_Subset
  <2>9. PICK o \in O : TRUE
    BY <1>9 DEF NamesOf, Range
  <2>10. Cardinality(E) > Cardinality(O)
    BY <1>3, <2>5
  <2> HIDE DEF E, O
  <2>11. Cardinality(O) >= 1 /\ Cardinality(O) \in Nat
    BY <2>8, <2>9, OneOfSet, FS_CardinalityType
  <2> QED
    BY <2>7, <2>10, <2>11
<1> QED
  BY <1>7, <1>8, <1>9 DEF SomeLess

\* A step of a compaction that drops input files and goes on holding its output.
LEMMA DropStep ==
  ASSUME CoreTypeOK, ShapeInv, FileInv, NEW t \in Thread, NEW l, NEW r, NEW g \in FileId,
         pc' = [pc EXCEPT ![t] = l], loc' = [loc EXCEPT ![t] = r],
         NEW n \in Level, NEW olds, IsFiniteSet(DOMAIN olds), UpdateLevelMetadata(n, olds),
         restarts' = restarts, phase' = phase, manifest' = manifest,
         Held(pc[t], loc[t]) = {g}, Held(l, r) = {g}, pc[t] # "compact_installed",
         r.meta.file = g,
         OneOwner(g) /\ restarts = 0 => files[g] # NotFound
  PROVE  FileInv'
<1>1. /\ \A u \in Thread : u # t => pc'[u] = pc[u] /\ loc'[u] = loc[u]
      /\ pc'[t] = l /\ loc'[t] = r
  BY DEF CoreTypeOK
<1>2. manifest \in Seq(ManifestLine) /\ levels \in [Level -> Seq(MetaType)]
  BY DEF ShapeInv
<1>3. levels' = [levels EXCEPT ![n] = Select(@, Kept(@, olds))]
  BY DEF UpdateLevelMetadata
<1>4. /\ \A f : Lists(levels', f) => Lists(levels, f)
      /\ \A f : ListsOnce(levels, f) => ListsOnce(levels', f)
      /\ \A f : ListsOnce(levels, f) /\ f \in NamesOf(olds)
                  => ~(Lists(levels', f) /\ f \in NamesOf(levels[n]))
  <2>1. levels' = [levels EXCEPT ![n] = Select(levels[n], Kept(levels[n], olds))]
    BY <1>3
  <2>2. SomeLess(levels, levels', NamesOf(olds) \cap NamesOf(levels[n]))
    BY <1>2, <2>1, ListsDrop
  <2> QED
    BY <2>2 DEF SomeLess
<1>5. \A f \in FileId :
        files'[f] = IF f \in NamesOf(olds) \cap NamesOf(levels[n]) THEN NotFound ELSE files[f]
  BY DEF UpdateLevelMetadata
<1>6. \A f : f \in NamesOf(levels[n]) => Lists(levels, f)
  BY DEF NamesOf, Range, Lists
<1>7. ASSUME NEW f, Lists(levels', f) PROVE Named(f)'
  <2>1. Named(f)
    BY <1>4, <1>7 DEF FileInv
  <2>2. \/ manifest' = manifest /\ pc[t] # "compact_installed"
        \/ \E x : /\ manifest' = Append(manifest, x)
                  /\ pc[t] = "compact_installed" => loc[t].meta.file = x.meta.file
    OBVIOUS
  <2> QED
    BY <1>2, <2>1, <2>2, NamesGrow
<1>8. ASSUME restarts = 0, NEW f \in FileId, OneOwner(f)'
      PROVE  FileFine(f)'
  <2>1. \/ manifest' = manifest /\ Held(pc[t], loc[t]) \subseteq Held(l, r)
        \/ \E x : manifest' = Append(manifest, x) /\ Held(pc[t], loc[t]) \subseteq {x.meta.file}
    OBVIOUS
  <2>2. OneOwner(f)
    BY <1>2, <1>8, <2>1, OwnersGrow
  <2>3. FileFine(f)
    BY <1>8, <2>2 DEF FileInv
  <2>4. ListsOnce(levels', f)
    BY <1>4, <2>3 DEF FileFine
  <2>5. Lists(levels', f) => files'[f] # NotFound
    BY <1>4, <1>5, <2>3 DEF FileFine
  <2>6. ASSUME NEW u \in Thread, pc'[u] \in {"compact_source", "compact_target"}, loc'[u].meta.file = f
        PROVE  files'[f] # NotFound
    <3>1. f \in Held(pc[u], loc[u]) /\ pc[u] # "compact_installed" /\ files[f] # NotFound
      <4>1. CASE u = t
        BY <1>1, <1>8, <2>2, <2>6, <4>1
      <4>2. CASE u # t
        BY <1>1, <2>3, <2>6, <4>2 DEF FileFine, Held
      <4> QED
        BY <4>1, <4>2
    <3>2. ~Lists(levels, f)
      BY <2>2, <3>1, OwnedIsUnlisted
    <3> QED
      BY <1>5, <1>6, <3>1, <3>2
  <2> QED
    BY <2>4, <2>5, <2>6 DEF FileFine
<1> QED
  BY <1>7, <1>8 DEF FileInv

\* Program points where a thread owns no file.
Free == PCs \ {"flush_copied", "flush_written", "merged", "compact_written",
               "compact_source", "compact_target", "compact_installed"}

\* A step of threads that own no file, before it or after it.
LEMMA SameOwners ==
  ASSUME FileInv,
         \A u \in Thread : \/ pc'[u] = pc[u] /\ loc'[u] = loc[u]
                           \/ pc[u] \in Free /\ pc'[u] \in Free,
         UNCHANGED <<levels, files, manifest, restarts, phase>>
  PROVE  FileInv'
<1>1. \A u \in Thread : Held(pc'[u], loc'[u]) = Held(pc[u], loc[u])
  BY DEF Free, Held
<1>2. \A u \in Thread : pc'[u] \in {"compact_source", "compact_target", "compact_installed"}
                     \/ pc[u] \in {"compact_source", "compact_target", "compact_installed"}
                          => pc'[u] = pc[u] /\ loc'[u] = loc[u]
  BY DEF Free
<1>3. \A f : OneOwner(f)' => OneOwner(f)
  BY <1>1 DEF OneOwner
<1>4. \A f : Named(f) => Named(f)'
  BY <1>2 DEF Named
<1>5. \A f : FileFine(f) => FileFine(f)'
  BY <1>2 DEF FileFine
<1> QED
  BY <1>3, <1>4, <1>5 DEF FileInv

\* A step that owns no file before and afterwards drops none.
LEMMA FreeStep ==
  ASSUME CoreTypeOK, ShapeInv, FileInv, NEW t \in Thread, NEW l, NEW r, pc[t] \in Free,
         pc' = [pc EXCEPT ![t] = l], loc' = [loc EXCEPT ![t] = r],
         l \notin {"compact_source", "compact_target"},
         UNCHANGED <<levels, files, manifest, restarts, phase>>
  PROVE  FileInv'
<1>1. Held(pc[t], loc[t]) \subseteq Held(l, r) /\ pc[t] # "compact_installed"
  BY DEF Free, Held
<1> QED
  BY <1>1, QuietStep

\* Every step keeps the files that levels list.
LEMMA FileStep == CoreTypeOK /\ ShapeInv /\ FileInv /\ [Next]_vars => FileInv'
<1> SUFFICES ASSUME CoreTypeOK, ShapeInv, FileInv, [Next]_vars
             PROVE  FileInv'
  OBVIOUS
<1> USE DEF disk, startup
<1>1. /\ pc \in [Thread -> PCs] /\ 0 \in Level /\ levels \in [Level -> Seq(MetaType)]
      /\ files \in [FileId -> SSTable \cup {NotFound}] /\ NotFound \notin SSTable
      /\ Client \subseteq Thread /\ Flusher \in Thread
  BY StrategyAssumption, FileAssumption DEF CoreTypeOK, ShapeInv, Level, Thread
<1>2. ASSUME NEW t \in Client, Write(t)
      PROVE  FileInv'
  <2>1. UNCHANGED <<files, manifest, levels, restarts, phase>> /\ pc[t] \in Free
    BY <1>2 DEF Write, Put, Del, BeginWrite, LogWrite, ApplyWrite, Free, PCs
  <2>2. CASE ApplyWrite(t)
    <3>1. \/ pc' = [pc EXCEPT ![t] = "idle"]
          \/ pc' = [[pc EXCEPT ![t] = "idle"] EXCEPT ![Flusher] = IF @ = "wait" THEN "eval" ELSE @]
      BY <2>2 DEF ApplyWrite, Notified
    <3>2. \A u \in Thread : u # t => loc'[u] = loc[u]
      BY <2>2 DEF ApplyWrite, Keep, CoreTypeOK
    <3>3. t # Flusher
      BY KVDBAssumption
    <3>4. ASSUME NEW u \in Thread
          PROVE  \/ pc'[u] = pc[u] /\ loc'[u] = loc[u]
                 \/ pc[u] \in Free /\ pc'[u] \in Free
      <4>1. \/ u # t /\ pc'[u] = pc[u]
            \/ u = t /\ pc'[u] = "idle"
            \/ pc[u] = "wait" /\ pc'[u] = "eval"
        BY <1>1, <3>1, <3>3
      <4> QED
        BY <2>1, <3>2, <4>1 DEF Free, PCs
    <3> QED
      BY <2>1, <3>4, SameOwners
  <2>3. CASE ~ApplyWrite(t)
    <3>1. PICK l \in {"write", "logged"} : pc' = [pc EXCEPT ![t] = l]
      BY <1>2, <2>3 DEF Write, Put, Del, BeginWrite, LogWrite, Goto
    <3>2. PICK r : loc' = [loc EXCEPT ![t] = r]
      BY <1>2, <2>3 DEF Write, Put, Del, BeginWrite, LogWrite, Keep
    <3> QED
      BY <1>1, <2>1, <3>1, <3>2, FreeStep
  <2> QED
    BY <2>2, <2>3
<1>3. ASSUME NEW t \in Client, Get(t)
      PROVE  FileInv'
  <2>1. PICK l \in {"get", "got", "idle"} : pc' = [pc EXCEPT ![t] = l]
    <3>1. \A k : (IF MemTableGet(memtable, k, seq) = NotFound THEN "get" ELSE "got") \in {"get", "got"}
      OBVIOUS
    <3>2. Home(t) = "idle"
      BY KVDBAssumption DEF Home
    <3> QED
      BY <1>3, <3>1, <3>2 DEF Get, GetBegin, GetLevel, GetReturn, Return, Goto
  <2>2. PICK r : loc' = [loc EXCEPT ![t] = r]
    BY <1>3, Zenon DEF Get, GetBegin, GetLevel, GetReturn, Return, Keep
  <2>3. UNCHANGED <<files, manifest, levels, restarts, phase>> /\ pc[t] \in Free
    BY <1>3 DEF Get, GetBegin, GetLevel, GetReturn, Free, PCs
  <2> QED
    BY <1>1, <2>1, <2>2, <2>3, FreeStep
<1>4. ASSUME NEW t \in Thread, FlushEmpty(t) \/ FlushClear(t) \/ FlushTruncate(t)
      PROVE  FileInv'
  <2>1. PICK l \in {"check", "idle", "flush_cleared"} : pc' = [pc EXCEPT ![t] = l]
    BY <1>4 DEF FlushEmpty, FlushClear, FlushTruncate, AfterFlush, Goto
  <2>2. UNCHANGED <<files, manifest, levels, loc, restarts, phase>> /\ pc[t] \in Free
    BY <1>4 DEF FlushEmpty, FlushClear, FlushTruncate, FlushCaller, Free, PCs
  <2>3. loc' = [loc EXCEPT ![t] = loc[t]]
    BY <2>2 DEF CoreTypeOK
  <2> QED
    BY <2>1, <2>2, <2>3, FreeStep
<1>5. ASSUME NEW t \in Thread, FlushCopy(t)
      PROVE  FileInv'
  <2>1. PICK r : loc' = [loc EXCEPT ![t] = r]
    BY <1>5 DEF FlushCopy, Keep
  <2>2. /\ pc' = [pc EXCEPT ![t] = "flush_copied"] /\ pc[t] \in Free
        /\ UNCHANGED <<files, manifest, levels, restarts, phase>>
    BY <1>5 DEF FlushCopy, FlushCaller, Goto, Free, PCs
  <2> QED
    BY <2>1, <2>2, FreeStep
<1>6. ASSUME NEW t \in Thread, FlushWrite(t)
      PROVE  FileInv'
  <2>1. loc[t].data \in MemTable /\ loc[t].data # EmptyTable /\ pc[t] = "flush_copied"
    BY <1>6 DEF FlushWrite, CoreTypeOK, LocalTypeOK, ShapeInv, LocalShape
  <2>2. SSTableWrite(loc[t].data) # NotFound
    BY <1>1, <2>1, FlushedIsSound DEF SoundFile
  <2>3. \A f \in FileId : files[f] # NotFound => files'[f] # NotFound
    BY <1>1, <1>6, <2>2 DEF FlushWrite
  <2>4. PICK r : r = [fid |-> loc[t].fid] /\ loc' = [loc EXCEPT ![t] = r]
    BY <1>6 DEF FlushWrite, Keep
  <2>5. Held("flush_written", r) = {loc[t].fid} /\ Held(pc[t], loc[t]) = {loc[t].fid}
    BY <2>1, <2>4 DEF Held
  <2>6. /\ pc' = [pc EXCEPT ![t] = "flush_written"]
        /\ UNCHANGED <<manifest, levels, restarts, phase>>
    BY <1>6 DEF FlushWrite, Goto
  <2> QED
    BY <2>1, <2>3, <2>4, <2>5, <2>6, QuietStep
<1>7. ASSUME NEW t \in Thread, FlushAdd(t)
      PROVE  FileInv'
  <2>1. loc[t].fid \in 0 .. MaxFile - 1 /\ MaxFile \in Nat
    BY <1>7, KVDBAssumption DEF FlushAdd, CoreTypeOK, LocalTypeOK
  <2>2. loc[t].fid \in FileId /\ files[loc[t].fid] # NotFound
    BY <1>7, <2>1 DEF FlushAdd, FileId
  <2>3. PICK meta \in MetaType : meta = MetaOf(loc[t].fid, files[loc[t].fid])
    BY <2>2, MetaOfType DEF ShapeInv
  <2>4. meta.file = loc[t].fid
    BY <2>3 DEF MetaOf
  <2>5. Held(pc[t], loc[t]) = {meta.file} /\ pc[t] # "compact_installed"
    BY <1>7, <2>4 DEF FlushAdd, Held
  <2>6. levels' = [levels EXCEPT ![0] = Append(@, meta)]
    BY <1>7, <2>3 DEF FlushAdd
  <2>7. PICK x : x = [level |-> 0, meta |-> meta] /\ manifest' = Append(manifest, x)
    BY <1>7, <2>3 DEF FlushAdd
  <2>8. x.meta.file = meta.file
    BY <2>7
  <2>9. Named(meta.file)'
    <3>1. Len(manifest) + 1 \in DOMAIN manifest' /\ manifest'[Len(manifest) + 1] = x
      BY <2>7 DEF ShapeInv
    <3> QED
      BY <2>8, <3>1 DEF Named
  <2>10. PICK r : loc' = [loc EXCEPT ![t] = r]
    BY <1>7 DEF FlushAdd, Keep
  <2>11. pc' = [pc EXCEPT ![t] = "flush_added"] /\ UNCHANGED <<files, restarts, phase>>
    BY <1>7 DEF FlushAdd, Goto
  <2>12. files[meta.file] # NotFound
    BY <2>2, <2>4
  <2>13. PICK n \in Level : n = 0
    BY StrategyAssumption DEF Level
  <2>14. levels' = [levels EXCEPT ![n] = Append(@, meta)]
    BY <2>6, <2>13
  <2>15. \E y : manifest' = Append(manifest, y) /\ y.meta.file = meta.file
    BY <2>7, <2>8
  <2>16. \/ manifest' = manifest /\ Held("flush_added", r) = {meta.file}
         \/ \E y : manifest' = Append(manifest, y) /\ y.meta.file = meta.file
    BY <2>15
  <2>17. OneOwner(meta.file) /\ restarts = 0 => files[meta.file] # NotFound
    BY <2>12
  <2>18. "flush_added" \notin {"compact_source", "compact_target"}
    OBVIOUS
  <2> QED
    BY <2>5, <2>9, <2>10, <2>11, <2>14, <2>16, <2>17, <2>18, EnterStep
<1>8. ASSUME FlushWorker
      PROVE  FileInv'
  <2>1. PICK l \in {"flush", "parking", "wait", "compact", "eval"} : pc' = [pc EXCEPT ![Flusher] = l]
    BY <1>8 DEF FlushWorker, FlusherTest, FlusherPark, FlusherCheck, Goto
  <2>2. UNCHANGED <<files, manifest, levels, loc, restarts, phase>> /\ pc[Flusher] \in Free
    BY <1>8 DEF FlushWorker, FlusherTest, FlusherPark, FlusherCheck, Free, PCs
  <2>3. loc' = [loc EXCEPT ![Flusher] = loc[Flusher]]
    BY <2>2 DEF CoreTypeOK
  <2> QED
    BY <1>1, <2>1, <2>2, <2>3, FreeStep
<1>9. ASSUME NEW t \in Thread, CompactBegin(t)
      PROVE  FileInv'
  <2>1. PICK r : loc' = [loc EXCEPT ![t] = r]
    BY <1>9 DEF CompactBegin, Keep
  <2>2. /\ pc' = [pc EXCEPT ![t] = "scan"] /\ UNCHANGED <<files, manifest, levels, restarts, phase>>
        /\ pc[t] \in Free
    BY <1>9 DEF CompactBegin, Goto, Free, PCs
  <2> QED
    BY <2>1, <2>2, FreeStep
<1>10. ASSUME NEW t \in Thread, CompactScan(t)
      PROVE  FileInv'
  <2>1. PICK r : loc' = [loc EXCEPT ![t] = r]
    BY <1>10 DEF CompactScan, Keep
  <2>2. /\ pc' = [pc EXCEPT ![t] = "scan"] /\ UNCHANGED <<files, manifest, levels, restarts, phase>>
        /\ pc[t] \in Free
    BY <1>1, <1>10 DEF CompactScan, Free, PCs
  <2> QED
    BY <2>1, <2>2, FreeStep
<1>11. ASSUME NEW t \in Thread, CompactPick(t)
      PROVE  FileInv'
  <2>1. UNCHANGED <<files, manifest, levels, restarts, phase>> /\ pc[t] \in Free
    BY <1>11 DEF CompactPick, Free, PCs
  <2>2. PICK l : l \in {Home(t), "merge"} /\ pc' = [pc EXCEPT ![t] = l]
    BY <1>11, Zenon DEF CompactPick, Return, Goto
  <2>3. PICK r : loc' = [loc EXCEPT ![t] = r]
    BY <1>11, Zenon DEF CompactPick, Return, Keep
  <2>4. l \notin {"compact_source", "compact_target"}
    BY <2>2 DEF Home
  <2> QED
    BY <2>1, <2>2, <2>3, <2>4, FreeStep
<1>12. ASSUME NEW t \in Thread, CompactMerge(t)
      PROVE  FileInv'
  <2>1. UNCHANGED <<files, manifest, levels, restarts, phase>> /\ pc[t] \in Free
    BY <1>12 DEF CompactMerge, Free, PCs
  <2>2. PICK l : l \in {Home(t), "merged"} /\ pc' = [pc EXCEPT ![t] = l]
    BY <1>12, Zenon DEF CompactMerge, Return, Goto
  <2>3. PICK r : loc' = [loc EXCEPT ![t] = r]
    BY <1>12, Zenon DEF CompactMerge, Return, Keep
  <2>4. l \notin {"compact_source", "compact_target"}
    BY <2>2 DEF Home
  <2> QED
    BY <2>1, <2>2, <2>3, <2>4, FreeStep
<1>13. ASSUME NEW t \in Thread, CompactWrite(t)
      PROVE  FileInv'
  <2>1. loc[t].out \in SSTable /\ pc[t] = "merged"
    BY <1>13 DEF CompactWrite, CoreTypeOK, LocalTypeOK
  <2>2. \A f \in FileId : files[f] # NotFound => files'[f] # NotFound
    BY <1>1, <1>13, <2>1 DEF CompactWrite
  <2>3. PICK r : r = [task |-> loc[t].task, fid |-> loc[t].fid] /\ loc' = [loc EXCEPT ![t] = r]
    BY <1>13 DEF CompactWrite, Keep
  <2>4. Held("compact_written", r) = {loc[t].fid} /\ Held(pc[t], loc[t]) = {loc[t].fid}
    BY <2>1, <2>3 DEF Held
  <2>5. /\ pc' = [pc EXCEPT ![t] = "compact_written"]
        /\ UNCHANGED <<manifest, levels, restarts, phase>>
    BY <1>13 DEF CompactWrite, Goto
  <2> QED
    BY <2>1, <2>2, <2>3, <2>4, <2>5, QuietStep
<1>14. ASSUME NEW t \in Thread, CompactDropSource(t)
      PROVE  FileInv'
  <2>1. loc[t].fid \in FileId /\ LegalTask(loc[t].task) /\ pc[t] = "compact_written"
    BY <1>14 DEF CompactDropSource, ShapeInv, LocalShape
  <2>2. files[loc[t].fid] # NotFound
    BY <1>14 DEF CompactDropSource
  <2>3. PICK meta : meta = MetaOf(loc[t].fid, files[loc[t].fid])
    OBVIOUS
  <2>4. meta.file = loc[t].fid
    BY <2>3 DEF MetaOf
  <2>5. PICK r : r = [task |-> loc[t].task, meta |-> meta] /\ loc' = [loc EXCEPT ![t] = r]
    BY <1>14, <2>3 DEF CompactDropSource, Keep
  <2>6. /\ Held(pc[t], loc[t]) = {loc[t].fid} /\ Held("compact_source", r) = {loc[t].fid}
        /\ pc[t] # "compact_installed" /\ r.meta.file = loc[t].fid
    BY <2>1, <2>4, <2>5 DEF Held
  <2>7. /\ pc' = [pc EXCEPT ![t] = "compact_source"] /\ UNCHANGED <<manifest, restarts, phase>>
        /\ UpdateLevelMetadata(loc[t].task.src, loc[t].task.input)
    BY <1>14 DEF CompactDropSource, Goto
  <2>8. loc[t].task.src \in Level /\ IsFiniteSet(DOMAIN loc[t].task.input)
    BY <2>1 DEF LegalTask
  <2>9. PICK g \in FileId : g = loc[t].fid
    BY <2>1
  <2>10. PICK n \in Level : n = loc[t].task.src
    BY <2>8
  <2>11. PICK olds : olds = loc[t].task.input
    OBVIOUS
  <2>12. UpdateLevelMetadata(n, olds) /\ IsFiniteSet(DOMAIN olds)
    BY <2>7, <2>8, <2>10, <2>11
  <2>13. /\ Held(pc[t], loc[t]) = {g} /\ Held("compact_source", r) = {g}
         /\ pc[t] # "compact_installed" /\ r.meta.file = g
         /\ OneOwner(g) /\ restarts = 0 => files[g] # NotFound
    BY <2>2, <2>6, <2>9
  <2>14. pc' = [pc EXCEPT ![t] = "compact_source"] /\ UNCHANGED <<manifest, restarts, phase>>
    BY <2>7
  <2>15. loc' = [loc EXCEPT ![t] = r]
    BY <2>5
  <2> QED
    BY <2>12, <2>13, <2>14, <2>15, DropStep
<1>15. ASSUME NEW t \in Thread, CompactDropTarget(t)
      PROVE  FileInv'
  <2>1. LegalTask(loc[t].task) /\ pc[t] = "compact_source" /\ loc[t].meta \in MetaType
    BY <1>15 DEF CompactDropTarget, ShapeInv, LocalShape
  <2> DEFINE g == loc[t].meta.file
  <2>2. g \in FileId /\ Held(pc[t], loc[t]) = {g} /\ Held("compact_target", loc[t]) = {g}
    BY <2>1 DEF Held, MetaType
  <2>3. /\ pc' = [pc EXCEPT ![t] = "compact_target"] /\ loc' = [loc EXCEPT ![t] = loc[t]]
        /\ UNCHANGED <<manifest, restarts, phase>>
    BY <1>15 DEF CompactDropTarget, Goto, CoreTypeOK
  <2>4. CASE UNCHANGED <<levels, files>>
    BY <2>1, <2>2, <2>3, <2>4, QuietStep
  <2>5. CASE ~UNCHANGED <<levels, files>>
    <3>1. /\ UpdateLevelMetadata(loc[t].task.dst, loc[t].task.overlap)
          /\ loc[t].task.dst < MAX_LEVEL
      BY <1>15, <2>5 DEF CompactDropTarget
    <3>2. loc[t].task.dst \in Level /\ IsFiniteSet(DOMAIN loc[t].task.overlap)
      BY <2>1, <3>1, StrategyAssumption DEF LegalTask, Level
    <3>3. OneOwner(g) /\ restarts = 0 => files[g] # NotFound
      BY <2>1, <2>2 DEF FileInv, FileFine
    <3>4. pc[t] # "compact_installed" /\ loc[t].meta.file = g
      BY <2>1
    <3> HIDE DEF g
    <3> QED
      BY <2>2, <2>3, <3>1, <3>2, <3>3, <3>4, DropStep
  <2> QED
    BY <2>4, <2>5
<1>16. ASSUME NEW t \in Thread, CompactInstall(t)
      PROVE  FileInv'
  <2>1. pc[t] = "compact_target" /\ loc[t].meta \in MetaType
    BY <1>16 DEF CompactInstall, ShapeInv, LocalShape
  <2>2. PICK m \in MetaType : m = loc[t].meta
    BY <2>1
  <2>3. /\ Held(pc[t], loc[t]) = {m.file} /\ Held("compact_installed", loc[t]) = {m.file}
        /\ pc[t] # "compact_installed" /\ m.file \in FileId
    BY <2>1, <2>2 DEF Held, MetaType
  <2>4. /\ pc' = [pc EXCEPT ![t] = "compact_installed"] /\ loc' = [loc EXCEPT ![t] = loc[t]]
        /\ UNCHANGED <<manifest, files, restarts, phase>>
    BY <1>16 DEF CompactInstall, Goto, CoreTypeOK
  <2>5. CASE loc[t].task.dst \notin Level
    <3>1. levels' = levels
      BY <1>1, <1>16, <2>5 DEF CompactInstall
    <3> QED
      BY <2>3, <2>4, <3>1, QuietStep
  <2>6. CASE loc[t].task.dst \in Level
    <3>1. PICK n \in Level : n = loc[t].task.dst
      BY <2>6
    <3>2. levels' = [levels EXCEPT ![n] = Append(@, m)]
      BY <1>1, <1>16, <2>2, <3>1 DEF CompactInstall
    <3>3. pc'[t] = "compact_installed" /\ loc'[t].meta.file = m.file
      BY <1>1, <2>2, <2>4 DEF CoreTypeOK
    <3>4. Named(m.file)'
      BY <3>3 DEF Named
    <3>5. OneOwner(m.file) /\ restarts = 0 => files[m.file] # NotFound
      BY <2>1, <2>2, <2>3 DEF FileInv, FileFine
    <3> QED
      BY <2>3, <2>4, <3>2, <3>4, <3>5, EnterStep
  <2> QED
    BY <2>5, <2>6
<1>17. ASSUME NEW t \in Thread, CompactPersist(t)
      PROVE  FileInv'
  <2>1. PICK x : x = [level |-> loc[t].task.dst, meta |-> loc[t].meta] /\ manifest' = Append(manifest, x)
    BY <1>17 DEF CompactPersist
  <2>2. Held(pc[t], loc[t]) \subseteq {x.meta.file}
    BY <1>17, <2>1 DEF CompactPersist, Held
  <2>3. /\ pc' = [pc EXCEPT ![t] = Home(t)] /\ loc' = [loc EXCEPT ![t] = NoLoc]
        /\ UNCHANGED <<files, levels, restarts, phase>>
    BY <1>17 DEF CompactPersist, Return, Goto, Keep
  <2>4. Home(t) \notin {"compact_source", "compact_target"}
    BY DEF Home
  <2> QED
    BY <2>1, <2>2, <2>3, <2>4, QuietStep
<1>18. ASSUME Die
      PROVE  FileInv'
  <2>1. \A n \in Level : levels'[n] = <<>>
    BY <1>18 DEF Die
  <2>2. (\A f : ~Lists(levels', f)) /\ \A f : ListsOnce(levels', f)
    BY <2>1 DEF Lists, ListsOnce
  <2>3. \A u \in Thread : pc'[u] \in {"eval", "idle"}
    BY <1>18 DEF Die, Home
  <2>4. phase' = "down"
    BY <1>18 DEF Die
  <2>5. \A f : FileFine(f)'
    BY <2>2, <2>3 DEF FileFine
  <2> QED
    BY <2>2, <2>4, <2>5 DEF FileInv
<1>19. ASSUME Restart
      PROVE  FileInv'
  <2>1. UNCHANGED <<files, manifest, levels, pc, loc>> /\ restarts' = restarts + 1
    BY <1>19 DEF Restart
  <2>2. restarts' # 0
    BY <2>1 DEF CoreTypeOK
  <2>3. \A f : Named(f) => Named(f)'
    BY <2>1 DEF Named
  <2> QED
    BY <2>1, <2>2, <2>3 DEF FileInv
<1>20. ASSUME RecoverEnd \/ ReplayLine \/ ReplayEnd
      PROVE  FileInv'
  <2>1. UNCHANGED <<files, manifest, levels, pc, loc, restarts>> /\ phase \notin {"up", "down"}
    BY <1>20 DEF RecoverEnd, ReplayLine, ReplayEnd
  <2>2. restarts' # 0
    BY <2>1 DEF FileInv
  <2>3. \A f : Named(f) => Named(f)'
    BY <2>1 DEF Named
  <2> QED
    BY <2>1, <2>2, <2>3 DEF FileInv
<1>21. ASSUME RecoverLine
      PROVE  FileInv'
  <2>1. UNCHANGED <<manifest, pc, loc, restarts>> /\ phase \notin {"up", "down"}
    BY <1>21 DEF RecoverLine
  <2>2. restarts' # 0
    BY <2>1 DEF FileInv
  <2>3. PICK line \in ManifestLine : line = manifest[pos + 1]
    <3>1. pos + 1 \in 1 .. Len(manifest)
      BY <1>21 DEF RecoverLine, CoreTypeOK, ShapeInv
    <3> QED
      BY <3>1, ElementType DEF ShapeInv
  <2>4. PICK m \in MetaType : m = [line.meta EXCEPT !.size = 0]
    BY <2>3 DEF ManifestLine, MetaType
  <2>5. m.file = line.meta.file
    BY <2>3, <2>4 DEF ManifestLine, MetaType
  <2>6. \A f : Named(f) => Named(f)'
    BY <2>1 DEF Named
  <2>7. Named(m.file)'
    <3>1. pos + 1 \in DOMAIN manifest
      BY <1>21 DEF RecoverLine, CoreTypeOK, ShapeInv
    <3> QED
      BY <2>1, <2>3, <2>5, <3>1 DEF Named
  <2>8. levels' = IF line.level \in Level THEN [levels EXCEPT ![line.level] = Append(@, m)] ELSE levels
    BY <1>21, <2>3, <2>4 DEF RecoverLine
  <2>9. ASSUME NEW f, Lists(levels', f) PROVE Lists(levels, f) \/ f = m.file
    <3>1. CASE line.level \in Level
      <4>1. levels' = [levels EXCEPT ![line.level] = Append(levels[line.level], m)]
        BY <2>8, <3>1
      <4>2. OneMore(levels, levels', m.file)
        BY <1>1, <3>1, <4>1, ListsAppend
      <4> QED
        BY <2>9, <4>2 DEF OneMore
    <3>2. CASE line.level \notin Level
      BY <2>8, <2>9, <3>2
    <3> QED
      BY <3>1, <3>2
  <2> QED
    BY <2>2, <2>6, <2>7, <2>9 DEF FileInv
<1>22. ASSUME UNCHANGED vars
      PROVE  FileInv'
  <2>1. UNCHANGED <<files, manifest, levels, pc, loc, restarts, phase>>
    BY <1>22 DEF vars
  <2> QED
    BY <2>1, SameOwners
<1> QED
  BY <1>2, <1>3, <1>4, <1>5, <1>6, <1>7, <1>8, <1>9, <1>10, <1>11, <1>12, <1>13, <1>14, <1>15, <1>16,
     <1>17, <1>18, <1>19, <1>20, <1>21, <1>22
     DEF Next, Flush, Compact, MetaThrows, Crash, Recovery

\* Whatever three or more threads flush and compact at once, a file that a level
\* lists is on disk until the first restart unless its name was drawn twice, and it
\* is found again after one: it is in the MANIFEST, or a compaction is about to
\* write it there.
THEOREM ListedFilesStay == Spec => []ListedFilesAreSound
<1>1. Init => FileInv
  <2> SUFFICES ASSUME Init PROVE FileInv
    OBVIOUS
  <2>1. \A n \in Level : levels[n] = <<>>
    BY DEF Init
  <2>2. (\A f : ~Lists(levels, f)) /\ \A f : ListsOnce(levels, f)
    BY <2>1 DEF Lists, ListsOnce
  <2>3. \A u \in Thread : pc[u] \in {"eval", "idle"}
    BY DEF Init, Home
  <2>4. phase = "up"
    BY DEF Init
  <2> QED
    BY <2>2, <2>3, <2>4 DEF FileInv, FileFine
<1>2. CoreTypeOK /\ ShapeInv /\ FileInv => ListedFilesAreSound
  <2> SUFFICES ASSUME CoreTypeOK, ShapeInv, FileInv, NEW n \in Level, NEW i \in DOMAIN levels[n]
               PROVE  /\ \/ \E l \in DOMAIN manifest : manifest[l].meta.file = levels[n][i].file
                         \/ \E t \in Thread : /\ pc[t] = "compact_installed"
                                              /\ loc[t].meta.file = levels[n][i].file
                      /\ restarts = 0 /\ files[levels[n][i].file] = NotFound
                           => Draws(levels[n][i].file) > 1
    BY DEF ListedFilesAreSound, ListedFilesExist, ListedFilesPersisted
  <2>1. PICK f : f = levels[n][i].file
    OBVIOUS
  <2>2. f \in FileId
    <3>1. levels[n] \in Seq(MetaType)
      BY DEF ShapeInv
    <3>2. levels[n][i] \in MetaType
      BY <3>1, ElementType
    <3> QED
      BY <2>1, <3>2 DEF MetaType
  <2>3. Lists(levels, f)
    BY <2>1 DEF Lists
  <2>4. Named(f)
    BY <2>3 DEF FileInv
  <2>5. ASSUME restarts = 0, files[f] = NotFound, ~(Draws(f) > 1) PROVE FALSE
    <3>1. OneOwner(f)
      BY <2>5, DrawnOnce
    <3> QED
      BY <2>2, <2>3, <2>5, <3>1 DEF FileInv, FileFine
  <2> QED
    BY <2>1, <2>4, <2>5 DEF Named
<1> QED
  BY <1>1, <1>2, ShapeStart, ShapeStep, FileStep, TypeCorrect, PTL DEF Spec
=============================================================================
