----------------------- MODULE TransactionManagerProofs -----------------------
(***************************************************************************)
(* Theorems about TransactionManager, for any number of transactions,      *)
(* resources and requested lock types.                                     *)
(***************************************************************************)
EXTENDS TransactionManager, TLAPS

USE TransactionAssumption DEF Txn, Thread, Resolver

(***************************************************************************)
(* Types.                                                                  *)
(***************************************************************************)
\* A busy thread works for a transaction: the client for its own, the
\* resolver for its victim.
LEMMA TargetType ==
    ASSUME TypeOK, NEW th \in Thread, pc[th] # "idle"
    PROVE  Target(th) \in Txn
BY DEF TypeOK, Target

\* Every step keeps the types.
LEMMA TypeStep == TypeOK /\ [Next]_vars => TypeOK'
<1> SUFFICES ASSUME TypeOK, [Next]_vars PROVE TypeOK'
  OBVIOUS
<1> USE DEF TypeOK, Goto, SetState, State, Place
<1>1. ASSUME NEW t \in Txn, BeginTransaction(t) PROVE TypeOK'
  <2>1. next_transaction_id' \in 1 .. MaxTxn + 1 /\ active' \subseteq 1 .. next_transaction_id' - 1
    BY <1>1 DEF BeginTransaction
  <2>2. state' \in [Txn -> State] /\ snapshot' \in [Txn -> Nat] /\ seen' \in [Txn -> SUBSET Txn]
    BY <1>1 DEF BeginTransaction
  <2>3. pc' \in [Thread -> Place] /\ (pc'[Resolver] # "idle" => victim' \in Txn)
    BY <1>1 DEF BeginTransaction
  <2>4. QED
    BY <1>1, <2>1, <2>2, <2>3 DEF BeginTransaction, locking
<1>2. ASSUME NEW t \in Txn, NEW r \in Resource, NEW type \in RequestTypes, AcquireLock(t, r, type)
      PROVE  TypeOK'
  <2>1. lock_table' \subseteq Lock
    BY <1>2 DEF AcquireLock, Lock
  <2>2. wait_graph' \subseteq Txn \X Txn
    BY <1>2 DEF AcquireLock, Conflicting, Lock
  <2>3. QED
    BY <1>2, <2>1, <2>2 DEF AcquireLock, registry, clocks, history
<1>3. ASSUME NEW t \in Txn, NEW r \in Resource, ReleaseLock(t, r) PROVE TypeOK'
  BY <1>3 DEF ReleaseLock, RemoveFromWaitGraph, registry, clocks, history
<1>4. ASSUME NEW t \in Txn, CommitFind(t) PROVE TypeOK'
  BY <1>4 DEF CommitFind, registry, clocks, locking, history
<1>5. ASSUME NEW t \in Txn, CommitPrepare(t) PROVE TypeOK'
  <2>1. /\ state' \in [Txn -> State]
        /\ commit_timestamp' \in [Txn -> Nat]
        /\ global_timestamp' \in Nat
    BY <1>5 DEF CommitPrepare
  <2>2. pc' \in [Thread -> Place] /\ (pc'[Resolver] # "idle" => victim' \in Txn)
    BY <1>5 DEF CommitPrepare
  <2>3. QED
    BY <1>5, <2>1, <2>2 DEF CommitPrepare, registry, locking, history
<1>6. ASSUME NEW t \in Txn, CommitMark(t) PROVE TypeOK'
  BY <1>6 DEF CommitMark, registry, clocks, locking, history
<1>7. ASSUME NEW th \in Thread, AbortFind(th) PROVE TypeOK'
  BY <1>7 DEF AbortFind, Done, registry, clocks, locking, history
<1>8. ASSUME NEW th \in Thread, AbortMark(th) PROVE TypeOK'
  BY <1>8, TargetType DEF AbortMark, registry, clocks, locking
<1>9. ASSUME NEW th \in Thread, Release(th) PROVE TypeOK'
  BY <1>9 DEF Release, ReleaseAllLocks, RemoveFromWaitGraph, registry, clocks, history
<1>10. ASSUME NEW th \in Thread, Finish(th) PROVE TypeOK'
  BY <1>10, TargetType DEF Finish, Done, clocks, locking, history
<1>11. CASE FindDeadlock
  BY <1>11 DEF FindDeadlock, registry, clocks, locking, history
<1>12. CASE CleanupCompletedTransactions
  BY <1>12 DEF CleanupCompletedTransactions, clocks, locking, history
<1>13. CASE UNCHANGED vars
  BY <1>13 DEF vars, registry, clocks, locking, history
<1>14. QED
  BY <1>1, <1>2, <1>3, <1>4, <1>5, <1>6, <1>7, <1>8, <1>9, <1>10, <1>11, <1>12, <1>13
     DEF Next, Client, Ending

\* The tables, contexts and locks keep their types; ids are used only after
\* they were handed out.
THEOREM TypeCorrect == Spec => []TypeOK
<1>1. Init => TypeOK
  BY DEF Init, TypeOK, State, Place
<1>2. QED
  BY <1>1, TypeStep, PTL DEF Spec

(***************************************************************************)
(* Locks and waits.                                                        *)
(***************************************************************************)
LockInv == LockExclusion /\ WaitTargetsHold

\* A granted or a refused request keeps the lock table exclusive and the
\* graph honest.
LEMMA AcquireKeepsLockInv ==
    ASSUME TypeOK, LockInv,
           NEW t \in Txn, NEW r \in Resource, NEW type \in RequestTypes, AcquireLock(t, r, type)
    PROVE  LockInv'
<1>1. LockExclusion'
  <2>1. CASE Conflicting(t, r, type) = {}
    <3>1. lock_table' = lock_table \cup {[txn |-> t, resource |-> r, type |-> type]}
      BY <2>1 DEF AcquireLock
    <3>2. ASSUME NEW l \in lock_table, l.resource = r, l.txn # t
          PROVE  l.type = "SHARED" /\ type = "SHARED"
      BY <2>1, <3>2 DEF Conflicting, IsLockCompatible
    <3>3. QED
      BY <3>1, <3>2 DEF LockInv, LockExclusion
  <2>2. CASE Conflicting(t, r, type) # {}
    BY <2>2 DEF AcquireLock, LockInv, LockExclusion
  <2>3. QED
    BY <2>1, <2>2
<1>2. WaitTargetsHold'
  <2>1. CASE Conflicting(t, r, type) = {}
    BY <2>1 DEF AcquireLock, LockInv, WaitTargetsHold
  <2>2. CASE Conflicting(t, r, type) # {}
    <3>1. PICK l \in Conflicting(t, r, type) : wait_graph' = wait_graph \cup {<<t, l.txn>>}
      BY <2>2 DEF AcquireLock
    <3>2. l \in lock_table /\ lock_table' = lock_table
      BY <2>2 DEF AcquireLock, Conflicting
    <3>3. QED
      BY <3>1, <3>2 DEF LockInv, WaitTargetsHold
  <2>3. QED
    BY <2>1, <2>2
<1>3. QED
  BY <1>1, <1>2 DEF LockInv

\* Taking locks of one transaction away, together with every edge to it,
\* disturbs nobody else.
LEMMA DropKeepsLockInv ==
    ASSUME TypeOK, LockInv, NEW t \in Txn,
           lock_table' \subseteq lock_table,
           \A l \in lock_table : l.txn # t => l \in lock_table',
           RemoveFromWaitGraph(t)
    PROVE  LockInv'
<1>1. LockExclusion'
  BY DEF LockInv, LockExclusion
<1>2. WaitTargetsHold'
  <2> SUFFICES ASSUME NEW e \in wait_graph' PROVE \E l \in lock_table' : l.txn = e[2]
    BY DEF WaitTargetsHold
  <2>1. e \in wait_graph /\ e[2] # t
    BY DEF RemoveFromWaitGraph
  <2>2. PICK l \in lock_table : l.txn = e[2]
    BY <2>1 DEF LockInv, WaitTargetsHold
  <2>3. QED
    BY <2>1, <2>2
<1>3. QED
  BY <1>1, <1>2 DEF LockInv

\* Every step keeps both.
LEMMA LockStep == TypeOK /\ LockInv /\ [Next]_vars => LockInv'
<1> SUFFICES ASSUME TypeOK, LockInv, [Next]_vars PROVE LockInv'
  OBVIOUS
<1>1. ASSUME NEW t \in Txn, NEW r \in Resource, NEW type \in RequestTypes, AcquireLock(t, r, type)
      PROVE  LockInv'
  BY <1>1, AcquireKeepsLockInv
<1>2. ASSUME NEW t \in Txn, NEW r \in Resource, ReleaseLock(t, r) PROVE LockInv'
  BY <1>2, DropKeepsLockInv DEF ReleaseLock
<1>3. ASSUME NEW th \in Thread, Release(th) PROVE LockInv'
  <2>1. Target(th) \in Txn
    BY <1>3, TargetType DEF Release
  <2>2. QED
    BY <1>3, <2>1, DropKeepsLockInv DEF Release, ReleaseAllLocks
<1>4. ASSUME UNCHANGED locking PROVE LockInv'
  BY <1>4 DEF locking, LockInv, LockExclusion, WaitTargetsHold
<1>5. CASE \E t \in Txn : Client(t)
  BY <1>1, <1>2, <1>4, <1>5
     DEF Client, BeginTransaction, CommitFind, CommitPrepare, CommitMark
<1>6. CASE \E th \in Thread : Ending(th)
  BY <1>3, <1>4, <1>6 DEF Ending, AbortFind, AbortMark, Finish
<1>7. CASE FindDeadlock \/ CleanupCompletedTransactions
  BY <1>4, <1>7 DEF FindDeadlock, CleanupCompletedTransactions
<1>8. CASE UNCHANGED vars
  BY <1>4, <1>8 DEF vars
<1>9. QED
  BY <1>5, <1>6, <1>7, <1>8 DEF Next

\* Conflicting locks are never held together, whatever the clients ask for
\* and whomever the resolver aborts.
THEOREM LocksExclude == Spec => []LockExclusion
<1>1. Init => LockInv
  BY DEF Init, LockInv, LockExclusion, WaitTargetsHold
<1>2. QED
  BY <1>1, LockStep, TypeCorrect, PTL DEF Spec, LockInv

\* The wait-for graph never points to a transaction that holds nothing.
THEOREM WaitsAreForHolders == Spec => []WaitTargetsHold
<1>1. Init => LockInv
  BY DEF Init, LockInv, LockExclusion, WaitTargetsHold
<1>2. QED
  BY <1>1, LockStep, TypeCorrect, PTL DEF Spec, LockInv

(***************************************************************************)
(* No lock survives its transaction.                                       *)
(***************************************************************************)
\* A thread that can still ask for locks is registered or a victim, a client
\* that is about to deregister holds none, and the resolver deregisters
\* victims only.
OwnerInv ==
    /\ LocksHaveOwners
    /\ \A t \in Txn : pc[t] = "open" => t \in active \cup victims
    /\ \A t \in Txn : pc[t] = "finish" => \A l \in lock_table : l.txn # t
    /\ pc[Resolver] \in {"release", "finish"} => victim \in victims

\* Every step keeps it.
LEMMA OwnerStep == TypeOK /\ OwnerInv /\ [Next]_vars => OwnerInv'
<1> SUFFICES ASSUME TypeOK, OwnerInv, [Next]_vars PROVE OwnerInv'
  OBVIOUS
<1> USE DEF OwnerInv, LocksHaveOwners, Goto
<1>1. ASSUME NEW t \in Txn, BeginTransaction(t) PROVE OwnerInv'
  BY <1>1 DEF BeginTransaction, locking, TypeOK
<1>2. ASSUME NEW t \in Txn, NEW r \in Resource, NEW type \in RequestTypes, AcquireLock(t, r, type)
      PROVE  OwnerInv'
  BY <1>2 DEF AcquireLock, registry, history
<1>3. ASSUME NEW t \in Txn, NEW r \in Resource, ReleaseLock(t, r) PROVE OwnerInv'
  BY <1>3 DEF ReleaseLock, registry, history
<1>4. ASSUME NEW t \in Txn, CommitFind(t) PROVE OwnerInv'
  BY <1>4 DEF CommitFind, registry, locking, history, TypeOK
<1>5. ASSUME NEW t \in Txn, CommitPrepare(t) \/ CommitMark(t) PROVE OwnerInv'
  <2>1. CASE CommitPrepare(t)
    BY <2>1 DEF CommitPrepare, registry, locking, history, TypeOK
  <2>2. CASE CommitMark(t)
    BY <2>2 DEF CommitMark, registry, locking, history, TypeOK
  <2>3. QED
    BY <1>5, <2>1, <2>2
<1>6. ASSUME NEW th \in Thread, AbortFind(th) PROVE OwnerInv'
  BY <1>6 DEF AbortFind, Done, registry, locking, history, TypeOK
<1>7. ASSUME NEW th \in Thread, AbortMark(th) PROVE OwnerInv'
  BY <1>7 DEF AbortMark, registry, locking, TypeOK
<1>8. ASSUME NEW th \in Thread, Release(th) PROVE OwnerInv'
  BY <1>8 DEF Release, ReleaseAllLocks, Target, registry, history, TypeOK
<1>9. ASSUME NEW th \in Thread, Finish(th) PROVE OwnerInv'
  BY <1>9 DEF Finish, Target, Done, locking, history, TypeOK
<1>10. CASE FindDeadlock
  BY <1>10 DEF FindDeadlock, registry, locking, history, TypeOK
<1>11. CASE CleanupCompletedTransactions
  BY <1>11 DEF CleanupCompletedTransactions, locking, history
<1>12. CASE UNCHANGED vars
  BY <1>12 DEF vars, registry, locking, history
<1>13. QED
  BY <1>1, <1>2, <1>3, <1>4, <1>5, <1>6, <1>7, <1>8, <1>9, <1>10, <1>11, <1>12
     DEF Next, Client, Ending

\* When commit or abort has returned, the transaction holds no lock, unless
\* the resolver aborted it behind its client's back.
THEOREM LocksAreReleased == Spec => []LocksHaveOwners
<1>1. Init => OwnerInv
  BY DEF Init, OwnerInv, LocksHaveOwners
<1>2. QED
  BY <1>1, OwnerStep, TypeCorrect, PTL DEF Spec, OwnerInv

(***************************************************************************)
(* Snapshots.                                                              *)
(***************************************************************************)
Ended == {"release", "finish", "done"}

\* A commit timestamp is below the clock before its transaction counts as
\* committed, and is not drawn again once somebody has seen the commit.
SnapshotInv ==
    /\ SnapshotCoversCommitted
    /\ \A t \in Txn : state[t] = "COMMITTED" => pc[t] \in Ended
    /\ \A t \in Txn : state[t] = "COMMITTED" \/ pc[t] = "commit_mark"
                        => commit_timestamp[t] < global_timestamp
    /\ \A t \in Txn : \A u \in seen[t] : pc[u] \in Ended

\* Every step keeps it.
LEMMA SnapshotStep == TypeOK /\ SnapshotInv /\ [Next]_vars => SnapshotInv'
<1> SUFFICES ASSUME TypeOK, SnapshotInv, [Next]_vars PROVE SnapshotInv'
  OBVIOUS
<1> USE DEF SnapshotInv, SnapshotCoversCommitted, Ended, Goto, SetState, TypeOK
<1>1. ASSUME NEW t \in Txn, BeginTransaction(t) PROVE SnapshotInv'
  BY <1>1 DEF BeginTransaction
<1>2. ASSUME UNCHANGED <<clocks, state, pc, history>> PROVE SnapshotInv'
  BY <1>2 DEF clocks, history
<1>3. ASSUME NEW t \in Txn, CommitFind(t) PROVE SnapshotInv'
  BY <1>3 DEF CommitFind, clocks, history
<1>4. ASSUME NEW t \in Txn, CommitPrepare(t) PROVE SnapshotInv'
  <2>1. /\ pc' = [pc EXCEPT ![t] = "commit_mark"]
        /\ state' = [state EXCEPT ![t] = "PREPARING"]
        /\ commit_timestamp' = [commit_timestamp EXCEPT ![t] = global_timestamp]
        /\ global_timestamp' = global_timestamp + 1
        /\ pc[t] = "commit_prepare"
        /\ UNCHANGED <<snapshot, seen>>
    BY <1>4 DEF CommitPrepare, history
  <2>2. \A u \in Txn : t \notin seen[u]
    BY <2>1
  <2>3. SnapshotCoversCommitted'
    BY <2>1, <2>2
  <2>4. \A u \in Txn : state'[u] = "COMMITTED" => pc'[u] \in Ended
    BY <2>1
  <2>5. \A u \in Txn : state'[u] = "COMMITTED" \/ pc'[u] = "commit_mark"
                           => commit_timestamp'[u] < global_timestamp'
    BY <2>1
  <2>6. \A u \in Txn : \A v \in seen'[u] : pc'[v] \in Ended
    BY <2>1, <2>2
  <2>7. QED
    BY <2>3, <2>4, <2>5, <2>6
<1>5. ASSUME NEW t \in Txn, CommitMark(t) PROVE SnapshotInv'
  BY <1>5 DEF CommitMark, clocks, history
<1>6. ASSUME NEW th \in Thread, AbortFind(th) PROVE SnapshotInv'
  BY <1>6 DEF AbortFind, Done, clocks, history
<1>7. ASSUME NEW th \in Thread, AbortMark(th) PROVE SnapshotInv'
  BY <1>7, TargetType DEF AbortMark, clocks
<1>8. ASSUME NEW th \in Thread, Release(th) PROVE SnapshotInv'
  BY <1>8 DEF Release, clocks, history
<1>9. ASSUME NEW th \in Thread, Finish(th) PROVE SnapshotInv'
  BY <1>9 DEF Finish, Done, clocks, history
<1>10. CASE FindDeadlock
  BY <1>10 DEF FindDeadlock, clocks, history
<1>11. QED
  BY <1>1, <1>2, <1>3, <1>4, <1>5, <1>6, <1>7, <1>8, <1>9, <1>10
     DEF Next, Client, Ending, AcquireLock, ReleaseLock, CleanupCompletedTransactions, vars

\* A transaction's snapshot version lies above the commit timestamp of every
\* transaction that was committed when it began.
THEOREM SnapshotsAreComplete == Spec => []SnapshotCoversCommitted
<1>1. Init => SnapshotInv
  BY DEF Init, SnapshotInv, SnapshotCoversCommitted
<1>2. QED
  BY <1>1, SnapshotStep, TypeCorrect, PTL DEF Spec, SnapshotInv
===============================================================================
