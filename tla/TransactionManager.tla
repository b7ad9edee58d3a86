------------------------- MODULE TransactionManager -------------------------
(***************************************************************************)
(* TransactionManager: transactions, their two-phase locks, the wait-for   *)
(* graph and deadlock resolution.                                          *)
(*                                                                         *)
(* Every transaction belongs to a client thread, and one more thread looks *)
(* for deadlocks and aborts a victim, whose own thread is not told.  A     *)
(* call that takes one mutex and returns is one step; commit and abort     *)
(* take transactions_mutex_, the context's mutex and locks_mutex_ one      *)
(* after the other and are cut there.                                      *)
(*                                                                         *)
(* lock_table_ and wait_graph_ are vectors in the code.  A release removes *)
(* every entry of a transaction, so repeated entries do not matter, and    *)
(* both are sets here; where the order of a vector decides (the holder a   *)
(* refused request waits for, the cycle that is found first) any order is  *)
(* possible.  validate_transaction, apply_transaction_writes and           *)
(* rollback_transaction_operations are empty and always succeed.           *)
(***************************************************************************)
EXTENDS Integers

CONSTANTS
    Resource,     \* resources that can be locked
    RequestTypes, \* the lock types that clients ask for
    MaxTxn        \* bound: transactions begun

LockType == {"SHARED", "EXCLUSIVE", "INTENTION_SHARED", "INTENTION_EXCLUSIVE"}
State    == {"UNKNOWN", "ACTIVE", "PREPARING", "COMMITTED", "ABORTED"}

ASSUME TransactionAssumption ==
    /\ RequestTypes \subseteq LockType
    /\ MaxTxn \in Nat

Txn      == 1 .. MaxTxn   \* also the client thread that runs the transaction
Resolver == 0             \* the thread that resolves deadlocks
Thread   == Txn \cup {Resolver}
Lock     == [txn : Txn, resource : Resource, type : LockType]

VARIABLES
    next_transaction_id, \* next_transaction_id_
    global_timestamp,    \* global_timestamp_
    active,              \* ids in active_transactions_
    completed,           \* ids in completed_transactions_
    state,               \* state_ of each context, UNKNOWN before it exists
    snapshot,            \* snapshot_version_ of each context
    commit_timestamp,    \* commit_timestamp_ of each context
    lock_table,          \* lock_table_, a set of locks
    wait_graph,          \* wait_graph_, a set of pairs <<waiting, holding>>
    pc,                  \* where each thread is
    victim,              \* the transaction that the resolver aborts
    victims,             \* history: transactions that the resolver aborted
    seen                 \* history: transactions committed when this one began

registry == <<next_transaction_id, active, completed>>
clocks   == <<global_timestamp, snapshot, commit_timestamp>>
locking  == <<lock_table, wait_graph>>
history  == <<victims, seen>>
vars     == <<registry, clocks, locking, state, pc, victim, history>>

Target(th) == IF th = Resolver THEN victim ELSE th
Done(th)   == IF th = Resolver THEN "idle" ELSE "done"

Goto(th, l)     == pc' = [pc EXCEPT ![th] = l]
SetState(t, st) == state' = [state EXCEPT ![t] = st]

(***************************************************************************)
(* Begin.                                                                  *)
(***************************************************************************)
\* Variant with a bug: the id is read and not advanced.
BeginTransactionSameId(t) ==
    /\ pc[t] = "new" /\ next_transaction_id = t
    /\ snapshot' = [snapshot EXCEPT ![t] = global_timestamp]
    /\ SetState(t, "ACTIVE")
    /\ active' = active \cup {t}
    /\ seen' = [seen EXCEPT ![t] = {u \in Txn : state[u] = "COMMITTED"}]
    /\ Goto(t, "open")
    /\ UNCHANGED <<next_transaction_id, global_timestamp, completed, commit_timestamp, locking,
                   victim, victims>>

\* Nobody knows the id before the transaction is entered in the table.
BeginTransaction(t) ==
    /\ pc[t] = "new" /\ next_transaction_id = t
    /\ next_transaction_id' = next_transaction_id + 1
    /\ snapshot' = [snapshot EXCEPT ![t] = global_timestamp]
    /\ SetState(t, "ACTIVE")
    /\ active' = active \cup {t}
    /\ seen' = [seen EXCEPT ![t] = {u \in Txn : state[u] = "COMMITTED"}]
    /\ Goto(t, "open")
    /\ UNCHANGED <<global_timestamp, completed, commit_timestamp, locking, victim, victims>>

(***************************************************************************)
(* Locks.                                                                  *)
(***************************************************************************)
\* Variant with a bug: the lock that is asked for is not looked at.
IsLockCompatibleExisting(existing, requested) == existing = "SHARED"

IsLockCompatible(existing, requested) == existing = "SHARED" /\ requested = "SHARED"

Conflicting(t, r, type) ==
    {l \in lock_table : /\ l.txn # t /\ l.resource = r
                        /\ ~IsLockCompatible(l.type, type)}

\* acquire_lock never waits: it grants the lock, or refuses and notes one
\* holder.  It does not look at the state of the transaction.
AcquireLock(t, r, type) ==
    /\ pc[t] = "open"
    /\ IF Conflicting(t, r, type) = {}
       THEN /\ lock_table' = lock_table \cup {[txn |-> t, resource |-> r, type |-> type]}
            /\ UNCHANGED wait_graph
       ELSE /\ \E l \in Conflicting(t, r, type) : wait_graph' = wait_graph \cup {<<t, l.txn>>}
            /\ UNCHANGED lock_table
    /\ UNCHANGED <<registry, clocks, state, pc, victim, history>>

\* Variant with a bug: only the edges of the waiter are removed.
RemoveFromWaitGraphAsWaiter(t) == wait_graph' = {e \in wait_graph : e[1] # t}

RemoveFromWaitGraph(t) == wait_graph' = {e \in wait_graph : e[1] # t /\ e[2] # t}

\* A resource without locks has no entry: return false, change nothing.
ReleaseLock(t, r) ==
    /\ pc[t] = "open"
    /\ \E l \in lock_table : l.resource = r
    /\ lock_table' = {l \in lock_table : l.txn # t \/ l.resource # r}
    /\ RemoveFromWaitGraph(t)
    /\ UNCHANGED <<registry, clocks, state, pc, victim, history>>

\* Variant with a bug: shared locks are forgotten.
ReleaseAllLocksButShared(t) ==
    /\ lock_table' = {l \in lock_table : l.txn # t \/ l.type = "SHARED"}
    /\ RemoveFromWaitGraph(t)

ReleaseAllLocks(t) ==
    /\ lock_table' = {l \in lock_table : l.txn # t}
    /\ RemoveFromWaitGraph(t)

(***************************************************************************)
(* Commit.                                                                 *)
(***************************************************************************)
\* Look the transaction up and test is_active, long before the state is set.
CommitFind(t) ==
    /\ pc[t] = "open"
    /\ Goto(t, IF t \in active /\ state[t] = "ACTIVE" THEN "commit_prepare" ELSE "done")
    /\ UNCHANGED <<registry, clocks, locking, state, victim, history>>

\* Variant with a bug: the timestamp is read and not advanced.
CommitPrepareSameTimestamp(t) ==
    /\ pc[t] = "commit_prepare"
    /\ SetState(t, "PREPARING")
    /\ commit_timestamp' = [commit_timestamp EXCEPT ![t] = global_timestamp]
    /\ Goto(t, "commit_mark")
    /\ UNCHANGED <<registry, global_timestamp, snapshot, locking, victim, history>>

CommitPrepare(t) ==
    /\ pc[t] = "commit_prepare"
    /\ SetState(t, "PREPARING")
    /\ commit_timestamp' = [commit_timestamp EXCEPT ![t] = global_timestamp]
    /\ global_timestamp' = global_timestamp + 1
    /\ Goto(t, "commit_mark")
    /\ UNCHANGED <<registry, snapshot, locking, victim, history>>

CommitMark(t) ==
    /\ pc[t] = "commit_mark"
    /\ SetState(t, "COMMITTED")
    /\ Goto(t, "release")
    /\ UNCHANGED <<registry, clocks, locking, victim, history>>

(***************************************************************************)
(* Abort, called by the client or by the resolver.                         *)
(***************************************************************************)
AbortFind(th) ==
    /\ pc[th] = IF th = Resolver THEN "resolve" ELSE "open"
    /\ Goto(th, IF Target(th) \in active THEN "abort_mark" ELSE Done(th))
    /\ UNCHANGED <<registry, clocks, locking, state, victim, history>>

AbortMark(th) ==
    /\ pc[th] = "abort_mark"
    /\ SetState(Target(th), "ABORTED")
    /\ Goto(th, "release")
    /\ victims' = IF th = Resolver THEN victims \cup {victim} ELSE victims
    /\ UNCHANGED <<registry, clocks, locking, victim, seen>>

(***************************************************************************)
(* The end of commit and of abort.                                         *)
(***************************************************************************)
Release(th) ==
    /\ pc[th] = "release"
    /\ ReleaseAllLocks(Target(th))
    /\ Goto(th, "finish")
    /\ UNCHANGED <<registry, clocks, state, victim, history>>

Finish(th) ==
    /\ pc[th] = "finish"
    /\ active' = active \ {Target(th)}
    /\ completed' = completed \cup {Target(th)}
    /\ Goto(th, Done(th))
    /\ UNCHANGED <<next_transaction_id, clocks, locking, state, victim, history>>

(***************************************************************************)
(* Deadlock detection and resolution.                                      *)
(***************************************************************************)
\* The depth-first search stops at the first edge back into its stack and
\* reports the whole stack, the way to the cycle included.
SearchStacks ==
    {p \in UNION {[1 .. n -> Txn] : n \in 1 .. MaxTxn} :
        /\ \A i, j \in DOMAIN p : i # j => p[i] # p[j]
        /\ \A i \in DOMAIN p : i + 1 \in DOMAIN p => <<p[i], p[i + 1]>> \in wait_graph
        /\ \E i, last \in DOMAIN p : /\ last + 1 \notin DOMAIN p
                                     /\ <<p[last], p[i]>> \in wait_graph}

\* find_deadlock_cycle, then resolve_deadlock with what it returned: the
\* youngest transaction is to be aborted.
FindDeadlock ==
    /\ pc[Resolver] = "idle"
    /\ \E p \in SearchStacks : victim' \in {t \in Txn : /\ \E i \in DOMAIN p : p[i] = t
                                                        /\ \A i \in DOMAIN p : p[i] <= t}
    /\ Goto(Resolver, "resolve")
    /\ UNCHANGED <<registry, clocks, locking, state, history>>

\* Timestamps count from 1, the cutoff is in milliseconds since 1970: every
\* completed transaction is older than one hour.
CleanupCompletedTransactions ==
    /\ completed # {}
    /\ completed' = {}
    /\ UNCHANGED <<next_transaction_id, active, clocks, locking, state, pc, victim, history>>

-----------------------------------------------------------------------------
Init ==
    /\ next_transaction_id = 1 /\ global_timestamp = 1
    /\ active = {} /\ completed = {}
    /\ state = [t \in Txn |-> "UNKNOWN"]
    /\ snapshot = [t \in Txn |-> 0]
    /\ commit_timestamp = [t \in Txn |-> 0]
    /\ lock_table = {} /\ wait_graph = {}
    /\ pc = [th \in Thread |-> IF th = Resolver THEN "idle" ELSE "new"]
    /\ victim = Resolver
    /\ victims = {}
    /\ seen = [t \in Txn |-> {}]

Client(t) ==
    \/ BeginTransaction(t)
    \/ \E r \in Resource, type \in RequestTypes : AcquireLock(t, r, type)
    \/ \E r \in Resource : ReleaseLock(t, r)
    \/ CommitFind(t) \/ CommitPrepare(t) \/ CommitMark(t)

Ending(th) == AbortFind(th) \/ AbortMark(th) \/ Release(th) \/ Finish(th)

Next ==
    \/ \E t \in Txn : Client(t)
    \/ \E th \in Thread : Ending(th)
    \/ FindDeadlock
    \/ CleanupCompletedTransactions

Spec == Init /\ [][Next]_vars
-----------------------------------------------------------------------------
Place == {"new", "open", "done", "idle", "resolve", "commit_prepare", "commit_mark",
          "abort_mark", "release", "finish"}

\* Every variable holds a value of its C++ type; only ids that were handed
\* out are in the tables, hold locks or wait, and the resolver has a victim
\* whenever it is busy.
TypeOK ==
    /\ next_transaction_id \in 1 .. MaxTxn + 1
    /\ global_timestamp \in Nat
    /\ active \subseteq 1 .. next_transaction_id - 1
    /\ completed \subseteq Txn
    /\ state \in [Txn -> State]
    /\ snapshot \in [Txn -> Nat]
    /\ commit_timestamp \in [Txn -> Nat]
    /\ lock_table \subseteq Lock
    /\ wait_graph \subseteq Txn \X Txn
    /\ pc \in [Thread -> Place]
    /\ victim \in Thread
    /\ pc[Resolver] # "idle" => victim \in Txn
    /\ victims \subseteq Txn
    /\ seen \in [Txn -> SUBSET Txn]

\* Two transactions hold locks on one resource only if both locks are shared,
\* through upgrades, refused requests and aborts by the resolver.
LockExclusion ==
    \A l, m \in lock_table :
        l.resource = m.resource /\ l.txn # m.txn => l.type = "SHARED" /\ m.type = "SHARED"

\* The graph shows only waits that can be real: whoever is waited for still
\* holds a lock, so a reported deadlock is never due to a transaction that has
\* let everything go.
WaitTargetsHold ==
    \A e \in wait_graph : \E l \in lock_table : l.txn = e[2]

\* No lock survives its transaction: whoever holds a lock is still registered,
\* except for a victim of the resolver, whose own thread may ask for locks
\* after they were released.
LocksHaveOwners ==
    \A l \in lock_table : l.txn \in active \cup victims

\* Snapshots are complete: whatever was committed when a transaction began
\* has a commit timestamp below the transaction's snapshot version.
SnapshotCoversCommitted ==
    \A t \in Txn : \A u \in seen[t] : commit_timestamp[u] < snapshot[t]
=============================================================================
