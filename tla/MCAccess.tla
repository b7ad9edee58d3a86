------------------------------ MODULE MCAccess ------------------------------
(***************************************************************************)
(* What client threads meet on the way to the data, for TLC: the lock      *)
(* managers, the MVCC manager, the typed engine, snapshots and iterators,  *)
(* the caches, the indexes and the merging scan.  They share no state, so  *)
(* a behaviour exercises one of them (focus): the pessimistic manager on   *)
(* all resources, the optimistic manager on all keys, the hybrid manager   *)
(* with both behind it on one resource, its conflict statistics, which no  *)
(* other call reads, or one of the others.                                 *)
(***************************************************************************)
EXTENDS MergeIterator, Iterators, HybridLocks, TLC

CONSTANTS Writers, Keys, MaxVersions,
          Readers, CacheKeys, L1Capacity, L2Capacity, HotThreshold, MaxPuts,
          DbKeys, Text, StopWords, Tilde, MaxIndexes,
          Clients, TxClients, TypedKeys, Elements, MaxNumber, MaxOps

\* A value is a position in Text.
ASSUME IndexValues == Text \in Seq(Seq(STRING)) /\ Tilde \in Nat

\* Transaction ids are positive; 0 stands for no transaction.
ASSUME WriterIds == Writers \subseteq Nat \ {0} /\ MaxVersions \in Nat

ASSUME Bounds == MaxNumber \in Nat /\ MaxSeq \in Nat

VARIABLES version_chains, global_timestamp, active_transactions, status, committing,
          l1, l2, legacy, kind, reader, puts, latest, recent,
          reentrant, mutex, store, writing, building, exists, table, terms,
          docTerms, postings,
          seq_, versions, raw, logged, call, tx, acked, agree,
          focus

M == INSTANCE MVCC WITH Txns <- Writers
C == INSTANCE Caches
X == INSTANCE IndexManager
T == INSTANCE TypedKVDB

chains == <<version_chains, global_timestamp, active_transactions, status, committing>>
caches == <<l1, l2, legacy, kind, reader, puts, latest, recent>>
indexes == <<reentrant, mutex, store, writing, building, exists, table, terms,
             docTerms, postings>>
typed == <<seq_, versions, raw, logged, call, tx, acked, agree>>
mcvars == <<lockVars, chains, vars, caches, indexes, typed, scanVars, focus>>

\* Two values one of which repeats the words of the other with a stop word in
\* between, and a shorter one.
MCText == << <<"x">>, <<"x", "y">>, <<"y", "the", "x">> >>

Focuses == {"pessimistic", "optimistic", "hybrid", "statistics", "mvcc", "iterators",
            "caches", "indexes", "typed", "scan"}

\* What the behaviours of a component choose at their start is fixed in the
\* behaviours of the others.
MCInit ==
  /\ focus \in Focuses
  /\ LocksInit /\ M!Init /\ Init /\ C!CacheInit /\ X!IndexInit /\ T!TypedInit /\ ScanInit
  /\ focus # "scan" => \A i \in Ids, k \in ScanKeys : holds[i][k] = "absent"
  /\ focus # "indexes" => ~reentrant
  /\ focus # "iterators" => disciplined = {}

OneManagerNext ==
  \/ focus = "pessimistic" /\ \E t \in Txns : PessimisticUse(t)
  \/ focus = "optimistic" /\ \E t \in Txns : OptimisticStep(t)
  \/ focus = "hybrid" /\ HybridStep(CHOOSE r \in Resources : TRUE)
  \/ focus = "statistics" /\ StatisticsStep

MCNext ==
  /\ UNCHANGED focus
  /\ \/ OneManagerNext /\ UNCHANGED <<chains, vars, caches, indexes, typed, scanVars>>
     \/ focus = "mvcc" /\ M!Next /\ UNCHANGED <<lockVars, vars, caches, indexes, typed, scanVars>>
     \/ focus = "iterators" /\ Next /\ UNCHANGED <<lockVars, chains, caches, indexes, typed, scanVars>>
     \/ focus = "caches" /\ C!CacheNext /\ UNCHANGED <<lockVars, chains, vars, indexes, typed, scanVars>>
     \/ focus = "indexes" /\ X!IndexNext /\ UNCHANGED <<lockVars, chains, vars, caches, typed, scanVars>>
     \/ focus = "typed" /\ T!TypedNext /\ UNCHANGED <<lockVars, chains, vars, caches, indexes, scanVars>>
     \/ focus = "scan" /\ ScanNext /\ UNCHANGED <<lockVars, chains, vars, caches, indexes, typed>>

MCSpec == MCInit /\ [][MCNext]_mcvars

TxnSymmetry == Permutations(Txns)

-----------------------------------------------------------------------------
\* The properties of the instances; each is explained where its component is.
CachesFollowRules == C!CachesFollowRules
IndexesAgree == X!IndexesAgree

\* Reads find what was committed: the newest committed version of an MVCC chain,
\* the put_typed that has returned, and the same value in both stores of a typed
\* engine.
ReadsAreCommitted ==
  /\ M!ReadsAreCommitted
  /\ T!TypedTypeOK /\ T!TypedPutsAreFound /\ T!StoresAgree

\* A mutex that a thread locks twice stops the others for good: the lock table's
\* after a request that had to wait, the index manager's after a creation, with
\* the put that comes next still holding db_rw_mutex_.
StuckForGood == StuckStopsTheTable /\ X!WedgedStopsWrites

\* What can still be read is kept: by collections of old versions, and by the
\* snapshot numbers that bound compactions.
ReadableIsKept == M!CollectionKeepsNewest /\ HeldStaysPinned
=============================================================================
