---------------------------- MODULE HybridLocks ----------------------------
(***************************************************************************)
(* HybridLockManager: every call is routed to the pessimistic or to the    *)
(* optimistic manager by the strategy of the transaction, or the default.  *)
(* release_all_locks goes through both, since the strategy may have changed*)
(* between the acquisition and the release.                                *)
(***************************************************************************)
EXTENDS Naturals, Sequences, FiniteSets

CONSTANTS Txns, Resources, Modes, MaxGrants, MaxVersion,
          MaxConflicts  \* bound: transactions counted in the statistics

VARIABLES granted, waiting, transaction_locks, pc, req, twice,
          key_versions, global_version_counter, read_set, write_set, access,
          reading, applying, validated, applies,
          transaction_strategies,     \* [Txns -> "unset" | BOOLEAN as a string]
          default_use_optimistic,
          adaptive_strategy_enabled,
          conflict_stats,             \* [total, conflicts]
          stats_stuck,                \* conflict_stats_mutex_ locked twice
          finishing,                  \* transactions inside release_all_locks
          released                    \* history: released all, nothing since

pvars == <<granted, waiting, transaction_locks, pc, req, twice>>
ovars == <<key_versions, global_version_counter, read_set, write_set, access,
           reading, applying, validated, applies>>
svars == <<transaction_strategies, default_use_optimistic,
           adaptive_strategy_enabled, conflict_stats, stats_stuck>>
lockVars == <<pvars, ovars, svars, finishing, released>>

P == INSTANCE LockManager
O == INSTANCE OptimisticLocks WITH Keys <- Resources

LocksInit ==
  /\ P!Init
  /\ O!Init
  /\ transaction_strategies = [t \in Txns |-> "unset"]
  /\ default_use_optimistic = TRUE
  /\ adaptive_strategy_enabled = FALSE
  /\ conflict_stats = [total |-> 0, conflicts |-> 0]
  /\ stats_stuck = FALSE
  /\ finishing = {}
  /\ released = {}

\* The thread of t is between two calls of the hybrid manager.
Free(t) == t \notin finishing /\ pc[t] = "idle" /\ O!Idle(t)

should_use_optimistic(t) ==
  IF transaction_strategies[t] # "unset"
  THEN transaction_strategies[t] = "optimistic" ELSE default_use_optimistic

-----------------------------------------------------------------------------
acquire_lock(t, r, m) ==
  /\ Free(t)
  /\ IF should_use_optimistic(t)
     THEN O!acquire_lock(t, r) /\ UNCHANGED pvars
     ELSE P!Call(t, "acquire", r, m) /\ UNCHANGED ovars
  /\ released' = released \ {t}
  /\ UNCHANGED <<svars, finishing>>

release_lock(t, r) ==
  /\ Free(t)
  /\ IF should_use_optimistic(t)
     THEN O!release_lock(t, r) /\ UNCHANGED pvars
     ELSE P!Call(t, "release", r, "NONE") /\ UNCHANGED ovars
  /\ UNCHANGED <<svars, finishing, released>>

\* release_all_locks: the pessimistic manager first ...
release_all_locks(t) ==
  /\ Free(t)
  /\ P!CallReleaseAll(t)
  /\ finishing' = finishing \cup {t}
  /\ UNCHANGED <<ovars, svars, released>>

\* ... then the optimistic one, and the strategy of the transaction.
finish_release_all(t) ==
  /\ t \in finishing /\ pc[t] = "idle"
  /\ O!release_all_locks(t)
  /\ transaction_strategies' = [transaction_strategies EXCEPT ![t] = "unset"]
  /\ finishing' = finishing \ {t}
  /\ released' = released \cup {t}
  /\ UNCHANGED <<pvars, default_use_optimistic, adaptive_strategy_enabled,
                 conflict_stats, stats_stuck>>

PessimisticStep(t) ==
  P!Proceed(t) /\ UNCHANGED <<ovars, svars, finishing, released>>

\* read_with_version, write_with_version_check, validate_transaction and
\* apply_write_set are called on the optimistic manager itself.
OptimisticStep(t) ==
  /\ t \notin finishing /\ pc[t] = "idle"
  /\ O!Step(t)
  /\ UNCHANGED <<pvars, svars, finishing, released>>

set_strategy_for_transaction(t, s) ==
  /\ Free(t)
  /\ transaction_strategies' = [transaction_strategies EXCEPT ![t] = s]
  /\ UNCHANGED <<pvars, ovars, default_use_optimistic, adaptive_strategy_enabled,
                 conflict_stats, stats_stuck, finishing, released>>

enable_adaptive_strategy ==
  /\ ~adaptive_strategy_enabled
  /\ adaptive_strategy_enabled' = TRUE
  /\ UNCHANGED <<pvars, ovars, transaction_strategies, default_use_optimistic,
                 conflict_stats, stats_stuck, finishing, released>>

set_default_strategy(b) ==
  /\ default_use_optimistic # b
  /\ default_use_optimistic' = b
  /\ UNCHANGED <<pvars, ovars, transaction_strategies, adaptive_strategy_enabled,
                 conflict_stats, stats_stuck, finishing, released>>

\* update_conflict_statistics holds conflict_stats_mutex_ when it calls
\* update_adaptive_strategy, which locks it again: the caller never returns,
\* the default strategy is never adapted and no later update is counted.
update_conflict_statistics(had_conflict) ==
  /\ ~stats_stuck
  /\ conflict_stats.total < MaxConflicts
  /\ conflict_stats' = [total |-> conflict_stats.total + 1,
       conflicts |-> conflict_stats.conflicts + (IF had_conflict THEN 1 ELSE 0)]
  /\ stats_stuck' = adaptive_strategy_enabled
  /\ UNCHANGED <<pvars, ovars, transaction_strategies, default_use_optimistic,
                 adaptive_strategy_enabled, finishing, released>>

\* The pessimistic manager used by itself, as the repository's lock tests do.
PessimisticUse(t) ==
  /\ \/ P!CallReleaseAll(t)
     \/ \E r \in Resources : \/ P!Call(t, "release", r, "NONE")
                             \/ \E m \in Modes : P!Call(t, "acquire", r, m)
     \/ P!Proceed(t)
  /\ UNCHANGED <<ovars, svars, finishing, released>>

\* The calls of the hybrid manager, on one resource.
HybridStep(r) ==
  \/ \E t \in Txns :
       \/ release_all_locks(t) \/ finish_release_all(t)
       \/ PessimisticStep(t)
       \/ \E s \in {"optimistic", "pessimistic"} : set_strategy_for_transaction(t, s)
       \/ release_lock(t, r)
       \/ \E m \in Modes : acquire_lock(t, r, m)
  \/ \E b \in BOOLEAN : set_default_strategy(b)

StatisticsStep ==
  \/ \E b \in BOOLEAN : update_conflict_statistics(b) \/ set_default_strategy(b)
  \/ enable_adaptive_strategy

LocksNext ==
  \/ \E r \in Resources : HybridStep(r)
  \/ \E t \in Txns : OptimisticStep(t)
  \/ StatisticsStep

LocksSpec == LocksInit /\ [][LocksNext]_lockVars

-----------------------------------------------------------------------------
\* A transaction that released all its locks, and has not asked for one
\* since, excludes nobody and is recorded nowhere, whichever managers its
\* strategy sent it through on the way (granted twice apart).
ReleasedHoldNothing ==
  \A t \in released :
    /\ access[t] = {} /\ transaction_locks[t] = {}
    /\ \A r \in Resources : P!Holds(t, r) => <<t, r>> \in twice

\* The three managers together: their types, exclusion, the record of the
\* grants, clean releases whatever way a transaction was routed, and versions
\* that name one write.
LockManagersAgree ==
  /\ P!TypeOK /\ O!TypeOK
  /\ P!LockExclusion /\ P!GrantedIsRecorded
  /\ ReleasedHoldNothing
  /\ O!VersionNamesOneWrite

StuckStopsTheTable == P!StuckStopsTheTable
ValidationCatchesWriters == O!ValidationCatchesWriters
=============================================================================
