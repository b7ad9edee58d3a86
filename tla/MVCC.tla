-------------------------------- MODULE MVCC --------------------------------
(***************************************************************************)
(* MVCCManager: a chain of versions per key, sorted by create timestamp.   *)
(* Callers pass the timestamps; as in the repository's demos a transaction *)
(* writes with its id as its timestamp, and ids are not reused.            *)
(*                                                                         *)
(* commit_transaction marks the versions of one chain after the other under*)
(* data_mutex_ shared, so reads run between two chains; garbage collection *)
(* and abort hold data_mutex_ exclusively and wait for a running commit.   *)
(***************************************************************************)
EXTENDS Positions, SequencesExt, FiniteSetsExt

CONSTANTS Txns,        \* transaction ids, a set of positive numbers
          Keys,
          MaxVersions  \* bound: versions ever written

VARIABLES version_chains,       \* [Keys -> Seq([version, txn, delete, committed])]
          global_timestamp,     \* the next version number
          active_transactions,  \* ids registered by a write
          status,               \* [Txns -> what the caller did with it]
          committing            \* [txn, left]: a commit between two chains

vars == <<version_chains, global_timestamp, active_transactions, status, committing>>

NoCommit == [txn |-> 0, left |-> {}]

TypeOK ==
  /\ version_chains \in [Keys -> Seq([version : 1..MaxVersions, txn : Txns,
                                      delete : Txns \cup {0}, committed : BOOLEAN])]
  /\ global_timestamp \in 1..(MaxVersions + 1)
  /\ active_transactions \subseteq Txns
  /\ status \in [Txns -> {"running", "committed", "aborted"}]
  /\ committing \in [txn : Txns \cup {0}, left : SUBSET Keys]

Init ==
  /\ version_chains = [k \in Keys |-> <<>>]
  /\ global_timestamp = 1
  /\ active_transactions = {}
  /\ status = [t \in Txns |-> "running"]
  /\ committing = NoCommit

-----------------------------------------------------------------------------
create_timestamp(v) == v.txn

is_visible_to(v, ts) ==
  v.committed /\ create_timestamp(v) <= ts /\ (v.delete = 0 \/ v.delete > ts)

\* find_version_for_timestamp and read: the last visible version of the
\* chain, 0 when there is none.  (is_deleted_at never holds for it.)
read(k, ts) ==
  LET seen == {i \in DOMAIN version_chains[k] : is_visible_to(version_chains[k][i], ts)}
  IN IF seen = {} THEN 0 ELSE version_chains[k][Max(seen)].version

\* get_latest_version: deleted or not, the last committed one; 0 for none.
get_latest_version(k) ==
  LET done == {i \in DOMAIN version_chains[k] : version_chains[k][i].committed}
  IN IF done = {} THEN 0 ELSE Max(done)

get_min_active_timestamp ==
  IF active_transactions = {} THEN global_timestamp ELSE Min(active_transactions)

\* The new version sorted before those of its own timestamp.
add_version_first(chain, v) ==
  LET p == Cardinality({i \in DOMAIN chain :
                          create_timestamp(chain[i]) < create_timestamp(v)})
  IN SubSeq(chain, 1, p) \o <<v>> \o SubSeq(chain, p + 1, Len(chain))

\* add_version and sort_versions_by_timestamp: behind the versions that are
\* not newer (the sort keeps equal timestamps in order at these lengths).
add_version(chain, v) ==
  LET p == Cardinality({i \in DOMAIN chain :
                          create_timestamp(chain[i]) <= create_timestamp(v)})
  IN SubSeq(chain, 1, p) \o <<v>> \o SubSeq(chain, p + 1, Len(chain))

\* cleanup_old_versions walks from the oldest version and erases what is old,
\* as long as two versions are left: of a chain that is old throughout, the
\* last one stays.
Old(v, min_active) ==
  create_timestamp(v) < min_active /\ (v.delete = 0 \/ v.delete < min_active)

StillReadable(chain, min_active) == {i \in DOMAIN chain : ~Old(chain[i], min_active)}

\* The guard on the last version left out.
cleanup_all_old_versions(chain, min_active) == Select(chain, StillReadable(chain, min_active))

cleanup_old_versions(chain, min_active) ==
  Select(chain, IF StillReadable(chain, min_active) = {} THEN {Len(chain)} \cap DOMAIN chain
                ELSE StillReadable(chain, min_active))

-----------------------------------------------------------------------------
write(t, k) ==
  /\ status[t] = "running" /\ committing.txn # t
  /\ global_timestamp <= MaxVersions
  /\ version_chains' = [version_chains EXCEPT ![k] = add_version(@,
       [version |-> global_timestamp, txn |-> t, delete |-> 0, committed |-> FALSE])]
  /\ global_timestamp' = global_timestamp + 1
  /\ active_transactions' = active_transactions \cup {t}
  /\ UNCHANGED <<status, committing>>

\* remove marks the latest committed version, before its transaction commits.
remove(t, k) ==
  /\ status[t] = "running" /\ committing.txn # t
  /\ get_latest_version(k) # 0
  /\ version_chains' = [version_chains EXCEPT ![k][get_latest_version(k)].delete = t]
  /\ UNCHANGED <<global_timestamp, active_transactions, status, committing>>

commit_transaction(t) ==
  /\ status[t] = "running" /\ committing = NoCommit
  /\ committing' = [txn |-> t, left |-> Keys]
  /\ UNCHANGED <<version_chains, global_timestamp, active_transactions, status>>

commit_chain(k) ==
  /\ k \in committing.left
  /\ version_chains' = [version_chains EXCEPT ![k] =
       [i \in DOMAIN @ |-> IF @[i].txn = committing.txn
                           THEN [@[i] EXCEPT !.committed = TRUE] ELSE @[i]]]
  /\ committing' = [committing EXCEPT !.left = @ \ {k}]
  /\ UNCHANGED <<global_timestamp, active_transactions, status>>

\* unregister_active_transaction ends the commit.
end_commit ==
  /\ committing # NoCommit /\ committing.left = {}
  /\ active_transactions' = active_transactions \ {committing.txn}
  /\ status' = [status EXCEPT ![committing.txn] = "committed"]
  /\ committing' = NoCommit
  /\ UNCHANGED <<version_chains, global_timestamp>>

\* abort_transaction visits the chains and leaves every version in place.
abort_transaction(t) ==
  /\ status[t] = "running" /\ committing = NoCommit
  /\ active_transactions' = active_transactions \ {t}
  /\ status' = [status EXCEPT ![t] = "aborted"]
  /\ UNCHANGED <<version_chains, global_timestamp, committing>>

run_garbage_collection ==
  /\ committing = NoCommit
  /\ version_chains' = [k \in Keys |->
       cleanup_old_versions(version_chains[k], get_min_active_timestamp)]
  /\ UNCHANGED <<global_timestamp, active_transactions, status, committing>>

Next ==
  \/ \E t \in Txns : \/ commit_transaction(t)
                     \/ abort_transaction(t)
                     \/ \E k \in Keys : write(t, k) \/ remove(t, k)
  \/ \E k \in Keys : commit_chain(k)
  \/ end_commit
  \/ run_garbage_collection

Spec == Init /\ [][Next]_vars

-----------------------------------------------------------------------------
\* A read at ts returns, of the committed versions not yet deleted at ts, one
\* with the greatest create timestamp up to ts and, of the writes of one
\* transaction to one key, its last: out-of-order writers, second writes and
\* collected versions do not disturb the order of the chain.
ReadIsNewestCommitted ==
  \A k \in Keys, ts \in Txns :
    LET chain == version_chains[k]
        seen == {i \in DOMAIN chain : is_visible_to(chain[i], ts)}
    IN \A i \in seen : \E j \in seen :
         /\ chain[j].version = read(k, ts)
         /\ \/ create_timestamp(chain[i]) < create_timestamp(chain[j])
            \/ chain[i].txn = chain[j].txn /\ chain[i].version <= chain[j].version

\* Nothing an aborted transaction wrote is ever visible, although abort
\* leaves its versions in the chains.
AbortedNeverVisible ==
  \A k \in Keys : \A i \in DOMAIN version_chains[k] :
    version_chains[k][i].committed
      => \/ status[version_chains[k][i].txn] = "committed"
         \/ committing.txn = version_chains[k][i].txn

\* A collection never takes the newest version of a key none of whose
\* versions was removed, so such a key keeps its value for the readers of
\* the present once its newest writer commits.  (With a removed version in
\* the chain the walk passes it by and may erase the newest one instead.)
CollectionKeepsNewest ==
  [][\A k \in Keys :
       version_chains[k] # <<>>
         => /\ version_chains'[k] # <<>>
            /\ (\A i \in DOMAIN version_chains[k] : version_chains[k][i].delete = 0)
                 => create_timestamp(Last(version_chains'[k]))
                      >= create_timestamp(Last(version_chains[k]))]_vars

\* The comment of cleanup_old_versions (mvcc_manager.cpp:76): a version that
\* may still be read is not deleted.  A collection changes no read at the
\* timestamp of an active transaction or later.
CollectionKeepsReadable ==
  [][run_garbage_collection
       => \A k \in Keys, ts \in Txns :
            ts >= get_min_active_timestamp /\ read(k, ts) # 0
              => read(k, ts)' = read(k, ts)]_vars

\* What readers see: a chain in order, of which only what was committed shows,
\* through commits that run chain by chain, aborts and collections.
ReadsAreCommitted == TypeOK /\ ReadIsNewestCommitted /\ AbortedNeverVisible
=============================================================================
