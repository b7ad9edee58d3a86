-------------------------- MODULE OptimisticLocks --------------------------
(***************************************************************************)
(* OptimisticLockManager: a version per key from one global counter, and   *)
(* the read and write sets of the running transactions.  A transaction     *)
(* reads keys with their versions, checks the version of a key before it   *)
(* buffers a write, validates its read set, and applies its writes.  The   *)
(* values themselves are placeholders in the code and are left out.        *)
(*                                                                         *)
(* transaction_sets_mutex_ is held over the whole of apply_write_set, which*)
(* bumps one key at a time under version_mutex_ (applying); every other    *)
(* use of the sets waits for it, a read of a version does not.             *)
(***************************************************************************)
EXTENDS Naturals, FiniteSets

CONSTANTS Txns, Keys,
          MaxVersion  \* bound: versions the global counter hands out

VARIABLES key_versions,            \* [Keys -> Nat], 0 for a key never written
          global_version_counter,  \* the next version
          read_set,                \* [Txns -> [key -> [version, at]]], partial
          write_set,               \* [Txns -> SUBSET Keys]
          access,                  \* transaction_locks_: accessed resources
          reading,                 \* [Txns -> a read between its two locks]
          applying,                \* [txn, left]: the running apply_write_set
          validated,               \* [Txns -> answer of validate_transaction]
          applies                  \* history: [Keys -> number of applied writes]

vars == <<key_versions, global_version_counter, read_set, write_set, access,
          reading, applying, validated, applies>>

Nobody == [txn |-> "none", left |-> {}]
NotReading == [key |-> "none", version |-> 0, at |-> 0]

TypeOK ==
  LET Entry == [version : 0..MaxVersion, at : Nat]
  IN /\ key_versions \in [Keys -> 0..MaxVersion]
     /\ global_version_counter \in 1..(MaxVersion + 1)
     /\ \A t \in Txns : /\ DOMAIN read_set[t] \subseteq Keys
                        /\ \A k \in DOMAIN read_set[t] : read_set[t][k] \in Entry
     /\ write_set \in [Txns -> SUBSET Keys]
     /\ access \in [Txns -> SUBSET Keys]
     /\ validated \in [Txns -> {"no", "ok", "failed"}]
     /\ applies \in [Keys -> Nat]

Init ==
  /\ key_versions = [k \in Keys |-> 0]
  /\ global_version_counter = 1
  /\ read_set = [t \in Txns |-> <<>>]
  /\ write_set = [t \in Txns |-> {}]
  /\ access = [t \in Txns |-> {}]
  /\ reading = [t \in Txns |-> NotReading]
  /\ applying = Nobody
  /\ validated = [t \in Txns |-> "no"]
  /\ applies = [k \in Keys |-> 0]

\* The thread of t is between two calls.
Idle(t) == reading[t] = NotReading /\ applying.txn # t
SetsFree == applying = Nobody

-----------------------------------------------------------------------------
acquire_lock(t, k) ==
  /\ Idle(t)
  /\ access' = [access EXCEPT ![t] = @ \cup {k}]
  /\ UNCHANGED <<key_versions, global_version_counter, read_set, write_set,
                 reading, applying, validated, applies>>

release_lock(t, k) ==
  /\ Idle(t)
  /\ access' = [access EXCEPT ![t] = @ \ {k}]
  /\ UNCHANGED <<key_versions, global_version_counter, read_set, write_set,
                 reading, applying, validated, applies>>

\* release_all_locks, cleanup_transaction_sets included.
release_all_locks(t) ==
  /\ Idle(t) /\ SetsFree
  /\ access' = [access EXCEPT ![t] = {}]
  /\ read_set' = [read_set EXCEPT ![t] = <<>>]
  /\ write_set' = [write_set EXCEPT ![t] = {}]
  /\ validated' = [validated EXCEPT ![t] = "no"]
  /\ UNCHANGED <<key_versions, global_version_counter, reading, applying, applies>>

\* read_with_version: the version under version_mutex_ ...
get_current_version(t, k) ==
  /\ Idle(t)
  /\ reading' = [reading EXCEPT ![t] =
       [key |-> k, version |-> key_versions[k], at |-> applies[k]]]
  /\ UNCHANGED <<key_versions, global_version_counter, read_set, write_set,
                 access, applying, validated, applies>>

\* ... and its entry in the read set under transaction_sets_mutex_.
add_to_read_set(t) ==
  /\ reading[t] # NotReading /\ SetsFree
  /\ LET k == reading[t].key
         entry == [version |-> reading[t].version, at |-> reading[t].at]
     IN read_set' = [read_set EXCEPT ![t] =
          [x \in DOMAIN @ \cup {k} |-> IF x = k THEN entry ELSE @[x]]]
  /\ reading' = [reading EXCEPT ![t] = NotReading]
  /\ validated' = [validated EXCEPT ![t] = "no"]
  /\ UNCHANGED <<key_versions, global_version_counter, write_set, access,
                 applying, applies>>

\* write_with_version_check with the version the transaction read; a write
\* whose version is no longer current is refused.
write_with_version_check(t, k) ==
  /\ Idle(t) /\ SetsFree
  /\ k \in DOMAIN read_set[t]
  /\ write_set' = IF key_versions[k] = read_set[t][k].version
                  THEN [write_set EXCEPT ![t] = @ \cup {k}] ELSE write_set
  /\ UNCHANGED <<key_versions, global_version_counter, read_set, access,
                 reading, applying, validated, applies>>

\* Only the keys the transaction writes are validated.
validate_written_keys(t) ==
  \A k \in DOMAIN read_set[t] \cap write_set[t] : key_versions[k] = read_set[t][k].version

validate_read_set(t) ==
  \A k \in DOMAIN read_set[t] : key_versions[k] = read_set[t][k].version

validate_transaction(t) ==
  /\ Idle(t) /\ SetsFree
  /\ validated' = [validated EXCEPT ![t] =
                     IF validate_read_set(t) THEN "ok" ELSE "failed"]
  /\ UNCHANGED <<key_versions, global_version_counter, read_set, write_set,
                 access, reading, applying, applies>>

\* apply_write_set takes the sets mutex; the sets are not cleared by it.
apply_write_set(t) ==
  /\ Idle(t) /\ SetsFree
  /\ write_set[t] # {}
  /\ applying' = [txn |-> t, left |-> write_set[t]]
  /\ UNCHANGED <<key_versions, global_version_counter, read_set, write_set,
                 access, reading, validated, applies>>

\* generate_version: fetch_add.
generate_version(next) == next = global_version_counter + 1

\* increment_version of one key of the write set, in the order of the map.
increment_version(t, k) ==
  /\ applying.txn = t /\ k \in applying.left
  /\ global_version_counter <= MaxVersion
  /\ key_versions' = [key_versions EXCEPT ![k] = global_version_counter]
  /\ generate_version(global_version_counter')
  /\ applies' = [applies EXCEPT ![k] = @ + 1]
  /\ applying' = IF applying.left = {k} THEN Nobody
                 ELSE [applying EXCEPT !.left = @ \ {k}]
  /\ UNCHANGED <<read_set, write_set, access, reading, validated>>

Step(t) ==
  \/ add_to_read_set(t)
  \/ validate_transaction(t)
  \/ apply_write_set(t)
  \/ \E k \in Keys : \/ get_current_version(t, k)
                     \/ write_with_version_check(t, k)
                     \/ increment_version(t, k)

-----------------------------------------------------------------------------
\* A transaction that validates has seen, of every key it read, the last
\* write applied: no version comes back (one counter serves all keys), and a
\* version read before an apply and recorded after it is found stale.
ValidationCatchesWriters ==
  [][\A t \in Txns : validated[t] # "ok" /\ validated'[t] = "ok"
       => \A k \in DOMAIN read_set[t] : read_set[t][k].at = applies[k]]_vars

\* Two keys never carry one version, so a version names one applied write.
VersionNamesOneWrite ==
  \A j, k \in Keys : key_versions[j] = key_versions[k]
                       => j = k \/ key_versions[k] = 0
=============================================================================
