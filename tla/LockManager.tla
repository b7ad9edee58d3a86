---------------------------- MODULE LockManager ----------------------------
(***************************************************************************)
(* PessimisticLockManager: a lock table of granted and waiting requests    *)
(* per resource, and a record of the resources every transaction holds.    *)
(*                                                                         *)
(* One thread runs each transaction.  A call first passes                  *)
(* get_or_create_lock_entry, which needs lock_table_mutex_ exclusively     *)
(* (pc "table"), then takes the entry_mutex of its resource (pc "entry")   *)
(* and keeps it to the end of the call.  A request that must wait reaches  *)
(* get_blocking_transactions, which holds lock_table_mutex_ shared and     *)
(* locks the entry_mutex its own thread already owns: pc "relock", which   *)
(* has no successor.  Deadlock detection is on and no code turns it off.   *)
(*                                                                         *)
(* granted_locks is kept per transaction: every walk over it asks whether  *)
(* some grant of others conflicts, or looks for the first grant, or all    *)
(* grants, of one transaction; the order between transactions never counts.*)
(***************************************************************************)
EXTENDS Naturals, Sequences

CONSTANTS Txns,       \* transaction ids
          Resources,  \* resource ids
          Modes,      \* the LockModes the callers ask for
          MaxGrants   \* bound: grants of one resource to a transaction at a time

VARIABLES granted,            \* [Resources -> [Txns -> Seq(Modes)]], see below
          waiting,            \* [Resources -> Seq([txn, mode])]
          transaction_locks,  \* [Txns -> SUBSET Resources]
          pc,                 \* where the thread of a transaction is
          req,                \* its running call
          twice               \* history: pairs granted again while held

vars == <<granted, waiting, transaction_locks, pc, req, twice>>

NoCall == [op |-> "none", left |-> {}, mode |-> "NONE"]

TypeOK ==
  LET Request == [txn : Txns, mode : Modes]
  IN /\ granted \in [Resources -> [Txns -> Seq(Modes)]]
     /\ waiting \in [Resources -> Seq(Request)]
     /\ transaction_locks \in [Txns -> SUBSET Resources]
     /\ pc \in [Txns -> {"idle", "table", "entry", "relock"}]
     /\ req \in [Txns -> [op : {"none", "acquire", "release", "release_all"},
                          left : SUBSET Resources, mode : Modes \cup {"NONE"}]]
     /\ twice \subseteq Txns \X Resources

Init ==
  /\ granted = [r \in Resources |-> [t \in Txns |-> <<>>]]
  /\ waiting = [r \in Resources |-> <<>>]
  /\ transaction_locks = [t \in Txns |-> {}]
  /\ pc = [t \in Txns |-> "idle"]
  /\ req = [t \in Txns |-> NoCall]
  /\ twice = {}

-----------------------------------------------------------------------------
\* is_compatible: the rows of the matrix, as the modes each mode tolerates.
Tolerates ==
  [NONE |-> {"NONE", "SHARED", "EXCLUSIVE", "INTENTION_SHARED",
             "INTENTION_EXCLUSIVE", "SHARED_INTENTION_EXCLUSIVE"},
   SHARED |-> {"NONE", "SHARED", "INTENTION_SHARED"},
   EXCLUSIVE |-> {"NONE"},
   INTENTION_SHARED |-> {"NONE", "SHARED", "INTENTION_SHARED",
                         "INTENTION_EXCLUSIVE", "SHARED_INTENTION_EXCLUSIVE"},
   INTENTION_EXCLUSIVE |-> {"NONE", "INTENTION_SHARED", "INTENTION_EXCLUSIVE"},
   SHARED_INTENTION_EXCLUSIVE |-> {"NONE", "INTENTION_SHARED"}]

is_compatible(existing, requested) == requested \in Tolerates[existing]

\* Only a request for the exclusive mode is tested.
has_conflict_if_exclusive(r, t, m) ==
  /\ m = "EXCLUSIVE"
  /\ \E u \in Txns \ {t} : granted[r][u] # <<>>

has_conflicting_lock(r, t, m) ==
  \E u \in Txns \ {t} : \E i \in DOMAIN granted[r][u] : ~is_compatible(granted[r][u][i], m)

can_grant_lock(r, t, m) == ~has_conflicting_lock(r, t, m) /\ waiting[r] = <<>>

Holds(t, r) == granted[r][t] # <<>>

\* lock_table_mutex_ is held shared by a thread inside
\* get_blocking_transactions; entry_mutex by that thread, for its resource.
TableFree == \A u \in Txns : pc[u] # "relock"
EntryFree(r) == \A u \in Txns : pc[u] = "relock" => r \notin req[u].left

Return(t) == pc' = [pc EXCEPT ![t] = "idle"] /\ req' = [req EXCEPT ![t] = NoCall]

-----------------------------------------------------------------------------
\* A call of acquire_lock or release_lock enters get_or_create_lock_entry.
Call(t, op, r, m) ==
  /\ pc[t] = "idle"
  /\ op \in {"acquire", "release"}
  /\ op = "acquire" => Len(granted[r][t]) < MaxGrants
  /\ req' = [req EXCEPT ![t] = [op |-> op, left |-> {r}, mode |-> m]]
  /\ pc' = [pc EXCEPT ![t] = "table"]
  /\ UNCHANGED <<granted, waiting, transaction_locks, twice>>

\* release_all_locks takes the record of the transaction away first.
CallReleaseAll(t) ==
  /\ pc[t] = "idle"
  /\ transaction_locks' = [transaction_locks EXCEPT ![t] = {}]
  /\ IF transaction_locks[t] = {} THEN UNCHANGED <<pc, req>>
     ELSE /\ pc' = [pc EXCEPT ![t] = "table"]
          /\ req' = [req EXCEPT ![t] = [op |-> "release_all",
                         left |-> transaction_locks[t], mode |-> "NONE"]]
  /\ UNCHANGED <<granted, waiting, twice>>

\* The lock table looked up without lock_table_mutex_.
get_lock_entry_unlocked(t) ==
  /\ pc[t] = "table"
  /\ pc' = [pc EXCEPT ![t] = "entry"]
  /\ UNCHANGED <<granted, waiting, transaction_locks, req, twice>>

get_or_create_lock_entry(t) ==
  /\ pc[t] = "table"
  /\ TableFree
  /\ pc' = [pc EXCEPT ![t] = "entry"]
  /\ UNCHANGED <<granted, waiting, transaction_locks, req, twice>>

\* acquire_lock under the entry mutex: granted at once, or queued and stuck.
acquire_lock(t, r) ==
  /\ pc[t] = "entry" /\ req[t].op = "acquire" /\ r \in req[t].left
  /\ EntryFree(r)
  /\ IF can_grant_lock(r, t, req[t].mode)
     THEN /\ granted' = [granted EXCEPT ![r][t] = Append(@, req[t].mode)]
          /\ transaction_locks' = [transaction_locks EXCEPT ![t] = @ \cup {r}]
          /\ twice' = IF Holds(t, r) THEN twice \cup {<<t, r>>} ELSE twice
          /\ Return(t)
          /\ UNCHANGED waiting
     ELSE /\ waiting' = [waiting EXCEPT ![r] = Append(@, [txn |-> t, mode |-> req[t].mode])]
          /\ pc' = [pc EXCEPT ![t] = "relock"]
          /\ UNCHANGED <<granted, transaction_locks, req, twice>>

\* grant_compatible_locks: can_grant_lock wants an empty queue, so a queued
\* request is never the one granted; the queue and the grants stay.
grant_compatible_locks(r, t, kept) == granted' = [granted EXCEPT ![r][t] = kept]

\* release_lock removes the first grant of the transaction, and the record.
release_lock(t, r) ==
  /\ pc[t] = "entry" /\ req[t].op = "release" /\ r \in req[t].left
  /\ EntryFree(r)
  /\ IF Holds(t, r)
     THEN /\ grant_compatible_locks(r, t, Tail(granted[r][t]))
          /\ transaction_locks' = [transaction_locks EXCEPT ![t] = @ \ {r}]
     ELSE UNCHANGED <<granted, transaction_locks>>
  /\ Return(t)
  /\ UNCHANGED <<waiting, twice>>

\* One round of release_all_locks: every grant of the transaction on r.
release_all_step(t, r) ==
  /\ pc[t] = "entry" /\ req[t].op = "release_all" /\ r \in req[t].left
  /\ EntryFree(r)
  /\ grant_compatible_locks(r, t, <<>>)
  /\ IF req[t].left = {r} THEN Return(t)
     ELSE /\ pc' = [pc EXCEPT ![t] = "table"]
          /\ req' = [req EXCEPT ![t].left = @ \ {r}]
  /\ UNCHANGED <<waiting, transaction_locks, twice>>

\* What a call that is under way may do next.
Proceed(t) ==
  \/ get_or_create_lock_entry(t)
  \/ \E r \in Resources : \/ acquire_lock(t, r)
                          \/ release_lock(t, r)
                          \/ release_all_step(t, r)

-----------------------------------------------------------------------------
\* No two transactions hold one resource in modes that exclude each other,
\* whatever calls overlap: the grant decision and the grant are one entry
\* critical section, and a transaction's own grants are not looked at.
LockExclusion ==
  \A r \in Resources : \A t, u \in Txns : t # u =>
    \A i \in DOMAIN granted[r][t], j \in DOMAIN granted[r][u] :
      is_compatible(granted[r][t][i], granted[r][u][j])

\* has_lock answers from the record, the grants are what excludes others: a
\* grant without a record (which release_all_locks would never find) belongs
\* to a transaction granted the resource twice, or inside release_all_locks.
GrantedIsRecorded ==
  \A t \in Txns, r \in Resources :
    Holds(t, r) => \/ r \in transaction_locks[t]
                   \/ <<t, r>> \in twice
                   \/ req[t].op = "release_all" /\ r \in req[t].left

\* A thread stuck in get_blocking_transactions stops every later call before
\* it reaches an entry: nothing that calls the manager afterwards returns.
\* (A call that passed the table earlier still finishes on another resource.)
StuckStopsTheTable ==
  [][~TableFree => \A t \in Txns : pc[t] = "table" => pc'[t] = "table"]_vars

=============================================================================
