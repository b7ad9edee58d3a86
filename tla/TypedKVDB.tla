----------------------------- MODULE TypedKVDB -----------------------------
(***************************************************************************)
(* TypedKVDB: a KVDB with a TypedMemTable beside it.                       *)
(*                                                                         *)
(* put_typed draws a number, files a version under it in the typed table   *)
(* and then calls KVDB::put, which draws a number of its own: three steps  *)
(* that other threads may come between.  del is KVDB's and leaves the      *)
(* typed table alone.  The mutators of lists, sets and maps change the     *)
(* newest version where it stands, with no lock and without KVDB.  A       *)
(* transaction is a buffer of puts and deletions that commit runs one by   *)
(* one.  Reopening the store replays the WAL and leaves the typed table    *)
(* empty.                                                                  *)
(*                                                                         *)
(* A value is a scalar or a container.  A container is the set of its      *)
(* elements: lists, sets and maps differ only in how a caller names one.   *)
(* `by' tells the values of different puts apart.  KVDB::put and del hold  *)
(* db_rw_mutex_ throughout and are one step; their inside is KVDB's.       *)
(***************************************************************************)
EXTENDS Integers, Sequences, FiniteSets, FiniteSetsExt, SequencesExt

CONSTANTS Clients, TypedKeys, Elements,
          TxClients,   \* the clients that use transactions
          MaxNumber,   \* bound: numbers drawn
          MaxOps       \* bound: operations of a transaction

VARIABLES seq_,      \* of the KVDB
          versions,  \* table_ : [TypedKeys -> Seq(version)]
          raw,       \* [TypedKeys -> the value KVDB::get finds, Absent]
          logged,    \* records in the WAL
          call,      \* [Clients -> the call a client is in]
          tx,        \* [Clients -> its transaction: operations_, whether it is open]
          acked,     \* history: the largest number of a put_typed that returned, -1
          agree      \* history: keys last written by a call that ran alone

typedVars == <<seq_, versions, raw, logged, call, tx, acked, agree>>

Absent == [kind |-> "ABSENT", items |-> {}, by |-> -1]
Closed == [open |-> FALSE, operations |-> <<>>]
Kinds == {"SCALAR", "CONTAINER"}
Value == [kind : Kinds, items : SUBSET Elements, by : Int]
Fresh(kind) == [kind |-> kind, items |-> {}, by |-> -1]

\* An operation on a key; a COMBINE reads two keys and puts the result.
Operation == [type : {"PUT", "DELETE", "ADD", "REMOVE", "COMBINE"}, key : TypedKeys,
              value : Value \cup {Absent}, other : TypedKeys]
Op(type, key, value) == [type |-> type, key |-> key, value |-> value, other |-> key]

\* pc: "next" before an operation; "numbered" and "inserted" inside put_typed;
\* "held" with a pointer to element `at' of a vector of `len' versions, or with
\* the value a COMBINE read first.  alone: no other call met this one on its key.
Idle == [pc |-> "next", todo |-> <<>>, number |-> -1, at |-> 0, len |-> 0,
         first |-> Absent, alone |-> TRUE]

TypedTypeOK ==
  /\ seq_ \in 0..MaxNumber
  /\ \A k \in TypedKeys : \A i \in DOMAIN versions[k] :
       versions[k][i] \in [number : 0..(MaxNumber - 1), value : Value]
  /\ raw \in [TypedKeys -> Value \cup {Absent}]
  /\ \A c \in Clients : /\ \A i \in DOMAIN call[c].todo : call[c].todo[i] \in Operation
                        /\ \A i \in DOMAIN tx[c].operations : tx[c].operations[i] \in Operation
                        /\ call[c].pc \in {"next", "numbered", "inserted", "held"}
  /\ agree \subseteq TypedKeys

TypedInit ==
  /\ seq_ = 0
  /\ versions = [k \in TypedKeys |-> <<>>]
  /\ raw = [k \in TypedKeys |-> Absent]
  /\ logged = 0
  /\ call = [c \in Clients |-> Idle]
  /\ tx = [c \in Clients |-> Closed]
  /\ acked = [k \in TypedKeys |-> -1]
  /\ agree = {}

-----------------------------------------------------------------------------
\* get_snapshot: the number before the next one.
SnapshotSeq == IF seq_ > 0 THEN seq_ - 1 ELSE 0

\* get_latest_value: from the back, the first version the snapshot covers.
\* (No caller of TypedMemTable::del exists, so no version is a deletion.)
Covered(k) == {i \in DOMAIN versions[k] : versions[k][i].number <= SnapshotSeq}
get_typed(k) == IF Covered(k) = {} THEN Absent ELSE versions[k][Max(Covered(k))].value

\* add_version without the search: the version goes to the end.
add_version_at_end(k, v) == Append(versions[k], v)

\* add_version: at the upper bound of its number.
add_version(k, v) ==
  InsertAt(versions[k], 1 + Cardinality({i \in DOMAIN versions[k] :
                                           versions[k][i].number <= v.number}), v)

-----------------------------------------------------------------------------
Busy(c) == call[c].todo # <<>>
Now(c) == Head(call[c].todo)
\* A write of c to key k is under way.
Inside(c, k) == Busy(c) /\ call[c].pc # "next" /\ Now(c).type # "COMBINE" /\ Now(c).key = k

Draw == seq_ < MaxNumber /\ seq_' = seq_ + 1

\* c comes to key k: every call that is on the key has met another.
Meet(c, k) ==
  [d \in Clients |-> IF d # c /\ Inside(d, k) THEN [call[d] EXCEPT !.alone = FALSE] ELSE call[d]]

\* c's operation is over; the next one of the batch follows.
Return(c) == call' = [call EXCEPT ![c] = [Idle EXCEPT !.todo = Tail(call[c].todo)]]

\* The calls a client may make: put_typed, which all the put_<type>, the clear
\* operations and convert_key_type end in; del; the mutators; the operations on
\* two sets.
Requests ==
  UNION {     {Op("PUT", k, Fresh(kind)) : kind \in Kinds}
         \cup {Op("DELETE", k, Absent)}
         \cup {Op(type, k, [Fresh("CONTAINER") EXCEPT !.items = {e}]) :
                  type \in {"ADD", "REMOVE"}, e \in Elements}
         \cup {[Op("COMBINE", k, Absent) EXCEPT !.other = k2] : k2 \in TypedKeys}
         : k \in TypedKeys}

\* c comes to an operation: the next one of its batch, or a call it makes now.
Offers(c) == IF call[c].pc # "next" THEN {} ELSE IF Busy(c) THEN {Now(c)} ELSE Requests
Batch(c, op) == IF Busy(c) THEN call[c].todo ELSE <<op>>

\* begin_transaction, its put_typed and del, rollback, and commit: one batch.
Transaction(c) ==
  \/ /\ ~Busy(c) /\ ~tx[c].open
     /\ tx' = [tx EXCEPT ![c].open = TRUE]
     /\ UNCHANGED <<seq_, versions, raw, logged, call, acked, agree>>
  \/ /\ ~Busy(c) /\ tx[c].open /\ Len(tx[c].operations) < MaxOps
     /\ \E k \in TypedKeys :
          \E op \in {Op("PUT", k, Fresh("CONTAINER")), Op("DELETE", k, Absent)} :
            tx' = [tx EXCEPT ![c].operations = Append(@, op)]
     /\ UNCHANGED <<seq_, versions, raw, logged, call, acked, agree>>
  \/ /\ tx[c].open
     /\ tx' = [tx EXCEPT ![c] = Closed]
     /\ ~Busy(c)
     /\ \/ call' = [call EXCEPT ![c].todo = tx[c].operations]
        \/ UNCHANGED call
     /\ UNCHANGED <<seq_, versions, raw, logged, acked, agree>>

-----------------------------------------------------------------------------
\* next_seq() of put_typed and of the mutators.
TakeNumber(c) ==
  /\ Draw
  /\ \E op \in Offers(c) :
       /\ op.type \in {"PUT", "ADD", "REMOVE"}
       /\ call' = [Meet(c, op.key) EXCEPT
                     ![c].pc = "numbered", ![c].todo = Batch(c, op), ![c].number = seq_,
                     ![c].alone = \A d \in Clients \ {c} : ~Inside(d, op.key)]
  /\ UNCHANGED <<versions, raw, logged, tx, acked, agree>>

\* TypedMemTable::put, under its mutex.
Named(c) == [Now(c).value EXCEPT !.by = call[c].number]
InsertTyped(c) ==
  /\ Busy(c) /\ call[c].pc = "numbered" /\ Now(c).type = "PUT"
  /\ versions' = [versions EXCEPT ![Now(c).key] =
                    add_version(Now(c).key, [number |-> call[c].number, value |-> Named(c)])]
  /\ call' = [call EXCEPT ![c].pc = "inserted"]
  /\ UNCHANGED <<seq_, raw, logged, tx, acked, agree>>

\* put_typed that returns without writing the raw store.
PutRawNever(c) ==
  /\ Busy(c) /\ call[c].pc = "inserted"
  /\ acked' = [acked EXCEPT ![Now(c).key] = Max({@, call[c].number})]
  /\ agree' = IF call[c].alone THEN agree \cup {Now(c).key} ELSE agree \ {Now(c).key}
  /\ Return(c)
  /\ UNCHANGED <<seq_, versions, raw, logged, tx>>

\* KVDB::put of the serialized value: the end of put_typed.
PutRaw(c) ==
  /\ Busy(c) /\ call[c].pc = "inserted"
  /\ Draw
  /\ raw' = [raw EXCEPT ![Now(c).key] = Named(c)]
  /\ logged' = logged + 1
  /\ acked' = [acked EXCEPT ![Now(c).key] = Max({@, call[c].number})]
  /\ agree' = IF call[c].alone THEN agree \cup {Now(c).key} ELSE agree \ {Now(c).key}
  /\ Return(c)
  /\ UNCHANGED <<versions, tx>>

\* KVDB::del: the typed table keeps its versions.
DeleteRaw(c) ==
  /\ Draw
  /\ \E op \in Offers(c) :
       /\ op.type = "DELETE"
       /\ raw' = [raw EXCEPT ![op.key] = Absent]
       /\ agree' = agree \ {op.key}
       /\ call' = [Meet(c, op.key) EXCEPT ![c] = [Idle EXCEPT !.todo = Tail(Batch(c, op))]]
  /\ logged' = logged + 1
  /\ UNCHANGED <<versions, tx, acked>>

\* get_mutable_value: a pointer to the last version, nullptr when there is none
\* or it is no container; nothing guards it.
Locate(c) ==
  /\ Busy(c) /\ call[c].pc = "numbered" /\ Now(c).type \in {"ADD", "REMOVE"}
  /\ LET all == versions[Now(c).key] IN
       IF all # <<>> /\ Last(all).value.kind = "CONTAINER"
         THEN call' = [call EXCEPT ![c].pc = "held", ![c].at = Len(all), ![c].len = Len(all)]
         ELSE Return(c)
  /\ UNCHANGED <<seq_, versions, raw, logged, tx, acked, agree>>

\* The change through the pointer.  Where a version was filed meanwhile the
\* element there may be another one, or the memory may be gone; where another
\* thread is about to write to the same vector the change may be lost.
Changed(op, v) ==
  IF v.kind # "CONTAINER" THEN v
  ELSE [v EXCEPT !.items = IF op.type = "ADD" THEN @ \cup op.value.items ELSE @ \ op.value.items]
Mutate(c) ==
  /\ Busy(c) /\ call[c].pc = "held" /\ Now(c).type \in {"ADD", "REMOVE"}
  /\ LET k == Now(c).key IN
       /\ \/ versions' = [versions EXCEPT ![k][call[c].at].value = Changed(Now(c), @)]
          \/ /\ \/ Len(versions[k]) # call[c].len
                \/ \E d \in Clients \ {c} : Inside(d, k) /\ call[d].pc # "inserted"
             /\ UNCHANGED versions
       /\ agree' = agree \ {k}
  /\ Return(c)
  /\ UNCHANGED <<seq_, raw, logged, tx, acked>>

\* set_union, set_intersection, set_difference: get_set twice, each at a snapshot
\* of its own, then put_set of the result.
ReadFirst(c) ==
  /\ \E op \in Offers(c) :
       /\ op.type = "COMBINE" /\ get_typed(op.key).kind = "CONTAINER"
       /\ call' = [call EXCEPT ![c].pc = "held", ![c].todo = <<op>>,
                               ![c].first = get_typed(op.key)]
  /\ UNCHANGED <<seq_, versions, raw, logged, tx, acked, agree>>

ReadSecond(c) ==
  /\ Busy(c) /\ call[c].pc = "held" /\ Now(c).type = "COMBINE"
  /\ LET a == call[c].first.items
         b == get_typed(Now(c).other).items
     IN IF get_typed(Now(c).other).kind = "CONTAINER"
          THEN \E s \in {a \cup b, a \cap b, a \ b}, result_key \in TypedKeys :
                 call' = [call EXCEPT ![c] = [Idle EXCEPT !.todo =
                            <<Op("PUT", result_key, [Fresh("CONTAINER") EXCEPT !.items = s])>>]]
          ELSE Return(c)
  /\ UNCHANGED <<seq_, versions, raw, logged, tx, acked, agree>>

\* The process ends and the store is opened again: the replay gives every record
\* of the WAL a number, the typed table starts empty.  (With records that a flush
\* has taken out of the WAL the numbers start lower still.)
Reopen ==
  /\ seq_ > 0
  /\ seq_' = logged
  /\ versions' = [k \in TypedKeys |-> <<>>]
  /\ call' = [c \in Clients |-> Idle]
  /\ tx' = [c \in Clients |-> Closed]
  /\ acked' = [k \in TypedKeys |-> -1]
  /\ agree' = {}
  /\ UNCHANGED <<raw, logged>>

TypedStep(c) ==
  \/ c \in TxClients /\ Transaction(c)
  \/ TakeNumber(c) \/ InsertTyped(c) \/ PutRaw(c) \/ DeleteRaw(c)
  \/ Locate(c) \/ Mutate(c) \/ ReadFirst(c) \/ ReadSecond(c)

TypedNext == Reopen \/ \E c \in Clients : TypedStep(c)

-----------------------------------------------------------------------------
\* A put_typed that has returned is found: get_typed on a fresh snapshot finds its
\* version or one with a larger number, whatever order the puts of several threads
\* filed theirs in (typed_memtable.cpp add_version, get_latest_value).
TypedPutsAreFound ==
  \A k \in TypedKeys : acked[k] >= 0 =>
    /\ Covered(k) # {}
    /\ versions[k][Max(Covered(k))].number >= acked[k]

\* The two stores tell the same: when the last call on a key was a put_typed that no
\* other call on the key overlapped, KVDB::get finds the value get_typed finds
\* (typed_kv_db.cpp put_typed, "compatible with the original KVDB").  Overlapping
\* puts, del and the mutators break this.
StoresAgree ==
  \A k \in agree : (\A c \in Clients : ~Inside(c, k)) => raw[k] = get_typed(k)
=============================================================================
