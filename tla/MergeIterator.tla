--------------------------- MODULE MergeIterator ---------------------------
(***************************************************************************)
(* A scan: the MergeIterator KVDB::new_iterator and new_prefix_iterator    *)
(* build over the MemTable and the SSTables, newest source first           *)
(* (src/src/iterator).  What a source holds for a key, seen from the       *)
(* snapshot, is a value ("live"), a tombstone or only versions the         *)
(* snapshot does not see ("dead"), or nothing ("absent").  A value is      *)
(* known by its source.  Keys are numbers in key order; a prefix is an     *)
(* interval of them.                                                       *)
(*                                                                         *)
(* The heap is a std::priority_queue ordered by key alone, so which of two *)
(* equal keys comes first is decided by the array it is kept in: Push and  *)
(* Pop are push_heap and pop_heap of libstdc++ for at most three children. *)
(***************************************************************************)
EXTENDS Naturals, Sequences, FiniteSets, FiniteSetsExt, SequencesExt

CONSTANTS ScanKeys,   \* a set of positive numbers
          Sources     \* number of sources, at most 3; source 1 is the MemTable

ASSUME SourcesAssumption == Sources \in 1..3

VARIABLES holds,     \* [1..Sources -> [ScanKeys -> "live", "dead", "absent"]]
          children,  \* ids of the sources the iterator was built from, in order
          at,        \* position of each child: a key, or 0 when not valid
          heap,      \* min_heap_, as its array
          upto,      \* last key of the prefix; the largest key without prefix
          phase,     \* "new", "init", "next", "skip" or "rest"
          current,   \* current_key_ and the source of current_value_
          is_valid,
          yielded    \* what the scan has shown, in order

scanVars == <<holds, children, at, heap, upto, phase, current, is_valid, yielded>>

Ids == 1..Sources
MemTable == 1
Nothing == [key |-> 0, id |-> 0]

-----------------------------------------------------------------------------
(* The children.                                                           *)

Present(h, i) == {k \in ScanKeys : h[i][k] # "absent"}
From(h, i, t) == {k \in Present(h, i) : k >= t}

(* A MemTableIterator stands on any key of the table; an SSTableIterator   *)
(* whose key has no visible value is not valid.                            *)
StandsOn(h, i, k) == i = MemTable \/ h[i][k] = "live"

(* seek.                                                                   *)
SeekChild(h, i, t) ==
  IF From(h, i, t) = {} THEN 0
  ELSE LET k == Min(From(h, i, t)) IN IF StandsOn(h, i, k) THEN k ELSE 0

(* next: an iterator that is not valid stays where it is.                  *)
NextOfChild(h, i, k) == IF k = 0 THEN 0 ELSE SeekChild(h, i, k + 1)

(* value(): empty for a tombstone.                                         *)
HasValue(h, i, k) == h[i][k] = "live"

-----------------------------------------------------------------------------
(* The heap.                                                               *)

Push(q, e) ==
  IF q # <<>> /\ q[1].key > e.key
    THEN <<e>> \o Append(Tail(q), q[1])
    ELSE Append(q, e)

Pop(q) ==
  IF Len(q) < 3 THEN Tail(q)
  ELSE IF q[2].key > q[3].key THEN <<q[3], q[2]>> ELSE <<q[2], q[3]>>

(* Popping while the top has key k: the ids met, and the heap left.        *)
PopTied(q, k) ==
  FoldLeft(LAMBDA acc, i : IF acc.q # <<>> /\ acc.q[1].key = k
                             THEN [q |-> Pop(acc.q), ids |-> Append(acc.ids, acc.q[1].id)]
                             ELSE acc,
           [q |-> q, ids |-> <<>>], [i \in Ids |-> i])

(* Only the child that gave the value moves on.                            *)
AdvanceWinner(q, where, ids) ==
  FoldLeft(LAMBDA acc, i :
             IF where[i] = 0 \/ where[i] > upto \/ i # ids[1] THEN acc
             ELSE Push(acc, [key |-> where[i], id |-> i]),
           q, ids)

(* advance_iterator of every child of the group, in order: it moves, and   *)
(* goes back into the heap unless it is done or has left the prefix.       *)
Advance(q, where, ids) ==
  FoldLeft(LAMBDA acc, i :
             IF where[i] = 0 \/ where[i] > upto THEN acc
             ELSE Push(acc, [key |-> where[i], id |-> i]),
           q, ids)

-----------------------------------------------------------------------------
ScanInit ==
  /\ holds \in [Ids -> [ScanKeys -> {"live", "dead", "absent"}]]
  /\ children = <<>>
  /\ at = [i \in Ids |-> 0]
  /\ heap = <<>>
  /\ upto = Max(ScanKeys)
  /\ phase = "new"
  /\ current = Nothing
  /\ is_valid = FALSE
  /\ yielded = <<>>

(* init_heap, up to its while loop: every valid child goes in.             *)
Positioned(where, last, kids) ==
  /\ children' = kids
  /\ at' = where
  /\ upto' = last
  /\ heap' = FoldLeft(LAMBDA q, i : IF where[i] = 0 THEN q
                                    ELSE Push(q, [key |-> where[i], id |-> i]),
                      <<>>, kids)
  /\ phase' = "init"
  /\ is_valid' = FALSE
  /\ UNCHANGED <<holds, current, yielded>>

(* new_iterator and seek_to_first or seek.                                 *)
SeekTo(t) ==
  /\ phase = "new"
  /\ Positioned([i \in Ids |-> SeekChild(holds, i, t)], Max(ScanKeys), [i \in Ids |-> i])

(* new_prefix_iterator: children with no key of the prefix at their        *)
(* position are left out; seek_with_prefix.                                *)
SeekWithPrefix(lo, hi) ==
  LET where == [i \in Ids |-> SeekChild(holds, i, lo)]
  IN  /\ phase = "new" /\ lo <= hi
      /\ Positioned(where, hi,
                    SelectSeq([i \in Ids |-> i],
                              LAMBDA i : where[i] # 0 /\ where[i] <= hi))

(* The body init_heap, next and skip_tombstones share: take the children   *)
(* that stand on the smallest key, use the first value among them, move    *)
(* them all.                                                               *)
Merge(onFound, onEmpty) ==
  LET k == heap[1].key
      tied == PopTied(heap, k)
      live == SelectSeq(tied.ids, LAMBDA i : HasValue(holds, i, k))
      where == [i \in Ids |-> IF \E n \in DOMAIN tied.ids : tied.ids[n] = i
                                THEN NextOfChild(holds, i, at[i]) ELSE at[i]]
  IN  /\ at' = where
      /\ heap' = Advance(tied.q, where, tied.ids)
      /\ IF live = <<>>
           THEN phase' = onEmpty /\ UNCHANGED <<current, is_valid, yielded>>
           ELSE /\ phase' = onFound
                /\ current' = [key |-> k, id |-> live[1]]
                /\ is_valid' = TRUE
                /\ yielded' = Append(yielded, [key |-> k, id |-> live[1]])
      /\ UNCHANGED <<holds, children, upto>>

Finish ==
  /\ phase' = "rest" /\ is_valid' = FALSE
  /\ UNCHANGED <<holds, children, at, heap, upto, current, yielded>>

(* init_heap: a first key without a value leaves the iterator invalid, as  *)
(* skip_tombstones is called only when it is valid.                        *)
InitHeap ==
  /\ phase = "init"
  /\ IF heap = <<>> THEN Finish ELSE Merge("rest", "rest")

NextKey ==
  /\ phase = "rest" /\ is_valid
  /\ IF heap = <<>> \/ heap[1].key > upto THEN Finish ELSE Merge("rest", "skip")

SkipTombstones ==
  /\ phase = "skip"
  /\ IF heap = <<>> THEN Finish ELSE Merge("rest", "skip")

ScanNext ==
  \/ \E t \in ScanKeys : SeekTo(t) \/ \E hi \in ScanKeys : SeekWithPrefix(t, hi)
  \/ InitHeap \/ NextKey \/ SkipTombstones

ScanSpec == ScanInit /\ [][ScanNext]_scanVars

-----------------------------------------------------------------------------
(* Whatever the sources hold, a scan shows its keys in ascending order,    *)
(* each once, within the prefix, and with a value some source really has.  *)
ScanIsSorted ==
  /\ \A m, n \in DOMAIN yielded : m < n => yielded[m].key < yielded[n].key
  /\ \A n \in DOMAIN yielded : /\ holds[yielded[n].id][yielded[n].key] = "live"
                               /\ yielded[n].key <= upto

Done == phase = "rest" /\ ~is_valid

(* While nothing is deleted and everything is visible, a finished scan has *)
(* shown every key from where it started to the end of its prefix.         *)
ScanIsComplete ==
  (Done /\ yielded # <<>> /\ \A i \in Ids, k \in ScanKeys : holds[i][k] # "dead") =>
    \A i \in Ids : \A k \in Present(holds, i) :
      (yielded[1].key <= k /\ k <= upto) => \E n \in DOMAIN yielded : yielded[n].key = k

(* The value shown for a key is that of the newest source that has it      *)
(* (the comment in init_heap: the newest version that is no tombstone, by  *)
(* the priority of the iterators).                                         *)
ScanShowsNewest ==
  \A n \in DOMAIN yielded : \A i \in Ids :
    i < yielded[n].id => holds[i][yielded[n].key] # "live"

(* The heap of equal and unequal keys loses none and repeats none.         *)
ScanIsRight == ScanIsSorted /\ ScanIsComplete
=============================================================================
