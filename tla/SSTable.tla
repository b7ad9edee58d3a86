------------------------------ MODULE SSTable ------------------------------
(***************************************************************************)
(* The data structures of the LSM engine and what its readers and writers  *)
(* make of them: the MemTable (versions of a key in arrival order), the    *)
(* SSTable file (lines "key seq value"), the key range that is read back   *)
(* from a file, the point lookup, the file iterator and the merge that a   *)
(* compaction writes.                                                      *)
(*                                                                         *)
(* Keys are naturals: the code only compares them (std::string order).     *)
(* Values are opaque, except that every file format is whitespace          *)
(* separated text: what a file gives back for a value is its first word.   *)
(* Keys and values are non-empty and keys contain no blank.                *)
(***************************************************************************)
EXTENDS Integers, Sequences, FiniteSets, FiniteSetsExt, Functions

CONSTANTS
    Key,         \* the keys, a finite set of naturals
    Value,       \* the values a client may store
    FirstWord,   \* [Value -> Value]: what "in >> value" reads back
    TOMBSTONE,   \* the marker "__TOMBSTONE__"
    NotFound,    \* the result of a lookup that finds nothing
    UINT64_MAX   \* the largest sequence number

ASSUME KeyAssumption == Key \subseteq Nat /\ IsFiniteSet(Key)
ASSUME ValueAssumption ==
    /\ TOMBSTONE \notin Value
    /\ NotFound \notin Value \cup {TOMBSTONE}
    /\ FirstWord \in [Value -> Value]
    /\ \A v \in Value : FirstWord[FirstWord[v]] = FirstWord[v]
ASSUME SeqAssumption == UINT64_MAX \in Nat

Stored == Value \cup {TOMBSTONE}
Version == [seq : Nat, value : Stored]

(***************************************************************************)
(* MemTable: table_[key] is the vector of versions in push_back order.     *)
(***************************************************************************)
MemTable == [Key -> Seq(Version)]
EmptyTable == [k \in Key |-> <<>>]

MemTablePut(m, k, v, s) ==
    [m EXCEPT ![k] = Append(@, [seq |-> s, value |-> v])]

\* For every key, a version that was pushed later has a larger number.
Ordered(m) ==
    \A k \in Key : \A i, j \in DOMAIN m[k] : i < j => m[k][i].seq < m[k][j].seq

\* size_bytes_ grows by one entry per put; entries have unit size here.
MemTableSize(m) == SumFunction([k \in Key |-> Len(m[k])])

\* The value of the visible version that was pushed last.  A tombstone makes
\* get return false, exactly as if the key had never been written.
MemTableGet(m, k, snap) ==
    LET visible == {i \in DOMAIN m[k] : m[k][i].seq <= snap}
        newest  == m[k][Max(visible)].value
    IN  IF visible = {} \/ newest = TOMBSTONE THEN NotFound ELSE newest

(***************************************************************************)
(* SSTable files.  The lines of a key are sorted by seq, newest first, so  *)
(* a file is determined by its set of versions of each key.                *)
(***************************************************************************)
SSTable == [Key -> SUBSET Version]

\* Where a file is absent NotFound stands in its place.
ASSUME FileAssumption == NotFound \notin SSTable

\* What is read back of a value written as text.
Word(v) == IF v = TOMBSTONE THEN v ELSE FirstWord[v]

\* SSTableWriter::write, as its readers see the file.
SSTableWrite(data) ==
    [k \in Key |-> {[seq |-> v.seq, value |-> Word(v.value)] : v \in Range(data[k])}]

KeysOf(f) == {k \in Key : f[k] # {}}

\* get_key_range_from_file stops at the line that ends at index_offset, so
\* the last line is never looked at unless it is also the first one.
LastKeyRead(f) ==
    LET last == Max(KeysOf(f))
    IN  IF Cardinality(f[last]) > 1 \/ KeysOf(f) = {last}
        THEN last
        ELSE Max(KeysOf(f) \ {last})

FileSize(f) == SumFunction([k \in Key |-> Cardinality(f[k])])

\* The metadata of the file `name` with contents f.
MetaOf(name, f) ==
    [file |-> name, min |-> Min(KeysOf(f)), max |-> LastKeyRead(f), size |-> FileSize(f)]

ContainsKey(meta, k) == meta.min <= k /\ k <= meta.max

\* The version a reader at snapshot `snap` stops at: the newest visible one.
Visible(f, k, snap) == {v \in f[k] : v.seq <= snap}
NewestVisible(f, k, snap) ==
    CHOOSE v \in Visible(f, k, snap) : \A w \in Visible(f, k, snap) : v.seq >= w.seq

\* SSTableReader::get: bloom filter and index only ever rule out absent keys.
SSTableGet(f, k, snap) ==
    IF Visible(f, k, snap) = {} \/ NewestVisible(f, k, snap).value = TOMBSTONE
    THEN NotFound
    ELSE NewestVisible(f, k, snap).value

(***************************************************************************)
(* SSTableIterator: find_next_valid_version invalidates the iterator on a  *)
(* key without a live visible version, and next() does nothing on an       *)
(* invalid iterator, so the walk ends there.                               *)
(***************************************************************************)
Walk(f, snap) ==
    {k \in KeysOf(f) : \A j \in KeysOf(f) : j <= k => SSTableGet(f, j, snap) # NotFound}

\* MergeIterator over the files of a set: one value per key.  The heap orders
\* by key alone, so which of the files that hold the key supplies the value
\* is left open.  Written back by a compaction with seq = UINT64_MAX.
MergeResults(fs) ==
    LET keys == UNION {Walk(f, UINT64_MAX) : f \in fs}
        candidates(k) == {SSTableGet(f, k, UINT64_MAX) : f \in {g \in fs : k \in Walk(g, UINT64_MAX)}}
    IN  {[k \in Key |-> IF k \in keys
                        THEN {[seq |-> UINT64_MAX, value |-> pick[k]]}
                        ELSE {}]
         : pick \in {p \in [keys -> Value] : \A k \in keys : p[k] \in candidates(k)}}
=============================================================================
