---------------------------- MODULE IndexManager ----------------------------
(***************************************************************************)
(* The indexes of KVDB (src/src/index): a secondary, a unique, a composite *)
(* (key, value), a fulltext and an inverted index over the value, at most  *)
(* one of each, the calls of KVDB::put and del that maintain them, and the *)
(* candidates QueryOptimizer takes from them.                              *)
(*                                                                         *)
(* Values are numbered in string order; Text says which words a value is   *)
(* made of, and Tilde is the last value not above "~".  IndexManager has   *)
(* one std::mutex, which create_*_index holds while update_index_stats     *)
(* locks it again in get_index_stats: as built (reentrant = FALSE) the     *)
(* call never returns.  The rest of the behaviour is that of a manager     *)
(* whose lock may be taken again by its owner.  A creation reads the store *)
(* through a snapshot; the scan itself is module MergeIterator.            *)
(***************************************************************************)
EXTENDS Naturals, Sequences, FiniteSets, FiniteSetsExt, SequencesExt

CONSTANTS DbKeys,
          Text,         \* [values 1..n -> sequence of words]
          StopWords,    \* words the tokenizer drops
          Tilde,
          MaxIndexes    \* bound: indexes that exist together

Values == DOMAIN Text
Words == UNION {Range(Text[v]) : v \in Values}
NoValue == 0
Kinds == {"secondary", "unique", "composite", "fulltext", "inverted"}
Tables == {"secondary", "unique", "composite"}

VARIABLES reentrant,  \* may the owner take mutex_ again
          mutex,      \* IndexManager::mutex_: "free", "creator", "stuck"
          store,      \* [DbKeys -> value, NoValue]
          writing,    \* the put or del that holds db_rw_mutex_
          building,   \* the creation under way: its kind and its snapshot
          exists,     \* index_metadata_: the kinds that exist
          table,      \* [Tables -> set of <<value, key>>]: index_map_
          terms,      \* fulltext: [Words -> set of keys], inverted_index_
          docTerms,   \* fulltext: [DbKeys -> set of words], document_info_
          postings    \* inverted: [Words -> [DbKeys -> set of positions]]

indexVars == <<reentrant, mutex, store, writing, building, exists, table, terms,
               docTerms, postings>>

NoWrite == [op |-> "none", key |-> CHOOSE k \in DbKeys : TRUE,
            old |-> NoValue, new |-> NoValue]
NoBuild == [kind |-> "none", view |-> [k \in DbKeys |-> NoValue]]

IndexInit ==
  /\ reentrant \in BOOLEAN
  /\ mutex = "free"
  /\ store = [k \in DbKeys |-> NoValue]
  /\ writing = NoWrite
  /\ building = NoBuild
  /\ exists = {}
  /\ table = [n \in Tables |-> {}]
  /\ terms = [w \in Words |-> {}]
  /\ docTerms = [k \in DbKeys |-> {}]
  /\ postings = [w \in Words |-> [k \in DbKeys |-> {}]]

-----------------------------------------------------------------------------
(* The indexes, as operators on their contents.                            *)

(* Tokenizer::tokenize.                                                    *)
Tokenize(v) == SelectSeq(Text[v], LAMBDA w : w \notin StopWords)

(* validate_unique_constraint.                                             *)
UniqueAllows(entries, v, k) ==
  LET owners == {o \in DbKeys : <<v, o>> \in entries}
  IN  owners = {} \/ owners = {k}

(* SecondaryIndex::insert, CompositeIndex::insert, their remove and update.*)
Inserted(entries, v, k) == entries \cup {<<v, k>>}
Removed(entries, v, k) == entries \ {<<v, k>>}

(* An update that leaves the entry of the old value behind.                *)
UpdatedKeepingOld(entries, old, new, k) ==
  IF old = new THEN entries ELSE Inserted(entries, new, k)

Updated(entries, old, new, k) ==
  IF old = new THEN entries ELSE Inserted(Removed(entries, old, k), new, k)

(* FullTextIndex::remove_document and index_document.                      *)
TermsWithout(ft, k, had) == [w \in Words |-> IF w \in had THEN ft[w] \ {k} ELSE ft[w]]
TermsWith(ft, k, had, v) ==
  [w \in Words |-> IF w \in Range(Tokenize(v)) THEN TermsWithout(ft, k, had)[w] \cup {k}
                   ELSE TermsWithout(ft, k, had)[w]]

(* tokenize_with_positions: a position counts the words that were kept.    *)
PositionsOf(w, v) == {i \in 1..Len(Tokenize(v)) : Tokenize(v)[i] = w}

(* InvertedIndex::remove_document_internal and add_document.               *)
DocumentRemoved(inv, k) == [w \in Words |-> [inv[w] EXCEPT ![k] = {}]]
DocumentAdded(inv, k, v) ==
  [w \in Words |-> [DocumentRemoved(inv, k)[w] EXCEPT ![k] = PositionsOf(w, v)]]

-----------------------------------------------------------------------------
(* Queries.                                                                *)

(* SecondaryIndex::exact_lookup and range_lookup.                          *)
ExactLookup(entries, v) == {k \in DbKeys : <<v, k>> \in entries}

RangeLookup(entries, lo, hi) ==
  {k \in DbKeys : \E v \in Values : lo <= v /\ v <= hi /\ <<v, k>> \in entries}

(* FullTextIndex::search and InvertedIndex::search_terms_and.              *)
FullTextSearch(query) == {k \in DbKeys : \A w \in query : k \in terms[w]}
SearchTermsAnd(query) == {k \in DbKeys : \A w \in query : postings[w][k] # {}}

(* check_position_sequence for two words: some place of the first has the  *)
(* second behind it, at most one word between (max_distance = 1).          *)
PhraseSearch(w1, w2) ==
  {k \in SearchTermsAnd({w1, w2}) :
     \E p \in postings[w1][k], q \in postings[w2][k] : p < q /\ q - p <= 2}

(* condition_to_index_query: a lower bound alone means up to "~".          *)
Candidates(entries, op, v) ==
  CASE op \in {"EQUALS", "NOT_EQUALS"} -> ExactLookup(entries, v)
    [] op \in {"GREATER_THAN", "GREATER_EQUAL"} -> RangeLookup(entries, v, Tilde)
    [] op \in {"LESS_THAN", "LESS_EQUAL"} -> RangeLookup(entries, 1, v)

-----------------------------------------------------------------------------
(* KVDB::put and del: under db_rw_mutex_ read the old value, write, update *)
(* the indexes.  A unique violation is thrown out of put: what was written *)
(* stays, and end_write_operation is never reached.                        *)

BeginPut(k, v) ==
  /\ writing = NoWrite
  /\ writing' = [op |-> IF store[k] = NoValue THEN "add" ELSE "update",
                 key |-> k, old |-> store[k], new |-> v]
  /\ store' = [store EXCEPT ![k] = v]
  /\ UNCHANGED <<reentrant, mutex, building, exists, table, terms, docTerms, postings>>

BeginDel(k) ==
  /\ writing = NoWrite /\ store[k] # NoValue
  /\ writing' = [op |-> "remove", key |-> k, old |-> store[k], new |-> NoValue]
  /\ store' = [store EXCEPT ![k] = NoValue]
  /\ UNCHANGED <<reentrant, mutex, building, exists, table, terms, docTerms, postings>>

Changed(n) ==
  LET k == writing.key
  IN  IF n \notin exists THEN table[n]
      ELSE CASE writing.op = "add" -> Inserted(table[n], writing.new, k)
             [] writing.op = "update" -> Updated(table[n], writing.old, writing.new, k)
             [] writing.op = "remove" -> Removed(table[n], writing.old, k)

(* The unique index refuses the new value.                                 *)
Refused ==
  /\ "unique" \in exists
  /\ writing.op \in {"add", "update"}
  /\ writing.op = "update" => writing.old # writing.new
  /\ ~UniqueAllows(table["unique"], writing.new, writing.key)

(* add_to_indexes, update_indexes, remove_from_indexes and the return.     *)
UpdateIndexes ==
  LET k == writing.key
      v == writing.new
      same == writing.op = "update" /\ writing.old = v
  IN  /\ writing.op \in {"add", "update", "remove"}
      /\ mutex = "free" /\ ~Refused
      /\ table' = [n \in Tables |-> Changed(n)]
      /\ IF "fulltext" \notin exists \/ same THEN UNCHANGED <<terms, docTerms>>
         ELSE IF v = NoValue
           THEN /\ terms' = TermsWithout(terms, k, docTerms[k])
                /\ docTerms' = [docTerms EXCEPT ![k] = {}]
           ELSE /\ terms' = TermsWith(terms, k, docTerms[k], v)
                /\ docTerms' = [docTerms EXCEPT ![k] = Range(Tokenize(v))]
      /\ postings' = IF "inverted" \notin exists \/ same THEN postings
                     ELSE IF v = NoValue THEN DocumentRemoved(postings, k)
                     ELSE DocumentAdded(postings, k, v)
      /\ writing' = NoWrite
      /\ UNCHANGED <<reentrant, mutex, store, building, exists>>

(* The exception: the other secondary index was updated if the unordered   *)
(* map lists it first; nothing behind it was.                              *)
UniqueViolation ==
  /\ writing.op \in {"add", "update"}
  /\ mutex = "free" /\ Refused
  /\ \E first \in BOOLEAN :
       table' = IF first THEN [table EXCEPT !["secondary"] = Changed("secondary")] ELSE table
  /\ writing' = [writing EXCEPT !.op = "thrown"]
  /\ UNCHANGED <<reentrant, mutex, store, building, exists, terms, docTerms, postings>>

-----------------------------------------------------------------------------
(* create_*_index, drop_index, rebuild_index.                              *)

StartCreate(n) ==
  /\ mutex = "free" /\ n \notin exists
  /\ Cardinality(exists) < MaxIndexes
  /\ mutex' = "creator"
  /\ building' = [kind |-> n, view |-> store]
  /\ UNCHANGED <<reentrant, store, writing, exists, table, terms, docTerms, postings>>

(* erase: the contents go with the index.                                  *)
Emptied(n) ==
  /\ table' = IF n \in Tables THEN [table EXCEPT ![n] = {}] ELSE table
  /\ terms' = IF n = "fulltext" THEN [w \in Words |-> {}] ELSE terms
  /\ docTerms' = IF n = "fulltext" THEN [k \in DbKeys |-> {}] ELSE docTerms
  /\ postings' = IF n = "inverted" THEN [w \in Words |-> [k \in DbKeys |-> {}]]
                 ELSE postings

(* rebuild_index locks and calls drop_index and create, which lock again.  *)
StartRebuild(n) ==
  /\ mutex = "free" /\ n \in exists
  /\ IF reentrant
       THEN /\ mutex' = "creator"
            /\ building' = [kind |-> n, view |-> store]
            /\ exists' = exists \ {n}
            /\ Emptied(n)
       ELSE mutex' = "stuck" /\ UNCHANGED <<building, exists, table, terms, docTerms, postings>>
  /\ UNCHANGED <<reentrant, store, writing>>

Indexed == {k \in DbKeys : building.view[k] # NoValue}
Clash == \E j, k \in Indexed : j # k /\ building.view[j] = building.view[k]

(* update_index_stats calls get_index_stats, which locks mutex_.           *)
MutexAfterStats == IF reentrant THEN "free" ELSE "stuck"

FinishCreate ==
  LET n == building.kind
      view == building.view
  IN  /\ mutex = "creator"
      /\ IF n = "unique" /\ Clash
           THEN /\ mutex' = "free"
                /\ UNCHANGED <<exists, table, terms, docTerms, postings>>
           ELSE /\ mutex' = MutexAfterStats
                /\ exists' = exists \cup {n}
                /\ table' = IF n \in Tables
                              THEN [table EXCEPT ![n] = {<<view[k], k>> : k \in Indexed}]
                              ELSE table
                /\ IF n = "fulltext"
                     THEN /\ docTerms' = [k \in DbKeys |-> IF k \in Indexed
                                            THEN Range(Tokenize(view[k])) ELSE {}]
                          /\ terms' = [w \in Words |-> {k \in Indexed :
                                            w \in Range(Tokenize(view[k]))}]
                     ELSE UNCHANGED <<terms, docTerms>>
                /\ postings' = IF n = "inverted"
                                 THEN [w \in Words |-> [k \in DbKeys |->
                                         IF k \in Indexed THEN PositionsOf(w, view[k]) ELSE {}]]
                                 ELSE postings
      /\ building' = NoBuild
      /\ UNCHANGED <<reentrant, store, writing>>

DropIndex(n) ==
  /\ mutex = "free" /\ n \in exists
  /\ exists' = exists \ {n}
  /\ Emptied(n)
  /\ UNCHANGED <<reentrant, mutex, store, writing, building>>

IndexNext ==
  \/ \E k \in DbKeys : BeginDel(k) \/ \E v \in Values : BeginPut(k, v)
  \/ UpdateIndexes \/ UniqueViolation
  \/ \E n \in Kinds : StartCreate(n) \/ StartRebuild(n) \/ DropIndex(n)
  \/ FinishCreate

IndexSpec == IndexInit /\ [][IndexNext]_indexVars

-----------------------------------------------------------------------------
Quiet == writing = NoWrite

Entries == {<<store[k], k>> : k \in {j \in DbKeys : store[j] # NoValue}}

(* Between writes every table index holds exactly the store's pairs, also  *)
(* one that was built from a snapshot while a write was waiting for the    *)
(* manager (create_*_index against update_indexes of put and del).         *)
IndexMatchesStore == Quiet => \A n \in exists \cap Tables : table[n] = Entries

(* A unique index never lists two keys under one value, however a creation *)
(* and writes interleave (validate_unique_constraint).                     *)
UniqueHolds ==
  "unique" \in exists =>
    \A v \in Values : Cardinality(ExactLookup(table["unique"], v)) <= 1

Holds(k, w) == store[k] # NoValue /\ w \in Range(Tokenize(store[k]))

(* Between writes a word search, a fulltext search and a search for two    *)
(* near words find the documents that have them, no more and no fewer:     *)
(* updates leave nothing of the old text behind.                           *)
SearchFindsText ==
  Quiet =>
    /\ "fulltext" \in exists =>
         \A w1, w2 \in Words : FullTextSearch({w1, w2}) =
                                 {k \in DbKeys : Holds(k, w1) /\ Holds(k, w2)}
    /\ "inverted" \in exists =>
         \A w1, w2 \in Words : PhraseSearch(w1, w2) =
           {k \in DbKeys : /\ store[k] # NoValue
                           /\ \E p \in PositionsOf(w1, store[k]),
                                 d \in 1..2 : p + d \in PositionsOf(w2, store[k])}

(* The candidates the optimizer takes from a secondary index include every *)
(* key that meets the condition, for values up to "~".                     *)
CandidatesCover ==
  (Quiet /\ "secondary" \in exists) =>
    \A k \in DbKeys : (store[k] \in 1..Tilde) =>
      \A v \in 1..Tilde :
        /\ store[k] = v => k \in Candidates(table["secondary"], "EQUALS", v)
        /\ store[k] > v => k \in Candidates(table["secondary"], "GREATER_THAN", v)
        /\ store[k] <= v => k \in Candidates(table["secondary"], "LESS_EQUAL", v)

(* As built the first index is also the last call the manager answers: a   *)
(* creation that succeeds leaves mutex_ locked by its own thread, and the  *)
(* next put stays inside update_indexes with db_rw_mutex_ held.            *)
CreationWedges == ~reentrant => (exists # {} => mutex = "stuck")
WedgedStopsWrites ==
  [][mutex = "stuck" => (mutex' = "stuck" /\ (writing # NoWrite => writing' = writing))]_indexVars

(* Every index says what the store says, whatever creations, rebuilds,     *)
(* drops and refused writes came before; as built, the first one is the    *)
(* last.                                                                   *)
IndexesAgree ==
  /\ IndexMatchesStore /\ UniqueHolds /\ SearchFindsText /\ CandidatesCover
  /\ CreationWedges
=============================================================================
