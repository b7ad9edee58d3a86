---------------------------- MODULE AccessProofs ----------------------------
(***************************************************************************)
(* The components that client threads meet on the way to the data, each    *)
(* for any number of keys, values, threads and calls.                      *)
(***************************************************************************)
EXTENDS MCAccess, LockProofs, DataProofs

(***************************************************************************)
(* A sequence with an element put in.                                      *)
(***************************************************************************)
\* An element put in behind the first p.
InsertBehind(s, p, v) == SubSeq(s, 1, p) \o <<v>> \o SubSeq(s, p + 1, Len(s))

\* Its elements: those before p, the new one, and the rest one place further.
LEMMA InsertFacts ==
  ASSUME NEW E, NEW s \in Seq(E), NEW p \in 0..Len(s), NEW v \in E
  PROVE  /\ InsertBehind(s, p, v) \in Seq(E)
         /\ Len(InsertBehind(s, p, v)) = Len(s) + 1
         /\ \A i \in 1..(Len(s) + 1) :
              InsertBehind(s, p, v)[i] = IF i <= p THEN s[i] ELSE IF i = p + 1 THEN v ELSE s[i - 1]
<1> DEFINE a == SubSeq(s, 1, p)
           b == SubSeq(s, p + 1, Len(s))
<1>1. Len(s) \in Nat /\ p \in Int /\ p + 1 \in Int /\ \A i \in 1..Len(s) : s[i] \in E
  OBVIOUS
<1>2. a \in Seq(E) /\ Len(a) = p /\ \A i \in 1..p : a[i] = s[i]
  <2>1. \A i \in 1..p : s[i] \in E
    BY <1>1
  <2>2. a \in Seq(E) /\ Len(a) = (IF 1 <= p THEN p - 1 + 1 ELSE 0)
        /\ \A i \in 1..(p - 1 + 1) : a[i] = s[1 + i - 1]
    BY <1>1, <2>1, SubSeqProperties
  <2> QED
    BY <1>1, <2>2
<1>3. b \in Seq(E) /\ Len(b) = Len(s) - p /\ \A i \in 1..(Len(s) - p) : b[i] = s[p + i]
  <2>1. \A i \in (p + 1)..Len(s) : s[i] \in E
    BY <1>1
  <2>2. /\ b \in Seq(E)
        /\ Len(b) = (IF p + 1 <= Len(s) THEN Len(s) - (p + 1) + 1 ELSE 0)
        /\ \A i \in 1..(Len(s) - (p + 1) + 1) : b[i] = s[(p + 1) + i - 1]
    BY <1>1, <2>1, SubSeqProperties
  <2> QED
    BY <1>1, <2>2
<1> HIDE DEF a, b
<1>4. <<v>> \in Seq(E) /\ Len(<<v>>) = 1 /\ <<v>>[1] = v
  OBVIOUS
<1>5. /\ a \o <<v>> \in Seq(E) /\ Len(a \o <<v>>) = p + 1
      /\ \A i \in 1..(p + 1) : (a \o <<v>>)[i] = IF i <= p THEN s[i] ELSE v
  <2>1. /\ a \o <<v>> \in Seq(E) /\ Len(a \o <<v>>) = p + 1
        /\ \A i \in 1..(p + 1) : (a \o <<v>>)[i] = IF i <= p THEN a[i] ELSE <<v>>[i - p]
    BY <1>2, <1>4, ConcatProperties
  <2> QED
    BY <1>1, <1>2, <1>4, <2>1
<1>6. PICK h \in Seq(E) : h = a \o <<v>> /\ Len(h) = p + 1
  BY <1>5
<1>7. /\ h \o b \in Seq(E) /\ Len(h \o b) = (p + 1) + (Len(s) - p)
      /\ \A i \in 1..((p + 1) + (Len(s) - p)) :
           (h \o b)[i] = IF i <= p + 1 THEN h[i] ELSE b[i - (p + 1)]
  <2>1. /\ h \o b \in Seq(E) /\ Len(h \o b) = Len(h) + Len(b)
        /\ \A i \in 1..(Len(h) + Len(b)) :
             (h \o b)[i] = IF i <= Len(h) THEN h[i] ELSE b[i - Len(h)]
    BY <1>3, ConcatProperties, Zenon
  <2> QED
    BY <1>3, <1>6, <2>1
<1>8. Len(h \o b) = Len(s) + 1
  BY <1>1, <1>7
<1>9. ASSUME NEW i \in 1..(Len(s) + 1)
      PROVE  (h \o b)[i] = IF i <= p THEN s[i] ELSE IF i = p + 1 THEN v ELSE s[i - 1]
  <2>1. (h \o b)[i] = IF i <= p + 1 THEN h[i] ELSE b[i - (p + 1)]
    BY <1>1, <1>7
  <2>2. CASE i <= p + 1
    BY <1>1, <1>5, <1>6, <2>1, <2>2
  <2>3. CASE ~(i <= p + 1)
    <3>1. i - (p + 1) \in 1..(Len(s) - p) /\ p + (i - (p + 1)) = i - 1
      BY <1>1, <2>3
    <3> QED
      BY <1>1, <1>3, <2>1, <2>3, <3>1
  <2> QED
    BY <2>2, <2>3
<1> QED
  BY <1>6, <1>7, <1>8, <1>9 DEF a, b, InsertBehind

(***************************************************************************)
(* The indexes.                                                            *)
(***************************************************************************)
\* What the indexes said before the write under way changed the store.
Before == IF writing.op \in {"add", "update", "remove"}
          THEN [store EXCEPT ![writing.key] = writing.old] ELSE store

\* Index n holds what the values f of the keys say.
WordsOf(f, k) == IF f[k] = 0 THEN {} ELSE X!Range(X!Tokenize(f[k]))
Pairs(f) == {<<f[k], k>> : k \in {j \in DbKeys : f[j] # 0}}
Follows(n, f) ==
  /\ n \in X!Tables => table[n] = Pairs(f)
  /\ n = "fulltext" => /\ docTerms = [k \in DbKeys |-> WordsOf(f, k)]
                       /\ terms = [w \in X!Words |-> {k \in DbKeys : w \in WordsOf(f, k)}]
  /\ n = "inverted" => postings = [w \in X!Words |-> [k \in DbKeys |->
                                     IF f[k] = 0 THEN {} ELSE X!PositionsOf(w, f[k])]]

\* The write under way: the old value it read and the new one it wrote.
WriteInv ==
  /\ reentrant \in BOOLEAN
  /\ mutex \in {"free", "creator", "stuck"}
  /\ store \in [DbKeys -> X!Values \cup {0}]
  /\ exists \subseteq X!Kinds
  /\ DOMAIN table = X!Tables
  /\ writing.op \in {"none", "add", "update", "remove", "thrown"}
  /\ writing.op # "none" => /\ writing.key \in DbKeys
                            /\ store[writing.key] = writing.new
  /\ writing.op = "add" => writing.old = 0 /\ writing.new \in X!Values
  /\ writing.op = "update" => writing.old \in X!Values /\ writing.new \in X!Values
  /\ writing.op = "remove" => writing.old \in X!Values /\ writing.new = 0

\* A creation works on the store before or after the write that waits for it.
BuildInv ==
  mutex = "creator" =>
    /\ building.kind \in X!Kinds
    /\ building.view \in [DbKeys -> X!Values \cup {0}]
    /\ writing.op # "thrown" => building.view \in {store, Before}

\* Until a write is thrown out every index says what the store says, before or
\* after the write under way.
ContentInv ==
  writing.op # "thrown" => \A n \in exists : Follows(n, store) \/ Follows(n, Before)

\* The unique index maps a value to one key.
OneOwner ==
  "unique" \in exists =>
    \A v \in X!Values, j, k \in DbKeys :
       <<v, j>> \in table["unique"] /\ <<v, k>> \in table["unique"] => j = k

IndexInv == WriteInv /\ BuildInv /\ ContentInv /\ OneOwner /\ X!CreationWedges

-----------------------------------------------------------------------------
\* Values are numbered from 1, so none of them is NoValue.
LEMMA ValueFacts ==
  X!Values \subseteq Nat \ {0}
BY IndexValues DEF X!Values

\* The two stores differ at the key of the write only.
LEMMA BeforeFacts ==
  ASSUME WriteInv, writing.op \in {"add", "update", "remove"}
  PROVE  /\ writing.key \in DbKeys /\ store[writing.key] = writing.new
         /\ Before[writing.key] = writing.old
         /\ \A k \in DbKeys \ {writing.key} : Before[k] = store[k]
         /\ writing.old = writing.new => Before = store
         /\ writing.new = 0 <=> writing.op = "remove"
<1>1. /\ Before = [store EXCEPT ![writing.key] = writing.old]
      /\ writing.key \in DbKeys /\ store[writing.key] = writing.new
      /\ store \in [DbKeys -> X!Values \cup {0}]
  BY DEF WriteInv, Before
<1>2. writing.new = 0 <=> writing.op = "remove"
  BY ValueFacts DEF WriteInv
<1> QED
  BY <1>1, <1>2

\* What a write leaves in a table index is what the new store says, whichever of
\* the two stores the index was filled from.
LEMMA TableChange ==
  ASSUME WriteInv, writing.op \in {"add", "update", "remove"},
         NEW n \in exists, n \in X!Tables,
         Follows(n, store) \/ Follows(n, Before)
  PROVE  X!Changed(n) = Pairs(store)
<1>1. /\ writing.key \in DbKeys /\ store[writing.key] = writing.new
      /\ Before[writing.key] = writing.old
      /\ \A k \in DbKeys \ {writing.key} : store[k] = Before[k]
      /\ writing.old = writing.new => Before = store
  BY BeforeFacts
<1>2. table[n] = Pairs(store) \/ table[n] = Pairs(Before)
  BY DEF Follows
<1>3. PICK S, old, new, key, f, g :
        /\ S = table[n] /\ old = writing.old /\ new = writing.new /\ key = writing.key
        /\ f = store /\ g = Before
  OBVIOUS
<1>4. /\ old = 0 /\ new # 0 => S \cup {<<new, key>>} = Pairs(f)
      /\ new = 0 => S \ {<<old, key>>} = Pairs(f)
      /\ old # 0 /\ new # 0 /\ new # old => (S \ {<<old, key>>}) \cup {<<new, key>>} = Pairs(f)
  <2>1. /\ key \in DbKeys /\ f[key] = new /\ g[key] = old
        /\ \A k \in DbKeys \ {key} : f[k] = g[k]
        /\ S = Pairs(f) \/ S = Pairs(g)
    BY <1>1, <1>2, <1>3
  <2>2. \A v, k : <<v, k>> \in Pairs(f) <=> k \in DbKeys /\ v = f[k] /\ v # 0
    BY DEF Pairs
  <2>3. \A v, k : <<v, k>> \in Pairs(g) <=> k \in DbKeys /\ v = g[k] /\ v # 0
    BY DEF Pairs
  <2>4. \A e \in Pairs(f) \cup Pairs(g) : \E v, k : e = <<v, k>>
    BY DEF Pairs
  <2> HIDE DEF Pairs
  <2>5. ASSUME old = 0, new # 0 PROVE S \cup {<<new, key>>} = Pairs(f)
    <3>1. ASSUME NEW v, NEW k
          PROVE  <<v, k>> \in S \cup {<<new, key>>} <=> <<v, k>> \in Pairs(f)
      <4>1. CASE k = key
        BY <2>1, <2>2, <2>3, <2>5, <4>1
      <4>2. CASE k # key
        BY <2>1, <2>2, <2>3, <4>2
      <4> QED
        BY <4>1, <4>2
    <3> QED
      BY <2>1, <2>4, <3>1
  <2>6. ASSUME new = 0 PROVE S \ {<<old, key>>} = Pairs(f)
    <3>1. ASSUME NEW v, NEW k
          PROVE  <<v, k>> \in S \ {<<old, key>>} <=> <<v, k>> \in Pairs(f)
      BY <2>1, <2>2, <2>3, <2>6
    <3> QED
      BY <2>1, <2>4, <3>1
  <2>7. ASSUME old # 0, new # 0, new # old
        PROVE  (S \ {<<old, key>>}) \cup {<<new, key>>} = Pairs(f)
    <3>1. ASSUME NEW v, NEW k
          PROVE  <<v, k>> \in (S \ {<<old, key>>}) \cup {<<new, key>>} <=> <<v, k>> \in Pairs(f)
      BY <2>1, <2>2, <2>3, <2>7
    <3> QED
      BY <2>1, <2>4, <3>1
  <2> QED
    BY <2>5, <2>6, <2>7
<1>5. CASE writing.op = "add"
  BY <1>3, <1>4, <1>5, ValueFacts DEF X!Changed, X!Inserted, WriteInv
<1>6. CASE writing.op = "remove"
  BY <1>3, <1>4, <1>6, ValueFacts DEF X!Changed, X!Removed, WriteInv
<1>7. CASE writing.op = "update"
  <2>1. old # 0 /\ new # 0
    BY <1>3, <1>7, ValueFacts DEF WriteInv
  <2>2. X!Changed(n) = IF old = new THEN S
                       ELSE (S \ {<<old, key>>}) \cup {<<new, key>>}
    BY <1>3, <1>7 DEF X!Changed, X!Updated, X!Removed, X!Inserted
  <2> QED
    BY <1>1, <1>2, <1>3, <1>4, <2>1, <2>2
<1> QED
  BY <1>5, <1>6, <1>7

\* The write brings every index that exists to the new store.
LEMMA UpdateFollows ==
  ASSUME WriteInv, ContentInv, X!UpdateIndexes, NEW n \in exists
  PROVE  Follows(n, store)'
<1> DEFINE k == writing.key
           v == writing.new
           same == writing.op = "update" /\ writing.old = v
<1>1. /\ writing.op \in {"add", "update", "remove"}
      /\ table' = [m \in X!Tables |-> X!Changed(m)]
      /\ store' = store
  BY DEF X!UpdateIndexes
<1>2. Follows(n, store) \/ Follows(n, Before)
  BY <1>1 DEF ContentInv
<1>3. /\ k \in DbKeys /\ store[k] = v /\ Before[k] = writing.old
      /\ \A j \in DbKeys \ {k} : Before[j] = store[j]
      /\ writing.old = v => Before = store
      /\ v = 0 <=> writing.op = "remove"
  BY <1>1, BeforeFacts
<1>4. ASSUME n \in X!Tables
      PROVE  table'[n] = Pairs(store)
  BY <1>1, <1>2, <1>4, TableChange
<1>5. ASSUME n = "fulltext"
      PROVE  /\ docTerms' = [j \in DbKeys |-> WordsOf(store, j)]
             /\ terms' = [w \in X!Words |-> {j \in DbKeys : w \in WordsOf(store, j)}]
  <2>1. PICK f \in {store, Before} :
          /\ docTerms = [j \in DbKeys |-> WordsOf(f, j)]
          /\ terms = [w \in X!Words |-> {j \in DbKeys : w \in WordsOf(f, j)}]
    BY <1>2, <1>5 DEF Follows
  <2>2. \A j \in DbKeys \ {k} : WordsOf(f, j) = WordsOf(store, j)
    BY <1>3 DEF WordsOf
  <2>3. docTerms[k] = WordsOf(f, k)
    BY <1>3, <2>1
  <2>4. CASE same
    BY <1>3, <1>5, <2>1, <2>4 DEF X!UpdateIndexes
  <2>5. CASE ~same /\ v = 0
    <3>1. /\ terms' = [w \in X!Words |-> IF w \in docTerms[k] THEN terms[w] \ {k} ELSE terms[w]]
          /\ docTerms' = [docTerms EXCEPT ![k] = {}]
      BY <1>5, <2>5 DEF X!UpdateIndexes, X!TermsWithout, X!NoValue
    <3>2. WordsOf(store, k) = {}
      BY <1>3, <2>5 DEF WordsOf
    <3>3. docTerms' = [j \in DbKeys |-> WordsOf(store, j)]
      BY <1>3, <2>1, <2>2, <3>1, <3>2
    <3>4. ASSUME NEW w \in X!Words
          PROVE  (IF w \in docTerms[k] THEN terms[w] \ {k} ELSE terms[w])
                   = {j \in DbKeys : w \in WordsOf(store, j)}
      BY <1>3, <2>1, <2>2, <2>3, <3>2
    <3> QED
      BY <3>1, <3>3, <3>4
  <2>6. CASE ~same /\ v # 0
    <3>1. /\ terms' = [w \in X!Words |-> IF w \in X!Range(X!Tokenize(v))
                          THEN (IF w \in docTerms[k] THEN terms[w] \ {k} ELSE terms[w]) \cup {k}
                          ELSE (IF w \in docTerms[k] THEN terms[w] \ {k} ELSE terms[w])]
          /\ docTerms' = [docTerms EXCEPT ![k] = X!Range(X!Tokenize(v))]
      BY <1>5, <2>6 DEF X!UpdateIndexes, X!TermsWith, X!TermsWithout, X!NoValue
    <3>2. WordsOf(store, k) = X!Range(X!Tokenize(v))
      BY <1>3, <2>6 DEF WordsOf
    <3>3. docTerms' = [j \in DbKeys |-> WordsOf(store, j)]
      BY <1>3, <2>1, <2>2, <3>1, <3>2
    <3>4. ASSUME NEW w \in X!Words
          PROVE  (IF w \in X!Range(X!Tokenize(v))
                    THEN (IF w \in docTerms[k] THEN terms[w] \ {k} ELSE terms[w]) \cup {k}
                    ELSE (IF w \in docTerms[k] THEN terms[w] \ {k} ELSE terms[w]))
                   = {j \in DbKeys : w \in WordsOf(store, j)}
      BY <1>3, <2>1, <2>2, <2>3, <3>2
    <3> QED
      BY <3>1, <3>3, <3>4
  <2> QED
    BY <2>4, <2>5, <2>6
<1>6. ASSUME n = "inverted"
      PROVE  postings' = [w \in X!Words |-> [j \in DbKeys |->
                            IF store[j] = 0 THEN {} ELSE X!PositionsOf(w, store[j])]]
  <2> DEFINE At(f, w, j) == IF f[j] = 0 THEN {} ELSE X!PositionsOf(w, f[j])
  <2>1. PICK f \in {store, Before} : postings = [w \in X!Words |-> [j \in DbKeys |-> At(f, w, j)]]
    BY <1>2, <1>6 DEF Follows
  <2>2. \A w \in X!Words : \A j \in DbKeys \ {k} : At(f, w, j) = At(store, w, j)
    BY <1>3
  <2>3. \A w \in X!Words : postings[w] = [j \in DbKeys |-> At(f, w, j)]
    BY <2>1
  <2>4. CASE same
    BY <1>3, <1>6, <2>1, <2>4 DEF X!UpdateIndexes
  <2>5. CASE ~same /\ v = 0
    <3>1. postings' = [w \in X!Words |-> [postings[w] EXCEPT ![k] = {}]]
      BY <1>6, <2>5 DEF X!UpdateIndexes, X!DocumentRemoved, X!NoValue
    <3>2. \A w \in X!Words : At(store, w, k) = {}
      BY <1>3, <2>5
    <3> HIDE DEF At
    <3>3. ASSUME NEW w \in X!Words
          PROVE  [postings[w] EXCEPT ![k] = {}] = [j \in DbKeys |-> At(store, w, j)]
      <4>1. [postings[w] EXCEPT ![k] = {}] = [j \in DbKeys |-> IF j = k THEN {} ELSE At(f, w, j)]
        BY <2>3
      <4> QED
        BY <1>3, <2>2, <3>2, <4>1
    <3>4. postings' = [w \in X!Words |-> [j \in DbKeys |-> At(store, w, j)]]
      BY <3>1, <3>3
    <3> QED
      BY <3>4 DEF At
  <2>6. CASE ~same /\ v # 0
    <3>1. postings' = [w \in X!Words |->
                         [[postings[w] EXCEPT ![k] = {}] EXCEPT ![k] = X!PositionsOf(w, v)]]
      <4>1. postings' = [w \in X!Words |->
              [X!DocumentRemoved(postings, k)[w] EXCEPT ![k] = X!PositionsOf(w, v)]]
        BY <1>6, <2>6 DEF X!UpdateIndexes, X!DocumentAdded, X!NoValue
      <4>2. \A w \in X!Words : X!DocumentRemoved(postings, k)[w] = [postings[w] EXCEPT ![k] = {}]
        BY DEF X!DocumentRemoved
      <4> QED
        BY <4>1, <4>2
    <3>2. \A w \in X!Words : At(store, w, k) = X!PositionsOf(w, v)
      BY <1>3, <2>6
    <3> HIDE DEF At
    <3>3. ASSUME NEW w \in X!Words
          PROVE  [[postings[w] EXCEPT ![k] = {}] EXCEPT ![k] = X!PositionsOf(w, v)]
                   = [j \in DbKeys |-> At(store, w, j)]
      <4>1. [[postings[w] EXCEPT ![k] = {}] EXCEPT ![k] = X!PositionsOf(w, v)]
              = [j \in DbKeys |-> IF j = k THEN X!PositionsOf(w, v) ELSE At(f, w, j)]
        BY <2>3
      <4> QED
        BY <1>3, <2>2, <3>2, <4>1
    <3>4. postings' = [w \in X!Words |-> [j \in DbKeys |-> At(store, w, j)]]
      BY <3>1, <3>3
    <3> QED
      BY <3>4 DEF At
  <2> QED
    BY <2>4, <2>5, <2>6
<1>7. \A j \in DbKeys : WordsOf(store, j)' = WordsOf(store, j)
  BY <1>1 DEF WordsOf
<1> QED
  BY <1>1, <1>4, <1>5, <1>6, <1>7 DEF Follows, WordsOf

\* A write begins: what the indexes held of the store they now hold of the store
\* before the write.
LEMMA BeginKeeps ==
  ASSUME IndexInv, NEW k \in DbKeys, NEW v \in X!Values, X!BeginDel(k) \/ X!BeginPut(k, v)
  PROVE  IndexInv'
<1>1. /\ writing.op = "none"
      /\ UNCHANGED <<reentrant, mutex, building, exists, table, terms, docTerms, postings>>
  BY DEF X!BeginDel, X!BeginPut, X!NoWrite
<1>2. PICK o \in {"add", "update", "remove"}, new \in X!Values \cup {0} :
        /\ writing' = [op |-> o, key |-> k, old |-> store[k], new |-> new]
        /\ store' = [store EXCEPT ![k] = new]
        /\ o = "add" => store[k] = 0 /\ new # 0
        /\ o = "update" => store[k] # 0 /\ new # 0
        /\ o = "remove" => store[k] # 0 /\ new = 0
  BY ValueFacts DEF X!BeginDel, X!BeginPut, X!NoValue, IndexInv, WriteInv
<1>3. Before = store
  BY <1>1 DEF Before
<1>4. Before' = store
  BY <1>2 DEF Before, IndexInv, WriteInv
<1>5. WriteInv'
  BY <1>1, <1>2, ValueFacts DEF IndexInv, WriteInv
<1>6. BuildInv'
  BY <1>1, <1>3, <1>4 DEF IndexInv, BuildInv
<1>7. ASSUME NEW n \in exists, Follows(n, store)
      PROVE  Follows(n, Before)'
  <2>1. \A j \in DbKeys : WordsOf(Before, j)' = WordsOf(store, j)
    BY <1>4 DEF WordsOf
  <2> QED
    BY <1>1, <1>4, <1>7, <2>1 DEF Follows, WordsOf
<1>8. ContentInv'
  BY <1>1, <1>3, <1>7 DEF IndexInv, ContentInv
<1> QED
  BY <1>1, <1>5, <1>6, <1>8 DEF IndexInv, OneOwner, X!CreationWedges

\* A value that has an owner in the unique index keeps it.
LEMMA UpdateKeeps ==
  ASSUME IndexInv, X!UpdateIndexes
  PROVE  IndexInv'
<1> DEFINE k == writing.key
           v == writing.new
<1>1. /\ writing.op \in {"add", "update", "remove"}
      /\ mutex = "free" /\ ~X!Refused
      /\ table' = [m \in X!Tables |-> X!Changed(m)]
      /\ writing' = X!NoWrite /\ writing'.op = "none"
      /\ UNCHANGED <<reentrant, mutex, store, building, exists>>
  BY DEF X!UpdateIndexes, X!NoWrite
<1>2. WriteInv'
  BY <1>1 DEF IndexInv, WriteInv
<1>3. BuildInv'
  BY <1>1 DEF BuildInv
<1>4. ContentInv'
  <2>1. ASSUME NEW n \in exists' PROVE Follows(n, store)'
    BY <1>1, <2>1, UpdateFollows DEF IndexInv
  <2> QED
    BY <2>1 DEF ContentInv
<1>5. OneOwner'
  <2> SUFFICES ASSUME "unique" \in exists
               PROVE  \A u \in X!Values, i, j \in DbKeys :
                        <<u, i>> \in X!Changed("unique") /\ <<u, j>> \in X!Changed("unique") => i = j
    BY <1>1 DEF OneOwner, X!Tables
  <2>1. \A u \in X!Values, i, j \in DbKeys :
           <<u, i>> \in table["unique"] /\ <<u, j>> \in table["unique"] => i = j
    BY DEF IndexInv, OneOwner
  <2>2. X!Changed("unique") \subseteq table["unique"] \cup {<<v, k>>}
    BY <1>1 DEF X!Changed, X!Inserted, X!Updated, X!Removed
  <2>3. CASE writing.op = "remove" \/ (writing.op = "update" /\ writing.old = v)
    <3>1. X!Changed("unique") \subseteq table["unique"]
      BY <2>3 DEF X!Changed, X!Updated, X!Removed
    <3> QED
      BY <2>1, <3>1
  <2>4. CASE writing.op = "add" \/ (writing.op = "update" /\ writing.old # v)
    <3>1. X!UniqueAllows(table["unique"], v, k)
      BY <1>1, <2>4 DEF X!Refused
    <3>2. \A j \in DbKeys : <<v, j>> \in table["unique"] => j = k
      BY <3>1 DEF X!UniqueAllows
    <3> QED
      BY <2>1, <2>2, <3>2
  <2> QED
    BY <1>1, <2>3, <2>4
<1> QED
  BY <1>1, <1>2, <1>3, <1>4, <1>5 DEF IndexInv, X!CreationWedges

\* A refused write touches no entry of the unique index.
LEMMA ViolationKeeps ==
  ASSUME IndexInv, X!UniqueViolation
  PROVE  IndexInv'
<1>1. /\ mutex = "free" /\ writing'.op = "thrown"
      /\ writing'.key = writing.key /\ writing'.new = writing.new
      /\ UNCHANGED <<reentrant, mutex, store, building, exists>>
  BY DEF X!UniqueViolation, IndexInv, WriteInv
<1>2. DOMAIN table' = X!Tables /\ table'["unique"] = table["unique"]
  BY DEF X!UniqueViolation, X!Tables, IndexInv, WriteInv
<1>3. WriteInv'
  BY <1>1, <1>2 DEF X!UniqueViolation, IndexInv, WriteInv
<1> QED
  BY <1>1, <1>2, <1>3 DEF IndexInv, BuildInv, ContentInv, OneOwner, X!CreationWedges

\* An index whose contents went with it, or that is not there yet, leaves the
\* others as they are.
LEMMA EmptiedKeeps ==
  ASSUME NEW n, X!Emptied(n), DOMAIN table = X!Tables
  PROVE  /\ DOMAIN table' = X!Tables
         /\ \A m \in X!Tables \ {n} : table'[m] = table[m]
         /\ n # "fulltext" => terms' = terms /\ docTerms' = docTerms
         /\ n # "inverted" => postings' = postings
BY DEF X!Emptied

\* A creation starts, and a rebuild first drops the index.
LEMMA StartKeeps ==
  ASSUME IndexInv, NEW n \in X!Kinds, X!StartCreate(n) \/ X!StartRebuild(n) \/ X!DropIndex(n)
  PROVE  IndexInv'
<1>1. UNCHANGED <<reentrant, store, writing>>
  BY DEF X!StartCreate, X!StartRebuild, X!DropIndex
<1>2. Before' = Before
  BY <1>1 DEF Before
<1>3. /\ exists' \subseteq exists
      /\ DOMAIN table' = X!Tables
      /\ \A m \in exists' \cap X!Tables : table'[m] = table[m]
      /\ "fulltext" \in exists' => terms' = terms /\ docTerms' = docTerms
      /\ "inverted" \in exists' => postings' = postings
  BY EmptiedKeeps DEF X!StartCreate, X!StartRebuild, X!DropIndex, IndexInv, WriteInv
<1>4. /\ mutex = "free"
      /\ mutex' \in {"free", "creator", "stuck"}
      /\ mutex' = "creator" => building' = [kind |-> n, view |-> store]
      /\ ~reentrant /\ exists' # {} => mutex' = "stuck"
  BY DEF X!StartCreate, X!StartRebuild, X!DropIndex, IndexInv, X!CreationWedges
<1>5. WriteInv'
  BY <1>1, <1>3, <1>4 DEF IndexInv, WriteInv
<1>6. BuildInv'
  BY <1>1, <1>2, <1>4 DEF IndexInv, WriteInv, BuildInv
<1>7. ASSUME NEW m \in exists'
      PROVE  /\ Follows(m, store) => Follows(m, store)'
             /\ Follows(m, Before) => Follows(m, Before)'
  <2>1. \A j \in DbKeys : /\ WordsOf(store, j)' = WordsOf(store, j)
                          /\ WordsOf(Before, j)' = WordsOf(Before, j)
    BY <1>1, <1>2 DEF WordsOf
  <2> QED
    BY <1>1, <1>2, <1>3, <1>7, <2>1 DEF Follows
<1>8. ContentInv'
  BY <1>1, <1>3, <1>7 DEF IndexInv, ContentInv
<1>9. OneOwner'
  BY <1>3 DEF IndexInv, OneOwner, X!Tables
<1> QED
  BY <1>1, <1>4, <1>5, <1>6, <1>8, <1>9 DEF IndexInv, X!CreationWedges

\* A creation ends: the new index says what the view it was built from says.
LEMMA FinishKeeps ==
  ASSUME IndexInv, X!FinishCreate
  PROVE  IndexInv'
<1> DEFINE n == building.kind
           view == building.view
           Refusal == n = "unique" /\ X!Clash
<1>1. /\ UNCHANGED <<reentrant, store, writing>>
      /\ mutex = "creator" /\ mutex' \in {"free", "stuck"}
      /\ n \in X!Kinds /\ view \in [DbKeys -> X!Values \cup {0}]
  BY DEF X!FinishCreate, X!MutexAfterStats, IndexInv, BuildInv
<1>2. Before' = Before
  BY <1>1 DEF Before
<1>3. CASE Refusal
  <2>1. UNCHANGED <<exists, table, terms, docTerms, postings>>
    BY <1>3 DEF X!FinishCreate
  <2>2. WriteInv' /\ BuildInv'
    BY <1>1, <2>1 DEF IndexInv, WriteInv, BuildInv
  <2>3. \A j \in DbKeys : /\ WordsOf(store, j)' = WordsOf(store, j)
                          /\ WordsOf(Before, j)' = WordsOf(Before, j)
    BY <1>1, <1>2 DEF WordsOf
  <2>4. \A m \in exists : /\ Follows(m, store) => Follows(m, store)'
                          /\ Follows(m, Before) => Follows(m, Before)'
    BY <1>1, <1>2, <2>1, <2>3 DEF Follows
  <2>5. exists = {} \/ reentrant
    BY <1>1 DEF IndexInv, X!CreationWedges
  <2> QED
    BY <1>1, <2>1, <2>2, <2>4, <2>5 DEF IndexInv, ContentInv, OneOwner, X!CreationWedges
<1>4. CASE ~Refusal
  <2>1. /\ exists' = exists \cup {n}
        /\ mutex' = IF reentrant THEN "free" ELSE "stuck"
        /\ DOMAIN table' = X!Tables
        /\ \A m \in X!Tables \ {n} : table'[m] = table[m]
        /\ n # "fulltext" => terms' = terms /\ docTerms' = docTerms
        /\ n # "inverted" => postings' = postings
    BY <1>4 DEF X!FinishCreate, X!MutexAfterStats, IndexInv, WriteInv
  <2>2. n \in X!Tables => table'[n] = Pairs(view)
    BY <1>4 DEF X!FinishCreate, X!Indexed, X!NoValue, Pairs, IndexInv, WriteInv
  <2>3. ASSUME n = "fulltext"
        PROVE  /\ docTerms' = [k \in DbKeys |-> WordsOf(view, k)]
               /\ terms' = [w \in X!Words |-> {k \in DbKeys : w \in WordsOf(view, k)}]
    <3>1. /\ docTerms' = [k \in DbKeys |-> IF k \in X!Indexed
                            THEN X!Range(X!Tokenize(view[k])) ELSE {}]
          /\ terms' = [w \in X!Words |-> {k \in X!Indexed : w \in X!Range(X!Tokenize(view[k]))}]
      BY <1>4, <2>3 DEF X!FinishCreate
    <3>2. \A k \in DbKeys : WordsOf(view, k) =
                              IF k \in X!Indexed THEN X!Range(X!Tokenize(view[k])) ELSE {}
      BY DEF WordsOf, X!Indexed, X!NoValue
    <3>3. \A w \in X!Words : {k \in X!Indexed : w \in X!Range(X!Tokenize(view[k]))}
                               = {k \in DbKeys : w \in WordsOf(view, k)}
      BY <3>2 DEF X!Indexed
    <3> QED
      BY <3>1, <3>2, <3>3
  <2>4. ASSUME n = "inverted"
        PROVE  postings' = [w \in X!Words |-> [k \in DbKeys |->
                              IF view[k] = 0 THEN {} ELSE X!PositionsOf(w, view[k])]]
    <3>1. postings' = [w \in X!Words |-> [k \in DbKeys |->
                         IF k \in X!Indexed THEN X!PositionsOf(w, view[k]) ELSE {}]]
      BY <1>4, <2>4 DEF X!FinishCreate
    <3>2. \A k \in DbKeys : k \in X!Indexed <=> view[k] # 0
      BY DEF X!Indexed, X!NoValue
    <3> QED
      BY <3>1, <3>2
  <2>5. WriteInv' /\ BuildInv'
    BY <1>1, <2>1 DEF IndexInv, WriteInv, BuildInv
  <2>6. \A j \in DbKeys : /\ WordsOf(store, j)' = WordsOf(store, j)
                          /\ WordsOf(Before, j)' = WordsOf(Before, j)
    BY <1>1, <1>2 DEF WordsOf
  <2>7. ContentInv'
    <3> SUFFICES ASSUME writing.op # "thrown", NEW m \in exists \cup {n}
                 PROVE  Follows(m, store)' \/ Follows(m, Before)'
      BY <1>1, <2>1 DEF ContentInv
    <3>1. CASE m = n
      <4>1. view = store \/ view = Before
        BY <1>1 DEF IndexInv, BuildInv
      <4>2. ASSUME view = store PROVE Follows(m, store)'
        BY <1>1, <3>1, <2>2, <2>3, <2>4, <2>6, <4>2 DEF Follows
      <4>3. ASSUME view = Before PROVE Follows(m, Before)'
        BY <1>2, <3>1, <2>2, <2>3, <2>4, <2>6, <4>3 DEF Follows
      <4> QED
        BY <4>1, <4>2, <4>3
    <3>2. CASE m \in exists /\ m # n
      <4>1. Follows(m, store) \/ Follows(m, Before)
        BY <3>2 DEF IndexInv, ContentInv
      <4> QED
        BY <1>1, <1>2, <2>1, <2>6, <3>2, <4>1 DEF Follows
    <3> QED
      BY <3>1, <3>2
  <2>8. OneOwner'
    <3>1. CASE n = "unique"
      <4>1. ~X!Clash /\ "unique" \in X!Tables
        BY <1>4, <3>1 DEF X!Tables
      <4>2. \A v, k : <<v, k>> \in table'["unique"] => k \in X!Indexed /\ view[k] = v
        BY <2>2, <3>1, <4>1 DEF Pairs, X!Indexed, X!NoValue
      <4> QED
        BY <4>1, <4>2 DEF OneOwner, X!Clash
    <3>2. CASE n # "unique"
      BY <2>1, <3>2 DEF IndexInv, OneOwner, X!Tables
    <3> QED
      BY <3>1, <3>2
  <2> QED
    BY <1>1, <2>1, <2>5, <2>7, <2>8 DEF IndexInv, X!CreationWedges
<1> QED
  BY <1>3, <1>4

\* Every step of writers and creators keeps the invariant.
LEMMA IndexStep ==
  ASSUME IndexInv, [X!IndexNext]_(X!indexVars)
  PROVE  IndexInv'
<1>1. CASE UNCHANGED X!indexVars
  <2>1. UNCHANGED <<reentrant, mutex, store, writing, building, exists, table, terms,
                    docTerms, postings>>
    BY <1>1 DEF X!indexVars
  <2>2. Before' = Before
    BY <2>1 DEF Before
  <2>3. \A j \in DbKeys : /\ WordsOf(store, j)' = WordsOf(store, j)
                          /\ WordsOf(Before, j)' = WordsOf(Before, j)
    BY <2>1, <2>2 DEF WordsOf
  <2>4. \A m \in exists : /\ Follows(m, store) => Follows(m, store)'
                          /\ Follows(m, Before) => Follows(m, Before)'
    BY <2>1, <2>2, <2>3 DEF Follows
  <2>5. ContentInv'
    BY <2>1, <2>4 DEF IndexInv, ContentInv
  <2> QED
    BY <2>1, <2>2, <2>5 DEF IndexInv, WriteInv, BuildInv, OneOwner, X!CreationWedges
<1>2. CASE X!IndexNext
  <2>1. ASSUME NEW k \in DbKeys, X!BeginDel(k) PROVE IndexInv'
    <3>1. CASE X!Values = {}
      <4>1. store[k] = 0
        BY <3>1 DEF IndexInv, WriteInv
      <4> QED
        BY <2>1, <4>1 DEF X!BeginDel, X!NoValue
    <3>2. CASE X!Values # {}
      <4>1. PICK v \in X!Values : TRUE
        BY <3>2
      <4> QED
        BY <2>1, <4>1, BeginKeeps
    <3> QED
      BY <3>1, <3>2
  <2>2. ASSUME NEW k \in DbKeys, NEW v \in X!Values, X!BeginPut(k, v) PROVE IndexInv'
    BY <2>2, BeginKeeps
  <2>3. ASSUME NEW n \in X!Kinds, X!StartCreate(n) \/ X!StartRebuild(n) \/ X!DropIndex(n)
        PROVE  IndexInv'
    BY <2>3, StartKeeps
  <2> QED
    BY <1>2, <2>1, <2>2, <2>3, UpdateKeeps, ViolationKeeps, FinishKeeps DEF X!IndexNext
<1> QED
  BY <1>1, <1>2

\* The state before the first call.
LEMMA IndexInitial ==
  ASSUME X!IndexInit
  PROVE  IndexInv
<1> USE DEF X!IndexInit
<1>1. WriteInv
  BY DEF WriteInv, X!NoWrite, X!NoValue, X!Tables
<1>2. BuildInv /\ ContentInv /\ OneOwner /\ X!CreationWedges
  BY DEF BuildInv, ContentInv, OneOwner, X!CreationWedges
<1> QED
  BY <1>1, <1>2 DEF IndexInv

\* Two positions of which one is at most two behind the other.
LEMMA NearFacts ==
  ASSUME NEW w1, NEW w2, NEW v
  PROVE  (\E p \in X!PositionsOf(w1, v), q \in X!PositionsOf(w2, v) : p < q /\ q - p <= 2)
           <=> \E p \in X!PositionsOf(w1, v), d \in 1..2 : p + d \in X!PositionsOf(w2, v)
<1>1. X!PositionsOf(w1, v) \subseteq Int /\ X!PositionsOf(w2, v) \subseteq Int
  BY DEF X!PositionsOf
<1>2. ASSUME NEW p \in X!PositionsOf(w1, v), NEW q \in X!PositionsOf(w2, v), p < q, q - p <= 2
      PROVE  q - p \in 1..2 /\ p + (q - p) = q
  BY <1>1, <1>2
<1>3. ASSUME NEW p \in X!PositionsOf(w1, v), NEW d \in 1..2, p + d \in X!PositionsOf(w2, v)
      PROVE  p < p + d /\ (p + d) - p <= 2
  BY <1>1, <1>3
<1> QED
  BY <1>2, <1>3

\* What the invariant says of the indexes between two writes.
LEMMA IndexImplies ==
  ASSUME IndexInv
  PROVE  X!IndexesAgree
<1> USE DEF X!NoValue
<1>1. ASSUME X!Quiet, NEW n \in exists PROVE Follows(n, store)
  BY <1>1 DEF X!Quiet, X!NoWrite, IndexInv, ContentInv, Before
<1>2. X!IndexMatchesStore
  BY <1>1 DEF X!IndexMatchesStore, X!Entries, Follows, Pairs
<1>3. ASSUME "unique" \in exists, NEW v \in X!Values
      PROVE  Cardinality(X!ExactLookup(table["unique"], v)) <= 1
  <2>1. \A j, k \in X!ExactLookup(table["unique"], v) : j = k
    BY <1>3 DEF X!ExactLookup, IndexInv, OneOwner
  <2>2. CASE X!ExactLookup(table["unique"], v) = {}
    BY <2>2, FS_EmptySet
  <2>3. CASE X!ExactLookup(table["unique"], v) # {}
    <3>1. PICK k \in X!ExactLookup(table["unique"], v) : TRUE
      BY <2>3
    <3>2. X!ExactLookup(table["unique"], v) = {k}
      BY <2>1, <3>1
    <3>3. Cardinality({k}) = 1
      BY FS_Singleton
    <3> QED
      BY <3>2, <3>3
  <2> QED
    BY <2>2, <2>3
<1>4. ASSUME X!Quiet, "fulltext" \in exists, NEW w1 \in X!Words, NEW w2 \in X!Words
      PROVE  X!FullTextSearch({w1, w2}) = {k \in DbKeys : X!Holds(k, w1) /\ X!Holds(k, w2)}
  <2>1. \A w \in X!Words : terms[w] = {k \in DbKeys : w \in WordsOf(store, k)}
    BY <1>1, <1>4 DEF Follows
  <2>2. \A w \in X!Words, k \in DbKeys : k \in terms[w] <=> X!Holds(k, w)
    BY <2>1 DEF WordsOf, X!Holds
  <2> QED
    BY <2>2 DEF X!FullTextSearch
<1>5. ASSUME X!Quiet, "inverted" \in exists, NEW w1 \in X!Words, NEW w2 \in X!Words
      PROVE  X!PhraseSearch(w1, w2) =
               {k \in DbKeys : /\ store[k] # 0
                               /\ \E p \in X!PositionsOf(w1, store[k]),
                                     d \in 1..2 : p + d \in X!PositionsOf(w2, store[k])}
  <2>1. postings = [w \in X!Words |-> [k \in DbKeys |->
                       IF store[k] = 0 THEN {} ELSE X!PositionsOf(w, store[k])]]
    BY <1>1, <1>5 DEF Follows
  <2>2. \A w \in X!Words, k \in DbKeys :
          postings[w][k] = IF store[k] = 0 THEN {} ELSE X!PositionsOf(w, store[k])
    BY <2>1
  <2>3. ASSUME NEW k \in DbKeys
        PROVE  k \in X!PhraseSearch(w1, w2) <=>
                 /\ store[k] # 0
                 /\ \E p \in X!PositionsOf(w1, store[k]),
                       d \in 1..2 : p + d \in X!PositionsOf(w2, store[k])
    <3>1. k \in X!PhraseSearch(w1, w2) <=>
            \E p \in postings[w1][k], q \in postings[w2][k] : p < q /\ q - p <= 2
      BY <1>5 DEF X!PhraseSearch, X!SearchTermsAnd
    <3>2. CASE store[k] = 0
      BY <2>2, <3>1, <3>2
    <3>3. CASE store[k] # 0
      <4>1. /\ postings[w1][k] = X!PositionsOf(w1, store[k])
            /\ postings[w2][k] = X!PositionsOf(w2, store[k])
        BY <2>2, <3>3
      <4> QED
        BY <3>1, <3>3, <4>1, NearFacts
    <3> QED
      BY <3>2, <3>3
  <2>4. X!PhraseSearch(w1, w2) \subseteq DbKeys
    BY DEF X!PhraseSearch, X!SearchTermsAnd
  <2> QED
    BY <2>3, <2>4
<1>6. X!SearchFindsText
  BY <1>4, <1>5 DEF X!SearchFindsText
<1>7. X!CandidatesCover
  <2> SUFFICES ASSUME X!Quiet, "secondary" \in exists, NEW k \in DbKeys, store[k] \in 1..Tilde,
                      NEW v \in 1..Tilde
               PROVE  /\ store[k] = v => k \in X!Candidates(table["secondary"], "EQUALS", v)
                      /\ store[k] > v => k \in X!Candidates(table["secondary"], "GREATER_THAN", v)
                      /\ store[k] <= v => k \in X!Candidates(table["secondary"], "LESS_EQUAL", v)
    BY DEF X!CandidatesCover
  <2>1. store[k] \in X!Values /\ store[k] \in Nat /\ store[k] >= 1 /\ store[k] <= Tilde
    BY IndexValues DEF IndexInv, WriteInv
  <2>2. <<store[k], k>> \in table["secondary"]
    BY <1>1, <2>1 DEF Follows, Pairs, X!Tables
  <2>3. store[k] = v => k \in X!Candidates(table["secondary"], "EQUALS", v)
    BY <2>2 DEF X!Candidates, X!ExactLookup
  <2>4. store[k] > v => k \in X!Candidates(table["secondary"], "GREATER_THAN", v)
    <3>1. X!Candidates(table["secondary"], "GREATER_THAN", v)
            = X!RangeLookup(table["secondary"], v, Tilde)
      BY DEF X!Candidates
    <3> QED
      BY <2>1, <2>2, <3>1 DEF X!RangeLookup
  <2>5. store[k] <= v => k \in X!Candidates(table["secondary"], "LESS_EQUAL", v)
    <3>1. X!Candidates(table["secondary"], "LESS_EQUAL", v)
            = X!RangeLookup(table["secondary"], 1, v)
      BY DEF X!Candidates
    <3> QED
      BY <2>1, <2>2, <3>1 DEF X!RangeLookup
  <2> QED
    BY <2>3, <2>4, <2>5
<1> QED
  BY <1>2, <1>3, <1>6, <1>7 DEF X!IndexesAgree, X!UniqueHolds, X!Cardinality, Cardinality, IndexInv

-----------------------------------------------------------------------------
\* Each step of the bench is one of the index manager, or leaves it alone.
LEMMA IndexesAlone ==
  ASSUME [MCNext]_mcvars
  PROVE  [X!IndexNext]_(X!indexVars)
BY DEF MCNext, mcvars, indexes, X!indexVars

\* For any keys, texts, stop words and number of indexes: between writes every
\* index says what the store says, whatever creations, rebuilds, drops and
\* refused writes came before, a unique index never lists two keys under one
\* value, and as built the first creation is the last.
THEOREM IndexesStayRight == MCSpec => []IndexesAgree
<1>1. MCInit => IndexInv
  BY IndexInitial DEF MCInit
<1>2. IndexInv /\ [MCNext]_mcvars => IndexInv'
  BY IndexStep, IndexesAlone
<1>3. IndexInv => IndexesAgree
  BY IndexImplies DEF IndexesAgree
<1> QED
  BY <1>1, <1>2, <1>3, PTL DEF MCSpec

\* Whatever locks its own entry or the index manager a second time stops the
\* others for good: nothing passes the lock table, and the write that waits for
\* the indexes stays where it is.
THEOREM StuckStaysStuck == MCSpec => StuckForGood
<1> DEFINE PcTyped == pc \in [Txns -> {"idle", "table", "entry", "relock"}]
           Stays == ~P!TableFree => \A t \in Txns : pc[t] = "table" => pc'[t] = "table"
           Wedged == mutex = "stuck" =>
                       (mutex' = "stuck" /\ (writing # X!NoWrite => writing' = writing))
           Moves(t) == P!CallReleaseAll(t) \/ P!Proceed(t)
                       \/ \E r, m : P!Call(t, "acquire", r, m) \/ P!Call(t, "release", r, m)
<1>1. ASSUME [MCNext]_mcvars
      PROVE  UNCHANGED pc \/ \E t \in Txns : Moves(t)
  <2>1. CASE UNCHANGED lockVars
    BY <2>1 DEF lockVars, pvars
  <2>2. ASSUME NEW r, HybridStep(r) PROVE UNCHANGED pc \/ \E t \in Txns : Moves(t)
    BY <2>2 DEF HybridStep, acquire_lock, release_lock, release_all_locks, finish_release_all,
       PessimisticStep, set_strategy_for_transaction, set_default_strategy, pvars
  <2>3. ASSUME NEW t \in Txns, OptimisticStep(t) PROVE UNCHANGED pc
    BY <2>3 DEF OptimisticStep, pvars
  <2>4. CASE StatisticsStep
    BY <2>4 DEF StatisticsStep, set_default_strategy, update_conflict_statistics,
       enable_adaptive_strategy, pvars
  <2>5. ASSUME NEW t \in Txns, PessimisticUse(t) PROVE Moves(t)
    BY <2>5 DEF PessimisticUse
  <2> QED
    BY <1>1, <2>1, <2>2, <2>3, <2>4, <2>5 DEF MCNext, mcvars, OneManagerNext
<1>2. ASSUME PcTyped, NEW t \in Txns, Moves(t)
      PROVE  /\ PcTyped'
             /\ ~P!TableFree => pc[t] # "table"
             /\ \A u \in Txns : u # t => pc'[u] = pc[u]
  BY <1>2 DEF P!CallReleaseAll, P!Proceed, P!Call, P!get_or_create_lock_entry,
     P!acquire_lock, P!release_lock, P!release_all_step, P!Return
<1>3. MCInit => PcTyped
  BY DEF MCInit, LocksInit, P!Init
<1>4. PcTyped /\ [MCNext]_mcvars => PcTyped'
  BY <1>1, <1>2
<1>5. PcTyped /\ [MCNext]_mcvars => [Stays]_(P!vars)
  BY <1>1, <1>2
<1>6. [MCNext]_mcvars => [Wedged]_(X!indexVars)
  <2> SUFFICES ASSUME X!IndexNext PROVE Wedged
    BY IndexesAlone
  <2> QED
    BY DEF X!IndexNext, X!BeginDel, X!BeginPut, X!UpdateIndexes, X!UniqueViolation,
       X!StartCreate, X!StartRebuild, X!DropIndex, X!FinishCreate
<1> QED
  BY <1>3, <1>4, <1>5, <1>6, PTL
  DEF MCSpec, StuckForGood, StuckStopsTheTable, P!StuckStopsTheTable, X!WedgedStopsWrites

(***************************************************************************)
(* The MVCC manager.                                                       *)
(***************************************************************************)
\* A chain is in the order of its transactions, and of the writes of each.
InOrder(u, v) == u.txn < v.txn \/ (u.txn = v.txn /\ u.version < v.version)
Sorted(chain) == \A i, j \in DOMAIN chain : i < j => InOrder(chain[i], chain[j])

VersionRecord == [version : 1..MaxVersions, txn : Writers,
                  delete : Writers \cup {0}, committed : BOOLEAN]
ChainTypes ==
  /\ version_chains \in [Keys -> Seq(VersionRecord)]
  /\ global_timestamp \in 1..(MaxVersions + 1)
  /\ active_transactions \subseteq Writers
  /\ status \in [Writers -> {"running", "committed", "aborted"}]
  /\ committing \in [txn : Writers \cup {0}, left : SUBSET Keys]

\* Versions come from below the counter, and what is committed was written by a
\* transaction that has committed, or by the one that is committing.
Committed(k) ==
  \A i \in DOMAIN version_chains[k] :
    version_chains[k][i].committed => \/ status[version_chains[k][i].txn] = "committed"
                                      \/ committing.txn = version_chains[k][i].txn
Below(chain, g) == \A i \in DOMAIN chain : chain[i].version < g

ChainInv ==
  /\ ChainTypes
  /\ \A k \in Keys : /\ Sorted(version_chains[k])
                     /\ Below(version_chains[k], global_timestamp)
                     /\ Committed(k)
  /\ committing.txn = 0 => committing.left = {}
  /\ committing.txn # 0 => status[committing.txn] = "running"

-----------------------------------------------------------------------------
\* The operators that the manager takes from the libraries are those of the
\* lemmas above.
LEMMA SameInMVCC ==
  /\ \A S : M!Max(S) = Max(S) /\ M!Cardinality(S) = Cardinality(S)
  /\ \A S, n : M!Nth(S, n) = Nth(S, n)
<1>1. \A S : M!Cardinality(S) = Cardinality(S)
  BY DEF M!Cardinality, Cardinality
<1>2. \A S : M!Max(S) = Max(S)
  BY DEF M!Max, Max
<1>3. ASSUME NEW S, NEW n PROVE M!Nth(S, n) = Nth(S, n)
  BY <1>1 DEF M!Nth, Nth
<1> QED
  BY <1>1, <1>2, <1>3

\* The numbers of a version.
LEMMA RecordTypes ==
  ASSUME NEW u \in VersionRecord
  PROVE  u.txn \in Nat /\ u.version \in Nat /\ u.delete \in Nat
<1>1. /\ u.txn \in Writers /\ u.version \in 1..MaxVersions /\ u.delete \in Writers \cup {0}
  BY DEF VersionRecord
<1> QED
  <2>3. \A w \in Writers : w \in Nat
    BY WriterIds
  <2>1. u.txn \in Nat /\ u.delete \in Nat
    BY <1>1, <2>3
  <2>2. u.version \in Nat
    BY <1>1, WriterIds
  <2> QED
    BY <2>1, <2>2

\* add_version puts a version that is newer than all behind those of its own
\* transaction and of the transactions before it.
LEMMA AddVersion ==
  ASSUME NEW chain \in Seq(VersionRecord), Sorted(chain), NEW v \in VersionRecord,
         \A i \in DOMAIN chain : chain[i].version < v.version,
         NEW r, r = M!add_version(chain, v)
  PROVE  /\ r \in Seq(VersionRecord) /\ Sorted(r)
         /\ \A i \in DOMAIN r : r[i] = v \/ \E j \in DOMAIN chain : r[i] = chain[j]
         /\ r # <<>>
         /\ chain # <<>> => r[Len(r)].txn >= chain[Len(chain)].txn
<1>1. PICK n \in Nat : n = Len(chain)
  OBVIOUS
<1>2. DOMAIN chain = 1..n /\ \A i \in 1..n : chain[i] \in VersionRecord
  BY <1>1
<1>3. \A i \in 1..n : /\ chain[i].txn \in Nat /\ chain[i].version \in Nat
                      /\ chain[i].version < v.version
  BY <1>2, RecordTypes
<1>4. v.txn \in Nat /\ v.version \in Nat
  BY RecordTypes
<1>5. \A i, j \in 1..n : i < j => InOrder(chain[i], chain[j])
  BY <1>2 DEF Sorted
<1>6. PICK p \in 0..n : /\ r = InsertBehind(chain, p, v)
                        /\ \A i \in 1..n : i <= p <=> chain[i].txn <= v.txn
  <2> DEFINE S == {i \in 1..n : chain[i].txn <= v.txn}
  <2>1. ASSUME NEW i \in S, NEW j \in 1..i PROVE j \in S
    <3>1. i \in 1..n /\ j \in 1..n /\ (j = i \/ j < i)
      OBVIOUS
    <3>2. j = i \/ chain[j].txn <= chain[i].txn
      BY <1>3, <1>5, <3>1 DEF InOrder
    <3> QED
      BY <1>3, <1>4, <3>1, <3>2
  <2>2. S \in SUBSET (1..n)
    OBVIOUS
  <2>3. Cardinality(S) \in 0..n /\ S = 1..Cardinality(S)
    <3> HIDE DEF S
    <3> QED
      BY <2>1, <2>2, FirstPositions
  <2>4. r = InsertBehind(chain, Cardinality(S), v)
    BY <1>2, SameInMVCC DEF M!add_version, M!create_timestamp, InsertBehind
  <2>5. \A i \in 1..n : i \in S <=> chain[i].txn <= v.txn
    OBVIOUS
  <2> HIDE DEF S
  <2>6. \A i \in 1..n : i <= Cardinality(S) <=> i \in S
    BY <2>3
  <2> QED
    BY <2>3, <2>4, <2>5, <2>6
<1>7. /\ r \in Seq(VersionRecord) /\ Len(r) = n + 1
      /\ \A i \in 1..(n + 1) : r[i] = IF i <= p THEN chain[i]
                                      ELSE IF i = p + 1 THEN v ELSE chain[i - 1]
  <2>1. p \in 0..Len(chain)
    BY <1>1
  <2>2. /\ InsertBehind(chain, p, v) \in Seq(VersionRecord)
        /\ Len(InsertBehind(chain, p, v)) = Len(chain) + 1
        /\ \A i \in 1..(Len(chain) + 1) : InsertBehind(chain, p, v)[i] =
               IF i <= p THEN chain[i] ELSE IF i = p + 1 THEN v ELSE chain[i - 1]
    BY <2>1, InsertFacts
  <2> QED
    BY <1>1, <1>6, <2>2
<1>8. \A i \in 1..(n + 1) :
         \/ i <= p /\ i \in 1..n /\ r[i] = chain[i]
         \/ i = p + 1 /\ r[i] = v
         \/ i > p + 1 /\ i - 1 \in 1..n /\ r[i] = chain[i - 1]
  <2> SUFFICES ASSUME NEW i \in 1..(n + 1)
               PROVE  \/ i <= p /\ i \in 1..n /\ r[i] = chain[i]
                      \/ i = p + 1 /\ r[i] = v
                      \/ i > p + 1 /\ i - 1 \in 1..n /\ r[i] = chain[i - 1]
    OBVIOUS
  <2>1. r[i] = IF i <= p THEN chain[i] ELSE IF i = p + 1 THEN v ELSE chain[i - 1]
    BY <1>7
  <2>2. /\ i <= p => i \in 1..n
        /\ ~(i <= p) /\ i # p + 1 => i > p + 1 /\ i - 1 \in 1..n
    OBVIOUS
  <2> QED
    BY <2>1, <2>2
<1>9. ASSUME NEW i \in 1..(n + 1), NEW j \in 1..(n + 1), i < j
      PROVE  InOrder(r[i], r[j])
  <2>1. CASE j <= p
    <3>1. i \in 1..n /\ j \in 1..n /\ r[i] = chain[i] /\ r[j] = chain[j]
      BY <1>8, <1>9, <2>1
    <3> QED
      BY <1>5, <1>9, <3>1
  <2>2. CASE j = p + 1
    <3>1. i \in 1..n /\ i <= p /\ r[i] = chain[i] /\ r[j] = v
      BY <1>8, <1>9, <2>2
    <3>2. chain[i].txn <= v.txn /\ chain[i].version < v.version
      BY <1>3, <1>6, <3>1
    <3> QED
      BY <1>3, <1>4, <3>1, <3>2 DEF InOrder
  <2>3. CASE j > p + 1 /\ i <= p
    <3>1. r[i] = chain[i] /\ r[j] = chain[j - 1] /\ i \in 1..n /\ j - 1 \in 1..n /\ i < j - 1
      BY <1>8, <1>9, <2>3
    <3> QED
      BY <1>5, <3>1
  <2>4. CASE j > p + 1 /\ i = p + 1
    <3>1. r[i] = v /\ r[j] = chain[j - 1] /\ j - 1 \in 1..n /\ ~(j - 1 <= p)
      BY <1>8, <1>9, <2>4
    <3>2. chain[j - 1].txn \in Nat /\ ~(chain[j - 1].txn <= v.txn)
      BY <1>3, <1>6, <3>1
    <3> QED
      BY <1>4, <3>1, <3>2 DEF InOrder
  <2>5. CASE i > p + 1
    <3>1. /\ r[i] = chain[i - 1] /\ r[j] = chain[j - 1]
          /\ i - 1 \in 1..n /\ j - 1 \in 1..n /\ i - 1 < j - 1
      BY <1>8, <1>9, <2>5
    <3> QED
      BY <1>5, <3>1
  <2> QED
    BY <2>1, <2>2, <2>3, <2>4, <2>5
<1>10. DOMAIN r = 1..(n + 1) /\ r # <<>>
  BY <1>7
<1>11. Sorted(r)
  BY <1>9, <1>10 DEF Sorted
<1>12. \A i \in 1..(n + 1) : r[i] = v \/ \E j \in 1..n : r[i] = chain[j]
  BY <1>8
<1>13. ASSUME chain # <<>> PROVE r[n + 1].txn >= chain[n].txn
  <2>1. n \in 1..n /\ n + 1 \in 1..(n + 1)
    BY <1>1, <1>13
  <2>2. CASE p = n
    BY <1>3, <1>4, <1>6, <1>8, <2>1, <2>2
  <2>3. CASE p # n
    <3>1. r[n + 1] = chain[n]
      BY <1>8, <2>1, <2>3
    <3> QED
      BY <1>3, <2>1, <3>1
  <2> QED
    BY <2>2, <2>3
<1> QED
  BY <1>1, <1>2, <1>7, <1>10, <1>11, <1>12, <1>13

\* A collection leaves some of the versions, in their order, and one of them at
\* least; if none was removed it leaves the last.
LEMMA CleanupKeeps ==
  ASSUME NEW chain \in Seq(VersionRecord), Sorted(chain), NEW m \in Nat,
         NEW r, r = M!cleanup_old_versions(chain, m)
  PROVE  /\ r \in Seq(VersionRecord) /\ Sorted(r)
         /\ \A i \in DOMAIN r : \E j \in DOMAIN chain : r[i] = chain[j]
         /\ chain # <<>> => r # <<>>
         /\ chain # <<>> /\ (\A i \in DOMAIN chain : chain[i].delete = 0) =>
              r[Len(r)] = chain[Len(chain)]
<1>1. PICK n \in Nat : n = Len(chain)
  OBVIOUS
<1>2. DOMAIN chain = 1..n /\ \A i \in 1..n : chain[i] \in VersionRecord
  BY <1>1
<1>3. \A i \in 1..n : chain[i].txn \in Nat
  BY <1>2, RecordTypes
<1>4. \A i, j \in 1..n : i < j => InOrder(chain[i], chain[j])
  BY <1>2 DEF Sorted
<1>5. PICK live \in SUBSET (1..n) : live = {i \in 1..n : ~M!Old(chain[i], m)}
  OBVIOUS
<1>6. PICK S \in SUBSET (1..n) : S = IF live = {} THEN {n} \cap (1..n) ELSE live
  OBVIOUS
<1>7. r = [i \in 1..Cardinality(S) |-> chain[Nth(S, i)]]
  BY <1>1, <1>2, <1>5, <1>6, SameInMVCC DEF M!cleanup_old_versions, M!StillReadable, M!Select, M!Selection
<1>8. chain # <<>> => S # {} /\ n \in 1..n
  BY <1>1, <1>6
<1>9. ASSUME n \in 1..n, \A i \in 1..n : chain[i].delete = 0
      PROVE  n \in S
  <2>1. \A i \in 1..n : i \in live <=> ~(chain[i].txn < m)
    BY <1>5, <1>9 DEF M!Old, M!create_timestamp
  <2>2. ASSUME NEW i \in live PROVE n \in live
    <3>1. i \in 1..n /\ (i = n \/ i < n)
      OBVIOUS
    <3>2. i = n \/ chain[i].txn <= chain[n].txn
      BY <1>3, <1>4, <1>9, <3>1 DEF InOrder
    <3> QED
      BY <1>3, <1>9, <2>1, <3>1, <3>2
  <2> QED
    BY <1>6, <1>9, <2>2
<1>10. PICK c \in 0..n : c = Cardinality(S)
  BY NthFacts
<1>11. /\ \A i \in 1..c : Nth(S, i) \in S
       /\ \A i, j \in 1..c : i < j => Nth(S, i) < Nth(S, j)
       /\ \A x \in S : \E i \in 1..c : x = Nth(S, i)
  BY <1>10, NthFacts
<1>12. \A i \in 1..c : Nth(S, i) \in 1..n /\ r[i] = chain[Nth(S, i)]
  BY <1>7, <1>10, <1>11
<1>13. c \in Nat /\ Len(r) = c /\ DOMAIN r = 1..c /\ r \in Seq(VersionRecord)
  <2>1. r \in [1..c -> VersionRecord] /\ c \in Nat
    BY <1>2, <1>7, <1>10, <1>12
  <2> QED
    BY <2>1
<1>14. Sorted(r)
  <2> SUFFICES ASSUME NEW i \in 1..c, NEW j \in 1..c, i < j PROVE InOrder(r[i], r[j])
    BY <1>13 DEF Sorted
  <2> QED
    BY <1>4, <1>11, <1>12
<1>15. \A i \in 1..c : \E j \in 1..n : r[i] = chain[j]
  BY <1>12
<1>16. S # {} => r # <<>>
  <2> SUFFICES ASSUME NEW x \in S PROVE r # <<>>
    OBVIOUS
  <2>1. PICK i : i \in 1..c
    BY <1>11
  <2> QED
    BY <1>13, <2>1
<1>17. ASSUME n \in S PROVE r[Len(r)] = chain[n]
  <2>1. PICK i \in 1..c : n = Nth(S, i)
    BY <1>11, <1>17
  <2>2. c \in 1..c
    BY <1>13
  <2>3. PICK b \in 1..n : b = Nth(S, c)
    BY <1>12, <2>2
  <2>4. i < c => n < b
    BY <1>11, <2>1, <2>2, <2>3
  <2>5. i = c
    BY <2>4
  <2> QED
    BY <1>12, <1>13, <2>1, <2>5
<1> QED
  BY <1>1, <1>2, <1>8, <1>9, <1>13, <1>14, <1>15, <1>16, <1>17, SMTT(60)

\* The same versions in the same order.
ChainKept(c, d) == /\ DOMAIN d = DOMAIN c
                   /\ \A i \in DOMAIN c : d[i].txn = c[i].txn /\ d[i].version = c[i].version

\* A chain is not emptied, and unless a version of it was removed it ends in one
\* as new as before.
NewestKept(c, d) ==
  c # <<>> => /\ d # <<>>
              /\ (\A i \in DOMAIN c : c[i].delete = 0) => d[Len(d)].txn >= c[Len(c)].txn
NewestKeptStep == \A k \in Keys : NewestKept(version_chains[k], version_chains'[k])

\* A chain that stays the same keeps its newest version.
LEMMA NewestStays ==
  ASSUME NEW c \in Seq(VersionRecord), NEW d \in Seq(VersionRecord), ChainKept(c, d)
  PROVE  NewestKept(c, d)
<1> SUFFICES ASSUME c # <<>> PROVE d # <<>> /\ d[Len(d)].txn >= c[Len(c)].txn
  BY DEF NewestKept
<1>1. PICK n \in Nat \ {0} : n = Len(c)
  OBVIOUS
<1>2. DOMAIN c = 1..n /\ n = Len(d)
  BY <1>1 DEF ChainKept
<1>3. c[n] \in VersionRecord /\ d[n].txn = c[n].txn
  BY <1>2 DEF ChainKept
<1>4. c[n].txn \in Nat
  BY <1>3, RecordTypes
<1> QED
  BY <1>1, <1>2, <1>3, <1>4

\* A version that a running transaction adds comes behind its own and those of
\* older transactions, and is not committed.
LEMMA WriteKeeps ==
  ASSUME ChainInv, NEW t \in Writers, NEW k \in Keys, M!write(t, k)
  PROVE  ChainInv' /\ NewestKeptStep
<1>1. global_timestamp \in Nat /\ global_timestamp \in 1..MaxVersions /\ MaxVersions \in Nat
  BY WriterIds DEF ChainInv, ChainTypes, M!write
<1>2. PICK v \in VersionRecord :
        v = [version |-> global_timestamp, txn |-> t, delete |-> 0, committed |-> FALSE]
  BY <1>1 DEF VersionRecord
<1>3. PICK r : r = M!add_version(version_chains[k], v)
  OBVIOUS
<1>4. /\ version_chains' = [version_chains EXCEPT ![k] = r]
      /\ global_timestamp' = global_timestamp + 1
      /\ active_transactions' = active_transactions \cup {t}
      /\ UNCHANGED <<status, committing>>
  BY <1>2, <1>3 DEF M!write
<1>5. PICK c \in Seq(VersionRecord) : c = version_chains[k]
  BY DEF ChainInv, ChainTypes
<1>6. Sorted(c) /\ \A i \in DOMAIN c : c[i].version < v.version
  BY <1>2, <1>5 DEF ChainInv, Below
<1>7. /\ r \in Seq(VersionRecord) /\ Sorted(r)
      /\ \A i \in DOMAIN r : r[i] = v \/ \E j \in DOMAIN c : r[i] = c[j]
      /\ NewestKept(c, r)
  BY <1>3, <1>5, <1>6, AddVersion DEF NewestKept
<1>8. /\ version_chains'[k] = r
      /\ \A j \in Keys \ {k} : version_chains'[j] = version_chains[j]
      /\ version_chains' \in [Keys -> Seq(VersionRecord)]
  BY <1>4, <1>7 DEF ChainInv, ChainTypes
<1>9. ChainTypes'
  BY <1>1, <1>4, <1>8 DEF ChainInv, ChainTypes
<1>10. \A i \in DOMAIN c : c[i].version \in Nat
  <2>1. \A i \in DOMAIN c : c[i] \in VersionRecord
    OBVIOUS
  <2> QED
    BY <2>1, RecordTypes
<1>11. Below(r, global_timestamp + 1)
  <2> SUFFICES ASSUME NEW i \in DOMAIN r PROVE r[i].version < global_timestamp + 1
    BY DEF Below
  <2>1. v.version = global_timestamp
    BY <1>2
  <2>2. \A j \in DOMAIN c : c[j].version < global_timestamp + 1
    BY <1>1, <1>6, <1>10, <2>1
  <2> QED
    BY <1>1, <1>7, <2>1, <2>2
<1>12. ASSUME NEW j \in Keys, j # k
       PROVE  Below(version_chains[j], global_timestamp + 1)
  <2>1. version_chains[j] \in Seq(VersionRecord) /\ Below(version_chains[j], global_timestamp)
    BY DEF ChainInv, ChainTypes
  <2>2. \A i \in DOMAIN version_chains[j] : version_chains[j][i] \in VersionRecord
    BY <2>1
  <2>3. \A i \in DOMAIN version_chains[j] : version_chains[j][i].version \in Nat
    BY <2>2, RecordTypes
  <2> QED
    BY <1>1, <2>1, <2>3 DEF Below
<1>13. \A j \in Keys : Sorted(version_chains'[j]) /\ Below(version_chains'[j], global_timestamp')
  BY <1>4, <1>7, <1>8, <1>11, <1>12 DEF ChainInv
<1>14. Committed(k)'
  <2>1. Committed(k) /\ ~v.committed
    BY <1>2 DEF ChainInv
  <2>2. \A i \in DOMAIN r : r[i].committed =>
          status[r[i].txn] = "committed" \/ committing.txn = r[i].txn
    BY <1>5, <1>7, <2>1 DEF Committed
  <2> QED
    BY <1>4, <1>8, <2>2 DEF Committed
<1>15. \A j \in Keys \ {k} : Committed(j)'
  BY <1>4, <1>8 DEF ChainInv, Committed
<1>16. NewestKeptStep
  <2> SUFFICES ASSUME NEW j \in Keys PROVE NewestKept(version_chains[j], version_chains'[j])
    BY DEF NewestKeptStep
  <2>1. CASE j = k
    BY <1>5, <1>7, <1>8, <2>1
  <2>2. CASE j # k
    <3>1. version_chains'[j] = version_chains[j] /\ version_chains[j] \in Seq(VersionRecord)
      BY <1>8, <2>2 DEF ChainInv, ChainTypes
    <3> QED
      BY <3>1, NewestStays DEF ChainKept
  <2> QED
    BY <2>1, <2>2
<1> QED
  BY <1>4, <1>9, <1>13, <1>14, <1>15, <1>16 DEF ChainInv

\* Marking versions where they stand keeps the order of the chain.
LEMMA InPlaceKeeps ==
  ASSUME ChainInv, (\E t \in Writers, k \in Keys : M!remove(t, k)) \/ (\E k \in Keys : M!commit_chain(k))
  PROVE  ChainInv' /\ NewestKeptStep
<1>1. /\ version_chains \in [Keys -> Seq(VersionRecord)]
      /\ committing \in [txn : Writers \cup {0}, left : SUBSET Keys]
  BY DEF ChainInv, ChainTypes
<1>2. UNCHANGED <<global_timestamp, active_transactions, status>>
  BY DEF M!remove, M!commit_chain
<1>3. /\ version_chains' \in [Keys -> Seq(VersionRecord)]
      /\ \A k \in Keys : ChainKept(version_chains[k], version_chains'[k])
      /\ \A k \in Keys : \A i \in DOMAIN version_chains[k] :
           version_chains'[k][i].committed =>
             \/ version_chains[k][i].committed
             \/ committing.txn = version_chains[k][i].txn
      /\ committing'.txn = committing.txn /\ committing'.left \subseteq committing.left
      /\ committing' \in [txn : Writers \cup {0}, left : SUBSET Keys]
  <2>1. ASSUME NEW t \in Writers, NEW k \in Keys, M!remove(t, k)
        PROVE  <1>3!:
    <3>1. PICK l : l = M!get_latest_version(k)
      OBVIOUS
    <3>2. PICK c \in Seq(VersionRecord) : c = version_chains[k]
      BY <1>1
    <3>3. l \in DOMAIN c
      <4>1. PICK done : done = {i \in DOMAIN c : c[i].committed}
        BY Zenon
      <4>2. done # {} /\ l = M!Max(done)
        BY <2>1, <3>1, <3>2, <4>1, Zenon DEF M!remove, M!get_latest_version
      <4>3. done \in SUBSET (0..Len(c)) /\ Len(c) \in Nat
        BY <3>2, <4>1
      <4>4. l \in done
        BY <4>2, <4>3, MaxOfPositions, SameInMVCC
      <4> QED
        BY <4>1, <4>4
    <3>7. c[l] \in VersionRecord
      BY <3>2, <3>3
    <3>4. PICK u \in VersionRecord : u = [c[l] EXCEPT !.delete = t]
      BY <3>7 DEF VersionRecord
    <3>5. version_chains' = [version_chains EXCEPT ![k] = [c EXCEPT ![l] = u]]
      BY <2>1, <3>1, <3>2, <3>4 DEF M!remove
    <3>6. /\ [c EXCEPT ![l] = u] \in Seq(VersionRecord)
          /\ DOMAIN [c EXCEPT ![l] = u] = DOMAIN c
      BY <3>2, <3>3, <3>4
    <3>8. u.txn = c[l].txn /\ u.version = c[l].version /\ u.committed = c[l].committed
      BY <3>4, <3>7 DEF VersionRecord
    <3>9. \A i \in DOMAIN c : /\ [c EXCEPT ![l] = u][i].txn = c[i].txn
                              /\ [c EXCEPT ![l] = u][i].version = c[i].version
                              /\ [c EXCEPT ![l] = u][i].committed = c[i].committed
      BY <3>8
    <3>10. committing' = committing
      BY <2>1 DEF M!remove
    <3>11. \A j \in Keys : version_chains'[j] = IF j = k THEN [c EXCEPT ![l] = u] ELSE version_chains[j]
      BY <1>1, <3>5
    <3> QED
      BY <1>1, <3>2, <3>5, <3>6, <3>9, <3>10, <3>11 DEF ChainKept
  <2>2. ASSUME NEW k \in Keys, M!commit_chain(k)
        PROVE  <1>3!:
    <3>1. PICK c \in Seq(VersionRecord) : c = version_chains[k]
      BY <1>1
    <3>2. PICK x : x = committing.txn
      OBVIOUS
    <3>3. PICK d : d = [i \in DOMAIN c |-> IF c[i].txn = x THEN [c[i] EXCEPT !.committed = TRUE] ELSE c[i]]
      OBVIOUS
    <3>4. /\ version_chains' = [version_chains EXCEPT ![k] = d]
          /\ committing' = [committing EXCEPT !.left = @ \ {k}]
      BY <2>2, <3>1, <3>2, <3>3 DEF M!commit_chain
    <3>5. \A i \in DOMAIN c : c[i] \in VersionRecord
      BY <3>1
    <3>6. \A i \in DOMAIN c : /\ d[i] \in VersionRecord
                              /\ d[i].txn = c[i].txn /\ d[i].version = c[i].version
                              /\ d[i].committed => c[i].committed \/ x = c[i].txn
      BY <3>3, <3>5 DEF VersionRecord
    <3>7. d \in Seq(VersionRecord) /\ DOMAIN d = DOMAIN c
      <4>1. DOMAIN c = 1..Len(c) /\ Len(c) \in Nat
        BY <3>1
      <4>2. d \in [1..Len(c) -> VersionRecord]
        BY <3>3, <3>6, <4>1
      <4> QED
        BY <4>1, <4>2
    <3>8. \A j \in Keys : version_chains'[j] = IF j = k THEN d ELSE version_chains[j]
      BY <1>1, <3>4
    <3> QED
      BY <1>1, <3>1, <3>2, <3>4, <3>6, <3>7, <3>8 DEF ChainKept
  <2> QED
    BY <2>1, <2>2
<1>4. ChainTypes'
  BY <1>2, <1>3 DEF ChainInv, ChainTypes
<1>5. ASSUME NEW k \in Keys PROVE Sorted(version_chains'[k])
  <2>1. PICK c, d : c = version_chains[k] /\ d = version_chains'[k]
    OBVIOUS
  <2>2. Sorted(c) /\ ChainKept(c, d)
    BY <1>3, <2>1 DEF ChainInv
  <2>3. ASSUME NEW i \in DOMAIN d, NEW j \in DOMAIN d, i < j PROVE InOrder(d[i], d[j])
    <3>1. i \in DOMAIN c /\ j \in DOMAIN c
      BY <2>2 DEF ChainKept
    <3>2. InOrder(c[i], c[j])
      BY <2>2, <2>3, <3>1 DEF Sorted
    <3> QED
      BY <2>2, <3>1, <3>2 DEF ChainKept, InOrder
  <2> QED
    BY <2>1, <2>3 DEF Sorted
<1>6. ASSUME NEW k \in Keys PROVE Below(version_chains'[k], global_timestamp)
  BY <1>3 DEF ChainInv, ChainKept, Below
<1>7. ASSUME NEW k \in Keys PROVE Committed(k)'
  <2>1. PICK c, d : c = version_chains[k] /\ d = version_chains'[k]
    OBVIOUS
  <2>2. PICK x : x = committing.txn /\ x = committing'.txn
    BY <1>3
  <2>3. ChainKept(c, d) /\ \A i \in DOMAIN c : d[i].committed => c[i].committed \/ x = c[i].txn
    BY <1>3, <2>1, <2>2
  <2>4. \A i \in DOMAIN c : c[i].committed => status[c[i].txn] = "committed" \/ x = c[i].txn
    BY <2>1, <2>2 DEF ChainInv, Committed
  <2>5. \A i \in DOMAIN d : d[i].committed => status[d[i].txn] = "committed" \/ x = d[i].txn
    BY <2>3, <2>4 DEF ChainKept
  <2> QED
    BY <1>2, <2>1, <2>2, <2>5 DEF Committed
<1>8. NewestKeptStep
  BY <1>1, <1>3, NewestStays DEF NewestKeptStep
<1> QED
  BY <1>2, <1>3, <1>4, <1>5, <1>6, <1>7, <1>8 DEF ChainInv

\* A collection takes versions out of the chains.
LEMMA CollectKeeps ==
  ASSUME ChainInv, M!run_garbage_collection
  PROVE  ChainInv' /\ NewestKeptStep
<1>1. /\ version_chains \in [Keys -> Seq(VersionRecord)] /\ global_timestamp \in Nat
      /\ active_transactions \subseteq Writers
  BY DEF ChainInv, ChainTypes
<1>2. PICK m \in Nat : m = M!get_min_active_timestamp
  <2>1. active_transactions \in SUBSET Nat
    BY <1>1, WriterIds
  <2>2. \A S : M!Min(S) = Min(S)
    BY DEF M!Min, Min
  <2>3. active_transactions # {} => Min(active_transactions) \in Nat
    BY <2>1, MinOfNumbers
  <2> QED
    BY <1>1, <2>2, <2>3 DEF M!get_min_active_timestamp
<1>3. /\ version_chains' = [k \in Keys |-> M!cleanup_old_versions(version_chains[k], m)]
      /\ UNCHANGED <<global_timestamp, active_transactions, status, committing>>
  BY <1>2 DEF M!run_garbage_collection
<1>4. \A k \in Keys :
        /\ version_chains'[k] \in Seq(VersionRecord) /\ Sorted(version_chains'[k])
        /\ \A i \in DOMAIN version_chains'[k] :
             \E j \in DOMAIN version_chains[k] : version_chains'[k][i] = version_chains[k][j]
        /\ version_chains[k] # <<>> => version_chains'[k] # <<>>
        /\ version_chains[k] # <<>> /\ (\A i \in DOMAIN version_chains[k] : version_chains[k][i].delete = 0) =>
             version_chains'[k][Len(version_chains'[k])] = version_chains[k][Len(version_chains[k])]
  <2> SUFFICES ASSUME NEW k \in Keys
               PROVE  <1>4!(k)
    OBVIOUS
  <2>1. version_chains[k] \in Seq(VersionRecord) /\ Sorted(version_chains[k])
    BY <1>1 DEF ChainInv
  <2>2. version_chains'[k] = M!cleanup_old_versions(version_chains[k], m)
    BY <1>3
  <2> QED
    BY <2>1, <2>2, CleanupKeeps
<1>5. ChainTypes'
  <2>1. version_chains' \in [Keys -> Seq(VersionRecord)]
    BY <1>3, <1>4
  <2> QED
    BY <1>3, <2>1 DEF ChainInv, ChainTypes
<1>6. ASSUME NEW k \in Keys PROVE Committed(k)'
  <2>1. PICK c, d : c = version_chains[k] /\ d = version_chains'[k]
    OBVIOUS
  <2>2. \A i \in DOMAIN c : c[i].committed => status[c[i].txn] = "committed" \/ committing.txn = c[i].txn
    BY <2>1 DEF ChainInv, Committed
  <2>3. \A i \in DOMAIN d : \E j \in DOMAIN c : d[i] = c[j]
    BY <1>4, <2>1
  <2>4. \A i \in DOMAIN d : d[i].committed => status[d[i].txn] = "committed" \/ committing.txn = d[i].txn
    BY <2>2, <2>3
  <2> QED
    BY <1>3, <2>1, <2>4 DEF Committed
<1>7. ASSUME NEW k \in Keys PROVE Below(version_chains'[k], global_timestamp)
  BY <1>4 DEF ChainInv, Below
<1>8. NewestKeptStep
  <2> SUFFICES ASSUME NEW k \in Keys PROVE NewestKept(version_chains[k], version_chains'[k])
    BY DEF NewestKeptStep
  <2>1. PICK c, d : c = version_chains[k] /\ d = version_chains'[k]
    OBVIOUS
  <2>2. c \in Seq(VersionRecord)
    BY <1>1, <2>1
  <2>3. /\ c # <<>> => d # <<>>
        /\ c # <<>> /\ (\A i \in DOMAIN c : c[i].delete = 0) => d[Len(d)] = c[Len(c)]
    BY <1>4, <2>1
  <2>4. c # <<>> => c[Len(c)].txn \in Nat
    <3>1. c # <<>> => Len(c) \in DOMAIN c
      BY <2>2
    <3> QED
      BY <2>2, <3>1, RecordTypes
  <2> QED
    BY <2>1, <2>3, <2>4 DEF NewestKept
<1> QED
  BY <1>3, <1>4, <1>5, <1>6, <1>7, <1>8 DEF ChainInv

\* Between two chains of a commit nothing else commits or aborts.
LEMMA EndsKeep ==
  ASSUME ChainInv,
         \/ \E t \in Writers : M!commit_transaction(t) \/ M!abort_transaction(t)
         \/ M!end_commit
  PROVE  ChainInv' /\ NewestKeptStep
<1>1. /\ version_chains' = version_chains /\ global_timestamp' = global_timestamp
      /\ 0 \notin Writers
      /\ M!NoCommit = [txn |-> 0, left |-> {}]
  BY WriterIds
  DEF M!commit_transaction, M!abort_transaction, M!end_commit, M!NoCommit
<1>2. \A k \in Keys : \A i \in DOMAIN version_chains[k] : version_chains[k][i].txn \in Writers
  <2> SUFFICES ASSUME NEW k \in Keys, NEW i \in DOMAIN version_chains[k]
               PROVE  version_chains[k][i].txn \in Writers
    OBVIOUS
  <2>1. version_chains[k] \in Seq(VersionRecord)
    BY DEF ChainInv, ChainTypes
  <2>2. version_chains[k][i] \in VersionRecord
    BY <2>1
  <2> QED
    BY <2>2 DEF VersionRecord
<1>3. ASSUME NEW t \in Writers, M!commit_transaction(t)
      PROVE  /\ ChainTypes' /\ \A k \in Keys : Committed(k)'
             /\ committing'.txn = 0 => committing'.left = {}
             /\ committing'.txn # 0 => status'[committing'.txn] = "running"
  <2>1. /\ committing.txn = 0 /\ committing' = [txn |-> t, left |-> Keys]
        /\ status[t] = "running" /\ UNCHANGED <<active_transactions, status>>
    BY <1>1, <1>3 DEF M!commit_transaction
  <2>2. committing' \in [txn : Writers \cup {0}, left : SUBSET Keys]
    BY <2>1
  <2>3. committing'.txn = t
    BY <2>1
  <2> QED
    BY <1>1, <1>2, <2>1, <2>2, <2>3 DEF ChainInv, ChainTypes, Committed
<1>4. ASSUME NEW t \in Writers, M!abort_transaction(t)
      PROVE  /\ ChainTypes' /\ \A k \in Keys : Committed(k)'
             /\ committing'.txn = 0 => committing'.left = {}
             /\ committing'.txn # 0 => status'[committing'.txn] = "running"
  <2>1. /\ committing.txn = 0 /\ committing.left = {} /\ committing' = committing
        /\ status[t] = "running" /\ status' = [status EXCEPT ![t] = "aborted"]
        /\ active_transactions' = active_transactions \ {t}
    BY <1>1, <1>4 DEF M!abort_transaction
  <2>2. \A k \in Keys : \A i \in DOMAIN version_chains[k] :
          version_chains[k][i].committed => /\ status[version_chains[k][i].txn] = "committed"
                                            /\ version_chains[k][i].txn # t
    BY <1>1, <1>2, <2>1 DEF ChainInv, Committed
  <2> QED
    BY <1>1, <1>2, <2>1, <2>2 DEF ChainInv, ChainTypes, Committed
<1>5. ASSUME M!end_commit
      PROVE  /\ ChainTypes' /\ \A k \in Keys : Committed(k)'
             /\ committing'.txn = 0 => committing'.left = {}
             /\ committing'.txn # 0 => status'[committing'.txn] = "running"
  <2>1. /\ committing # [txn |-> 0, left |-> {}] /\ committing.left = {}
        /\ active_transactions' = active_transactions \ {committing.txn}
        /\ status' = [status EXCEPT ![committing.txn] = "committed"]
        /\ committing' = [txn |-> 0, left |-> {}]
    BY <1>1, <1>5 DEF M!end_commit
  <2>2. committing.txn \in Writers
    BY <2>1 DEF ChainInv, ChainTypes
  <2>3. /\ committing'.txn = 0 /\ committing'.left = {}
        /\ committing' \in [txn : Writers \cup {0}, left : SUBSET Keys]
    BY <2>1
  <2>4. status' \in [Writers -> {"running", "committed", "aborted"}]
    BY <2>1, <2>2 DEF ChainInv, ChainTypes
  <2>5. ASSUME NEW k \in Keys PROVE Committed(k)'
    <3> SUFFICES ASSUME NEW i \in DOMAIN version_chains[k], version_chains[k][i].committed
                 PROVE  status'[version_chains[k][i].txn] = "committed"
      BY <1>1 DEF Committed
    <3>1. PICK u \in Writers : u = version_chains[k][i].txn
      BY <1>2
    <3>2. status[u] = "committed" \/ committing.txn = u
      BY <3>1 DEF ChainInv, Committed
    <3>3. status'[u] = IF u = committing.txn THEN "committed" ELSE status[u]
      BY <2>1 DEF ChainInv, ChainTypes
    <3> QED
      BY <3>1, <3>2, <3>3
  <2> QED
    BY <1>1, <2>1, <2>3, <2>4, <2>5 DEF ChainInv, ChainTypes
<1>6. \A k \in Keys : Sorted(version_chains'[k]) /\ Below(version_chains'[k], global_timestamp')
  BY <1>1 DEF ChainInv
<1>7. NewestKeptStep
  <2>1. \A k \in Keys : /\ version_chains[k] \in Seq(VersionRecord)
                       /\ version_chains'[k] = version_chains[k]
    BY <1>1 DEF ChainInv, ChainTypes
  <2> QED
    BY <2>1, NewestStays DEF ChainKept, NewestKeptStep
<1> QED
  BY <1>3, <1>4, <1>5, <1>6, <1>7 DEF ChainInv

\* Every step of the manager keeps the chains in order and their newest versions.
LEMMA ChainStep ==
  ASSUME ChainInv, [M!Next]_(M!vars)
  PROVE  ChainInv' /\ NewestKeptStep
<1>1. CASE UNCHANGED M!vars
  <2>1. UNCHANGED <<version_chains, global_timestamp, active_transactions, status, committing>>
    BY <1>1 DEF M!vars
  <2>2. ChainInv'
    BY <2>1 DEF ChainInv, ChainTypes, Committed
  <2>3. \A k \in Keys : version_chains[k] \in Seq(VersionRecord)
    BY DEF ChainInv, ChainTypes
  <2>4. NewestKeptStep
    BY <2>1, <2>3, NewestStays DEF ChainKept, NewestKeptStep
  <2> QED
    BY <2>2, <2>4
<1> QED
  BY <1>1, WriteKeeps, InPlaceKeeps, CollectKeeps, EndsKeep DEF M!Next

\* The manager starts with empty chains.
LEMMA ChainInitial == M!Init => ChainInv
<1> SUFFICES ASSUME M!Init PROVE ChainInv
  OBVIOUS
<1>1. /\ version_chains = [k \in Keys |-> <<>>] /\ global_timestamp = 1
      /\ active_transactions = {} /\ status = [t \in Writers |-> "running"]
      /\ committing = [txn |-> 0, left |-> {}]
  BY DEF M!Init, M!NoCommit
<1>2. version_chains \in [Keys -> Seq(VersionRecord)]
  BY <1>1
<1>3. ChainTypes
  BY <1>1, <1>2, WriterIds DEF ChainTypes
<1>4. \A k \in Keys : version_chains[k] = <<>> /\ DOMAIN version_chains[k] = {}
  BY <1>1
<1> QED
  BY <1>1, <1>3, <1>4 DEF ChainInv, Sorted, Below, Committed

\* In a chain in order a read finds the newest of the versions it may see.
LEMMA ChainImplies == ChainInv => M!ReadsAreCommitted
<1> SUFFICES ASSUME ChainInv PROVE M!ReadsAreCommitted
  OBVIOUS
<1>1. M!TypeOK
  BY DEF ChainInv, ChainTypes, VersionRecord, M!TypeOK
<1>2. M!AbortedNeverVisible
  BY DEF ChainInv, Committed, M!AbortedNeverVisible
<1>3. ASSUME NEW k \in Keys, NEW ts \in Writers
      PROVE  LET seen == {i \in DOMAIN version_chains[k] : M!is_visible_to(version_chains[k][i], ts)}
             IN \A i \in seen : \E j \in seen :
                  /\ version_chains[k][j].version = M!read(k, ts)
                  /\ \/ version_chains[k][i].txn < version_chains[k][j].txn
                     \/ /\ version_chains[k][i].txn = version_chains[k][j].txn
                        /\ version_chains[k][i].version <= version_chains[k][j].version
  <2>1. PICK c \in Seq(VersionRecord) : c = version_chains[k]
    BY DEF ChainInv, ChainTypes
  <2>2. Sorted(c)
    BY <2>1 DEF ChainInv
  <2>3. PICK seen : seen = {i \in DOMAIN c : M!is_visible_to(c[i], ts)}
    OBVIOUS
  <2>4. M!read(k, ts) = IF seen = {} THEN 0 ELSE c[Max(seen)].version
    BY <2>1, <2>3, SameInMVCC DEF M!read
  <2> SUFFICES ASSUME NEW i \in seen
               PROVE  \E j \in seen :
                        /\ c[j].version = M!read(k, ts)
                        /\ \/ c[i].txn < c[j].txn
                           \/ c[i].txn = c[j].txn /\ c[i].version <= c[j].version
    BY <2>1, <2>3
  <2>5. seen \in SUBSET (0..Len(c)) /\ Len(c) \in Nat /\ seen \subseteq DOMAIN c
    BY <2>3
  <2>6. PICK j \in seen : j = Max(seen)
    BY <2>5, MaxOfPositions
  <2>7. i \in Nat /\ j \in Nat /\ i <= j
    <3>1. PICK n \in Nat : n = Len(c)
      OBVIOUS
    <3>2. seen \in SUBSET (0..n)
      BY <2>5, <3>1
    <3>3. i <= Max(seen)
      BY <3>1, <3>2, MaxOfPositions
    <3>4. i \in 0..n /\ j \in 0..n
      BY <3>2
    <3> QED
      BY <2>6, <3>1, <3>3, <3>4
  <2>8. c[i] \in VersionRecord /\ c[j] \in VersionRecord
    BY <2>5
  <2>9. c[i].version \in Nat /\ c[j].version \in Nat
    BY <2>8, RecordTypes
  <2>10. i < j => InOrder(c[i], c[j])
    BY <2>2, <2>5 DEF Sorted
  <2>11. c[i].txn < c[j].txn \/ (c[i].txn = c[j].txn /\ c[i].version <= c[j].version)
    BY <2>7, <2>9, <2>10 DEF InOrder
  <2> QED
    BY <2>4, <2>6, <2>11
<1>4. M!ReadIsNewestCommitted
  BY <1>3 DEF M!ReadIsNewestCommitted, M!create_timestamp
<1> QED
  BY <1>1, <1>2, <1>4 DEF M!ReadsAreCommitted
(***************************************************************************)
(* The typed engine.                                                       *)
(***************************************************************************)
TypedVersion == [number : 0..(MaxNumber - 1), value : T!Value]
PossibleValue == T!Value \cup {T!Absent}

\* What a client's call and its transaction hold.  A put has a value.
CallOperation == {op \in T!Operation : op.type = "PUT" => op.value \in T!Value}
CallRecord ==
  [pc : {"next", "numbered", "inserted", "held"}, todo : Seq(CallOperation), number : Int,
   at : Int, len : Int, first : PossibleValue, alone : BOOLEAN]
TransactionRecord == [open : BOOLEAN, operations : Seq(CallOperation)]

TypedShapes ==
  /\ seq_ \in 0..MaxNumber /\ logged \in 0..seq_
  /\ versions \in [TypedKeys -> Seq(TypedVersion)]
  /\ raw \in [TypedKeys -> PossibleValue]
  /\ call \in [Clients -> CallRecord]
  /\ tx \in [Clients -> TransactionRecord]
  /\ acked \in [TypedKeys -> Int]
  /\ agree \subseteq TypedKeys

\* A call that is at work on key k, and the value its put files and writes.
OnKey(r, k) == /\ r.todo # <<>> /\ r.pc # "next"
               /\ Head(r.todo).type # "COMBINE" /\ Head(r.todo).key = k
ValueOf(r) == [Head(r.todo).value EXCEPT !.by = r.number]

\* The versions of a key are in the order of their numbers, all of them drawn.
NumbersRise(s) == \A i, j \in DOMAIN s : i <= j => s[i].number <= s[j].number
NumbersBelow(s, n) == \A i \in DOMAIN s : s[i].number < n

\* A put that has filed its version has its number in the table.
CallsFiled(r, vs, n) ==
  /\ r.pc # "next" => r.todo # <<>>
  /\ r.pc \in {"numbered", "inserted"} => r.number \in 0..(n - 1)
  /\ r.pc = "inserted" =>
       /\ Head(r.todo).type = "PUT"
       /\ \E i \in DOMAIN vs[Head(r.todo).key] : vs[Head(r.todo).key][i].number = r.number

\* While nobody has met a call on its key: there is nobody else, what it files
\* goes behind all versions, and what it has filed is the last.
FilesLast(r, s) ==
  /\ r.pc = "numbered" => NumbersBelow(s, r.number)
  /\ r.pc = "inserted" => s # <<>> /\ s[Len(s)] = [number |-> r.number, value |-> ValueOf(r)]
AloneOnKey(c, k) ==
  OnKey(call[c], k) /\ call[c].alone =>
    /\ \A d \in Clients \ {c} : ~OnKey(call[d], k)
    /\ FilesLast(call[c], versions[k])

\* Where the stores agree they do so at every moment but between the two writes
\* of a put.
AgreeOn(k) ==
  (\A c \in Clients : ~(OnKey(call[c], k) /\ call[c].pc = "inserted")) =>
    versions[k] # <<>> /\ raw[k] = versions[k][Len(versions[k])].value

AckedIsFiled(k) == acked[k] >= 0 => \E i \in DOMAIN versions[k] : versions[k][i].number >= acked[k]

TypedInv ==
  /\ TypedShapes
  /\ \A k \in TypedKeys : /\ NumbersRise(versions[k]) /\ NumbersBelow(versions[k], seq_)
                          /\ AckedIsFiled(k)
  /\ \A c \in Clients : CallsFiled(call[c], versions, seq_)
  /\ \A c \in Clients, k \in TypedKeys : AloneOnKey(c, k)
  /\ \A k \in agree : AgreeOn(k)

-----------------------------------------------------------------------------
\* The operators that the engine takes from the libraries.
LEMMA SameInTyped ==
  /\ \A S : T!Max(S) = Max(S) /\ T!Cardinality(S) = Cardinality(S)
  /\ \A s : T!Last(s) = s[Len(s)]
<1>1. \A S : T!Cardinality(S) = Cardinality(S)
  BY DEF T!Cardinality, Cardinality
<1>2. \A S : T!Max(S) = Max(S)
  BY DEF T!Max, Max
<1> QED
  BY <1>1, <1>2 DEF T!Last

\* The larger of two numbers.
LEMMA MaxOfTwo ==
  ASSUME NEW a \in Int, NEW b \in Int
  PROVE  T!Max({a, b}) = IF a <= b THEN b ELSE a
BY DEF T!Max

\* The operations of a batch.
LEMMA BatchFacts ==
  ASSUME NEW s \in Seq(CallOperation), s # <<>>
  PROVE  /\ Head(s) \in CallOperation /\ Tail(s) \in Seq(CallOperation)
         /\ Head(s).key \in TypedKeys
         /\ Head(s).type = "PUT" => Head(s).value \in T!Value
<1>1. Head(s) \in CallOperation /\ Tail(s) \in Seq(CallOperation)
  OBVIOUS
<1> QED
  BY <1>1 DEF CallOperation, T!Operation

\* The operation a client comes to is the first of its batch.
LEMMA OfferFacts ==
  ASSUME TypedInv, NEW c \in Clients, NEW op \in T!Offers(c)
  PROVE  /\ op \in CallOperation /\ op.key \in TypedKeys
         /\ T!Batch(c, op) \in Seq(CallOperation)
         /\ T!Batch(c, op) # <<>> /\ Head(T!Batch(c, op)) = op
         /\ call[c].pc = "next"
         /\ <<op>> \in Seq(CallOperation) /\ <<op>> # <<>> /\ Head(<<op>>) = op
<1>1. call[c] \in CallRecord /\ call[c].todo \in Seq(CallOperation)
  BY DEF TypedInv, TypedShapes, CallRecord
<1>2. op \in CallOperation
  <2>1. CASE T!Busy(c)
    <3>1. op = Head(call[c].todo) /\ call[c].todo # <<>>
      BY <2>1 DEF T!Offers, T!Busy, T!Now
    <3> QED
      BY <1>1, <3>1, BatchFacts
  <2>2. CASE ~T!Busy(c)
    <3>1. op \in T!Requests
      BY <2>2 DEF T!Offers
    <3> DEFINE Puts(k) == {T!Op("PUT", k, T!Fresh(kd)) : kd \in T!Kinds}
               Change(k, type, e) == T!Op(type, k, [T!Fresh("CONTAINER") EXCEPT !.items = {e}])
               Changes(k) == {Change(k, type, e) : type \in {"ADD", "REMOVE"}, e \in Elements}
               Combines(k) == {[T!Op("COMBINE", k, T!Absent) EXCEPT !.other = k2] : k2 \in TypedKeys}
               All(k) == Puts(k) \cup {T!Op("DELETE", k, T!Absent)} \cup Changes(k) \cup Combines(k)
    <3>10. T!Requests = UNION {All(k) : k \in TypedKeys}
      BY DEF T!Requests
    <3>11. \E k \in TypedKeys : op \in All(k)
      <4> HIDE DEF All
      <4> QED
        BY <3>1, <3>10
    <3>2. PICK k \in TypedKeys : op \in All(k)
      BY <3>11, SMTT(60)
    <3>3. ASSUME NEW kd \in T!Kinds, op = T!Op("PUT", k, T!Fresh(kd)) PROVE op \in CallOperation
      BY <3>3 DEF CallOperation, T!Operation, T!Op, T!Fresh, T!Kinds, T!Value
    <3>4. CASE op = T!Op("DELETE", k, T!Absent)
      BY <3>4 DEF CallOperation, T!Operation, T!Op, T!Absent
    <3>5. ASSUME NEW type \in {"ADD", "REMOVE"}, NEW e \in Elements,
                 op = Change(k, type, e)
          PROVE  op \in CallOperation
      BY <3>5 DEF CallOperation, T!Operation, T!Op, T!Fresh, T!Kinds, T!Value
    <3>6. ASSUME NEW k2 \in TypedKeys, op = [T!Op("COMBINE", k, T!Absent) EXCEPT !.other = k2]
          PROVE  op \in CallOperation
      BY <3>6 DEF CallOperation, T!Operation, T!Op, T!Absent
    <3>7. op \in Puts(k) => op \in CallOperation
      BY <3>3
    <3>8. op \in Changes(k) => op \in CallOperation
      <4> HIDE DEF Change
      <4> QED
        BY <3>5
    <3>9. op \in Combines(k) => op \in CallOperation
      BY <3>6
    <3> HIDE DEF Puts, Changes, Combines
    <3> QED
      BY <3>2, <3>4, <3>7, <3>8, <3>9
  <2> QED
    BY <2>1, <2>2
<1>3. op.key \in TypedKeys
  BY <1>2 DEF CallOperation, T!Operation
<1>4. <<op>> \in Seq(CallOperation) /\ <<op>> # <<>> /\ Head(<<op>>) = op
  BY <1>2
<1>5. call[c].pc = "next"
  BY DEF T!Offers
<1>6. T!Busy(c) => op = Head(call[c].todo) /\ call[c].todo # <<>>
  BY DEF T!Offers, T!Busy, T!Now
<1> QED
  BY <1>1, <1>2, <1>3, <1>4, <1>5, <1>6 DEF T!Batch

\* The table with a version filed, where every number stays in it.
Filed(s, v) ==
  T!InsertAt(s, 1 + T!Cardinality({i \in DOMAIN s : s[i].number <= v.number}), v)
NumbersKept(s, u) == \A i \in DOMAIN s : \E j \in DOMAIN u : u[j].number = s[i].number

\* The order of the numbers is kept; a version above all of them goes to the end.
WellFiled(s, v, r) ==
  /\ r \in Seq(TypedVersion) /\ NumbersRise(r)
  /\ \A i \in DOMAIN r : r[i] = v \/ \E j \in DOMAIN s : r[i] = s[j]
  /\ NumbersKept(s, r) /\ \E i \in DOMAIN r : r[i].number = v.number
  /\ NumbersBelow(s, v.number) => r # <<>> /\ r[Len(r)] = v

\* add_version files a version behind those of its number and below.
LEMMA FileVersion ==
  ASSUME NEW s \in Seq(TypedVersion), NumbersRise(s), NEW v \in TypedVersion,
         NEW r, r = Filed(s, v)
  PROVE  WellFiled(s, v, r)
<1>1. PICK n \in Nat : n = Len(s)
  OBVIOUS
<1>2. DOMAIN s = 1..n /\ \A i \in 1..n : s[i] \in TypedVersion
  BY <1>1
<1>3. \A i \in 1..n : s[i].number \in Int
  BY <1>2 DEF TypedVersion
<1>4. v.number \in Int
  BY DEF TypedVersion
<1>5. \A i, j \in 1..n : i <= j => s[i].number <= s[j].number
  BY <1>2 DEF NumbersRise
<1>6. PICK p \in 0..n : /\ r = InsertBehind(s, p, v)
                        /\ \A i \in 1..n : i <= p <=> s[i].number <= v.number
  <2> DEFINE S == {i \in 1..n : s[i].number <= v.number}
  <2>1. ASSUME NEW i \in S, NEW j \in 1..i PROVE j \in S
    <3>1. i \in 1..n /\ j \in 1..n /\ j <= i
      OBVIOUS
    <3>2. s[j].number <= s[i].number
      BY <1>5, <3>1
    <3> QED
      BY <1>3, <1>4, <3>1, <3>2
  <2>2. S \in SUBSET (1..n)
    OBVIOUS
  <2>3. Cardinality(S) \in 0..n /\ S = 1..Cardinality(S)
    <3> HIDE DEF S
    <3> QED
      BY <2>1, <2>2, FirstPositions
  <2>4. PICK q \in 0..n : q = Cardinality(S)
    BY <2>3
  <2>5. r = T!InsertAt(s, 1 + q, v)
    BY <1>2, <2>4, SameInTyped DEF Filed
  <2>6. r = InsertBehind(s, q, v)
    <3>1. (1 + q) - 1 = q /\ 1 + q = q + 1
      OBVIOUS
    <3> QED
      BY <2>5, <3>1, Zenon DEF T!InsertAt, InsertBehind
  <2>7. \A i \in 1..n : i \in S <=> s[i].number <= v.number
    OBVIOUS
  <2> HIDE DEF S
  <2>8. \A i \in 1..n : i <= q <=> i \in S
    BY <2>3, <2>4
  <2> QED
    BY <2>6, <2>7, <2>8
<1>7. /\ r \in Seq(TypedVersion) /\ Len(r) = n + 1
      /\ \A i \in 1..(n + 1) : r[i] = IF i <= p THEN s[i]
                                      ELSE IF i = p + 1 THEN v ELSE s[i - 1]
  <2>1. p \in 0..Len(s)
    BY <1>1
  <2>2. /\ InsertBehind(s, p, v) \in Seq(TypedVersion)
        /\ Len(InsertBehind(s, p, v)) = Len(s) + 1
        /\ \A i \in 1..(Len(s) + 1) : InsertBehind(s, p, v)[i] =
               IF i <= p THEN s[i] ELSE IF i = p + 1 THEN v ELSE s[i - 1]
    BY <2>1, InsertFacts
  <2> QED
    BY <1>1, <1>6, <2>2
<1>8. \A i \in 1..(n + 1) :
         \/ i <= p /\ i \in 1..n /\ r[i] = s[i]
         \/ i = p + 1 /\ r[i] = v
         \/ i > p + 1 /\ i - 1 \in 1..n /\ r[i] = s[i - 1]
  <2> SUFFICES ASSUME NEW i \in 1..(n + 1)
               PROVE  \/ i <= p /\ i \in 1..n /\ r[i] = s[i]
                      \/ i = p + 1 /\ r[i] = v
                      \/ i > p + 1 /\ i - 1 \in 1..n /\ r[i] = s[i - 1]
    OBVIOUS
  <2>1. r[i] = IF i <= p THEN s[i] ELSE IF i = p + 1 THEN v ELSE s[i - 1]
    BY <1>7
  <2>2. /\ i <= p => i \in 1..n
        /\ ~(i <= p) /\ i # p + 1 => i > p + 1 /\ i - 1 \in 1..n
    OBVIOUS
  <2> QED
    BY <2>1, <2>2
<1>9. ASSUME NEW i \in 1..(n + 1), NEW j \in 1..(n + 1), i <= j
      PROVE  r[i].number <= r[j].number
  <2>1. CASE j <= p
    BY <1>5, <1>8, <1>9, <2>1
  <2>2. CASE j = p + 1
    BY <1>3, <1>4, <1>6, <1>8, <1>9, <2>2
  <2>3. CASE j > p + 1 /\ i <= p
    <3>1. r[i] = s[i] /\ r[j] = s[j - 1] /\ i \in 1..n /\ j - 1 \in 1..n /\ i <= j - 1
      BY <1>8, <1>9, <2>3
    <3> QED
      BY <1>5, <3>1
  <2>4. CASE j > p + 1 /\ i = p + 1
    <3>1. r[i] = v /\ r[j] = s[j - 1] /\ j - 1 \in 1..n /\ ~(j - 1 <= p)
      BY <1>8, <1>9, <2>4
    <3> QED
      BY <1>3, <1>4, <1>6, <3>1
  <2>5. CASE i > p + 1
    <3>1. /\ r[i] = s[i - 1] /\ r[j] = s[j - 1]
          /\ i - 1 \in 1..n /\ j - 1 \in 1..n /\ i - 1 <= j - 1
      BY <1>8, <1>9, <2>5
    <3> QED
      BY <1>5, <3>1
  <2> QED
    BY <2>1, <2>2, <2>3, <2>4, <2>5
<1>10. DOMAIN r = 1..(n + 1) /\ r # <<>>
  BY <1>7
<1>11. NumbersRise(r)
  BY <1>9, <1>10 DEF NumbersRise
<1>12. \A i \in 1..(n + 1) : r[i] = v \/ \E j \in 1..n : r[i] = s[j]
  BY <1>8
<1>13. ASSUME NEW i \in 1..n PROVE \E j \in 1..(n + 1) : r[j].number = s[i].number
  <2>1. CASE i <= p
    <3>1. i \in 1..(n + 1) /\ r[i] = s[i]
      BY <1>7, <2>1
    <3> QED
      BY <3>1
  <2>2. CASE ~(i <= p)
    <3>1. i + 1 \in 1..(n + 1) /\ ~(i + 1 <= p) /\ i + 1 # p + 1 /\ (i + 1) - 1 = i
      BY <2>2
    <3>2. r[i + 1] = s[i]
      BY <1>7, <3>1
    <3> QED
      BY <3>1, <3>2
  <2> QED
    BY <2>1, <2>2
<1>14. p + 1 \in 1..(n + 1) /\ r[p + 1] = v
  BY <1>7
<1>15. ASSUME NumbersBelow(s, v.number) PROVE r[n + 1] = v
  <2>1. p = n
    <3>1. \A i \in 1..n : i <= p
      BY <1>2, <1>3, <1>4, <1>6, <1>15 DEF NumbersBelow
    <3> QED
      BY <3>1
  <2> QED
    BY <1>14, <2>1
<1> QED
  BY <1>2, <1>7, <1>10, <1>11, <1>12, <1>13, <1>14, <1>15, ZenonT(60) DEF NumbersKept, WellFiled

-----------------------------------------------------------------------------
\* A snapshot of now covers every version, so get_typed finds the last one.
LEMMA CoversAll ==
  ASSUME TypedInv, NEW k \in TypedKeys
  PROVE  /\ T!Covered(k) = DOMAIN versions[k]
         /\ versions[k] = <<>> => T!get_typed(k) = T!Absent
         /\ versions[k] # <<>> => /\ Len(versions[k]) \in DOMAIN versions[k]
                                  /\ T!Covered(k) # {} /\ T!Max(T!Covered(k)) = Len(versions[k])
                                  /\ T!get_typed(k) = versions[k][Len(versions[k])].value
         /\ T!get_typed(k) \in PossibleValue
<1>1. PICK s \in Seq(TypedVersion) : s = versions[k]
  BY DEF TypedInv, TypedShapes
<1>2. PICK n \in Nat : n = Len(s)
  OBVIOUS
<1>3. DOMAIN s = 1..n /\ \A i \in 1..n : s[i] \in TypedVersion
  BY <1>2
<1>4. \A i \in 1..n : s[i].number \in Int /\ s[i].number >= 0 /\ s[i].number < seq_
  BY <1>1, <1>3 DEF TypedInv, NumbersBelow, TypedVersion
<1>5. seq_ \in Int
  BY Bounds DEF TypedInv, TypedShapes
<1>6. \A i \in 1..n : s[i].number <= T!SnapshotSeq
  BY <1>4, <1>5 DEF T!SnapshotSeq
<1>7. T!Covered(k) = 1..n
  BY <1>1, <1>3, <1>6 DEF T!Covered
<1>8. CASE s = <<>>
  <2>1. n = 0 /\ T!Covered(k) = {}
    BY <1>2, <1>7, <1>8
  <2> QED
    BY <1>1, <1>3, <1>8, <2>1 DEF T!get_typed, PossibleValue
<1>9. CASE s # <<>>
  <2>1. n \in 1..n
    BY <1>2, <1>9
  <2>2. PICK m : m = Max(1..n)
    OBVIOUS
  <2>3. m \in 1..n /\ n <= m
    <3>1. 1..n \in SUBSET (0..n)
      OBVIOUS
    <3> QED
      BY <2>1, <2>2, <3>1, MaxOfPositions
  <2>4. T!Max(T!Covered(k)) = n
    BY <1>7, <2>2, <2>3, SameInTyped
  <2>5. T!get_typed(k) = s[n].value
    BY <1>1, <1>7, <2>1, <2>4 DEF T!get_typed
  <2>6. s[n].value \in T!Value
    BY <1>3, <2>1 DEF TypedVersion
  <2> QED
    BY <1>1, <1>2, <1>3, <1>7, <1>9, <2>1, <2>4, <2>5, <2>6 DEF PossibleValue
<1> QED
  BY <1>8, <1>9

\* A call that others meet is no longer alone, and else as before.
Met(r, q) == /\ q \in CallRecord /\ q.todo = r.todo /\ q.pc = r.pc /\ q.number = r.number
             /\ q.alone => r.alone

\* What is said of a call does not depend on who met it.
LEMMA MetSame ==
  ASSUME NEW r, NEW q, Met(r, q)
  PROVE  /\ \A k : OnKey(q, k) <=> OnKey(r, k)
         /\ \A s : FilesLast(q, s) <=> FilesLast(r, s)
         /\ \A vs, n : CallsFiled(q, vs, n) <=> CallsFiled(r, vs, n)
<1>1. \A k : OnKey(q, k) <=> OnKey(r, k)
  BY DEF Met, OnKey
<1>2. ValueOf(q) = ValueOf(r)
  BY DEF Met, ValueOf
<1>3. \A s : FilesLast(q, s) <=> FilesLast(r, s)
  BY <1>2 DEF Met, FilesLast
<1>4. \A vs, n : CallsFiled(q, vs, n) <=> CallsFiled(r, vs, n)
  BY DEF Met, CallsFiled
<1> QED
  BY <1>1, <1>3, <1>4

\* A step of one client leaves the calls of the others in order: it files or
\* changes versions only of the key its call is on, and nobody whose key it comes
\* to stays alone.
OthersMet(c) ==
  /\ \A d \in Clients \ {c} : Met(call[d], call'[d])
  /\ \A k : OnKey(call'[c], k) =>
       OnKey(call[c], k) \/ \A d \in Clients \ {c} : OnKey(call[d], k) => ~call'[d].alone
VersionsStay(c) ==
  \A k \in TypedKeys : \/ versions'[k] = versions[k]
                       \/ OnKey(call[c], k) /\ NumbersKept(versions[k], versions'[k])

\* What such a step leaves true of the other clients' calls: the invariant's
\* parts about calls need looking at for the stepping client only.
LEMMA OthersKeep ==
  ASSUME TypedInv, NEW c \in Clients, OthersMet(c), VersionsStay(c),
         seq_' \in Int, seq_ <= seq_'
  PROVE  \A d \in Clients \ {c} : /\ CallsFiled(call'[d], versions', seq_')
                                  /\ \A k \in TypedKeys : AloneOnKey(d, k)'
<1> SUFFICES ASSUME NEW d \in Clients \ {c}
             PROVE  /\ CallsFiled(call'[d], versions', seq_')
                    /\ \A k \in TypedKeys : AloneOnKey(d, k)'
  OBVIOUS
<1>1. PICK r, q : r = call[d] /\ q = call'[d]
  OBVIOUS
<1>2. Met(r, q) /\ r \in CallRecord
  BY <1>1 DEF OthersMet, TypedInv, TypedShapes
<1>3. CallsFiled(r, versions, seq_) /\ seq_ \in Int
  BY <1>1, Bounds DEF TypedInv, TypedShapes
<1>4. CallsFiled(r, versions', seq_')
  <2>1. r.pc \in {"numbered", "inserted"} => r.number \in 0..(seq_' - 1)
    BY <1>3 DEF CallsFiled
  <2>2. ASSUME r.pc = "inserted"
        PROVE  \E i \in DOMAIN versions'[Head(r.todo).key] :
                 versions'[Head(r.todo).key][i].number = r.number
    <3>1. r.todo # <<>> /\ r.todo \in Seq(CallOperation)
      BY <1>2, <1>3, <2>2 DEF CallsFiled, CallRecord
    <3>2. PICK k \in TypedKeys : k = Head(r.todo).key
      BY <3>1, BatchFacts
    <3>3. PICK i \in DOMAIN versions[k] : versions[k][i].number = r.number
      BY <1>3, <2>2, <3>2 DEF CallsFiled
    <3> QED
      BY <3>2, <3>3 DEF VersionsStay, NumbersKept
  <2> QED
    BY <1>3, <2>1, <2>2 DEF CallsFiled
<1>5. CallsFiled(q, versions', seq_')
  BY <1>2, <1>4, MetSame
<1>6. ASSUME NEW k \in TypedKeys, OnKey(q, k), q.alone
      PROVE  /\ \A e \in Clients \ {d} : ~OnKey(call'[e], k)
             /\ FilesLast(q, versions'[k])
  <2>1. OnKey(r, k) /\ r.alone
    BY <1>2, <1>6, MetSame DEF Met
  <2>2. /\ \A e \in Clients \ {d} : ~OnKey(call[e], k)
        /\ FilesLast(r, versions[k])
    BY <1>1, <2>1 DEF TypedInv, AloneOnKey
  <2>3. ~OnKey(call[c], k)
    BY <2>2
  <2>4. versions'[k] = versions[k]
    BY <2>3 DEF VersionsStay
  <2>5. FilesLast(q, versions'[k])
    BY <1>2, <2>2, <2>4, MetSame
  <2>6. ~OnKey(call'[c], k)
    BY <1>1, <1>6, <2>1, <2>3 DEF OthersMet
  <2>7. ASSUME NEW e \in Clients \ {d}, e # c PROVE ~OnKey(call'[e], k)
    <3>1. Met(call[e], call'[e])
      BY <2>7 DEF OthersMet
    <3> QED
      BY <2>2, <3>1, MetSame
  <2> QED
    BY <2>5, <2>6, <2>7
<1> QED
  BY <1>1, <1>5, <1>6 DEF AloneOnKey

\* The call of a client that is between two operations is on no key.
LEMMA BetweenKeeps ==
  ASSUME TypedInv, NEW c \in Clients, OthersMet(c), VersionsStay(c),
         seq_' \in Int, seq_ <= seq_', call'[c].pc = "next"
  PROVE  \A d \in Clients : /\ CallsFiled(call'[d], versions', seq_')
                            /\ \A k \in TypedKeys : AloneOnKey(d, k)'
<1>1. CallsFiled(call'[c], versions', seq_')
  BY DEF CallsFiled
<1>2. \A k \in TypedKeys : AloneOnKey(c, k)'
  BY DEF AloneOnKey, OnKey
<1> QED
  BY <1>1, <1>2, OthersKeep

\* Stores that agree go on doing so where a step writes to neither of them and
\* no put that has filed its version goes away.
LEMMA AgreeStays ==
  ASSUME TypedInv, NEW k \in agree, versions'[k] = versions[k], raw'[k] = raw[k],
         \A c \in Clients : OnKey(call[c], k) /\ call[c].pc = "inserted" =>
                              OnKey(call'[c], k) /\ call'[c].pc = "inserted"
  PROVE  AgreeOn(k)'
<1>1. AgreeOn(k)
  BY DEF TypedInv
<1> QED
  BY <1>1 DEF AgreeOn

\* The same for the steps of one client.
LEMMA AgreeStaysFor ==
  ASSUME TypedInv, NEW c \in Clients, OthersMet(c), NEW k \in agree,
         versions'[k] = versions[k], raw'[k] = raw[k],
         OnKey(call[c], k) /\ call[c].pc = "inserted" =>
           OnKey(call'[c], k) /\ call'[c].pc = "inserted"
  PROVE  AgreeOn(k)'
<1>1. ASSUME NEW d \in Clients \ {c}, OnKey(call[d], k), call[d].pc = "inserted"
      PROVE  OnKey(call'[d], k) /\ call'[d].pc = "inserted"
  <2>1. Met(call[d], call'[d])
    BY DEF OthersMet
  <2> QED
    BY <1>1, <2>1, MetSame DEF Met
<1> QED
  BY <1>1, AgreeStays

-----------------------------------------------------------------------------
\* The records of calls.
LEMMA CallRecords ==
  ASSUME NEW r \in CallRecord
  PROVE  /\ r.todo \in Seq(CallOperation) /\ r.number \in Int /\ r.alone \in BOOLEAN
         /\ r.first \in PossibleValue /\ r.at \in Int
         /\ Met(r, r) /\ Met(r, [r EXCEPT !.alone = FALSE])
         /\ [r EXCEPT !.alone = FALSE].alone = FALSE
         /\ \A s \in Seq(CallOperation) : /\ [T!Idle EXCEPT !.todo = s] \in CallRecord
                                          /\ [T!Idle EXCEPT !.todo = s].pc = "next"
         /\ T!Idle \in CallRecord /\ T!Idle.pc = "next"
<1>1. <<>> \in Seq(CallOperation) /\ T!Absent \in PossibleValue
  BY DEF PossibleValue
<1>2. r.todo \in Seq(CallOperation) /\ r.number \in Int /\ r.alone \in BOOLEAN
      /\ r.first \in PossibleValue /\ r.at \in Int
  BY DEF CallRecord
<1>3. [r EXCEPT !.alone = FALSE] \in CallRecord
  BY DEF CallRecord
<1>4. PICK q \in CallRecord : q = [r EXCEPT !.alone = FALSE]
  BY <1>3
<1>5. q.todo = r.todo /\ q.pc = r.pc /\ q.number = r.number /\ q.alone = FALSE
  BY <1>4 DEF CallRecord
<1>6. Met(r, r) /\ Met(r, q)
  BY <1>5 DEF Met
<1>8. T!Idle \in CallRecord /\ T!Idle.pc = "next"
  BY <1>1 DEF CallRecord, T!Idle
<1>7. ASSUME NEW s \in Seq(CallOperation)
      PROVE  /\ [T!Idle EXCEPT !.todo = s] \in CallRecord
             /\ [T!Idle EXCEPT !.todo = s].pc = "next"
  <2>1. PICK d \in CallRecord : d = T!Idle /\ d.pc = "next"
    BY <1>8
  <2>2. [d EXCEPT !.todo = s] \in CallRecord /\ [d EXCEPT !.todo = s].pc = "next"
    BY <2>1 DEF CallRecord
  <2> QED
    BY <2>1, <2>2
<1> QED
  BY <1>2, <1>4, <1>5, <1>6, <1>7, <1>8

\* A client on a key is what the engine calls inside a write of it.
LEMMA OnKeyIsInside ==
  ASSUME NEW c \in Clients, NEW k
  PROVE  T!Inside(c, k) <=> OnKey(call[c], k)
BY DEF T!Inside, OnKey, T!Busy, T!Now

\* Nobody meets anybody.
LEMMA NobodyMet ==
  ASSUME TypedInv, NEW c \in Clients, \A d \in Clients \ {c} : call'[d] = call[d],
         \A k : OnKey(call'[c], k) => OnKey(call[c], k)
  PROVE  OthersMet(c)
<1>1. \A d \in Clients : call[d] \in CallRecord
  BY DEF TypedInv, TypedShapes
<1>2. \A d \in Clients \ {c} : Met(call[d], call'[d])
  BY <1>1, CallRecords
<1> QED
  BY <1>2 DEF OthersMet

\* The end of an operation.
LEMMA ReturnFacts ==
  ASSUME TypedInv, NEW c \in Clients, T!Return(c), T!Busy(c)
  PROVE  /\ call' \in [Clients -> CallRecord] /\ call'[c].pc = "next"
         /\ OthersMet(c)
<1>1. /\ call \in [Clients -> CallRecord] /\ call[c] \in CallRecord
      /\ call[c].todo \in Seq(CallOperation) /\ call[c].todo # <<>>
  BY DEF TypedInv, TypedShapes, CallRecord, T!Busy
<1>2. PICK q : q = [T!Idle EXCEPT !.todo = Tail(call[c].todo)]
  OBVIOUS
<1>3. q \in CallRecord /\ q.pc = "next"
  BY <1>1, <1>2, BatchFacts, CallRecords
<1>4. call' = [call EXCEPT ![c] = q]
  BY <1>2 DEF T!Return
<1>5. call' \in [Clients -> CallRecord] /\ call'[c] = q /\ \A d \in Clients \ {c} : call'[d] = call[d]
  BY <1>1, <1>3, <1>4
<1>6. \A k : ~OnKey(call'[c], k)
  BY <1>3, <1>5 DEF OnKey
<1> QED
  BY <1>3, <1>5, <1>6, NobodyMet

\* A client that comes to a key.
LEMMA MeetFacts ==
  ASSUME TypedInv, NEW c \in Clients, NEW k \in TypedKeys, NEW q \in CallRecord,
         call' = [T!Meet(c, k) EXCEPT ![c] = q], \A j : OnKey(q, j) => j = k
  PROVE  /\ call' \in [Clients -> CallRecord] /\ call'[c] = q
         /\ OthersMet(c)
<1>1. /\ call \in [Clients -> CallRecord]
      /\ \A d \in Clients : call[d] \in CallRecord
  BY DEF TypedInv, TypedShapes
<1>2. call'[c] = q /\ DOMAIN call' = Clients /\ call' = [d \in Clients |-> call'[d]]
  BY DEF T!Meet
<1>3. ASSUME NEW d \in Clients \ {c}
      PROVE  call'[d] = IF OnKey(call[d], k) THEN [call[d] EXCEPT !.alone = FALSE] ELSE call[d]
  <2>1. T!Meet(c, k)[d] = IF T!Inside(d, k) THEN [call[d] EXCEPT !.alone = FALSE] ELSE call[d]
    BY DEF T!Meet
  <2>2. call'[d] = T!Meet(c, k)[d]
    BY DEF T!Meet
  <2> QED
    BY <2>1, <2>2, OnKeyIsInside
<1>4. \A d \in Clients \ {c} : /\ Met(call[d], call'[d])
                               /\ OnKey(call[d], k) => ~call'[d].alone
  <2> SUFFICES ASSUME NEW d \in Clients \ {c}
               PROVE  Met(call[d], call'[d]) /\ (OnKey(call[d], k) => ~call'[d].alone)
    OBVIOUS
  <2>1. PICK r \in CallRecord : r = call[d]
    BY <1>1
  <2>2. Met(r, r) /\ Met(r, [r EXCEPT !.alone = FALSE]) /\ [r EXCEPT !.alone = FALSE].alone = FALSE
    BY CallRecords
  <2>3. call'[d] = IF OnKey(r, k) THEN [r EXCEPT !.alone = FALSE] ELSE r
    BY <1>3, <2>1
  <2> QED
    BY <2>1, <2>2, <2>3
<1>5. \A d \in Clients : call'[d] \in CallRecord
  BY <1>2, <1>4 DEF Met
<1>6. call' \in [Clients -> CallRecord]
  BY <1>2, <1>5
<1> QED
  BY <1>2, <1>4, <1>6 DEF OthersMet

\* The table of versions where no version is filed or changed.
LEMMA TableStays ==
  ASSUME TypedInv, versions' = versions, acked' = acked, seq_' \in Int, seq_ <= seq_'
  PROVE  /\ \A k \in TypedKeys : /\ NumbersRise(versions'[k]) /\ NumbersBelow(versions'[k], seq_')
                                 /\ AckedIsFiled(k)'
         /\ \A c : VersionsStay(c)
<1>1. \A k \in TypedKeys : NumbersBelow(versions[k], seq_')
  <2> SUFFICES ASSUME NEW k \in TypedKeys, NEW i \in DOMAIN versions[k]
               PROVE  versions[k][i].number < seq_'
    BY DEF NumbersBelow
  <2>1. versions[k] \in Seq(TypedVersion) /\ versions[k][i].number < seq_ /\ seq_ \in Int
    BY Bounds DEF TypedInv, TypedShapes, NumbersBelow
  <2>2. versions[k][i] \in TypedVersion
    BY <2>1
  <2>3. versions[k][i].number \in Int
    BY <2>2 DEF TypedVersion
  <2> QED
    BY <2>1, <2>3
<1>2. \A k \in TypedKeys : NumbersRise(versions[k]) /\ AckedIsFiled(k)
  BY DEF TypedInv
<1>3. \A k \in TypedKeys : AckedIsFiled(k)'
  BY <1>2 DEF AckedIsFiled
<1> QED
  BY <1>1, <1>2, <1>3 DEF VersionsStay

-----------------------------------------------------------------------------
\* next_seq(): what a client then files goes behind all there is, until another
\* comes to its key.
LEMMA TakeNumberKeeps ==
  ASSUME TypedInv, NEW c \in Clients, T!TakeNumber(c)
  PROVE  TypedInv'
<1>1. PICK op \in T!Offers(c) :
        /\ op.type \in {"PUT", "ADD", "REMOVE"}
        /\ call' = [T!Meet(c, op.key) EXCEPT
                      ![c].pc = "numbered", ![c].todo = T!Batch(c, op), ![c].number = seq_,
                      ![c].alone = \A d \in Clients \ {c} : ~T!Inside(d, op.key)]
  BY Zenon DEF T!TakeNumber
<1>2. /\ seq_ \in 0..(MaxNumber - 1) /\ seq_' = seq_ + 1
      /\ UNCHANGED <<versions, raw, logged, tx, acked, agree>>
  BY Bounds DEF T!TakeNumber, T!Draw, TypedInv, TypedShapes
<1>3. PICK k \in TypedKeys, todo \in Seq(CallOperation) :
        k = op.key /\ todo = T!Batch(c, op) /\ todo # <<>> /\ Head(todo) = op
  BY OfferFacts
<1>4. PICK r \in CallRecord : r = call[c]
  BY DEF TypedInv, TypedShapes
<1>5. PICK single \in BOOLEAN : single = \A d \in Clients \ {c} : ~T!Inside(d, k)
  OBVIOUS
<1>6. PICK q \in CallRecord :
        /\ q = [r EXCEPT !.pc = "numbered", !.todo = todo, !.number = seq_, !.alone = single]
        /\ q.pc = "numbered" /\ q.todo = todo /\ q.number = seq_ /\ q.alone = single
  <2>1. [r EXCEPT !.pc = "numbered", !.todo = todo, !.number = seq_, !.alone = single] \in CallRecord
    <3>1. seq_ \in Int
      BY <1>2
    <3> QED
      BY <3>1 DEF CallRecord
  <2> QED
    BY <2>1 DEF CallRecord
<1>7. T!Meet(c, k)[c] = r /\ T!Meet(c, k) = [d \in Clients |-> T!Meet(c, k)[d]]
  BY <1>4 DEF T!Meet
<1>8. call' = [T!Meet(c, k) EXCEPT ![c] = q]
  BY <1>1, <1>3, <1>5, <1>6, <1>7
<1>9. \A j : OnKey(q, j) => j = k
  BY <1>3, <1>6 DEF OnKey
<1>10. call' \in [Clients -> CallRecord] /\ call'[c] = q /\ OthersMet(c)
  BY <1>8, <1>9, MeetFacts
<1>11. TypedShapes'
  <2>1. seq_' \in 0..MaxNumber /\ logged \in 0..seq_'
    BY <1>2, Bounds DEF TypedInv, TypedShapes
  <2> QED
    BY <1>2, <1>10, <2>1 DEF TypedInv, TypedShapes
<1>12. seq_' \in Int /\ seq_ <= seq_' /\ seq_ \in Int
  BY <1>2
<1>13. /\ \A j \in TypedKeys : /\ NumbersRise(versions'[j]) /\ NumbersBelow(versions'[j], seq_')
                               /\ AckedIsFiled(j)'
       /\ VersionsStay(c)
  BY <1>2, <1>12, TableStays
<1>14. \A d \in Clients \ {c} : /\ CallsFiled(call'[d], versions', seq_')
                                /\ \A j \in TypedKeys : AloneOnKey(d, j)'
  BY <1>10, <1>12, <1>13, OthersKeep
<1>15. CallsFiled(q, versions', seq_')
  BY <1>2, <1>3, <1>6 DEF CallsFiled
<1>16. ASSUME NEW j \in TypedKeys, OnKey(q, j), q.alone
       PROVE  /\ \A d \in Clients \ {c} : ~OnKey(call'[d], j)
              /\ FilesLast(q, versions'[j])
  <2>1. j = k
    BY <1>9, <1>16
  <2>2. \A d \in Clients \ {c} : ~OnKey(call[d], k)
    BY <1>5, <1>6, <1>16, OnKeyIsInside
  <2>3. \A d \in Clients \ {c} : ~OnKey(call'[d], k)
    BY <1>10, <2>2, MetSame DEF OthersMet
  <2>4. NumbersBelow(versions[k], seq_)
    BY DEF TypedInv
  <2>5. FilesLast(q, versions[k])
    BY <1>6, <2>4 DEF FilesLast
  <2> QED
    BY <1>2, <2>1, <2>3, <2>5
<1>17. \A j \in TypedKeys : AloneOnKey(c, j)'
  BY <1>10, <1>16 DEF AloneOnKey
<1>18. r.pc = "next"
  BY <1>4, OfferFacts
<1>19. \A j \in agree' : AgreeOn(j)'
  BY <1>2, <1>4, <1>10, <1>18, AgreeStaysFor
<1> QED
  BY <1>10, <1>11, <1>13, <1>14, <1>15, <1>17, <1>19 DEF TypedInv

\* Filing a version: alone on its key it becomes the last.
LEMMA InsertKeeps ==
  ASSUME TypedInv, NEW c \in Clients, T!InsertTyped(c)
  PROVE  TypedInv'
<1>1. PICK r \in CallRecord : r = call[c]
  BY DEF TypedInv, TypedShapes
<1>2. /\ r.todo # <<>> /\ r.todo \in Seq(CallOperation) /\ r.pc = "numbered"
      /\ Head(r.todo).type = "PUT"
  BY <1>1 DEF T!InsertTyped, T!Busy, T!Now, CallRecord
<1>3. PICK k \in TypedKeys : k = Head(r.todo).key
  BY <1>2, BatchFacts
<1>4. r.number \in 0..(seq_ - 1) /\ seq_ \in 0..MaxNumber
  BY <1>1, <1>2 DEF TypedInv, TypedShapes, CallsFiled
<1>5. PICK v : v = [number |-> r.number, value |-> ValueOf(r)]
  OBVIOUS
<1>6. v \in TypedVersion /\ v.number = r.number
  <2>1. Head(r.todo).value \in T!Value /\ r.number \in Int
    BY <1>2, BatchFacts, CallRecords
  <2>2. ValueOf(r) \in T!Value
    BY <2>1 DEF ValueOf, T!Value
  <2> QED
    BY <1>4, <1>5, <2>2, Bounds DEF TypedVersion
<1>7. PICK s \in Seq(TypedVersion) : s = versions[k]
  BY DEF TypedInv, TypedShapes
<1>8. PICK u : u = Filed(s, v)
  OBVIOUS
<1>9. /\ versions' = [versions EXCEPT ![k] = u]
      /\ call' = [call EXCEPT ![c].pc = "inserted"]
      /\ UNCHANGED <<seq_, raw, logged, tx, acked, agree>>
  BY <1>1, <1>3, <1>5, <1>7, <1>8, Zenon
  DEF T!InsertTyped, T!Now, T!Named, T!add_version, ValueOf, Filed
<1>10. NumbersRise(s) /\ NumbersBelow(s, seq_)
  BY <1>7 DEF TypedInv
<1>11. /\ u \in Seq(TypedVersion) /\ NumbersRise(u)
       /\ \A i \in DOMAIN u : u[i] = v \/ \E j \in DOMAIN s : u[i] = s[j]
       /\ NumbersKept(s, u) /\ \E i \in DOMAIN u : u[i].number = v.number
       /\ NumbersBelow(s, v.number) => u # <<>> /\ u[Len(u)] = v
  <2>1. WellFiled(s, v, u)
    BY <1>6, <1>8, <1>10, FileVersion
  <2> QED
    BY <2>1 DEF WellFiled
<1>12. NumbersBelow(u, seq_)
  BY <1>4, <1>6, <1>10, <1>11 DEF NumbersBelow
<1>13. PICK q \in CallRecord :
         /\ q = [r EXCEPT !.pc = "inserted"] /\ q.pc = "inserted"
         /\ q.todo = r.todo /\ q.number = r.number /\ q.alone = r.alone
  <2>1. [r EXCEPT !.pc = "inserted"] \in CallRecord
    BY DEF CallRecord
  <2> QED
    BY <2>1 DEF CallRecord
<1>14. /\ call' = [call EXCEPT ![c] = q] /\ call' \in [Clients -> CallRecord] /\ call'[c] = q
       /\ \A d \in Clients \ {c} : call'[d] = call[d]
  BY <1>1, <1>9, <1>13 DEF TypedInv, TypedShapes
<1>15. \A j : (OnKey(q, j) <=> j = k) /\ (OnKey(r, j) <=> j = k)
  BY <1>2, <1>3, <1>13 DEF OnKey
<1>16. OthersMet(c)
  BY <1>1, <1>14, <1>15, NobodyMet
<1>17. /\ versions'[k] = u /\ \A j \in TypedKeys \ {k} : versions'[j] = versions[j]
       /\ versions' \in [TypedKeys -> Seq(TypedVersion)]
  BY <1>9, <1>11 DEF TypedInv, TypedShapes
<1>18. VersionsStay(c)
  BY <1>1, <1>7, <1>11, <1>15, <1>17 DEF VersionsStay
<1>19. seq_' \in Int /\ seq_ <= seq_'
  BY <1>4, <1>9, Bounds
<1>20. \A d \in Clients \ {c} : /\ CallsFiled(call'[d], versions', seq_')
                                /\ \A j \in TypedKeys : AloneOnKey(d, j)'
  BY <1>16, <1>18, <1>19, OthersKeep
<1>21. CallsFiled(q, versions', seq_')
  BY <1>2, <1>3, <1>4, <1>6, <1>9, <1>11, <1>13, <1>17 DEF CallsFiled
<1>22. ASSUME NEW j \in TypedKeys, OnKey(q, j), q.alone
       PROVE  /\ \A d \in Clients \ {c} : ~OnKey(call'[d], j)
              /\ FilesLast(q, versions'[j])
  <2>1. j = k /\ r.alone
    BY <1>13, <1>15, <1>22
  <2>2. /\ \A d \in Clients \ {c} : ~OnKey(call[d], k)
        /\ FilesLast(r, s)
    BY <1>1, <1>7, <1>15, <2>1 DEF TypedInv, AloneOnKey
  <2>3. u # <<>> /\ u[Len(u)] = v
    BY <1>2, <1>6, <1>11, <2>2 DEF FilesLast
  <2>4. ValueOf(q) = ValueOf(r)
    BY <1>13 DEF ValueOf
  <2>5. FilesLast(q, u)
    BY <1>5, <1>13, <2>3, <2>4 DEF FilesLast
  <2> QED
    BY <1>14, <1>17, <2>1, <2>2, <2>5
<1>23. \A j \in TypedKeys : AloneOnKey(c, j)'
  BY <1>14, <1>22 DEF AloneOnKey
<1>24. ASSUME NEW j \in agree PROVE AgreeOn(j)'
  <2>1. CASE j = k
    BY <1>13, <1>14, <1>15, <2>1 DEF AgreeOn
  <2>2. CASE j # k
    <3>1. j \in TypedKeys /\ ~OnKey(call[c], j)
      BY <1>1, <1>15, <2>2 DEF TypedInv, TypedShapes
    <3> QED
      BY <1>9, <1>16, <1>17, <2>2, <3>1, AgreeStaysFor
  <2> QED
    BY <2>1, <2>2
<1>25. TypedShapes'
  BY <1>9, <1>14, <1>17 DEF TypedInv, TypedShapes
<1>26. ASSUME NEW j \in TypedKeys
       PROVE  /\ NumbersRise(versions'[j]) /\ NumbersBelow(versions'[j], seq_')
              /\ AckedIsFiled(j)'
  <2>1. AckedIsFiled(j) /\ NumbersRise(versions[j]) /\ NumbersBelow(versions[j], seq_)
    BY DEF TypedInv
  <2>2. acked'[j] = acked[j]
    BY <1>9
  <2>3. NumbersKept(versions[j], versions'[j])
    <3>1. CASE j = k
      BY <1>7, <1>11, <1>17, <3>1
    <3>2. CASE j # k
      BY <1>17, <3>2 DEF NumbersKept
    <3> QED
      BY <3>1, <3>2
  <2>4. AckedIsFiled(j)'
    BY <2>1, <2>2, <2>3 DEF AckedIsFiled, NumbersKept
  <2> QED
    BY <1>9, <1>11, <1>12, <1>17, <2>1, <2>4
<1> QED
  BY <1>9, <1>14, <1>20, <1>21, <1>23, <1>24, <1>25, <1>26 DEF TypedInv

\* The end of put_typed: alone on its key it leaves the stores in agreement.
LEMMA PutRawKeeps ==
  ASSUME TypedInv, NEW c \in Clients, T!PutRaw(c)
  PROVE  TypedInv'
<1>1. PICK r \in CallRecord : r = call[c]
  BY DEF TypedInv, TypedShapes
<1>2. r.todo # <<>> /\ r.todo \in Seq(CallOperation) /\ r.pc = "inserted"
  BY <1>1 DEF T!PutRaw, T!Busy, CallRecord
<1>3. PICK k \in TypedKeys : k = Head(r.todo).key
  BY <1>2, BatchFacts
<1>4. /\ Head(r.todo).type = "PUT"
      /\ \E i \in DOMAIN versions[k] : versions[k][i].number = r.number
  BY <1>1, <1>2, <1>3 DEF TypedInv, CallsFiled
<1>5. PICK v \in T!Value : v = ValueOf(r)
  <2>1. Head(r.todo).value \in T!Value /\ r.number \in Int
    BY <1>2, <1>4, BatchFacts, CallRecords
  <2> QED
    BY <2>1 DEF ValueOf, T!Value
<1>6. seq_ \in 0..MaxNumber /\ seq_ < MaxNumber /\ seq_' = seq_ + 1 /\ logged' = logged + 1
      /\ logged \in 0..seq_
  BY DEF T!PutRaw, T!Draw, TypedInv, TypedShapes
<1>7. /\ raw' = [raw EXCEPT ![k] = v]
      /\ acked' = [acked EXCEPT ![k] = T!Max({@, r.number})]
      /\ agree' = IF r.alone THEN agree \cup {k} ELSE agree \ {k}
      /\ T!Return(c) /\ T!Busy(c)
      /\ UNCHANGED <<versions, tx>>
  BY <1>1, <1>3, <1>5 DEF T!PutRaw, T!Now, T!Named, ValueOf
<1>8. call' \in [Clients -> CallRecord] /\ call'[c].pc = "next" /\ OthersMet(c)
  BY <1>7, ReturnFacts
<1>9. seq_' \in 0..MaxNumber /\ seq_' \in Int /\ seq_ <= seq_' /\ logged' \in 0..seq_'
  BY <1>6, Bounds
<1>10. VersionsStay(c)
  BY <1>7 DEF VersionsStay
<1>11. \A d \in Clients : /\ CallsFiled(call'[d], versions', seq_')
                          /\ \A j \in TypedKeys : AloneOnKey(d, j)'
  BY <1>8, <1>9, <1>10, BetweenKeeps
<1>12. acked[k] \in Int /\ r.number \in Int
  BY CallRecords DEF TypedInv, TypedShapes
<1>13. T!Max({acked[k], r.number}) = IF acked[k] <= r.number THEN r.number ELSE acked[k]
  BY <1>12, MaxOfTwo
<1>14. /\ acked' \in [TypedKeys -> Int]
       /\ acked'[k] = r.number \/ acked'[k] = acked[k]
       /\ \A j \in TypedKeys \ {k} : acked'[j] = acked[j]
  BY <1>7, <1>12, <1>13 DEF TypedInv, TypedShapes
<1>15. TypedShapes'
  BY <1>5, <1>7, <1>8, <1>9, <1>14 DEF TypedInv, TypedShapes, PossibleValue
<1>16. ASSUME NEW j \in TypedKeys
       PROVE  /\ NumbersRise(versions'[j]) /\ NumbersBelow(versions'[j], seq_')
              /\ AckedIsFiled(j)'
  <2>1. AckedIsFiled(j) /\ NumbersRise(versions[j])
    BY DEF TypedInv
  <2>2. NumbersBelow(versions[j], seq_')
    <3>1. versions[j] \in Seq(TypedVersion) /\ NumbersBelow(versions[j], seq_)
      BY DEF TypedInv, TypedShapes
    <3>2. \A i \in DOMAIN versions[j] : versions[j][i] \in TypedVersion
      BY <3>1
    <3>3. \A i \in DOMAIN versions[j] : versions[j][i].number \in Int
      BY <3>2 DEF TypedVersion
    <3> QED
      BY <1>6, <1>9, <3>1, <3>3 DEF NumbersBelow
  <2>3. PICK s : s = versions[j] /\ s = versions'[j]
    BY <1>7
  <2>4. CASE acked'[j] = acked[j]
    <3>1. acked[j] >= 0 => \E i \in DOMAIN s : s[i].number >= acked[j]
      BY <2>1, <2>3 DEF AckedIsFiled
    <3>2. acked'[j] >= 0 => \E i \in DOMAIN s : s[i].number >= acked'[j]
      BY <2>4, <3>1
    <3> QED
      BY <1>7, <2>1, <2>2, <2>3, <3>2 DEF AckedIsFiled
  <2>5. CASE j = k /\ acked'[k] = r.number
    <3>1. PICK i \in DOMAIN versions[k] : versions[k][i].number = r.number
      BY <1>4
    <3>2. versions[k][i].number >= r.number
      BY <1>12, <3>1
    <3>3. \E e \in DOMAIN s : s[e].number >= acked'[j]
      BY <2>5, <2>3, <3>2
    <3> QED
      BY <1>7, <2>1, <2>2, <2>3, <3>3 DEF AckedIsFiled
  <2> QED
    BY <1>7, <1>14, <2>1, <2>2, <2>4, <2>5
<1>17. \A j : OnKey(call[c], j) => j = k
  BY <1>1, <1>3 DEF OnKey
<1>18. ASSUME NEW j \in agree' PROVE AgreeOn(j)'
  <2>1. CASE j = k
    <3>1. r.alone /\ OnKey(call[c], k)
      BY <1>1, <1>2, <1>3, <1>4, <1>7, <1>18, <2>1 DEF OnKey
    <3>2. FilesLast(r, versions[k])
      BY <1>1, <3>1 DEF TypedInv, AloneOnKey
    <3>3. versions[k] # <<>> /\ versions[k][Len(versions[k])].value = v
      BY <1>2, <1>5, <3>2 DEF FilesLast
    <3>4. raw'[k] = v
      BY <1>7 DEF TypedInv, TypedShapes
    <3> QED
      BY <1>7, <2>1, <3>3, <3>4 DEF AgreeOn
  <2>2. CASE j # k
    <3>1. j \in agree /\ ~OnKey(call[c], j)
      BY <1>7, <1>17, <1>18, <2>2
    <3>2. raw'[j] = raw[j]
      BY <1>7, <2>2 DEF TypedInv, TypedShapes
    <3> QED
      BY <1>7, <1>8, <3>1, <3>2, AgreeStaysFor
  <2> QED
    BY <2>1, <2>2
<1> QED
  BY <1>11, <1>15, <1>16, <1>18 DEF TypedInv

\* del writes one store, which ends the agreement.
LEMMA DeleteRawKeeps ==
  ASSUME TypedInv, NEW c \in Clients, T!DeleteRaw(c)
  PROVE  TypedInv'
<1>1. PICK op \in T!Offers(c) :
        /\ op.type = "DELETE"
        /\ raw' = [raw EXCEPT ![op.key] = T!Absent]
        /\ agree' = agree \ {op.key}
        /\ call' = [T!Meet(c, op.key) EXCEPT ![c] = [T!Idle EXCEPT !.todo = Tail(T!Batch(c, op))]]
  BY DEF T!DeleteRaw
<1>2. PICK k \in TypedKeys : k = op.key
  BY OfferFacts
<1>3. T!Batch(c, op) \in Seq(CallOperation) /\ T!Batch(c, op) # <<>> /\ call[c].pc = "next"
  BY OfferFacts
<1>4. PICK q \in CallRecord : q = [T!Idle EXCEPT !.todo = Tail(T!Batch(c, op))] /\ q.pc = "next"
  <2>1. PICK s \in Seq(CallOperation) : s = Tail(T!Batch(c, op))
    BY <1>3, BatchFacts
  <2>2. PICK r \in CallRecord : r = call[c]
    BY DEF TypedInv, TypedShapes
  <2> QED
    BY <2>1, <2>2, CallRecords
<1>5. \A j : ~OnKey(q, j)
  BY <1>4 DEF OnKey
<1>6. call' \in [Clients -> CallRecord] /\ call'[c] = q /\ OthersMet(c)
  BY <1>1, <1>2, <1>4, <1>5, MeetFacts
<1>7. /\ seq_ \in 0..MaxNumber /\ seq_ < MaxNumber /\ seq_' = seq_ + 1 /\ logged' = logged + 1
      /\ logged \in 0..seq_
      /\ UNCHANGED <<versions, tx, acked>>
  BY DEF T!DeleteRaw, T!Draw, TypedInv, TypedShapes
<1>8. seq_' \in 0..MaxNumber /\ seq_' \in Int /\ seq_ <= seq_' /\ logged' \in 0..seq_'
  BY <1>7, Bounds
<1>9. /\ \A j \in TypedKeys : /\ NumbersRise(versions'[j]) /\ NumbersBelow(versions'[j], seq_')
                              /\ AckedIsFiled(j)'
      /\ VersionsStay(c)
  BY <1>7, <1>8, TableStays
<1>10. \A d \in Clients : /\ CallsFiled(call'[d], versions', seq_')
                          /\ \A j \in TypedKeys : AloneOnKey(d, j)'
  BY <1>4, <1>6, <1>8, <1>9, BetweenKeeps
<1>11. /\ raw' \in [TypedKeys -> PossibleValue]
       /\ \A j \in TypedKeys \ {k} : raw'[j] = raw[j]
  BY <1>1, <1>2 DEF TypedInv, TypedShapes, PossibleValue
<1>12. TypedShapes'
  BY <1>1, <1>6, <1>7, <1>8, <1>11 DEF TypedInv, TypedShapes
<1>13. ASSUME NEW j \in agree' PROVE AgreeOn(j)'
  <2>1. j \in agree /\ raw'[j] = raw[j]
    BY <1>1, <1>2, <1>11, <1>13 DEF TypedInv, TypedShapes
  <2> QED
    BY <1>3, <1>6, <1>7, <2>1, AgreeStaysFor
<1> QED
  BY <1>9, <1>10, <1>12, <1>13 DEF TypedInv

\* A step that changes nothing but the call of a client and its transaction.
LEMMA CallStepKeeps ==
  ASSUME TypedInv, NEW c \in Clients, UNCHANGED <<seq_, versions, raw, logged, acked>>,
         tx' \in [Clients -> TransactionRecord], agree' \subseteq agree,
         call' \in [Clients -> CallRecord], OthersMet(c),
         \/ call'[c].pc = "next"
         \/ call'[c].pc = "held" /\ call'[c].todo # <<>>
              /\ (call'[c].alone => call[c].alone)
              /\ \A k : OnKey(call'[c], k) => OnKey(call[c], k),
         call[c].pc # "inserted"
  PROVE  TypedInv'
<1>1. seq_' \in Int /\ seq_ <= seq_'
  BY Bounds DEF TypedInv, TypedShapes
<1>2. /\ \A j \in TypedKeys : /\ NumbersRise(versions'[j]) /\ NumbersBelow(versions'[j], seq_')
                              /\ AckedIsFiled(j)'
      /\ VersionsStay(c)
  BY <1>1, TableStays
<1>3. \A d \in Clients \ {c} : /\ CallsFiled(call'[d], versions', seq_')
                               /\ \A j \in TypedKeys : AloneOnKey(d, j)'
  BY <1>1, <1>2, OthersKeep
<1>4. CallsFiled(call'[c], versions', seq_')
  BY DEF CallsFiled
<1>5. ASSUME NEW k \in TypedKeys, OnKey(call'[c], k), call'[c].alone
      PROVE  /\ \A d \in Clients \ {c} : ~OnKey(call'[d], k)
             /\ FilesLast(call'[c], versions'[k])
  <2>1. call'[c].pc = "held" /\ OnKey(call[c], k) /\ call[c].alone
    BY <1>5 DEF OnKey
  <2>2. \A d \in Clients \ {c} : ~OnKey(call[d], k)
    BY <2>1 DEF TypedInv, AloneOnKey
  <2>3. \A d \in Clients \ {c} : ~OnKey(call'[d], k)
    BY <2>2, MetSame DEF OthersMet
  <2> QED
    BY <2>1, <2>3 DEF FilesLast
<1>6. \A k \in TypedKeys : AloneOnKey(c, k)'
  BY <1>5 DEF AloneOnKey
<1>7. ASSUME NEW k \in agree' PROVE AgreeOn(k)'
  BY <1>7, AgreeStaysFor
<1>8. TypedShapes'
  BY DEF TypedInv, TypedShapes
<1> QED
  BY <1>2, <1>3, <1>4, <1>6, <1>7, <1>8 DEF TypedInv

\* get_mutable_value.
LEMMA LocateKeeps ==
  ASSUME TypedInv, NEW c \in Clients, T!Locate(c)
  PROVE  TypedInv'
<1>1. PICK r \in CallRecord : r = call[c]
  BY DEF TypedInv, TypedShapes
<1>2. /\ r.todo # <<>> /\ r.pc = "numbered" /\ T!Busy(c)
      /\ UNCHANGED <<seq_, versions, raw, logged, tx, acked, agree>>
      /\ tx \in [Clients -> TransactionRecord]
  BY <1>1 DEF T!Locate, T!Busy, TypedInv, TypedShapes
<1>3. CASE T!Return(c)
  BY <1>1, <1>2, <1>3, ReturnFacts, CallStepKeeps
<1>4. CASE ~T!Return(c)
  <2>1. PICK all : all = versions[Head(r.todo).key]
    OBVIOUS
  <2>2. call' = [call EXCEPT ![c].pc = "held", ![c].at = Len(all), ![c].len = Len(all)]
    BY <1>1, <1>4, <2>1 DEF T!Locate, T!Now
  <2>3. Len(all) \in Int
    <3>1. r.todo \in Seq(CallOperation)
      BY CallRecords
    <3>2. all \in Seq(TypedVersion)
      BY <1>2, <2>1, <3>1, BatchFacts DEF TypedInv, TypedShapes
    <3> QED
      BY <3>2
  <2>4. PICK q \in CallRecord :
          /\ q = [r EXCEPT !.pc = "held", !.at = Len(all), !.len = Len(all)]
          /\ q.pc = "held" /\ q.todo = r.todo /\ q.alone = r.alone
    <3>1. [r EXCEPT !.pc = "held", !.at = Len(all), !.len = Len(all)] \in CallRecord
      BY <2>3 DEF CallRecord
    <3> QED
      BY <3>1 DEF CallRecord
  <2>5. /\ call' \in [Clients -> CallRecord] /\ call'[c] = q
        /\ \A d \in Clients \ {c} : call'[d] = call[d]
    BY <1>1, <2>2, <2>4 DEF TypedInv, TypedShapes
  <2>6. \A k : OnKey(q, k) => OnKey(r, k)
    BY <1>2, <2>4 DEF OnKey
  <2>7. OthersMet(c)
    BY <1>1, <2>5, <2>6, NobodyMet
  <2>8. /\ call'[c].pc = "held" /\ call'[c].todo # <<>>
        /\ call'[c].alone => call[c].alone
        /\ \A k : OnKey(call'[c], k) => OnKey(call[c], k)
    BY <1>1, <1>2, <2>4, <2>5, <2>6
  <2>9. tx' \in [Clients -> TransactionRecord] /\ agree' \subseteq agree /\ call[c].pc # "inserted"
    BY <1>1, <1>2
  <2> QED
    BY <1>2, <2>5, <2>7, <2>8, <2>9, CallStepKeeps
<1> QED
  BY <1>3, <1>4

\* The reads of the operations on two sets, and what they then put.
LEMMA CombineKeeps ==
  ASSUME TypedInv, NEW c \in Clients, T!ReadFirst(c) \/ T!ReadSecond(c)
  PROVE  TypedInv'
<1>1. PICK r \in CallRecord : r = call[c]
  BY DEF TypedInv, TypedShapes
<1>2. /\ UNCHANGED <<seq_, versions, raw, logged, tx, acked, agree>>
      /\ tx \in [Clients -> TransactionRecord]
  BY Zenon DEF T!ReadFirst, T!ReadSecond, TypedInv, TypedShapes
<1>3. CASE T!ReadFirst(c)
  <2>1. PICK op \in T!Offers(c) :
          /\ op.type = "COMBINE"
          /\ call' = [call EXCEPT ![c].pc = "held", ![c].todo = <<op>>,
                                  ![c].first = T!get_typed(op.key)]
    BY <1>3, Zenon DEF T!ReadFirst
  <2>2. op.key \in TypedKeys /\ <<op>> \in Seq(CallOperation) /\ Head(<<op>>) = op /\ r.pc = "next"
        /\ <<op>> # <<>>
    BY <1>1, OfferFacts
  <2>3. PICK f \in PossibleValue : f = T!get_typed(op.key)
    BY <2>2, CoversAll
  <2>4. PICK todo \in Seq(CallOperation) : todo = <<op>> /\ Head(todo) = op /\ todo # <<>>
    BY <2>2
  <2>5. PICK q \in CallRecord :
          /\ q = [r EXCEPT !.pc = "held", !.todo = todo, !.first = f]
          /\ q.pc = "held" /\ q.todo = todo /\ q.alone = r.alone
    <3>1. [r EXCEPT !.pc = "held", !.todo = todo, !.first = f] \in CallRecord
      BY DEF CallRecord
    <3> QED
      BY <3>1 DEF CallRecord
  <2>6. /\ call' \in [Clients -> CallRecord] /\ call'[c] = q
        /\ \A d \in Clients \ {c} : call'[d] = call[d]
    BY <1>1, <2>1, <2>3, <2>4, <2>5 DEF TypedInv, TypedShapes
  <2>7. \A k : ~OnKey(q, k)
    BY <2>1, <2>4, <2>5 DEF OnKey
  <2>8. OthersMet(c)
    BY <2>6, <2>7, NobodyMet
  <2>9. /\ call'[c].pc = "held" /\ call'[c].todo # <<>>
        /\ call'[c].alone => call[c].alone
        /\ \A k : OnKey(call'[c], k) => OnKey(call[c], k)
    BY <1>1, <2>4, <2>5, <2>6, <2>7
  <2>10. tx' \in [Clients -> TransactionRecord] /\ agree' \subseteq agree /\ call[c].pc # "inserted"
    BY <1>1, <1>2, <2>2
  <2> QED
    BY <1>2, <2>6, <2>8, <2>9, <2>10, CallStepKeeps
<1>4. CASE T!ReadSecond(c)
  <2>1. T!Busy(c) /\ r.todo # <<>> /\ r.pc = "held" /\ Head(r.todo).type = "COMBINE"
    BY <1>1, <1>4 DEF T!ReadSecond, T!Busy, T!Now
  <2>2. CASE T!Return(c)
    BY <1>1, <1>2, <2>1, <2>2, ReturnFacts, CallStepKeeps
  <2>3. CASE ~T!Return(c)
    <3>1. PICK a, b : a = r.first.items /\ b = T!get_typed(Head(r.todo).other).items
      OBVIOUS
    <3>2. PICK s \in {a \cup b, a \cap b, a \ b}, key \in TypedKeys :
            call' = [call EXCEPT ![c] = [T!Idle EXCEPT !.todo =
                       <<T!Op("PUT", key, [T!Fresh("CONTAINER") EXCEPT !.items = s])>>]]
      BY <1>1, <1>4, <2>3, <3>1, Zenon DEF T!ReadSecond, T!Now
    <3>3. s \subseteq Elements
      <4>1. r.todo \in Seq(CallOperation) /\ r.first \in PossibleValue
        BY CallRecords
      <4>2. Head(r.todo).other \in TypedKeys
        <5>1. Head(r.todo) \in CallOperation
          BY <2>1, <4>1, BatchFacts
        <5> QED
          BY <5>1 DEF CallOperation, T!Operation
      <4>3. T!get_typed(Head(r.todo).other) \in PossibleValue
        BY <4>2, CoversAll
      <4>4. \A v \in PossibleValue : v.items \subseteq Elements
        BY DEF PossibleValue, T!Value, T!Absent
      <4> QED
        BY <3>1, <3>2, <4>1, <4>3, <4>4
    <3>4. PICK op \in CallOperation :
            op = T!Op("PUT", key, [T!Fresh("CONTAINER") EXCEPT !.items = s])
      <4>1. [T!Fresh("CONTAINER") EXCEPT !.items = s] \in T!Value
        BY <3>3 DEF T!Fresh, T!Value, T!Kinds
      <4> QED
        BY <4>1 DEF T!Op, CallOperation, T!Operation
    <3>5. PICK todo \in Seq(CallOperation) : todo = <<op>>
      <4>1. <<op>> \in Seq(CallOperation)
        BY <3>4
      <4> QED
        BY <4>1
    <3>6. PICK q \in CallRecord : q = [T!Idle EXCEPT !.todo = todo] /\ q.pc = "next"
      BY CallRecords
    <3>7. /\ call' \in [Clients -> CallRecord] /\ call'[c] = q
          /\ \A d \in Clients \ {c} : call'[d] = call[d]
      BY <3>2, <3>4, <3>5, <3>6 DEF TypedInv, TypedShapes
    <3>8. \A k : ~OnKey(q, k)
      BY <3>6 DEF OnKey
    <3>9. OthersMet(c)
      BY <3>7, <3>8, NobodyMet
    <3> QED
      BY <1>1, <1>2, <2>1, <3>6, <3>7, <3>9, CallStepKeeps
  <2> QED
    BY <2>2, <2>3
<1> QED
  BY <1>3, <1>4

\* The buffer of a transaction, and the batch that its commit becomes.
LEMMA TransactionKeeps ==
  ASSUME TypedInv, NEW c \in Clients, T!Transaction(c)
  PROVE  TypedInv'
<1>1. PICK r \in CallRecord : r = call[c]
  BY DEF TypedInv, TypedShapes
<1>2. r.todo = <<>> /\ r.pc = "next" /\ UNCHANGED <<seq_, versions, raw, logged, acked, agree>>
  <2>1. r.todo = <<>> /\ UNCHANGED <<seq_, versions, raw, logged, acked, agree>>
    BY <1>1 DEF T!Transaction, T!Busy
  <2> QED
    BY <1>1, <2>1 DEF TypedInv, CallsFiled
<1>3. PICK w \in TransactionRecord : w = tx[c] /\ w.operations \in Seq(CallOperation)
  BY DEF TypedInv, TypedShapes, TransactionRecord
<1>4. tx' \in [Clients -> TransactionRecord]
  <2>1. [w EXCEPT !.open = TRUE] \in TransactionRecord /\ T!Closed \in TransactionRecord
    <3>1. <<>> \in Seq(CallOperation)
      OBVIOUS
    <3> QED
      BY <3>1 DEF TransactionRecord, T!Closed
  <2>2. ASSUME NEW k \in TypedKeys, NEW op, op = T!Op("PUT", k, T!Fresh("CONTAINER"))
                                            \/ op = T!Op("DELETE", k, T!Absent)
        PROVE  [w EXCEPT !.operations = Append(@, op)] \in TransactionRecord
    <3>1. op \in CallOperation
      BY <2>2 DEF CallOperation, T!Operation, T!Op, T!Fresh, T!Absent, T!Kinds, T!Value
    <3>2. Append(w.operations, op) \in Seq(CallOperation)
      BY <1>3, <3>1
    <3> QED
      BY <3>2 DEF TransactionRecord
  <2>3. \/ tx' = [tx EXCEPT ![c].open = TRUE]
        \/ \E k \in TypedKeys :
             \E op \in {T!Op("PUT", k, T!Fresh("CONTAINER")), T!Op("DELETE", k, T!Absent)} :
               tx' = [tx EXCEPT ![c].operations = Append(@, op)]
        \/ tx' = [tx EXCEPT ![c] = T!Closed]
    BY DEF T!Transaction
  <2>4. CASE tx' = [tx EXCEPT ![c].open = TRUE]
    BY <1>3, <2>1, <2>4 DEF TypedInv, TypedShapes
  <2>5. ASSUME NEW k \in TypedKeys,
               NEW op \in {T!Op("PUT", k, T!Fresh("CONTAINER")), T!Op("DELETE", k, T!Absent)},
               tx' = [tx EXCEPT ![c].operations = Append(@, op)]
        PROVE  tx' \in [Clients -> TransactionRecord]
    <3>1. PICK e \in TransactionRecord : e = [w EXCEPT !.operations = Append(@, op)]
      BY <2>2
    <3>2. tx' = [tx EXCEPT ![c] = e]
      BY <1>3, <2>5, <3>1
    <3> QED
      BY <3>2 DEF TypedInv, TypedShapes
  <2>6. CASE tx' = [tx EXCEPT ![c] = T!Closed]
    BY <2>1, <2>6 DEF TypedInv, TypedShapes
  <2> QED
    BY <2>3, <2>4, <2>5, <2>6
<1>5. PICK q \in CallRecord :
        /\ call' = [call EXCEPT ![c] = q] /\ q.pc = "next"
  <2>1. CASE call' = call
    <3>1. call' = [call EXCEPT ![c] = r]
      BY <1>1, <2>1 DEF TypedInv, TypedShapes
    <3> QED
      BY <1>2, <3>1
  <2>2. CASE call' = [call EXCEPT ![c].todo = tx[c].operations]
    <3>1. PICK q \in CallRecord : q = [r EXCEPT !.todo = w.operations] /\ q.pc = r.pc
      <4>1. [r EXCEPT !.todo = w.operations] \in CallRecord
        BY <1>3 DEF CallRecord
      <4> QED
        BY <4>1 DEF CallRecord
    <3>2. call' = [call EXCEPT ![c] = q]
      BY <1>1, <1>3, <2>2, <3>1
    <3> QED
      BY <1>2, <3>1, <3>2
  <2>3. call' = call \/ call' = [call EXCEPT ![c].todo = tx[c].operations]
    BY DEF T!Transaction
  <2> QED
    BY <2>1, <2>2, <2>3
<1>6. /\ call' \in [Clients -> CallRecord] /\ call'[c] = q
      /\ \A d \in Clients \ {c} : call'[d] = call[d]
  BY <1>5 DEF TypedInv, TypedShapes
<1>7. \A k : ~OnKey(q, k)
  BY <1>5 DEF OnKey
<1>8. OthersMet(c)
  BY <1>6, <1>7, NobodyMet
<1> QED
  BY <1>1, <1>2, <1>4, <1>5, <1>6, <1>8, CallStepKeeps

\* The change through the pointer keeps the numbers, ends the agreement, and finds
\* nobody alone on its key but the client itself.
LEMMA MutateKeeps ==
  ASSUME TypedInv, NEW c \in Clients, T!Mutate(c)
  PROVE  TypedInv'
<1>1. PICK r \in CallRecord : r = call[c]
  BY DEF TypedInv, TypedShapes
<1>2. /\ r.todo # <<>> /\ r.todo \in Seq(CallOperation) /\ r.pc = "held"
      /\ Head(r.todo).type \in {"ADD", "REMOVE"} /\ T!Busy(c)
  BY <1>1, Zenon DEF T!Mutate, T!Busy, T!Now, CallRecord
<1>3. PICK k \in TypedKeys, op \in CallOperation : op = Head(r.todo) /\ k = op.key
  BY <1>2, BatchFacts
<1>4. PICK s \in Seq(TypedVersion) : s = versions[k]
  BY DEF TypedInv, TypedShapes
<1>5. /\ \/ versions' = [versions EXCEPT ![k][r.at].value = T!Changed(op, @)]
         \/ versions' = versions
      /\ agree' = agree \ {k} /\ T!Return(c)
      /\ UNCHANGED <<seq_, raw, logged, tx, acked>>
  BY <1>1, <1>3, Zenon DEF T!Mutate, T!Now
<1>6. PICK u \in Seq(TypedVersion) :
        /\ versions' = [versions EXCEPT ![k] = u]
        /\ DOMAIN u = DOMAIN s /\ \A i \in DOMAIN s : u[i].number = s[i].number
  <2>1. CASE versions' = versions
    <3>1. versions' = [versions EXCEPT ![k] = s]
      BY <1>4, <2>1 DEF TypedInv, TypedShapes
    <3> QED
      BY <3>1
  <2>2. CASE versions' = [versions EXCEPT ![k][r.at].value = T!Changed(op, @)]
    <3>1. PICK u : u = [s EXCEPT ![r.at].value = T!Changed(op, @)]
      OBVIOUS
    <3>2. versions' = [versions EXCEPT ![k] = u]
      BY <1>4, <2>2, <3>1
    <3>3. \A i \in DOMAIN s : s[i] \in TypedVersion
      OBVIOUS
    <3>4. \A v \in T!Value : T!Changed(op, v) \in T!Value
      <4>1. op.value \in PossibleValue
        BY DEF CallOperation, T!Operation, PossibleValue
      <4>2. op.value.items \subseteq Elements
        BY <4>1 DEF PossibleValue, T!Value, T!Absent
      <4> QED
        BY <4>2 DEF T!Changed, T!Value
    <3>5. DOMAIN u = DOMAIN s /\ \A i \in DOMAIN s :
            u[i] = IF i = r.at THEN [s[i] EXCEPT !.value = T!Changed(op, @)] ELSE s[i]
      BY <3>1
    <3>6. \A i \in DOMAIN s : u[i] \in TypedVersion /\ u[i].number = s[i].number
      <4> SUFFICES ASSUME NEW i \in DOMAIN s PROVE u[i] \in TypedVersion /\ u[i].number = s[i].number
        OBVIOUS
      <4>1. PICK x \in TypedVersion : x = s[i]
        BY <3>3
      <4>2. PICK y \in T!Value : y = T!Changed(op, x.value)
        BY <3>4 DEF TypedVersion
      <4>3. u[i] = x \/ u[i] = [x EXCEPT !.value = y]
        BY <3>5, <4>1, <4>2
      <4>4. [x EXCEPT !.value = y] \in TypedVersion /\ [x EXCEPT !.value = y].number = x.number
        BY DEF TypedVersion
      <4> QED
        BY <4>1, <4>3, <4>4
    <3>7. u \in Seq(TypedVersion)
      <4>1. DOMAIN s = 1..Len(s) /\ Len(s) \in Nat
        OBVIOUS
      <4>2. u \in [1..Len(s) -> TypedVersion]
        BY <3>1, <3>5, <3>6, <4>1
      <4> QED
        BY <4>1, <4>2
    <3> QED
      BY <3>2, <3>5, <3>6, <3>7
  <2> QED
    BY <1>5, <2>1, <2>2
<1>7. /\ versions'[k] = u /\ \A j \in TypedKeys \ {k} : versions'[j] = versions[j]
      /\ versions' \in [TypedKeys -> Seq(TypedVersion)]
  BY <1>6 DEF TypedInv, TypedShapes
<1>8. call' \in [Clients -> CallRecord] /\ call'[c].pc = "next" /\ OthersMet(c)
  BY <1>2, <1>5, ReturnFacts
<1>9. OnKey(call[c], k) /\ call[c].pc # "inserted"
  BY <1>1, <1>2, <1>3 DEF OnKey
<1>10. NumbersKept(s, u)
  BY <1>6 DEF NumbersKept
<1>11. VersionsStay(c)
  BY <1>4, <1>7, <1>9, <1>10 DEF VersionsStay
<1>12. seq_' \in Int /\ seq_ <= seq_'
  BY <1>5, Bounds DEF TypedInv, TypedShapes
<1>13. \A d \in Clients : /\ CallsFiled(call'[d], versions', seq_')
                          /\ \A j \in TypedKeys : AloneOnKey(d, j)'
  BY <1>8, <1>11, <1>12, BetweenKeeps
<1>14. TypedShapes'
  BY <1>5, <1>7, <1>8 DEF TypedInv, TypedShapes
<1>15. ASSUME NEW j \in TypedKeys
       PROVE  /\ NumbersRise(versions'[j]) /\ NumbersBelow(versions'[j], seq_')
              /\ AckedIsFiled(j)'
  <2>1. AckedIsFiled(j) /\ NumbersRise(versions[j]) /\ NumbersBelow(versions[j], seq_)
    BY DEF TypedInv
  <2>2. CASE j # k
    BY <1>5, <1>7, <2>1, <2>2 DEF AckedIsFiled
  <2>3. CASE j = k
    <3>1. NumbersRise(s) /\ NumbersBelow(s, seq_)
      BY <1>4, <2>1, <2>3
    <3>2. NumbersRise(u) /\ NumbersBelow(u, seq_)
      BY <1>6, <3>1 DEF NumbersRise, NumbersBelow
    <3>3. PICK a : a = acked[k] /\ a = acked'[k]
      BY <1>5
    <3>4. a >= 0 => \E i \in DOMAIN s : s[i].number >= a
      BY <1>4, <2>1, <2>3, <3>3 DEF AckedIsFiled
    <3>5. a >= 0 => \E i \in DOMAIN u : u[i].number >= a
      BY <1>6, <3>4
    <3>6. AckedIsFiled(k)'
      BY <1>7, <3>3, <3>5 DEF AckedIsFiled
    <3> QED
      BY <1>5, <1>7, <2>3, <3>2, <3>6
  <2> QED
    BY <2>2, <2>3
<1>16. ASSUME NEW j \in agree' PROVE AgreeOn(j)'
  <2>1. j \in agree /\ j # k /\ j \in TypedKeys
    BY <1>5, <1>16 DEF TypedInv, TypedShapes
  <2> QED
    BY <1>5, <1>7, <1>8, <1>9, <2>1, AgreeStaysFor
<1> QED
  BY <1>13, <1>14, <1>15, <1>16 DEF TypedInv

\* Reopening starts with an empty table and no calls.
LEMMA ReopenKeeps ==
  ASSUME TypedInv, T!Reopen
  PROVE  TypedInv'
<1>1. /\ seq_' = logged /\ versions' = [k \in TypedKeys |-> <<>>]
      /\ call' = [c \in Clients |-> T!Idle] /\ tx' = [c \in Clients |-> T!Closed]
      /\ acked' = [k \in TypedKeys |-> -1] /\ agree' = {} /\ UNCHANGED <<raw, logged>>
  BY DEF T!Reopen
<1>2. <<>> \in Seq(CallOperation) /\ <<>> \in Seq(TypedVersion)
  OBVIOUS
<1>3. T!Idle \in CallRecord /\ T!Closed \in TransactionRecord /\ T!Idle.pc = "next"
  BY <1>2 DEF CallRecord, T!Idle, TransactionRecord, T!Closed, PossibleValue
<1>4. seq_' \in 0..MaxNumber /\ logged' \in 0..seq_'
  BY <1>1, Bounds DEF TypedInv, TypedShapes
<1>5. TypedShapes'
  BY <1>1, <1>2, <1>3, <1>4 DEF TypedInv, TypedShapes
<1>6. \A k \in TypedKeys : versions'[k] = <<>> /\ DOMAIN versions'[k] = {} /\ acked'[k] = -1
  BY <1>1
<1>7. \A k \in TypedKeys : /\ NumbersRise(versions'[k]) /\ NumbersBelow(versions'[k], seq_')
                           /\ AckedIsFiled(k)'
  BY <1>6 DEF NumbersRise, NumbersBelow, AckedIsFiled
<1>8. \A c \in Clients : call'[c].pc = "next"
  BY <1>1, <1>3
<1>9. \A c \in Clients : /\ CallsFiled(call'[c], versions', seq_')
                         /\ \A k \in TypedKeys : AloneOnKey(c, k)'
  BY <1>8 DEF CallsFiled, AloneOnKey, OnKey
<1> QED
  BY <1>1, <1>5, <1>7, <1>9 DEF TypedInv

\* Every step of the engine.
LEMMA TypedKeeps ==
  ASSUME TypedInv, [T!TypedNext]_(T!typedVars)
  PROVE  TypedInv'
<1>1. CASE UNCHANGED T!typedVars
  <2>1. UNCHANGED <<seq_, versions, raw, logged, call, tx, acked, agree>>
    BY <1>1 DEF T!typedVars
  <2>2. TypedShapes'
    BY <2>1 DEF TypedInv, TypedShapes
  <2>3. \A k \in TypedKeys : AckedIsFiled(k)' /\ \A c \in Clients : AloneOnKey(c, k)'
    BY <2>1 DEF TypedInv, AckedIsFiled, AloneOnKey
  <2>4. \A k \in agree : AgreeOn(k)'
    BY <2>1 DEF TypedInv, AgreeOn
  <2> QED
    BY <2>1, <2>2, <2>3, <2>4 DEF TypedInv
<1>2. CASE T!Reopen
  BY <1>2, ReopenKeeps
<1>3. ASSUME NEW c \in Clients, T!TypedStep(c) PROVE TypedInv'
  BY <1>3, TakeNumberKeeps, InsertKeeps, PutRawKeeps, DeleteRawKeeps, LocateKeeps,
     CombineKeeps, MutateKeeps, TransactionKeeps DEF T!TypedStep
<1> QED
  BY <1>1, <1>2, <1>3 DEF T!TypedNext

\* The engine starts empty.
LEMMA TypedInitial == T!TypedInit => TypedInv
<1> SUFFICES ASSUME T!TypedInit PROVE TypedInv
  OBVIOUS
<1>1. /\ seq_ = 0 /\ logged = 0 /\ versions = [k \in TypedKeys |-> <<>>]
      /\ raw = [k \in TypedKeys |-> T!Absent]
      /\ call = [c \in Clients |-> T!Idle] /\ tx = [c \in Clients |-> T!Closed]
      /\ acked = [k \in TypedKeys |-> -1] /\ agree = {}
  BY DEF T!TypedInit
<1>2. <<>> \in Seq(CallOperation) /\ <<>> \in Seq(TypedVersion)
  OBVIOUS
<1>3. T!Idle \in CallRecord /\ T!Closed \in TransactionRecord /\ T!Idle.pc = "next"
  BY <1>2 DEF CallRecord, T!Idle, TransactionRecord, T!Closed, PossibleValue
<1>4. seq_ \in 0..MaxNumber /\ logged \in 0..seq_
  BY <1>1, Bounds
<1>5. TypedShapes
  BY <1>1, <1>2, <1>3, <1>4 DEF TypedShapes, PossibleValue
<1>6. \A k \in TypedKeys : versions[k] = <<>> /\ DOMAIN versions[k] = {} /\ acked[k] = -1
  BY <1>1
<1>7. \A k \in TypedKeys : /\ NumbersRise(versions[k]) /\ NumbersBelow(versions[k], seq_)
                           /\ AckedIsFiled(k)
  BY <1>6 DEF NumbersRise, NumbersBelow, AckedIsFiled
<1>8. \A c \in Clients : call[c].pc = "next"
  BY <1>1, <1>3
<1>9. \A c \in Clients : /\ CallsFiled(call[c], versions, seq_)
                         /\ \A k \in TypedKeys : AloneOnKey(c, k)
  BY <1>8 DEF CallsFiled, AloneOnKey, OnKey
<1> QED
  BY <1>1, <1>5, <1>7, <1>9 DEF TypedInv

\* What returned is found, and the stores agree where they should.
LEMMA TypedImplies == TypedInv => T!TypedTypeOK /\ T!TypedPutsAreFound /\ T!StoresAgree
<1> SUFFICES ASSUME TypedInv PROVE T!TypedTypeOK /\ T!TypedPutsAreFound /\ T!StoresAgree
  OBVIOUS
<1>1. T!TypedTypeOK
  <2>1. ASSUME NEW k \in TypedKeys, NEW i \in DOMAIN versions[k]
        PROVE  versions[k][i] \in [number : 0..(MaxNumber - 1), value : T!Value]
    <3>1. versions[k] \in Seq(TypedVersion)
      BY DEF TypedInv, TypedShapes
    <3>2. versions[k][i] \in TypedVersion
      BY <3>1
    <3> QED
      BY <3>2 DEF TypedVersion
  <2>2. ASSUME NEW s \in Seq(CallOperation), NEW i \in DOMAIN s PROVE s[i] \in T!Operation
    <3>1. s[i] \in CallOperation
      OBVIOUS
    <3> QED
      BY <3>1 DEF CallOperation
  <2>3. ASSUME NEW c \in Clients
        PROVE  /\ call[c].todo \in Seq(CallOperation) /\ tx[c].operations \in Seq(CallOperation)
               /\ call[c].pc \in {"next", "numbered", "inserted", "held"}
    BY DEF TypedInv, TypedShapes, CallRecord, TransactionRecord
  <2>4. seq_ \in 0..MaxNumber /\ agree \subseteq TypedKeys /\ raw \in [TypedKeys -> T!Value \cup {T!Absent}]
    BY DEF TypedInv, TypedShapes, PossibleValue
  <2> QED
    BY <2>1, <2>2, <2>3, <2>4 DEF T!TypedTypeOK
<1>2. ASSUME NEW k \in TypedKeys, acked[k] >= 0
      PROVE  T!Covered(k) # {} /\ versions[k][T!Max(T!Covered(k))].number >= acked[k]
  <2>1. PICK s \in Seq(TypedVersion) : s = versions[k]
    BY DEF TypedInv, TypedShapes
  <2>2. PICK a \in Int : a = acked[k]
    BY DEF TypedInv, TypedShapes
  <2>3. NumbersRise(s) /\ \E i \in DOMAIN s : s[i].number >= a
    BY <1>2, <2>1, <2>2 DEF TypedInv, AckedIsFiled
  <2>4. PICK i \in DOMAIN s : s[i].number >= a
    BY <2>3
  <2>5. s # <<>> /\ i \in 1..Len(s) /\ Len(s) \in DOMAIN s
    BY <2>4
  <2>6. s[i].number <= s[Len(s)].number
    BY <2>3, <2>5 DEF NumbersRise
  <2>7. s[i] \in TypedVersion /\ s[Len(s)] \in TypedVersion
    BY <2>5
  <2>8. s[i].number \in Int /\ s[Len(s)].number \in Int
    BY <2>7 DEF TypedVersion
  <2>9. s[Len(s)].number >= a
    BY <2>4, <2>6, <2>8
  <2> QED
    BY <2>1, <2>2, <2>5, <2>9, CoversAll
<1>3. ASSUME NEW k \in agree, \A c \in Clients : ~T!Inside(c, k)
      PROVE  raw[k] = T!get_typed(k)
  <2>1. k \in TypedKeys /\ AgreeOn(k)
    BY DEF TypedInv, TypedShapes
  <2>2. versions[k] # <<>> /\ raw[k] = versions[k][Len(versions[k])].value
    BY <1>3, <2>1, OnKeyIsInside DEF AgreeOn
  <2> QED
    BY <2>1, <2>2, CoversAll
<1> QED
  BY <1>1, <1>2, <1>3 DEF T!TypedPutsAreFound, T!StoresAgree

-----------------------------------------------------------------------------
\* Each step of the bench is one of the manager, or leaves it alone, and so for
\* the engine.
LEMMA ReadersAlone ==
  ASSUME [MCNext]_mcvars
  PROVE  [M!Next]_(M!vars) /\ [T!TypedNext]_(T!typedVars)
BY DEF MCNext, mcvars, chains, typed, M!vars, T!typedVars

\* For any number of transactions, keys, clients and calls: a chain stays in order
\* and shows only what was committed, a put_typed that has returned is found, and
\* the stores of the typed engine agree where the last call was an undisturbed put.
THEOREM ReadsStayCommitted == MCSpec => []ReadsAreCommitted
<1>1. MCInit => ChainInv /\ TypedInv
  BY ChainInitial, TypedInitial DEF MCInit
<1>2. ChainInv /\ TypedInv /\ [MCNext]_mcvars => ChainInv' /\ TypedInv'
  BY ReadersAlone, ChainStep, TypedKeeps
<1>3. ChainInv /\ TypedInv => ReadsAreCommitted
  BY ChainImplies, TypedImplies DEF ReadsAreCommitted
<1> QED
  BY <1>1, <1>2, <1>3, PTL DEF MCSpec

(***************************************************************************)
(* Snapshots and iterators: the hand-shake between writers and iterators,  *)
(* and the numbers of the snapshots.                                       *)
(***************************************************************************)
\* The variables TypeOK leaves open are functions.
Shapes ==
  /\ disciplined \subseteq Iters
  /\ invalidated \in [Iters -> BOOLEAN]
  /\ inner \in [Iters -> {"idle", "loaded"}]
  /\ taken \in [Handles -> [applied : SUBSET Int, pending : SUBSET Int]]

\* A disciplined iterator between its test and its move is registered and holds
\* its read lock; from the raising of the flags to the end of the write every
\* registered iterator is flagged; and the counts have been awaited before the
\* writer changes anything.
HandShake ==
  /\ \A i \in disciplined : inner[i] = "loaded" => i \in registered /\ ref_count[i] = 1
  /\ writer \in {"waiting", "writing", "numbered"} => \A i \in registered : invalidated[i]
  /\ DisciplinedNeverRaces

\* A held snapshot was taken when all numbers up to its own were applied, or
\* about to be; those applied stay applied.
SnapshotInv ==
  \A h \in Handles : handle[h] # None =>
    /\ taken[h].applied \subseteq Applied
    /\ \A n \in taken[h].applied : n <= handle[h]
    /\ \A n \in 0..handle[h] : n \in taken[h].applied \cup taken[h].pending

IInv == TypeOK /\ Shapes /\ HandShake /\ SnapshotInv

-----------------------------------------------------------------------------
\* The types hold at every step of writers, iterators and clients.
LEMMA TypeStep ==
  ASSUME MaxSeq \in Nat, TypeOK, Shapes, [Next]_vars
  PROVE  TypeOK' /\ Shapes'
<1> USE DEF TypeOK, Shapes, None
<1>1. CASE UNCHANGED vars
  BY <1>1 DEF vars
<1>2. ASSUME NEW h \in Handles, get_snapshot(h)
      PROVE  TypeOK' /\ Shapes'
  <2>1. [applied |-> Applied, pending |-> IF seq = 0 THEN {0} ELSE Pending]
          \in [applied : SUBSET Int, pending : SUBSET Int]
    BY DEF Applied, Pending
  <2>2. taken' \in [Handles -> [applied : SUBSET Int, pending : SUBSET Int]]
    BY <1>2, <2>1 DEF get_snapshot, Take
  <2> QED
    BY <1>2, <2>2 DEF get_snapshot, Take, iterator_vars
<1>3. ASSUME NEW h \in Handles, release_snapshot(h)
      PROVE  TypeOK' /\ Shapes'
  BY <1>3 DEF release_snapshot, Release, iterator_vars
<1>4. ASSUME NEW i \in Iters, new_concurrent_iterator(i) \/ drop_iterator(i)
      PROVE  TypeOK' /\ Shapes'
  BY <1>4 DEF new_concurrent_iterator, drop_iterator
<1>5. ASSUME NEW i \in Iters, acquire_read_lock(i) \/ release_read_lock(i)
      PROVE  TypeOK' /\ Shapes'
  <2>1. ref_count' \in [Iters -> 0..1]
    BY <1>5 DEF acquire_read_lock, release_read_lock
  <2> QED
    BY <1>5, <2>1 DEF acquire_read_lock, release_read_lock
<1>7. ASSUME NEW i \in Iters, step_load(i) \/ step_move(i)
      PROVE  TypeOK' /\ Shapes'
  BY <1>7 DEF step_load, step_move
<1>8. CASE lock_db \/ wait_for_iterators \/ apply
  BY <1>8 DEF lock_db, wait_for_iterators, apply, Writer
<1>9. CASE number
  BY <1>9 DEF number, Writer
<1>6. CASE invalidate_all_iterators
  BY <1>6 DEF invalidate_all_iterators, Writer
<1> QED
  BY <1>1, <1>2, <1>3, <1>4, <1>5, <1>6, <1>7, <1>8, <1>9 DEF Next

\* Each party of the hand-shake keeps its side of it.
LEMMA HandShakeStep ==
  ASSUME TypeOK, Shapes, HandShake, [Next]_vars
  PROVE  HandShake'
<1> USE DEF TypeOK, Shapes, HandShake, DisciplinedNeverRaces
<1>1. CASE UNCHANGED vars
  BY <1>1 DEF vars
<1>2. ASSUME NEW h \in Handles, get_snapshot(h) \/ release_snapshot(h)
      PROVE  HandShake'
  BY <1>2 DEF get_snapshot, Take, release_snapshot, Release, iterator_vars
<1>3. ASSUME NEW i \in Iters, new_concurrent_iterator(i)
      PROVE  HandShake'
  BY <1>3 DEF new_concurrent_iterator
<1>4. ASSUME NEW i \in Iters, drop_iterator(i)
      PROVE  HandShake'
  BY <1>4 DEF drop_iterator
<1>5. ASSUME NEW i \in Iters, acquire_read_lock(i)
      PROVE  HandShake'
  BY <1>5 DEF acquire_read_lock
<1>6. ASSUME NEW i \in Iters, release_read_lock(i)
      PROVE  HandShake'
  BY <1>6 DEF release_read_lock
<1>7. ASSUME NEW i \in Iters, step_load(i)
      PROVE  HandShake'
  BY <1>7 DEF step_load
<1>8. ASSUME NEW i \in Iters, step_move(i)
      PROVE  HandShake'
  BY <1>8 DEF step_move
<1>9. CASE lock_db \/ number \/ apply
  BY <1>9 DEF lock_db, number, apply, Writer
<1>10. CASE invalidate_all_iterators
  BY <1>10 DEF invalidate_all_iterators, Writer
<1>11. CASE wait_for_iterators
  <2>1. \A i \in disciplined : inner[i] = "idle"
    BY <1>11 DEF wait_for_iterators
  <2> QED
    BY <1>11, <2>1 DEF wait_for_iterators, Writer
<1> QED
  BY <1>1, <1>2, <1>3, <1>4, <1>5, <1>6, <1>7, <1>8, <1>9, <1>10, <1>11 DEF Next

\* A write that is applied is never undone.
LEMMA AppliedGrows ==
  ASSUME TypeOK, MaxSeq \in Nat, [Next]_vars
  PROVE  Applied \subseteq Applied'
<1> USE DEF TypeOK, Applied, Pending
<1>1. CASE seq' = seq /\ writer' = writer
  BY <1>1
<1>2. CASE number \/ apply
  BY <1>2 DEF number, apply, Writer
<1>3. CASE lock_db \/ invalidate_all_iterators \/ wait_for_iterators
  BY <1>3 DEF lock_db, invalidate_all_iterators, wait_for_iterators, Writer
<1> QED
  BY <1>1, <1>2, <1>3
  DEF Next, vars, get_snapshot, Take, release_snapshot, Release, iterator_vars,
      new_concurrent_iterator, drop_iterator, acquire_read_lock, release_read_lock,
      step_load, step_move

\* A snapshot keeps what it saw, whatever is written after it.
LEMMA SnapshotStep ==
  ASSUME TypeOK, Shapes, MaxSeq \in Nat, SnapshotInv, [Next]_vars
  PROVE  SnapshotInv'
<1> USE DEF TypeOK, Shapes, None, SnapshotInv
<1>1. ASSUME NEW h \in Handles, get_snapshot(h)
      PROVE  SnapshotInv'
  <2> DEFINE s == IF seq > 0 THEN seq - 1 ELSE 0
             p == IF seq = 0 THEN {0} ELSE Pending
  <2>1. handle'[h] = s /\ taken'[h].applied = Applied /\ taken'[h].pending = p
    BY <1>1 DEF get_snapshot, Take
  <2>2. Applied' = Applied
    BY <1>1 DEF get_snapshot, Take, iterator_vars, Applied, Pending
  <2>3. \A g \in Handles \ {h} : handle'[g] = handle[g] /\ taken'[g] = taken[g]
    BY <1>1 DEF get_snapshot, Take
  <2>4. \A n \in Applied : n <= s
    BY DEF Applied, Pending
  <2>5. \A n \in 0..s : n \in Applied \cup p
    BY DEF Applied, Pending
  <2> HIDE DEF s, p
  <2> QED
    BY <2>1, <2>2, <2>3, <2>4, <2>5
<1>2. ASSUME NEW h \in Handles, release_snapshot(h)
      PROVE  SnapshotInv'
  <2>1. Applied' = Applied
    BY <1>2 DEF release_snapshot, Release, iterator_vars, Applied, Pending
  <2> QED
    BY <1>2, <2>1 DEF release_snapshot, Release
<1>3. CASE UNCHANGED <<handle, taken>>
  BY <1>3, AppliedGrows
<1> QED
  BY <1>1, <1>2, <1>3
  DEF Next, vars, new_concurrent_iterator, drop_iterator, acquire_read_lock,
      release_read_lock, step_load, step_move, lock_db, invalidate_all_iterators,
      wait_for_iterators, number, apply

-----------------------------------------------------------------------------
\* IInv holds in every state.
LEMMA IInvHolds == ASSUME MaxSeq \in Nat PROVE Spec => []IInv
<1>1. Init => IInv
  BY DEF Init, IInv, TypeOK, None, Shapes, HandShake, DisciplinedNeverRaces, SnapshotInv
<1>2. IInv /\ [Next]_vars => IInv'
  BY TypeStep, HandShakeStep, SnapshotStep DEF IInv
<1> QED
  BY <1>1, <1>2, PTL DEF Spec

\* No iterator whose user keeps to the read lock moves over a MemTable that is
\* being written, and a snapshot sees the writes of its time and, however much is
\* written later, of the others only the one whose number was already drawn or,
\* in an empty store, the first.
THEOREM ReadersSeeTheirPast ==
  ASSUME MaxSeq \in Nat PROVE Spec => []IteratorsSeeTheirPast
<1>1. IInv => SnapshotSeesItsPast
  <2> SUFFICES ASSUME IInv, NEW h \in Handles, handle[h] # None
               PROVE  /\ taken[h].applied \subseteq Sees(h)
                      /\ Sees(h) \subseteq taken[h].applied \cup taken[h].pending
    BY DEF SnapshotSeesItsPast
  <2>1. handle[h] \in 0..MaxSeq
    BY DEF IInv, TypeOK, None
  <2>2. \A n \in Applied : n \in Int /\ n >= 0
    BY DEF IInv, TypeOK, Applied
  <2> QED
    BY <2>1, <2>2 DEF IInv, SnapshotInv, Sees
<1>2. IInv => IteratorsSeeTheirPast
  BY <1>1 DEF IteratorsSeeTheirPast, IInv, HandShake
<1> QED
  BY <1>2, IInvHolds, PTL

\* A snapshot in use stays pinned and bounds what a compaction may drop, until it
\* or another one of the same number is released.
THEOREM SnapshotsStayPinned ==
  ASSUME MaxSeq \in Nat PROVE Spec => HeldStaysPinned
<1>1. ASSUME IInv, IInv', [Next]_vars, NEW h \in Handles,
             handle[h] # None, handle'[h] = handle[h], handle[h] \in active
      PROVE  \/ handle[h] \in active' /\ min_seq' <= handle[h]
             \/ \E g \in Handles : handle[g] = handle[h] /\ handle'[g] = None
  <2>1. \/ handle[h] \in active'
        \/ \E g \in Handles : handle[g] = handle[h] /\ handle'[g] = None
    BY <1>1
    DEF IInv, TypeOK, None, Next, vars, get_snapshot, Take, release_snapshot, Release,
        new_concurrent_iterator, drop_iterator, acquire_read_lock,
        release_read_lock, step_load, step_move, lock_db, invalidate_all_iterators,
        wait_for_iterators, number, apply
  <2>2. handle[h] \in active' => min_seq' <= handle[h]
    BY <1>1, MinOfNumbers DEF min_seq, IInv, TypeOK
  <2> QED
    BY <2>1, <2>2
<1>2. IInv /\ IInv' /\ [Next]_vars =>
        [\A h \in Handles :
           (handle[h] # None /\ handle'[h] = handle[h] /\ handle[h] \in active) =>
              \/ handle[h] \in active' /\ min_seq' <= handle[h]
              \/ \E g \in Handles : handle[g] = handle[h] /\ handle'[g] = None]_vars
  BY <1>1
<1> QED
  BY <1>2, IInvHolds, PTL DEF Spec, HeldStaysPinned

-----------------------------------------------------------------------------
\* Each step of the bench is one of the iterators and snapshots, or leaves them
\* alone.
LEMMA IteratorsAlone ==
  ASSUME [MCNext]_mcvars
  PROVE  [Next]_vars
BY DEF MCNext, mcvars, vars

\* For any number of transactions and keys, and of handles and writes: no
\* collection takes the newest version of a key none of whose versions was
\* removed, and a snapshot in use stays pinned and bounds what a compaction may
\* drop.
THEOREM ReadableStays == MCSpec => ReadableIsKept
<1> DEFINE Kept ==
             \A k \in Keys :
               version_chains[k] # <<>>
                 => /\ version_chains'[k] # <<>>
                    /\ (\A i \in DOMAIN version_chains[k] : version_chains[k][i].delete = 0)
                         => M!create_timestamp(M!Last(version_chains'[k]))
                              >= M!create_timestamp(M!Last(version_chains[k]))
<1>1. MCInit => ChainInv /\ Init
  BY ChainInitial DEF MCInit
<1>2. ChainInv /\ [MCNext]_mcvars => ChainInv'
  BY ReadersAlone, ChainStep
<1>3. [MCNext]_mcvars => [Next]_vars
  BY IteratorsAlone
<1>4. ChainInv /\ [MCNext]_mcvars => [Kept]_(M!vars)
  <2> SUFFICES ASSUME ChainInv, [MCNext]_mcvars PROVE Kept
    OBVIOUS
  <2>1. NewestKeptStep
    BY ReadersAlone, ChainStep
  <2> QED
    BY <2>1 DEF NewestKeptStep, NewestKept, M!create_timestamp, M!Last
<1>5. Spec => HeldStaysPinned
  BY SnapshotsStayPinned, Bounds
<1> QED
  BY <1>1, <1>2, <1>3, <1>4, <1>5, PTL
  DEF MCSpec, Spec, ReadableIsKept, M!CollectionKeepsNewest
=============================================================================
