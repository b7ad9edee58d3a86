------------------------ MODULE ConcurrentKVDBProofs ------------------------
(***************************************************************************)
(* The buffered engine keeps every write, once and in order, and a get     *)
(* never goes back to an older one: for every number of keys, workers and  *)
(* writes and every size of the buffer.                                    *)
(***************************************************************************)
EXTENDS ConcurrentKVDB, FiniteSetTheorems, SequenceTheorems, NaturalsInduction, TLAPS

\* The table followed by the buffer holds the writes in the order of their
\* numbers: the write with number n stands at place n + 1.
SeqInv ==
  /\ TypeOK
  /\ Len(table) + Len(pending_writes) = next_seq
  /\ \A i \in 1..Len(table) : table[i].seq = i - 1
  /\ \A i \in 1..Len(pending_writes) : pending_writes[i].seq = Len(table) + i - 1

\* What a call puts into the buffer has the numbers that follow.
LEMMA BufferKeeps ==
  ASSUME MaxSeq \in Nat, SeqInv, NEW keys \in Seq(Keys), Buffer(keys), table' = table,
         flush_requested' \in BOOLEAN, task_queue' \in Seq(Keys),
         running' \in [Workers -> Keys \cup {"none"}]
  PROVE  SeqInv'
<1> DEFINE new == [i \in DOMAIN keys |-> [key |-> keys[i], seq |-> next_seq + i - 1]]
<1>1. /\ next_seq \in Nat /\ next_seq + Len(keys) <= MaxSeq /\ Len(keys) \in Nat
      /\ next_seq' = next_seq + Len(keys) /\ pending_writes' = pending_writes \o new
      /\ pending_writes \in Seq(Version) /\ table \in Seq(Version)
  BY DEF SeqInv, TypeOK, Buffer
<1>2. DOMAIN keys = 1..Len(keys)
  OBVIOUS
<1>3. ASSUME NEW i \in 1..Len(keys)
      PROVE  new[i] \in Version /\ new[i].seq = next_seq + i - 1
  <2>1. next_seq + i - 1 \in 0..(MaxSeq - 1) /\ keys[i] \in Keys
    BY <1>1
  <2>2. new[i] = [key |-> keys[i], seq |-> next_seq + i - 1]
    BY <1>2
  <2> QED
    BY <2>1, <2>2 DEF Version
<1>4. DOMAIN new = 1..Len(keys)
  BY <1>2
<1> HIDE DEF new
<1>5. new \in Seq(Version) /\ Len(new) = Len(keys)
  <2>1. new \in [1..Len(keys) -> Version]
    <3>1. new = [i \in 1..Len(keys) |-> new[i]]
      BY <1>2 DEF new
    <3> QED
      BY <1>3, <3>1
  <2>2. new \in Seq(Version)
    BY <1>1, <2>1, SeqDef
  <2>3. Len(new) \in Nat /\ 1..Len(new) = 1..Len(keys)
    BY <1>4, <2>2, LenProperties
  <2> QED
    BY <1>1, <2>2, <2>3
<1>6. pending_writes' \in Seq(Version) /\ Len(pending_writes') = Len(pending_writes) + Len(keys)
  <2>1. pending_writes \o new \in Seq(Version) /\ Len(pending_writes \o new) = Len(pending_writes) + Len(new)
    BY <1>1, <1>5, ConcatProperties
  <2> QED
    BY <1>1, <1>5, <2>1
<1>7. ASSUME NEW i \in 1..Len(pending_writes')
      PROVE  pending_writes'[i].seq = Len(table) + i - 1
  <2>1. CASE i <= Len(pending_writes)
    <3>1. pending_writes'[i] = pending_writes[i] /\ i \in 1..Len(pending_writes)
      BY <1>1, <1>5, <1>6, <2>1
    <3> QED
      BY <3>1 DEF SeqInv
  <2>2. CASE ~(i <= Len(pending_writes))
    <3>1. PICK j \in 1..Len(keys) : i = Len(pending_writes) + j
      <4>1. i - Len(pending_writes) \in 1..Len(keys) /\ i = Len(pending_writes) + (i - Len(pending_writes))
        BY <1>1, <1>6, <2>2
      <4> QED
        BY <4>1
    <3>2. pending_writes'[i] = new[j]
      BY <1>1, <1>5, <3>1
    <3>3. new[j].seq = next_seq + j - 1
      BY <1>3
    <3>4. Len(table) \in Nat /\ Len(pending_writes) \in Nat /\ Len(table) + Len(pending_writes) = next_seq
      BY <1>1 DEF SeqInv
    <3> QED
      BY <3>1, <3>2, <3>3, <3>4
  <2> QED
    BY <2>1, <2>2
<1>8. Len(table) + Len(pending_writes') = next_seq' /\ next_seq' \in 0..MaxSeq
  BY <1>1, <1>6 DEF SeqInv
<1>9. TypeOK'
  BY <1>1, <1>6, <1>8 DEF TypeOK
<1> QED
  BY <1>7, <1>8, <1>9 DEF SeqInv

\* The worker moves the buffer behind the table.
LEMMA FlushKeeps ==
  ASSUME SeqInv, flush_write_buffer
  PROVE  SeqInv'
<1>1. /\ table \in Seq(Version) /\ pending_writes \in Seq(Version)
      /\ table' = table \o pending_writes /\ pending_writes' = <<>>
      /\ UNCHANGED <<next_seq, task_queue, running>> /\ flush_requested' = FALSE
  BY DEF SeqInv, TypeOK, flush_write_buffer
<1>2. table' \in Seq(Version) /\ Len(table') = Len(table) + Len(pending_writes)
  BY <1>1
<1>3. TypeOK'
  <2>1. pending_writes' \in Seq(Version)
    BY <1>1
  <2>2. flush_requested' \in BOOLEAN
    BY <1>1
  <2> QED
    BY <1>1, <1>2, <2>1, <2>2 DEF SeqInv, TypeOK
<1>4. ASSUME NEW i \in 1..Len(table')
      PROVE  table'[i].seq = i - 1
  <2>1. CASE i <= Len(table)
    <3>1. table'[i] = table[i] /\ i \in 1..Len(table)
      BY <1>1, <1>2, <2>1
    <3> QED
      BY <3>1 DEF SeqInv
  <2>2. CASE ~(i <= Len(table))
    <3>1. PICK j \in 1..Len(pending_writes) : i = Len(table) + j
      <4>1. i - Len(table) \in 1..Len(pending_writes) /\ i = Len(table) + (i - Len(table))
        BY <1>1, <1>2, <2>2
      <4> QED
        BY <4>1
    <3>2. table'[i] = pending_writes[j]
      BY <1>1, <3>1
    <3>3. pending_writes[j].seq = Len(table) + j - 1
      BY DEF SeqInv
    <3> QED
      BY <3>1, <3>2, <3>3
  <2> QED
    BY <2>1, <2>2
<1>5. Len(table') + Len(pending_writes') = next_seq'
  BY <1>1, <1>2 DEF SeqInv, TypeOK
<1>6. \A i \in 1..Len(pending_writes') : pending_writes'[i].seq = Len(table') + i - 1
  BY <1>1
<1> QED
  BY <1>3, <1>4, <1>5, <1>6 DEF SeqInv

\* Every put, batch, flush and task keeps the numbering of buffer and table.
LEMMA SeqStep ==
  ASSUME MaxSeq \in Nat, SeqInv, [Next]_vars
  PROVE  SeqInv'
<1>0. /\ flush_requested \in BOOLEAN /\ task_queue \in Seq(Keys)
      /\ running \in [Workers -> Keys \cup {"none"}]
  BY DEF SeqInv, TypeOK
<1>1. ASSUME NEW k \in Keys, put_call(k)
      PROVE  SeqInv'
  <2>1. <<k>> \in Seq(Keys) /\ flush_requested' \in BOOLEAN
    BY <1>0, <1>1 DEF put_call, put
  <2> QED
    BY <1>0, <1>1, <2>1, BufferKeeps DEF put_call, put
<1>2. ASSUME NEW j \in Keys, NEW k \in Keys, batch_put(<<j, k>>)
      PROVE  SeqInv'
  <2>1. <<j, k>> \in Seq(Keys)
    OBVIOUS
  <2> QED
    BY <1>0, <1>2, <2>1, BufferKeeps DEF batch_put
<1>3. ASSUME NEW w \in Workers, run_task(w)
      PROVE  SeqInv'
  <2>1. <<running[w]>> \in Seq(Keys) /\ flush_requested' \in BOOLEAN
    BY <1>0, <1>3 DEF run_task, put
  <2>2. running' \in [Workers -> Keys \cup {"none"}]
    BY <1>0, <1>3 DEF run_task
  <2> QED
    BY <1>0, <1>3, <2>1, <2>2, BufferKeeps DEF run_task, put
<1>4. ASSUME NEW k \in Keys, submit(k)
      PROVE  SeqInv'
  <2>1. task_queue' \in Seq(Keys)
    BY <1>0, <1>4 DEF submit
  <2> QED
    BY <1>4, <2>1 DEF submit, SeqInv, TypeOK
<1>5. ASSUME NEW w \in Workers, take_task(w)
      PROVE  SeqInv'
  <2>1. task_queue' \in Seq(Keys) /\ Head(task_queue) \in Keys
    BY <1>0, <1>5 DEF take_task
  <2>2. running' \in [Workers -> Keys \cup {"none"}]
    BY <1>0, <1>5, <2>1 DEF take_task
  <2> QED
    BY <1>5, <2>1, <2>2 DEF take_task, SeqInv, TypeOK
<1>6. ASSUME UNCHANGED vars
      PROVE  SeqInv'
  BY <1>6 DEF vars, SeqInv, TypeOK
<1> QED
  BY <1>1, <1>2, <1>3, <1>4, <1>5, <1>6, FlushKeeps DEF Next

\* The numbering holds in every reachable state.
LEMMA SeqHolds ==
  ASSUME MaxSeq \in Nat
  PROVE  Spec => []SeqInv
<1>1. Init => SeqInv
  <2> SUFFICES ASSUME Init PROVE SeqInv
    OBVIOUS
  <2>1. flush_requested \in BOOLEAN /\ running \in [Workers -> Keys \cup {"none"}]
    BY DEF Init
  <2>2. pending_writes \in Seq(Version) /\ table \in Seq(Version) /\ task_queue \in Seq(Keys)
    BY DEF Init
  <2>3. next_seq \in 0..MaxSeq
    BY DEF Init
  <2>4. TypeOK
    BY <2>1, <2>2, <2>3 DEF TypeOK
  <2> QED
    BY <2>4 DEF Init, SeqInv
<1> QED
  BY <1>1, SeqStep, PTL DEF Spec

\* Every numbered write is in the buffer or in the table, exactly once, and the
\* versions of a key stand in the table in the order of their numbers, whichever
\* threads and tasks wrote them and whenever the worker moved the buffer.
THEOREM WritesAreKept ==
  ASSUME MaxSeq \in Nat
  PROVE  Spec => []EngineKeepsWrites
<1>1. SeqInv => EngineKeepsWrites
  <2> SUFFICES ASSUME SeqInv PROVE EngineKeepsWrites
    OBVIOUS
  <2> DEFINE pend == {pending_writes[i].seq : i \in DOMAIN pending_writes}
             done == {table[i].seq : i \in DOMAIN table}
             m == Len(table)
             p == Len(pending_writes)
  <2>1. /\ DOMAIN table = 1..m /\ DOMAIN pending_writes = 1..p /\ m \in Nat /\ p \in Nat
        /\ m + p = next_seq
    BY DEF SeqInv, TypeOK
  <2>2. VersionsInOrder
    BY <2>1 DEF SeqInv, VersionsInOrder
  <2>3. done = 0..(m - 1)
    <3>1. \A x \in done : x \in 0..(m - 1)
      BY <2>1 DEF SeqInv
    <3>2. ASSUME NEW x \in 0..(m - 1)
          PROVE  x \in done
      <4>1. x + 1 \in 1..m /\ table[x + 1].seq = x
        BY <2>1 DEF SeqInv
      <4> QED
        BY <2>1, <4>1
    <3> QED
      BY <3>1, <3>2
  <2>4. pend = m..(m + p - 1)
    <3>1. \A x \in pend : x \in m..(m + p - 1)
      BY <2>1 DEF SeqInv
    <3>2. ASSUME NEW x \in m..(m + p - 1)
          PROVE  x \in pend
      <4>1. x - m + 1 \in 1..p
        BY <2>1
      <4>2. pending_writes[x - m + 1].seq = m + (x - m + 1) - 1
        BY <4>1 DEF SeqInv
      <4>3. m + (x - m + 1) - 1 = x
        BY <2>1
      <4> QED
        BY <2>1, <4>1, <4>2, <4>3
    <3> QED
      BY <3>1, <3>2
  <2> HIDE DEF pend, done
  <2>5. pend \cup done = 0..(next_seq - 1) /\ pend \cap done = {}
    BY <2>1, <2>3, <2>4
  <2>6. Cardinality(done) = m
    <3>1. m - 1 \in Int /\ 0 \in Int
      BY <2>1
    <3>2. Cardinality(0..(m - 1)) = IF 0 > m - 1 THEN 0 ELSE m - 1 - 0 + 1
      BY <3>1, FS_Interval
    <3> QED
      BY <2>1, <2>3, <3>2
  <2>7. Cardinality(pend) = p
    <3>1. m + p - 1 \in Int /\ m \in Int
      BY <2>1
    <3>2. Cardinality(m..(m + p - 1)) = IF m > m + p - 1 THEN 0 ELSE m + p - 1 - m + 1
      BY <3>1, FS_Interval
    <3> QED
      BY <2>1, <2>4, <3>2
  <2>8. NoWriteLost
    BY <2>5, <2>6, <2>7 DEF NoWriteLost, pend, done
  <2> QED
    BY <2>2, <2>8 DEF EngineKeepsWrites, SeqInv
<1> QED
  BY <1>1, SeqHolds, PTL

(***************************************************************************)
(* Reads.                                                                  *)
(***************************************************************************)
\* A set of places has a last one.
LEMMA LastPlace ==
  ASSUME NEW n \in Nat, NEW S \in SUBSET (1..n), S # {}
  PROVE  Max(S) \in S /\ \A y \in S : Max(S) >= y
<1> DEFINE R == OpToRel(<, Nat)
           T == {n - x : x \in S}
<1>1. T \in SUBSET Nat /\ T # {}
  <2>1. \A x \in S : x \in Int /\ x <= n
    OBVIOUS
  <2>2. \A x \in S : n - x \in Nat
    BY <2>1
  <2>3. \E x \in S : TRUE
    OBVIOUS
  <2> QED
    BY <2>2, <2>3
<1>2. \A x \in S : n - x \in T /\ x \in Int
  OBVIOUS
<1>3. \A z \in T : \E x \in S : z = n - x
  OBVIOUS
<1> HIDE DEF T
<1>4. \E m \in T : \A y \in T : <<y, m>> \notin R
  <2> HIDE DEF R
  <2>1. IsWellFoundedOn(R, Nat)
    BY NatLessThanWellFounded DEF R
  <2> QED
    BY <1>1, <2>1, WFMin
<1>5. \A a, b \in Nat : a < b => <<a, b>> \in R
  BY DEF OpToRel
<1> HIDE DEF R
<1>6. PICK m \in T : \A y \in T : <<y, m>> \notin R
  BY <1>4
<1>7. ASSUME NEW y \in T PROVE m <= y
  <2>1. m \in Nat /\ y \in Nat
    BY <1>1
  <2>2. ~(y < m)
    BY <2>1, <1>5, <1>6
  <2> QED
    BY <2>1, <2>2
<1>8. PICK x \in S : m = n - x
  BY <1>3
<1>9. ASSUME NEW y \in S PROVE x >= y
  <2>1. n - x <= n - y
    BY <1>2, <1>7, <1>8
  <2> QED
    BY <1>2, <2>1
<1> QED
  BY <1>9 DEF Max

\* get as a function of the table and the snapshot.
GetFrom(tab, snapshot, k) ==
  LET seen == {i \in DOMAIN tab : tab[i].key = k /\ tab[i].seq <= snapshot}
  IN IF seen = {} THEN 0 ELSE tab[Max(seen)].seq + 1

Places(tab, k) == {i \in 1..Len(tab) : tab[i].key = k}

\* While no number is beyond the snapshot, get finds the last place of the key.
LEMMA GetIsLast ==
  ASSUME NEW tab \in Seq(Version), NEW snapshot \in Nat, NEW k, Len(tab) <= snapshot,
         \A i \in 1..Len(tab) : tab[i].seq = i - 1
  PROVE  GetFrom(tab, snapshot, k) = IF Places(tab, k) = {} THEN 0 ELSE Max(Places(tab, k))
<1>1. {i \in DOMAIN tab : tab[i].key = k /\ tab[i].seq <= snapshot} = Places(tab, k)
  BY DEF Places
<1>2. Places(tab, k) # {} => Max(Places(tab, k)) \in 1..Len(tab)
  <2>1. Places(tab, k) \in SUBSET (1..Len(tab)) /\ Len(tab) \in Nat
    BY DEF Places
  <2> QED
    BY <2>1, LastPlace
<1>3. Places(tab, k) # {} => tab[Max(Places(tab, k))].seq + 1 = Max(Places(tab, k))
  BY <1>2
<1> QED
  BY <1>1, <1>3 DEF GetFrom

\* A table that only grows: what get finds can only move towards the end.
LEMMA GetGrows ==
  ASSUME NEW old \in Seq(Version), NEW new \in Seq(Version), Len(old) <= Len(new),
         \A i \in 1..Len(old) : new[i] = old[i], NEW k
  PROVE  (IF Places(new, k) = {} THEN 0 ELSE Max(Places(new, k)))
           >= (IF Places(old, k) = {} THEN 0 ELSE Max(Places(old, k)))
<1>1. Places(old, k) \subseteq Places(new, k)
  BY DEF Places
<1>2. /\ Places(old, k) # {} => Max(Places(old, k)) \in Places(old, k)
      /\ Places(new, k) # {} => /\ Max(Places(new, k)) \in 1..Len(new)
                                /\ \A y \in Places(new, k) : Max(Places(new, k)) >= y
  <2>1. /\ Places(old, k) \in SUBSET (1..Len(old)) /\ Len(old) \in Nat
        /\ Places(new, k) \in SUBSET (1..Len(new)) /\ Len(new) \in Nat
    BY DEF Places
  <2> QED
    BY <2>1, LastPlace
<1>3. Places(old, k) # {} => Max(Places(old, k)) \in Places(new, k)
  BY <1>1, <1>2
<1> QED
  BY <1>1, <1>2, <1>3

\* What get answers for a key never goes back to an older write, also while
\* buffers are moved and tasks run.
THEOREM ReadsMoveForward ==
  ASSUME MaxSeq \in Nat
  PROVE  Spec => ReadsNeverGoBack
<1> DEFINE Forward == \A k \in Keys : get(k)' >= get(k)
<1>1. ASSUME SeqInv, SeqInv', [Next]_vars
      PROVE  Forward
  <2> USE <1>1
  <2>1. /\ table \in Seq(Version) /\ table' \in Seq(Version) /\ next_seq \in Nat /\ next_seq' \in Nat
        /\ pending_writes \in Seq(Version)
    BY DEF SeqInv, TypeOK
  <2>2. /\ Len(table) <= next_seq /\ \A i \in 1..Len(table) : table[i].seq = i - 1
        /\ Len(table') <= next_seq' /\ \A i \in 1..Len(table') : table'[i].seq = i - 1
    BY DEF SeqInv, TypeOK
  <2>3. table' = table \/ table' = table \o pending_writes
    BY DEF Next, put_call, submit, batch_put, flush_write_buffer, take_task, run_task, vars
  <2>4. Len(table) <= Len(table') /\ \A i \in 1..Len(table) : table'[i] = table[i]
    BY <2>1, <2>3
  <2> SUFFICES ASSUME NEW k \in Keys PROVE get(k)' >= get(k)
    OBVIOUS
  <2>5. get(k) = GetFrom(table, next_seq, k) /\ get(k)' = GetFrom(table', next_seq', k)
    BY DEF get, GetFrom
  <2>6. GetFrom(table, next_seq, k) = IF Places(table, k) = {} THEN 0 ELSE Max(Places(table, k))
    BY <2>1, <2>2, GetIsLast
  <2>7. GetFrom(table', next_seq', k) = IF Places(table', k) = {} THEN 0 ELSE Max(Places(table', k))
    BY <2>1, <2>2, GetIsLast
  <2>8. (IF Places(table', k) = {} THEN 0 ELSE Max(Places(table', k)))
           >= (IF Places(table, k) = {} THEN 0 ELSE Max(Places(table, k)))
    BY <2>1, <2>4, GetGrows
  <2> QED
    BY <2>5, <2>6, <2>7, <2>8
<1>2. ASSUME SeqInv, SeqInv', [Next]_vars
      PROVE  [Forward]_vars
  BY <1>1, <1>2
<1> QED
  BY <1>2, SeqHolds, PTL DEF Spec, ReadsNeverGoBack
=============================================================================
