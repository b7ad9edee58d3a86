----------------------------- MODULE LockProofs -----------------------------
(***************************************************************************)
(* The lock managers, for any number of transactions, resources and        *)
(* versions: what is granted, what is recorded of it, and what validation  *)
(* finds out.                                                              *)
(***************************************************************************)
EXTENDS HybridLocks, SequenceTheorems, TLAPS

\* Callers ask for the modes of LockMode, and the bound is a number.
LockConstants == Modes \subseteq DOMAIN P!Tolerates /\ MaxVersion \in Nat

(***************************************************************************)
(* The inductive invariant.                                                *)
(***************************************************************************)
\* The pessimistic manager: who is not in a call has no request, a grant on top
\* of another is in the history, and what is granted is recorded and excludes.
GrantInv ==
  /\ P!TypeOK
  /\ \A t \in Txns : pc[t] = "idle" <=> req[t].op = "none"
  /\ \A t \in Txns : req[t].op = "acquire" => req[t].mode \in Modes
  /\ \A t \in Txns, r \in Resources : Len(granted[r][t]) > 1 => <<t, r>> \in twice
  /\ P!GrantedIsRecorded
  /\ P!LockExclusion

\* The optimistic manager: versions come from below the counter, and a version
\* that is still current was read after the last write.
VersionInv ==
  /\ O!TypeOK
  /\ DOMAIN read_set = Txns /\ DOMAIN reading = Txns
  /\ applying.left \subseteq Resources
  /\ \A k \in Resources : key_versions[k] < global_version_counter
  /\ O!VersionNamesOneWrite
  /\ \A t \in Txns : \A k \in DOMAIN read_set[t] :
        /\ read_set[t][k].version < global_version_counter
        /\ read_set[t][k].version = key_versions[k] => read_set[t][k].at = applies[k]
  /\ \A t \in Txns : reading[t] # O!NotReading =>
        /\ reading[t].key \in Resources
        /\ reading[t].version \in 0..MaxVersion /\ reading[t].at \in Nat
        /\ reading[t].version < global_version_counter
        /\ reading[t].version = key_versions[reading[t].key] => reading[t].at = applies[reading[t].key]

\* The hybrid manager: a transaction on its way out of release_all_locks has no
\* record left and asks for nothing; one that released everything has neither
\* record nor request for more.
ReleaseInv ==
  /\ finishing \subseteq Txns /\ released \subseteq Txns
  /\ \A t \in finishing : transaction_locks[t] = {} /\ req[t].op \in {"none", "release_all"}
  /\ \A t \in released : /\ access[t] = {} /\ transaction_locks[t] = {}
                         /\ req[t].op \in {"none", "release"}

-----------------------------------------------------------------------------
\* The compatibility matrix is symmetric.
LEMMA MatrixSymmetric ==
  ASSUME NEW a \in DOMAIN P!Tolerates, NEW b \in DOMAIN P!Tolerates, P!is_compatible(a, b)
  PROVE  P!is_compatible(b, a)
<1>1. /\ a \in {"NONE", "SHARED", "EXCLUSIVE", "INTENTION_SHARED", "INTENTION_EXCLUSIVE",
                "SHARED_INTENTION_EXCLUSIVE"}
      /\ b \in {"NONE", "SHARED", "EXCLUSIVE", "INTENTION_SHARED", "INTENTION_EXCLUSIVE",
                "SHARED_INTENTION_EXCLUSIVE"}
  BY DEF P!Tolerates
<1>2. CASE a = "NONE"
  BY <1>1, <1>2 DEF P!is_compatible, P!Tolerates
<1>3. CASE a = "SHARED"
  BY <1>1, <1>3 DEF P!is_compatible, P!Tolerates
<1>4. CASE a = "EXCLUSIVE"
  BY <1>1, <1>4 DEF P!is_compatible, P!Tolerates
<1>5. CASE a = "INTENTION_SHARED"
  BY <1>1, <1>5 DEF P!is_compatible, P!Tolerates
<1>6. CASE a = "INTENTION_EXCLUSIVE"
  BY <1>1, <1>6 DEF P!is_compatible, P!Tolerates
<1>7. CASE a = "SHARED_INTENTION_EXCLUSIVE"
  BY <1>1, <1>7 DEF P!is_compatible, P!Tolerates
<1> QED
  BY <1>1, <1>2, <1>3, <1>4, <1>5, <1>6, <1>7

\* What Append and Tail do to a list.
LEMMA AppendFacts ==
  ASSUME NEW S, NEW s \in Seq(S), NEW x \in S
  PROVE  /\ Append(s, x) \in Seq(S) /\ Len(Append(s, x)) = Len(s) + 1
         /\ DOMAIN s = 1..Len(s) /\ Len(s) \in Nat /\ (Len(s) > 0 <=> s # <<>>)
         /\ \A i \in DOMAIN Append(s, x) :
               Append(s, x)[i] = x \/ (i \in DOMAIN s /\ Append(s, x)[i] = s[i])
<1>1. DOMAIN Append(s, x) = 1..(Len(s) + 1) /\ DOMAIN s = 1..Len(s) /\ Len(s) \in Nat
  OBVIOUS
<1>2. ASSUME NEW i \in 1..(Len(s) + 1)
      PROVE  Append(s, x)[i] = x \/ (i \in 1..Len(s) /\ Append(s, x)[i] = s[i])
  <2>1. i \in 1..Len(s) \/ i = Len(s) + 1
    BY <1>1
  <2>2. (\A j \in 1..Len(s) : Append(s, x)[j] = s[j]) /\ Append(s, x)[Len(s) + 1] = x
    BY AppendProperties
  <2> QED
    BY <2>1, <2>2
<1>3. Append(s, x) \in Seq(S) /\ Len(Append(s, x)) = Len(s) + 1
  BY AppendProperties
<1>4. Len(s) > 0 <=> s # <<>>
  BY <1>1
<1> QED
  BY <1>1, <1>2, <1>3, <1>4

LEMMA TailFacts ==
  ASSUME NEW S, NEW s \in Seq(S), s # <<>>
  PROVE  /\ Tail(s) \in Seq(S) /\ Len(Tail(s)) = Len(s) - 1 /\ Len(s) \in Nat
         /\ Tail(s) # <<>> => Len(s) > 1
         /\ \A i \in DOMAIN Tail(s) : i + 1 \in DOMAIN s /\ Tail(s)[i] = s[i + 1]
<1>1. DOMAIN Tail(s) = 1..(Len(s) - 1) /\ DOMAIN s = 1..Len(s) /\ Len(s) \in Nat
  OBVIOUS
<1>2. ASSUME NEW i \in 1..(Len(s) - 1)
      PROVE  i + 1 \in 1..Len(s) /\ Tail(s)[i] = s[i + 1]
  BY <1>1
<1> QED
  BY <1>1, <1>2

(***************************************************************************)
(* The pessimistic manager.                                                *)
(***************************************************************************)
\* A step of the table that changes only what one transaction holds of one
\* resource.
LEMMA GrantFrame ==
  ASSUME GrantInv, NEW t \in Txns, NEW r \in Resources, NEW g \in Seq(Modes),
         granted' = [granted EXCEPT ![r][t] = g]
  PROVE  /\ granted' \in [Resources -> [Txns -> Seq(Modes)]]
         /\ granted'[r][t] = g
         /\ \A s \in Resources, u \in Txns : s # r \/ u # t => granted'[s][u] = granted[s][u]
  BY DEF GrantInv, P!TypeOK

\* A call sets down its request.
LEMMA CallKeeps ==
  ASSUME GrantInv, NEW t \in Txns, NEW r \in Resources, NEW op \in {"acquire", "release"},
         NEW m \in Modes \cup {"NONE"}, op = "acquire" => m \in Modes, P!Call(t, op, r, m)
  PROVE  GrantInv'
<1>1. /\ UNCHANGED <<granted, waiting, transaction_locks, twice>>
      /\ req'[t] = [op |-> op, left |-> {r}, mode |-> m] /\ pc'[t] = "table" /\ pc[t] = "idle"
      /\ \A u \in Txns : u # t => req'[u] = req[u] /\ pc'[u] = pc[u]
  BY DEF P!Call, GrantInv, P!TypeOK
<1>2. req'[t].op = op /\ req'[t].mode = m /\ req[t].op = "none"
  BY <1>1 DEF GrantInv
<1>3. P!TypeOK'
  BY DEF P!Call, GrantInv, P!TypeOK
<1>4. P!GrantedIsRecorded'
  <2> SUFFICES ASSUME NEW u \in Txns, NEW s \in Resources, P!Holds(u, s)'
               PROVE  \/ s \in transaction_locks'[u] \/ <<u, s>> \in twice'
                      \/ req'[u].op = "release_all" /\ s \in req'[u].left
    BY DEF P!GrantedIsRecorded
  <2>1. P!Holds(u, s)
    BY <1>1 DEF P!Holds
  <2> QED
    BY <1>1, <1>2, <2>1 DEF GrantInv, P!GrantedIsRecorded
<1>5. P!LockExclusion'
  BY <1>1 DEF GrantInv, P!LockExclusion
<1> QED
  BY <1>1, <1>2, <1>3, <1>4, <1>5 DEF GrantInv

\* release_all_locks takes the record of the transaction with it.
LEMMA CallReleaseAllKeeps ==
  ASSUME GrantInv, NEW t \in Txns, P!CallReleaseAll(t)
  PROVE  GrantInv'
<1>1. /\ UNCHANGED <<granted, waiting, twice>> /\ transaction_locks'[t] = {} /\ pc[t] = "idle"
      /\ \A u \in Txns : u # t => /\ req'[u] = req[u] /\ pc'[u] = pc[u]
                                  /\ transaction_locks'[u] = transaction_locks[u]
  BY DEF P!CallReleaseAll, GrantInv, P!TypeOK
<1>2. \/ transaction_locks[t] = {} /\ pc' = pc /\ req' = req
      \/ /\ pc'[t] = "table" /\ req'[t].op = "release_all"
         /\ req'[t].left = transaction_locks[t] /\ req'[t].mode = "NONE"
  BY DEF P!CallReleaseAll, GrantInv, P!TypeOK
<1>3. P!TypeOK'
  <2>1. transaction_locks' \in [Txns -> SUBSET Resources]
    BY DEF P!CallReleaseAll, GrantInv, P!TypeOK
  <2>2. pc' \in [Txns -> {"idle", "table", "entry", "relock"}]
    BY DEF P!CallReleaseAll, GrantInv, P!TypeOK
  <2>3. transaction_locks[t] \in SUBSET Resources
    BY DEF GrantInv, P!TypeOK
  <2>4. [op |-> "release_all", left |-> transaction_locks[t], mode |-> "NONE"]
          \in [op : {"none", "acquire", "release", "release_all"},
               left : SUBSET Resources, mode : Modes \cup {"NONE"}]
    BY <2>3
  <2>5. req' \in [Txns -> [op : {"none", "acquire", "release", "release_all"},
                           left : SUBSET Resources, mode : Modes \cup {"NONE"}]]
    BY <2>4 DEF P!CallReleaseAll, GrantInv, P!TypeOK
  <2> QED
    BY <1>1, <2>1, <2>2, <2>5 DEF GrantInv, P!TypeOK
<1>4. P!GrantedIsRecorded'
  <2> SUFFICES ASSUME NEW u \in Txns, NEW s \in Resources, P!Holds(u, s)'
               PROVE  \/ s \in transaction_locks'[u] \/ <<u, s>> \in twice'
                      \/ req'[u].op = "release_all" /\ s \in req'[u].left
    BY DEF P!GrantedIsRecorded
  <2>1. P!Holds(u, s)
    BY <1>1 DEF P!Holds
  <2>2. \/ s \in transaction_locks[u] \/ <<u, s>> \in twice
        \/ req[u].op = "release_all" /\ s \in req[u].left
    BY <2>1 DEF GrantInv, P!GrantedIsRecorded
  <2>3. req[t].op = "none"
    BY <1>1 DEF GrantInv
  <2> QED
    BY <1>1, <1>2, <2>2, <2>3
<1>5. P!LockExclusion'
  BY <1>1 DEF GrantInv, P!LockExclusion
<1> QED
  BY <1>1, <1>2, <1>3, <1>4, <1>5 DEF GrantInv

\* A grant is tested against the grants of all others in the same step.
LEMMA AcquireKeeps ==
  ASSUME LockConstants, GrantInv, NEW t \in Txns, NEW r \in Resources, P!acquire_lock(t, r)
  PROVE  GrantInv'
<1> DEFINE m == req[t].mode
<1>1. m \in Modes /\ pc[t] = "entry" /\ req[t].op = "acquire"
  BY DEF P!acquire_lock, GrantInv
<1>2. CASE P!can_grant_lock(r, t, m)
  <2> DEFINE g == Append(granted[r][t], m)
  <2>1. /\ granted' = [granted EXCEPT ![r][t] = g]
        /\ transaction_locks' = [transaction_locks EXCEPT ![t] = @ \cup {r}]
        /\ twice' = IF P!Holds(t, r) THEN twice \cup {<<t, r>>} ELSE twice
        /\ pc' = [pc EXCEPT ![t] = "idle"] /\ req' = [req EXCEPT ![t] = P!NoCall]
        /\ waiting' = waiting
    BY <1>2 DEF P!acquire_lock, P!Return
  <2>2. /\ g \in Seq(Modes) /\ Len(g) = Len(granted[r][t]) + 1
        /\ Len(granted[r][t]) \in Nat /\ (Len(granted[r][t]) > 0 <=> granted[r][t] # <<>>)
        /\ \A i \in DOMAIN g : g[i] = m \/ (i \in DOMAIN granted[r][t] /\ g[i] = granted[r][t][i])
    <3>1. granted[r][t] \in Seq(Modes)
      BY DEF GrantInv, P!TypeOK
    <3> HIDE DEF m
    <3> QED
      BY <1>1, <3>1, AppendFacts
  <2> HIDE DEF g
  <2>3. /\ granted' \in [Resources -> [Txns -> Seq(Modes)]]
        /\ granted'[r][t] = g
        /\ \A s \in Resources, u \in Txns : s # r \/ u # t => granted'[s][u] = granted[s][u]
    BY <2>1, <2>2, GrantFrame
  <2>4. /\ pc'[t] = "idle" /\ req'[t].op = "none"
        /\ \A u \in Txns : u # t => pc'[u] = pc[u] /\ req'[u] = req[u]
        /\ r \in transaction_locks'[t]
        /\ \A u \in Txns : transaction_locks[u] \subseteq transaction_locks'[u]
        /\ twice \subseteq twice' /\ (P!Holds(t, r) => <<t, r>> \in twice')
    BY <2>1 DEF GrantInv, P!TypeOK, P!NoCall
  <2>5. P!TypeOK'
    <3>1. pc' \in [Txns -> {"idle", "table", "entry", "relock"}]
      BY <2>1 DEF GrantInv, P!TypeOK
    <3>2. req' \in [Txns -> [op : {"none", "acquire", "release", "release_all"},
                             left : SUBSET Resources, mode : Modes \cup {"NONE"}]]
      BY <2>1 DEF GrantInv, P!TypeOK, P!NoCall
    <3>3. transaction_locks' \in [Txns -> SUBSET Resources] /\ twice' \subseteq Txns \X Resources
      BY <2>1 DEF GrantInv, P!TypeOK
    <3> QED
      BY <2>1, <2>3, <3>1, <3>2, <3>3 DEF GrantInv, P!TypeOK
  <2>6. \A u \in Txns, s \in Resources : Len(granted'[s][u]) > 1 => <<u, s>> \in twice'
    <3> SUFFICES ASSUME NEW u \in Txns, NEW s \in Resources, Len(granted'[s][u]) > 1
                 PROVE  <<u, s>> \in twice'
      OBVIOUS
    <3>1. CASE s # r \/ u # t
      BY <2>3, <2>4, <3>1 DEF GrantInv
    <3>2. CASE s = r /\ u = t
      <4>1. granted[r][t] # <<>>
        BY <2>2, <2>3, <3>2
      <4> QED
        BY <2>4, <3>2, <4>1 DEF P!Holds
    <3> QED
      BY <3>1, <3>2
  <2>7. P!GrantedIsRecorded'
    <3> SUFFICES ASSUME NEW u \in Txns, NEW s \in Resources, P!Holds(u, s)'
                 PROVE  \/ s \in transaction_locks'[u] \/ <<u, s>> \in twice'
                        \/ req'[u].op = "release_all" /\ s \in req'[u].left
      BY DEF P!GrantedIsRecorded
    <3>1. CASE s # r \/ u # t
      <4>1. P!Holds(u, s)
        BY <2>3, <3>1 DEF P!Holds
      <4> QED
        BY <1>1, <2>4, <4>1 DEF GrantInv, P!GrantedIsRecorded
    <3>2. CASE s = r /\ u = t
      BY <2>4, <3>2
    <3> QED
      BY <3>1, <3>2
  <2>8. P!LockExclusion'
    <3>1. ASSUME NEW u \in Txns, u # t, NEW j \in DOMAIN granted[r][u]
          PROVE  P!is_compatible(granted[r][u][j], m) /\ P!is_compatible(m, granted[r][u][j])
      <4>1. P!is_compatible(granted[r][u][j], m)
        BY <1>2, <3>1 DEF P!can_grant_lock, P!has_conflicting_lock
      <4>2. granted[r][u][j] \in Modes
        BY <3>1 DEF GrantInv, P!TypeOK
      <4> QED
        BY <1>1, <4>1, <4>2, MatrixSymmetric DEF LockConstants
    <3> SUFFICES ASSUME NEW s \in Resources, NEW u \in Txns, NEW w \in Txns, u # w,
                        NEW i \in DOMAIN granted'[s][u], NEW j \in DOMAIN granted'[s][w]
                 PROVE  P!is_compatible(granted'[s][u][i], granted'[s][w][j])
      BY DEF P!LockExclusion, P!is_compatible, P!Tolerates
    <3>2. CASE s # r \/ (u # t /\ w # t)
      <4>1. granted'[s][u] = granted[s][u] /\ granted'[s][w] = granted[s][w]
        BY <2>3, <3>2
      <4> QED
        BY <4>1 DEF GrantInv, P!LockExclusion
    <3>3. CASE s = r /\ u = t
      <4>1. granted'[s][u] = g /\ granted'[s][w] = granted[r][w] /\ w # t
        BY <2>3, <3>3
      <4>2. g[i] = m \/ (i \in DOMAIN granted[r][t] /\ g[i] = granted[r][t][i])
        BY <2>2, <4>1
      <4> QED
        BY <3>1, <4>1, <4>2 DEF GrantInv, P!LockExclusion
    <3>4. CASE s = r /\ w = t
      <4>1. granted'[s][w] = g /\ granted'[s][u] = granted[r][u] /\ u # t
        BY <2>3, <3>4
      <4>2. g[j] = m \/ (j \in DOMAIN granted[r][t] /\ g[j] = granted[r][t][j])
        BY <2>2, <4>1
      <4> QED
        BY <3>1, <4>1, <4>2 DEF GrantInv, P!LockExclusion
    <3> QED
      BY <3>2, <3>3, <3>4
  <2> QED
    BY <2>4, <2>5, <2>6, <2>7, <2>8 DEF GrantInv
<1>3. CASE ~P!can_grant_lock(r, t, m)
  <2>1. /\ waiting' = [waiting EXCEPT ![r] = Append(@, [txn |-> t, mode |-> m])]
        /\ pc' = [pc EXCEPT ![t] = "relock"]
        /\ UNCHANGED <<granted, transaction_locks, req, twice>>
    BY <1>3 DEF P!acquire_lock
  <2>2. P!TypeOK'
    <3>1. [txn |-> t, mode |-> m] \in [txn : Txns, mode : Modes]
      BY <1>1
    <3>2. waiting[r] \in Seq([txn : Txns, mode : Modes])
      BY DEF GrantInv, P!TypeOK
    <3>3. Append(waiting[r], [txn |-> t, mode |-> m]) \in Seq([txn : Txns, mode : Modes])
      BY <3>1, <3>2, AppendFacts
    <3> QED
      BY <2>1, <3>3 DEF GrantInv, P!TypeOK
  <2>3. \A u \in Txns : pc'[u] = "idle" <=> req'[u].op = "none"
    BY <1>1, <2>1 DEF GrantInv, P!TypeOK
  <2>4. P!GrantedIsRecorded' /\ P!LockExclusion'
    BY <2>1 DEF GrantInv, P!GrantedIsRecorded, P!LockExclusion, P!Holds
  <2> QED
    BY <2>1, <2>2, <2>3, <2>4 DEF GrantInv
<1> QED
  BY <1>2, <1>3

\* Giving back grants of one transaction: what is left was there before.
LEMMA LessExcludes ==
  ASSUME GrantInv, NEW t \in Txns, NEW r \in Resources, NEW g \in Seq(Modes),
         granted' = [granted EXCEPT ![r][t] = g],
         \A i \in DOMAIN g : \E j \in DOMAIN granted[r][t] : g[i] = granted[r][t][j]
  PROVE  P!LockExclusion'
<1>1. /\ granted'[r][t] = g
      /\ \A s \in Resources, u \in Txns : s # r \/ u # t => granted'[s][u] = granted[s][u]
  BY GrantFrame, ZenonT(60)
<1>2. ASSUME NEW s \in Resources, NEW u \in Txns, NEW i \in DOMAIN granted'[s][u]
      PROVE  \E j \in DOMAIN granted[s][u] : granted'[s][u][i] = granted[s][u][j]
  BY <1>1, <1>2
<1> SUFFICES ASSUME NEW s \in Resources, NEW u \in Txns, NEW w \in Txns, u # w,
                    NEW i \in DOMAIN granted'[s][u], NEW j \in DOMAIN granted'[s][w]
             PROVE  P!is_compatible(granted'[s][u][i], granted'[s][w][j])
  BY DEF P!LockExclusion, P!is_compatible, P!Tolerates
<1>3. PICK a \in DOMAIN granted[s][u] : granted'[s][u][i] = granted[s][u][a]
  BY <1>2
<1>4. PICK b \in DOMAIN granted[s][w] : granted'[s][w][j] = granted[s][w][b]
  BY <1>2
<1> QED
  BY <1>3, <1>4 DEF GrantInv, P!LockExclusion

\* A release takes the record away with the first grant; if a grant is left, the
\* resource was granted twice.
LEMMA ReleaseKeeps ==
  ASSUME GrantInv, NEW t \in Txns, NEW r \in Resources, P!release_lock(t, r)
  PROVE  GrantInv'
<1>1. /\ pc' = [pc EXCEPT ![t] = "idle"] /\ req' = [req EXCEPT ![t] = P!NoCall]
      /\ UNCHANGED <<waiting, twice>> /\ req[t].op = "release"
  BY DEF P!release_lock, P!Return
<1>2. /\ pc'[t] = "idle" /\ req'[t].op = "none"
      /\ \A u \in Txns : u # t => pc'[u] = pc[u] /\ req'[u] = req[u]
  BY <1>1 DEF GrantInv, P!TypeOK, P!NoCall
<1>3. /\ pc' \in [Txns -> {"idle", "table", "entry", "relock"}]
      /\ req' \in [Txns -> [op : {"none", "acquire", "release", "release_all"},
                            left : SUBSET Resources, mode : Modes \cup {"NONE"}]]
  BY <1>1 DEF GrantInv, P!TypeOK, P!NoCall
<1>4. CASE P!Holds(t, r)
  <2> DEFINE g == Tail(granted[r][t])
  <2>1. /\ granted' = [granted EXCEPT ![r][t] = g]
        /\ transaction_locks' = [transaction_locks EXCEPT ![t] = @ \ {r}]
    BY <1>4 DEF P!release_lock, P!grant_compatible_locks
  <2>2. /\ g \in Seq(Modes) /\ Len(g) = Len(granted[r][t]) - 1 /\ Len(granted[r][t]) \in Nat
        /\ g # <<>> => Len(granted[r][t]) > 1
        /\ \A i \in DOMAIN g : i + 1 \in DOMAIN granted[r][t] /\ g[i] = granted[r][t][i + 1]
    <3>1. granted[r][t] \in Seq(Modes) /\ granted[r][t] # <<>>
      BY <1>4 DEF GrantInv, P!TypeOK, P!Holds
    <3> QED
      BY <3>1, TailFacts
  <2> HIDE DEF g
  <2>3. /\ granted' \in [Resources -> [Txns -> Seq(Modes)]]
        /\ granted'[r][t] = g
        /\ \A s \in Resources, u \in Txns : s # r \/ u # t => granted'[s][u] = granted[s][u]
    BY <2>1, <2>2, GrantFrame
  <2>4. /\ transaction_locks' \in [Txns -> SUBSET Resources]
        /\ \A u \in Txns : u # t => transaction_locks'[u] = transaction_locks[u]
        /\ \A s \in Resources : s # r /\ s \in transaction_locks[t] => s \in transaction_locks'[t]
    BY <2>1 DEF GrantInv, P!TypeOK
  <2>5. P!TypeOK'
    BY <1>1, <1>3, <2>3, <2>4 DEF GrantInv, P!TypeOK
  <2>6. \A u \in Txns, s \in Resources : Len(granted'[s][u]) > 1 => <<u, s>> \in twice'
    <3> SUFFICES ASSUME NEW u \in Txns, NEW s \in Resources, Len(granted'[s][u]) > 1
                 PROVE  <<u, s>> \in twice'
      OBVIOUS
    <3>1. CASE s # r \/ u # t
      BY <1>1, <2>3, <3>1 DEF GrantInv
    <3>2. CASE s = r /\ u = t
      <4>1. Len(granted[r][t]) > 1
        BY <2>2, <2>3, <3>2
      <4> QED
        BY <1>1, <3>2, <4>1 DEF GrantInv
    <3> QED
      BY <3>1, <3>2
  <2>7. P!GrantedIsRecorded'
    <3> SUFFICES ASSUME NEW u \in Txns, NEW s \in Resources, P!Holds(u, s)'
                 PROVE  \/ s \in transaction_locks'[u] \/ <<u, s>> \in twice'
                        \/ req'[u].op = "release_all" /\ s \in req'[u].left
      BY DEF P!GrantedIsRecorded
    <3>1. CASE s # r \/ u # t
      <4>1. P!Holds(u, s)
        BY <2>3, <3>1 DEF P!Holds
      <4>2. \/ s \in transaction_locks[u] \/ <<u, s>> \in twice
            \/ req[u].op = "release_all" /\ s \in req[u].left
        BY <4>1 DEF GrantInv, P!GrantedIsRecorded
      <4> QED
        BY <1>1, <1>2, <2>4, <3>1, <4>2
    <3>2. CASE s = r /\ u = t
      <4>1. g # <<>>
        BY <2>3, <3>2 DEF P!Holds
      <4> QED
        BY <1>1, <2>2, <3>2, <4>1 DEF GrantInv
    <3> QED
      BY <3>1, <3>2
  <2>8. P!LockExclusion'
    <3>1. \A i \in DOMAIN g : \E j \in DOMAIN granted[r][t] : g[i] = granted[r][t][j]
      BY <2>2
    <3> QED
      BY <2>1, <2>2, <3>1, LessExcludes, ZenonT(60)
  <2> QED
    BY <1>2, <2>5, <2>6, <2>7, <2>8 DEF GrantInv
<1>5. CASE ~P!Holds(t, r)
  <2>1. UNCHANGED <<granted, transaction_locks>>
    BY <1>5 DEF P!release_lock
  <2>2. P!TypeOK'
    BY <1>1, <1>3, <2>1 DEF GrantInv, P!TypeOK
  <2>3. P!GrantedIsRecorded'
    <3> SUFFICES ASSUME NEW u \in Txns, NEW s \in Resources, P!Holds(u, s)'
                 PROVE  \/ s \in transaction_locks'[u] \/ <<u, s>> \in twice'
                        \/ req'[u].op = "release_all" /\ s \in req'[u].left
      BY DEF P!GrantedIsRecorded
    <3>1. P!Holds(u, s)
      BY <2>1 DEF P!Holds
    <3> QED
      BY <1>1, <1>2, <2>1, <3>1 DEF GrantInv, P!GrantedIsRecorded
  <2>4. P!LockExclusion'
    BY <2>1 DEF GrantInv, P!LockExclusion
  <2> QED
    BY <1>1, <1>2, <2>1, <2>2, <2>3, <2>4 DEF GrantInv
<1> QED
  BY <1>4, <1>5

\* A round of release_all_locks leaves no grant of the transaction on the
\* resource, and goes on with the others.
LEMMA ReleaseAllKeeps ==
  ASSUME GrantInv, NEW t \in Txns, NEW r \in Resources, P!release_all_step(t, r)
  PROVE  GrantInv'
<1>1. /\ granted' = [granted EXCEPT ![r][t] = <<>>]
      /\ UNCHANGED <<waiting, transaction_locks, twice>> /\ req[t].op = "release_all"
  BY DEF P!release_all_step, P!grant_compatible_locks
<1>2. \/ /\ req[t].left = {r}
         /\ pc' = [pc EXCEPT ![t] = "idle"] /\ req' = [req EXCEPT ![t] = P!NoCall]
      \/ /\ pc' = [pc EXCEPT ![t] = "table"] /\ req' = [req EXCEPT ![t].left = @ \ {r}]
  BY DEF P!release_all_step, P!Return
<1> DEFINE Call == [op : {"none", "acquire", "release", "release_all"},
                    left : SUBSET Resources, mode : Modes \cup {"NONE"}]
<1>3. PICK q \in Call : /\ req' = [req EXCEPT ![t] = q]
                        /\ \/ req[t].left = {r} /\ pc' = [pc EXCEPT ![t] = "idle"] /\ q.op = "none"
                           \/ /\ pc' = [pc EXCEPT ![t] = "table"] /\ q.op = "release_all"
                              /\ q.left = req[t].left \ {r}
  <2>1. CASE /\ req[t].left = {r}
             /\ pc' = [pc EXCEPT ![t] = "idle"] /\ req' = [req EXCEPT ![t] = P!NoCall]
    <3>1. P!NoCall \in Call /\ P!NoCall.op = "none"
      BY DEF P!NoCall
    <3> QED
      BY <2>1, <3>1
  <2>2. CASE /\ pc' = [pc EXCEPT ![t] = "table"]
             /\ req' = [req EXCEPT ![t].left = @ \ {r}]
    <3>1. PICK old \in Call : old = req[t]
      BY DEF GrantInv, P!TypeOK
    <3> DEFINE q == [old EXCEPT !.left = old.left \ {r}]
    <3>2. q \in Call /\ q.op = old.op /\ q.left = old.left \ {r}
      BY <3>1
    <3>3. req' = [req EXCEPT ![t] = q]
      BY <2>2, <3>1
    <3> HIDE DEF q
    <3> QED
      BY <1>1, <2>2, <3>1, <3>2, <3>3
  <2> QED
    BY <1>2, <2>1, <2>2
<1>4. /\ pc' \in [Txns -> {"idle", "table", "entry", "relock"}] /\ req' \in [Txns -> Call]
      /\ req'[t] = q /\ pc'[t] = (IF q.op = "none" THEN "idle" ELSE "table")
      /\ \A u \in Txns : u # t => pc'[u] = pc[u] /\ req'[u] = req[u]
  <2> HIDE DEF Call
  <2>1. req \in [Txns -> Call] /\ pc \in [Txns -> {"idle", "table", "entry", "relock"}]
    BY DEF GrantInv, P!TypeOK, Call
  <2>2. /\ req' \in [Txns -> Call] /\ req'[t] = q /\ \A u \in Txns : u # t => req'[u] = req[u]
    BY <1>3, <2>1
  <2>3. PICK p \in {"idle", "table"} : /\ pc' = [pc EXCEPT ![t] = p]
                                       /\ p = IF q.op = "none" THEN "idle" ELSE "table"
    BY <1>3
  <2> QED
    BY <2>1, <2>2, <2>3
<1>5. /\ granted' \in [Resources -> [Txns -> Seq(Modes)]]
      /\ granted'[r][t] = <<>>
      /\ \A s \in Resources, u \in Txns : s # r \/ u # t => granted'[s][u] = granted[s][u]
  <2>0. <<>> \in Seq(Modes)
    OBVIOUS
  <2>1. \E x \in Seq(Modes) : x = <<>>
    BY <2>0, Zenon
  <2>2. PICK g \in Seq(Modes) : g = <<>>
    BY <2>1
  <2>3. granted' = [granted EXCEPT ![r][t] = g]
    BY <1>1, <2>2
  <2> QED
    BY <2>2, <2>3, GrantFrame
<1>6. P!TypeOK'
  BY <1>1, <1>4, <1>5 DEF GrantInv, P!TypeOK
<1>7. \A u \in Txns, s \in Resources : Len(granted'[s][u]) > 1 => <<u, s>> \in twice'
  <2>1. ~(Len(<<>>) > 1)
    OBVIOUS
  <2> QED
    BY <1>1, <1>5, <2>1 DEF GrantInv
<1>8. P!GrantedIsRecorded'
  <2> SUFFICES ASSUME NEW u \in Txns, NEW s \in Resources, P!Holds(u, s)'
               PROVE  \/ s \in transaction_locks'[u] \/ <<u, s>> \in twice'
                      \/ req'[u].op = "release_all" /\ s \in req'[u].left
    BY DEF P!GrantedIsRecorded
  <2>1. (s # r \/ u # t) /\ P!Holds(u, s)
    BY <1>5 DEF P!Holds
  <2>2. \/ s \in transaction_locks[u] \/ <<u, s>> \in twice
        \/ req[u].op = "release_all" /\ s \in req[u].left
    BY <2>1 DEF GrantInv, P!GrantedIsRecorded
  <2> QED
    BY <1>1, <1>3, <1>4, <2>1, <2>2
<1>9. P!LockExclusion'
  <2>1. <<>> \in Seq(Modes) /\ \A i \in DOMAIN <<>> : FALSE
    OBVIOUS
  <2> QED
    BY <1>1, <2>1, LessExcludes
<1> QED
  BY <1>1, <1>3, <1>4, <1>6, <1>7, <1>8, <1>9 DEF GrantInv

\* Every step of a call under way keeps the grants and their record in order.
LEMMA ProceedKeeps ==
  ASSUME LockConstants, GrantInv, NEW t \in Txns, P!Proceed(t)
  PROVE  GrantInv'
<1>1. CASE P!get_or_create_lock_entry(t)
  <2>1. /\ UNCHANGED <<granted, waiting, transaction_locks, req, twice>>
        /\ pc[t] = "table" /\ pc' = [pc EXCEPT ![t] = "entry"]
    BY <1>1 DEF P!get_or_create_lock_entry
  <2>2. P!TypeOK' /\ \A u \in Txns : pc'[u] = "idle" <=> req'[u].op = "none"
    BY <2>1 DEF GrantInv, P!TypeOK
  <2>3. P!GrantedIsRecorded' /\ P!LockExclusion'
    BY <2>1 DEF GrantInv, P!GrantedIsRecorded, P!LockExclusion, P!Holds
  <2> QED
    BY <2>1, <2>2, <2>3 DEF GrantInv
<1> QED
  BY <1>1, AcquireKeeps, ReleaseKeeps, ReleaseAllKeeps DEF P!Proceed

(***************************************************************************)
(* The optimistic manager.                                                 *)
(***************************************************************************)
\* Calls that neither hand out a version nor touch what was read.
LEMMA VersionFrame ==
  ASSUME VersionInv,
         UNCHANGED <<key_versions, global_version_counter, read_set, reading, applies>>,
         applying'.left \subseteq Resources,
         write_set' \in [Txns -> SUBSET Resources], access' \in [Txns -> SUBSET Resources],
         validated' \in [Txns -> {"no", "ok", "failed"}]
  PROVE  VersionInv'
  BY DEF VersionInv, O!TypeOK, O!VersionNamesOneWrite, O!NotReading

\* acquire_lock and release_lock only note the access.
LEMMA AccessKeeps ==
  ASSUME VersionInv, NEW t \in Txns, NEW k \in Resources,
         O!acquire_lock(t, k) \/ O!release_lock(t, k)
  PROVE  VersionInv'
<1>1. /\ UNCHANGED <<key_versions, global_version_counter, read_set, reading, applies,
                     applying, write_set, validated>>
      /\ access' \in [Txns -> SUBSET Resources]
  BY DEF O!acquire_lock, O!release_lock, VersionInv, O!TypeOK
<1>2. /\ applying'.left \subseteq Resources /\ write_set' \in [Txns -> SUBSET Resources]
      /\ validated' \in [Txns -> {"no", "ok", "failed"}]
  BY <1>1 DEF VersionInv, O!TypeOK
<1> QED
  BY <1>1, <1>2, VersionFrame

\* The sets of a transaction that releases everything are gone.
LEMMA ForgetKeeps ==
  ASSUME VersionInv, NEW t \in Txns, O!release_all_locks(t)
  PROVE  VersionInv'
<1>1. /\ UNCHANGED <<key_versions, global_version_counter, reading, applies, applying>>
      /\ access' = [access EXCEPT ![t] = {}] /\ write_set' = [write_set EXCEPT ![t] = {}]
      /\ validated' = [validated EXCEPT ![t] = "no"] /\ read_set' = [read_set EXCEPT ![t] = <<>>]
  BY DEF O!release_all_locks
<1>2. /\ access' \in [Txns -> SUBSET Resources] /\ write_set' \in [Txns -> SUBSET Resources]
      /\ validated' \in [Txns -> {"no", "ok", "failed"}]
  BY <1>1 DEF VersionInv, O!TypeOK
<1>3. /\ DOMAIN read_set' = Txns /\ \A u \in Txns : u # t => read_set'[u] = read_set[u]
      /\ DOMAIN read_set'[t] = {}
  BY <1>1 DEF VersionInv
<1>4. O!TypeOK'
  BY <1>1, <1>2, <1>3 DEF VersionInv, O!TypeOK
<1>5. \A u \in Txns : \A k \in DOMAIN read_set'[u] :
        /\ read_set'[u][k].version < global_version_counter'
        /\ read_set'[u][k].version = key_versions'[k] => read_set'[u][k].at = applies'[k]
  BY <1>1, <1>3 DEF VersionInv
<1> QED
  BY <1>1, <1>3, <1>4, <1>5 DEF VersionInv, O!VersionNamesOneWrite, O!NotReading

\* What is read is the version of the moment, with the writes behind it.
LEMMA ReadKeeps ==
  ASSUME VersionInv, NEW t \in Txns, NEW k \in Resources, O!get_current_version(t, k)
  PROVE  VersionInv'
<1>1. /\ UNCHANGED <<key_versions, global_version_counter, read_set, write_set, access,
                     applying, validated, applies>>
      /\ reading' = [reading EXCEPT ![t] = [key |-> k, version |-> key_versions[k], at |-> applies[k]]]
  BY DEF O!get_current_version
<1>2. /\ DOMAIN reading' = Txns /\ \A u \in Txns : u # t => reading'[u] = reading[u]
      /\ reading'[t].key = k /\ reading'[t].version = key_versions[k] /\ reading'[t].at = applies[k]
  BY <1>1 DEF VersionInv
<1>3. O!TypeOK'
  BY <1>1 DEF VersionInv, O!TypeOK
<1>4. ASSUME NEW u \in Txns, (reading[u] # O!NotReading)'
      PROVE  /\ reading'[u].key \in Resources
             /\ reading'[u].version \in 0..MaxVersion /\ reading'[u].at \in Nat
             /\ reading'[u].version < global_version_counter'
             /\ reading'[u].version = key_versions'[reading'[u].key]
                  => reading'[u].at = applies'[reading'[u].key]
  <2>1. CASE u = t
    BY <1>1, <1>2, <2>1 DEF VersionInv, O!TypeOK
  <2>2. CASE u # t
    BY <1>1, <1>2, <1>4, <2>2 DEF VersionInv, O!NotReading
  <2> QED
    BY <2>1, <2>2
<1> QED
  BY <1>1, <1>2, <1>3, <1>4 DEF VersionInv, O!VersionNamesOneWrite, O!NotReading

\* What was read goes into the read set as it was read.
LEMMA RecordKeeps ==
  ASSUME VersionInv, NEW t \in Txns, O!add_to_read_set(t)
  PROVE  VersionInv'
<1> DEFINE k == reading[t].key
           entry == [version |-> reading[t].version, at |-> reading[t].at]
           set == [x \in DOMAIN read_set[t] \cup {k} |-> IF x = k THEN entry ELSE read_set[t][x]]
<1>1. /\ UNCHANGED <<key_versions, global_version_counter, write_set, access, applying, applies>>
      /\ read_set' = [read_set EXCEPT ![t] = set]
      /\ reading' = [reading EXCEPT ![t] = O!NotReading]
      /\ validated' = [validated EXCEPT ![t] = "no"]
      /\ reading[t] # O!NotReading
  BY DEF O!add_to_read_set
<1>2. /\ k \in Resources /\ entry.version = reading[t].version /\ entry.at = reading[t].at
      /\ entry \in [version : 0..MaxVersion, at : Nat]
      /\ entry.version < global_version_counter
      /\ entry.version = key_versions[k] => entry.at = applies[k]
  BY <1>1 DEF VersionInv
<1>3. DOMAIN set = DOMAIN read_set[t] \cup {k} /\ set[k] = entry
      /\ \A x \in DOMAIN read_set[t] : x # k => set[x] = read_set[t][x]
  OBVIOUS
<1> HIDE DEF set, entry, k
<1>4. /\ DOMAIN read_set' = Txns /\ read_set'[t] = set /\ \A u \in Txns : u # t => read_set'[u] = read_set[u]
      /\ DOMAIN reading' = Txns /\ reading'[t] = O!NotReading
      /\ \A u \in Txns : u # t => reading'[u] = reading[u]
      /\ validated' \in [Txns -> {"no", "ok", "failed"}]
  BY <1>1 DEF VersionInv, O!TypeOK
<1>5. ASSUME NEW u \in Txns
      PROVE  /\ DOMAIN read_set'[u] \subseteq Resources
             /\ \A x \in DOMAIN read_set'[u] :
                  /\ read_set'[u][x] \in [version : 0..MaxVersion, at : Nat]
                  /\ read_set'[u][x].version < global_version_counter'
                  /\ read_set'[u][x].version = key_versions'[x] => read_set'[u][x].at = applies'[x]
  <2>0. DOMAIN read_set[u] \subseteq Resources
        /\ \A x \in DOMAIN read_set[u] :
             /\ read_set[u][x] \in [version : 0..MaxVersion, at : Nat]
             /\ read_set[u][x].version < global_version_counter
             /\ read_set[u][x].version = key_versions[x] => read_set[u][x].at = applies[x]
    BY DEF VersionInv, O!TypeOK
  <2>1. CASE u # t
    BY <1>1, <1>4, <2>0, <2>1
  <2>2. CASE u = t
    BY <1>1, <1>2, <1>3, <1>4, <2>0, <2>2
  <2> QED
    BY <2>1, <2>2
<1>6. O!TypeOK'
  BY <1>1, <1>4, <1>5 DEF VersionInv, O!TypeOK
<1>7. \A u \in Txns : (reading[u] # O!NotReading)' => u # t /\ reading'[u] = reading[u] /\ reading[u] # O!NotReading
  BY <1>4 DEF O!NotReading
<1> QED
  BY <1>1, <1>4, <1>5, <1>6, <1>7 DEF VersionInv, O!VersionNamesOneWrite

\* A write takes a version nobody has read.
LEMMA IncrementKeeps ==
  ASSUME LockConstants, VersionInv, NEW t \in Txns, NEW k \in Resources, O!increment_version(t, k)
  PROVE  VersionInv'
<1>1. /\ UNCHANGED <<read_set, write_set, access, reading, validated>>
      /\ global_version_counter <= MaxVersion
      /\ key_versions' = [key_versions EXCEPT ![k] = global_version_counter]
      /\ global_version_counter' = global_version_counter + 1
      /\ applies' = [applies EXCEPT ![k] = @ + 1]
      /\ applying'.left \subseteq applying.left
  BY DEF O!increment_version, O!generate_version, O!Nobody
<1>2. /\ global_version_counter \in 1..(MaxVersion + 1) /\ MaxVersion \in Nat
      /\ key_versions \in [Resources -> 0..MaxVersion] /\ applies \in [Resources -> Nat]
  BY DEF VersionInv, O!TypeOK, LockConstants
<1>3. /\ global_version_counter' \in 1..(MaxVersion + 1)
      /\ key_versions' \in [Resources -> 0..MaxVersion] /\ applies' \in [Resources -> Nat]
      /\ key_versions'[k] = global_version_counter
      /\ \A j \in Resources : j # k => key_versions'[j] = key_versions[j] /\ applies'[j] = applies[j]
  BY <1>1, <1>2
<1>4. O!TypeOK'
  BY <1>1, <1>3 DEF VersionInv, O!TypeOK
<1>5. \A j \in Resources : key_versions[j] < global_version_counter /\ key_versions[j] \in Int
  BY <1>2 DEF VersionInv
<1>6. \A j \in Resources : key_versions'[j] < global_version_counter'
  BY <1>1, <1>2, <1>3, <1>5
<1>7. O!VersionNamesOneWrite'
  BY <1>2, <1>3, <1>5 DEF VersionInv, O!VersionNamesOneWrite
<1>8. ASSUME NEW u \in Txns, NEW j \in DOMAIN read_set[u]
      PROVE  /\ read_set[u][j].version < global_version_counter'
             /\ read_set[u][j].version = key_versions'[j] => read_set[u][j].at = applies'[j]
  <2>1. /\ j \in Resources /\ read_set[u][j].version \in Int
        /\ read_set[u][j].version < global_version_counter
        /\ read_set[u][j].version = key_versions[j] => read_set[u][j].at = applies[j]
    BY <1>8 DEF VersionInv, O!TypeOK
  <2> QED
    BY <1>1, <1>2, <1>3, <2>1
<1>9. ASSUME NEW u \in Txns, reading[u] # O!NotReading
      PROVE  /\ reading[u].key \in Resources
             /\ reading[u].version \in 0..MaxVersion /\ reading[u].at \in Nat
             /\ reading[u].version < global_version_counter'
             /\ reading[u].version = key_versions'[reading[u].key]
                  => reading[u].at = applies'[reading[u].key]
  <2>1. /\ reading[u].key \in Resources
        /\ reading[u].version \in 0..MaxVersion /\ reading[u].at \in Nat
        /\ reading[u].version < global_version_counter
        /\ reading[u].version = key_versions[reading[u].key]
             => reading[u].at = applies[reading[u].key]
    BY <1>9 DEF VersionInv
  <2> QED
    BY <1>1, <1>2, <1>3, <2>1
<1> QED
  BY <1>1, <1>4, <1>6, <1>7, <1>8, <1>9 DEF VersionInv, O!NotReading

\* Every step of the optimistic manager keeps what versions mean.
LEMMA OptimisticKeeps ==
  ASSUME LockConstants, VersionInv, NEW t \in Txns, O!Step(t)
  PROVE  VersionInv'
<1>1. CASE O!validate_transaction(t)
  <2>1. /\ UNCHANGED <<key_versions, global_version_counter, read_set, write_set, access,
                       reading, applying, applies>>
        /\ validated' \in [Txns -> {"no", "ok", "failed"}]
    BY <1>1 DEF O!validate_transaction, VersionInv, O!TypeOK
  <2> QED
    BY <2>1, VersionFrame DEF VersionInv, O!TypeOK
<1>2. CASE O!apply_write_set(t)
  <2>1. /\ UNCHANGED <<key_versions, global_version_counter, read_set, write_set, access,
                       reading, validated, applies>>
        /\ applying'.left = write_set[t] /\ write_set[t] \subseteq Resources
    BY <1>2 DEF O!apply_write_set, VersionInv, O!TypeOK
  <2> QED
    BY <2>1, VersionFrame DEF VersionInv, O!TypeOK
<1>3. ASSUME NEW k \in Resources, O!write_with_version_check(t, k)
      PROVE  VersionInv'
  <2>1. /\ UNCHANGED <<key_versions, global_version_counter, read_set, access, reading,
                       applying, validated, applies>>
        /\ write_set' \in [Txns -> SUBSET Resources]
    BY <1>3 DEF O!write_with_version_check, VersionInv, O!TypeOK
  <2> QED
    BY <2>1, VersionFrame DEF VersionInv, O!TypeOK
<1> QED
  BY <1>1, <1>2, <1>3, RecordKeeps, ReadKeeps, IncrementKeeps DEF O!Step

(***************************************************************************)
(* The hybrid manager.                                                     *)
(***************************************************************************)
LocksInv == GrantInv /\ VersionInv /\ ReleaseInv

\* Nothing the optimistic and the hybrid manager do reaches the grants.
LEMMA GrantFrameAll ==
  ASSUME GrantInv, UNCHANGED pvars
  PROVE  GrantInv'
  BY DEF GrantInv, pvars, P!TypeOK, P!GrantedIsRecorded, P!LockExclusion, P!Holds

\* Nothing the pessimistic and the hybrid manager do reaches the versions.
LEMMA VersionFrameAll ==
  ASSUME VersionInv, UNCHANGED ovars
  PROVE  VersionInv'
  BY DEF VersionInv, ovars, O!TypeOK, O!VersionNamesOneWrite, O!NotReading

\* A step under way of a transaction changes the record and the request of no
\* other, adds to the record only after a request to acquire, and never turns
\* one request into another.
LEMMA ProceedFrame ==
  ASSUME GrantInv, NEW t \in Txns, P!Proceed(t)
  PROVE  /\ \A u \in Txns : u # t => transaction_locks'[u] = transaction_locks[u] /\ req'[u] = req[u]
         /\ req'[t].op \in {"none", req[t].op}
         /\ transaction_locks'[t] \subseteq transaction_locks[t] \/ req[t].op = "acquire"
         /\ pc[t] # "idle"
<1>1. CASE P!get_or_create_lock_entry(t)
  BY <1>1 DEF P!get_or_create_lock_entry
<1>2. ASSUME NEW r \in Resources, P!acquire_lock(t, r)
      PROVE  /\ \A u \in Txns : u # t => transaction_locks'[u] = transaction_locks[u] /\ req'[u] = req[u]
             /\ req'[t].op \in {"none", req[t].op} /\ req[t].op = "acquire" /\ pc[t] # "idle"
  BY <1>2 DEF P!acquire_lock, P!Return, P!NoCall, GrantInv, P!TypeOK
<1>3. ASSUME NEW r \in Resources, P!release_lock(t, r)
      PROVE  /\ \A u \in Txns : u # t => transaction_locks'[u] = transaction_locks[u] /\ req'[u] = req[u]
             /\ req'[t].op = "none" /\ transaction_locks'[t] \subseteq transaction_locks[t] /\ pc[t] # "idle"
  BY <1>3 DEF P!release_lock, P!Return, P!NoCall, GrantInv, P!TypeOK
<1>4. ASSUME NEW r \in Resources, P!release_all_step(t, r)
      PROVE  /\ \A u \in Txns : u # t => req'[u] = req[u]
             /\ transaction_locks' = transaction_locks
             /\ req'[t].op \in {"none", req[t].op} /\ pc[t] # "idle"
  <2>1. /\ transaction_locks' = transaction_locks /\ pc[t] = "entry"
        /\ \/ req' = [req EXCEPT ![t] = P!NoCall] \/ req' = [req EXCEPT ![t].left = @ \ {r}]
    BY <1>4 DEF P!release_all_step, P!Return
  <2>2. PICK old \in [op : {"none", "acquire", "release", "release_all"},
                      left : SUBSET Resources, mode : Modes \cup {"NONE"}] : old = req[t]
    BY DEF GrantInv, P!TypeOK
  <2>3. [old EXCEPT !.left = old.left \ {r}].op = old.op
    BY <2>2
  <2> QED
    BY <2>1, <2>2, <2>3 DEF P!NoCall, GrantInv, P!TypeOK
<1> QED
  BY <1>1, <1>2, <1>3, <1>4 DEF P!Proceed

\* Each step of the three managers keeps the invariant.
LEMMA LocksStep ==
  ASSUME LockConstants, LocksInv, [LocksNext]_lockVars
  PROVE  LocksInv'
<1> USE DEF LocksInv
<1>0. /\ transaction_locks \in [Txns -> SUBSET Resources] /\ access \in [Txns -> SUBSET Resources]
      /\ \A t \in Txns : pc[t] = "idle" <=> req[t].op = "none"
  BY DEF GrantInv, P!TypeOK, VersionInv, O!TypeOK
<1>1. ASSUME NEW t \in Txns, NEW r \in Resources, NEW m \in Modes, acquire_lock(t, r, m)
      PROVE  LocksInv'
  <2>1. /\ UNCHANGED finishing /\ released' = released \ {t} /\ t \notin finishing
        /\ \/ O!acquire_lock(t, r) /\ UNCHANGED pvars
           \/ P!Call(t, "acquire", r, m) /\ UNCHANGED ovars
    BY <1>1 DEF acquire_lock, Free
  <2>2. CASE O!acquire_lock(t, r) /\ UNCHANGED pvars
    <3>1. GrantInv' /\ VersionInv'
      BY <2>2, AccessKeeps, GrantFrameAll
    <3>2. /\ UNCHANGED <<transaction_locks, req>> /\ \A u \in Txns : u # t => access'[u] = access[u]
      BY <2>2 DEF pvars, O!acquire_lock
    <3> QED
      BY <2>1, <3>1, <3>2 DEF ReleaseInv
  <2>3. CASE P!Call(t, "acquire", r, m) /\ UNCHANGED ovars
    <3>1. GrantInv' /\ VersionInv'
      BY <2>3, CallKeeps, VersionFrameAll
    <3>2. /\ UNCHANGED <<transaction_locks, access>> /\ \A u \in Txns : u # t => req'[u] = req[u]
      BY <2>3 DEF ovars, P!Call
    <3> QED
      BY <2>1, <3>1, <3>2 DEF ReleaseInv
  <2> QED
    BY <2>1, <2>2, <2>3
<1>2. ASSUME NEW t \in Txns, NEW r \in Resources, release_lock(t, r)
      PROVE  LocksInv'
  <2>1. /\ UNCHANGED <<finishing, released>> /\ t \notin finishing
        /\ \/ O!release_lock(t, r) /\ UNCHANGED pvars
           \/ P!Call(t, "release", r, "NONE") /\ UNCHANGED ovars
    BY <1>2 DEF release_lock, Free
  <2>2. CASE O!release_lock(t, r) /\ UNCHANGED pvars
    <3>1. GrantInv' /\ VersionInv'
      BY <2>2, AccessKeeps, GrantFrameAll
    <3>2. /\ UNCHANGED <<transaction_locks, req>> /\ \A u \in Txns : access'[u] \subseteq access[u]
      BY <1>0, <2>2 DEF pvars, O!release_lock
    <3> QED
      BY <2>1, <3>1, <3>2 DEF ReleaseInv
  <2>3. CASE P!Call(t, "release", r, "NONE") /\ UNCHANGED ovars
    <3>1. GrantInv' /\ VersionInv'
      BY <2>3, CallKeeps, VersionFrameAll
    <3>2. /\ UNCHANGED <<transaction_locks, access>> /\ req'[t].op = "release"
          /\ \A u \in Txns : u # t => req'[u] = req[u]
      BY <2>3 DEF ovars, P!Call, GrantInv, P!TypeOK
    <3> QED
      BY <2>1, <3>1, <3>2 DEF ReleaseInv
  <2> QED
    BY <2>1, <2>2, <2>3
<1>3. ASSUME NEW t \in Txns, release_all_locks(t)
      PROVE  LocksInv'
  <2>1. /\ P!CallReleaseAll(t) /\ UNCHANGED <<released, ovars>> /\ finishing' = finishing \cup {t}
    BY <1>3 DEF release_all_locks
  <2>2. GrantInv' /\ VersionInv'
    BY <2>1, CallReleaseAllKeeps, VersionFrameAll
  <2>3. /\ transaction_locks'[t] = {} /\ req[t].op = "none" /\ UNCHANGED access
        /\ req'[t].op \in {"none", "release_all"}
        /\ transaction_locks[t] = {} => req' = req
        /\ \A u \in Txns : u # t => transaction_locks'[u] = transaction_locks[u] /\ req'[u] = req[u]
    BY <1>0, <2>1 DEF P!CallReleaseAll, ovars, GrantInv, P!TypeOK
  <2> QED
    BY <2>1, <2>2, <2>3 DEF ReleaseInv
<1>4. ASSUME NEW t \in Txns, finish_release_all(t)
      PROVE  LocksInv'
  <2>1. /\ O!release_all_locks(t) /\ UNCHANGED pvars /\ t \in finishing /\ pc[t] = "idle"
        /\ finishing' = finishing \ {t} /\ released' = released \cup {t}
    BY <1>4 DEF finish_release_all
  <2>2. GrantInv' /\ VersionInv'
    BY <2>1, ForgetKeeps, GrantFrameAll
  <2>3. /\ UNCHANGED <<transaction_locks, req>> /\ access'[t] = {} /\ req[t].op = "none"
        /\ \A u \in Txns : u # t => access'[u] = access[u]
    BY <1>0, <2>1 DEF O!release_all_locks, pvars
  <2> QED
    BY <2>1, <2>2, <2>3 DEF ReleaseInv
<1>5. ASSUME NEW t \in Txns, PessimisticStep(t)
      PROVE  LocksInv'
  <2>1. P!Proceed(t) /\ UNCHANGED <<ovars, finishing, released>>
    BY <1>5 DEF PessimisticStep
  <2>2. GrantInv' /\ VersionInv'
    BY <2>1, ProceedKeeps, VersionFrameAll
  <2>3. /\ \A u \in Txns : u # t => transaction_locks'[u] = transaction_locks[u] /\ req'[u] = req[u]
        /\ req'[t].op \in {"none", req[t].op} /\ UNCHANGED access
        /\ transaction_locks'[t] \subseteq transaction_locks[t] \/ req[t].op = "acquire"
    BY <2>1, ProceedFrame DEF ovars
  <2> QED
    BY <2>1, <2>2, <2>3 DEF ReleaseInv
<1>6. ASSUME NEW t \in Txns, OptimisticStep(t)
      PROVE  LocksInv'
  <2>1. O!Step(t) /\ UNCHANGED <<pvars, finishing, released>>
    BY <1>6 DEF OptimisticStep
  <2>2. GrantInv' /\ VersionInv'
    BY <2>1, OptimisticKeeps, GrantFrameAll
  <2>3. UNCHANGED <<transaction_locks, req, access>>
    BY <2>1 DEF pvars, O!Step, O!add_to_read_set, O!validate_transaction, O!apply_write_set,
                O!get_current_version, O!write_with_version_check, O!increment_version
  <2> QED
    BY <2>1, <2>2, <2>3 DEF ReleaseInv
<1>7. ASSUME UNCHANGED <<pvars, ovars, finishing, released>>
      PROVE  LocksInv'
  <2>1. GrantInv' /\ VersionInv'
    BY <1>7, GrantFrameAll, VersionFrameAll
  <2>2. UNCHANGED <<transaction_locks, req, access, finishing, released>>
    BY <1>7 DEF pvars, ovars
  <2> QED
    BY <2>1, <2>2 DEF ReleaseInv
<1>8. ASSUME NEW t \in Txns, NEW s \in {"optimistic", "pessimistic"}, set_strategy_for_transaction(t, s)
      PROVE  LocksInv'
  BY <1>7, <1>8 DEF set_strategy_for_transaction
<1>9. ASSUME NEW b \in BOOLEAN, set_default_strategy(b)
      PROVE  LocksInv'
  BY <1>7, <1>9 DEF set_default_strategy
<1>10. CASE StatisticsStep
  BY <1>7, <1>9, <1>10 DEF StatisticsStep, update_conflict_statistics, enable_adaptive_strategy
<1>11. CASE UNCHANGED lockVars
  BY <1>7, <1>11 DEF lockVars
<1>12. CASE \E r \in Resources : HybridStep(r)
  BY <1>1, <1>2, <1>3, <1>4, <1>5, <1>8, <1>9, <1>12 DEF HybridStep
<1> QED
  BY <1>6, <1>10, <1>11, <1>12 DEF LocksNext

\* The invariant holds in every reachable state.
LEMMA LocksHold ==
  ASSUME LockConstants
  PROVE  LocksSpec => []LocksInv
<1>1. LocksInit => LocksInv
  <2> SUFFICES ASSUME LocksInit PROVE LocksInv
    OBVIOUS
  <2>1. P!Init /\ O!Init /\ finishing = {} /\ released = {}
    BY DEF LocksInit
  <2>2. GrantInv
    <3>1. /\ P!TypeOK /\ \A t \in Txns : pc[t] = "idle" /\ req[t].op = "none"
      BY <2>1 DEF P!Init, P!TypeOK, P!NoCall
    <3>2. \A t \in Txns, r \in Resources : granted[r][t] = <<>>
      BY <2>1 DEF P!Init
    <3>3. P!GrantedIsRecorded /\ P!LockExclusion
      BY <3>2 DEF P!GrantedIsRecorded, P!LockExclusion, P!Holds
    <3>4. Len(<<>>) = 0
      OBVIOUS
    <3> QED
      BY <3>1, <3>2, <3>3, <3>4 DEF GrantInv
  <2>3. VersionInv
    <3>1. O!TypeOK
      BY <2>1 DEF O!Init, O!TypeOK, LockConstants
    <3> QED
      BY <2>1, <3>1 DEF O!Init, VersionInv, O!VersionNamesOneWrite, O!Nobody
  <2> QED
    BY <2>1, <2>2, <2>3 DEF LocksInv, ReleaseInv
<1> QED
  BY <1>1, LocksStep, PTL DEF LocksSpec

-----------------------------------------------------------------------------
\* For any number of transactions, resources and modes: conflicting locks are
\* never granted together, what is granted is on record, who released
\* everything holds nothing whatever way its calls were routed, and a version
\* names one write.
THEOREM ManagersAgree ==
  ASSUME LockConstants
  PROVE  LocksSpec => []LockManagersAgree
<1>1. LocksInv => LockManagersAgree
  <2> SUFFICES ASSUME LocksInv PROVE LockManagersAgree
    OBVIOUS
  <2>1. ReleasedHoldNothing
    <3> SUFFICES ASSUME NEW t \in released
                 PROVE  /\ access[t] = {} /\ transaction_locks[t] = {}
                        /\ \A r \in Resources : P!Holds(t, r) => <<t, r>> \in twice
      BY DEF ReleasedHoldNothing
    <3>1. /\ t \in Txns /\ access[t] = {} /\ transaction_locks[t] = {}
          /\ req[t].op \in {"none", "release"}
      BY DEF LocksInv, ReleaseInv
    <3> QED
      BY <3>1 DEF LocksInv, GrantInv, P!GrantedIsRecorded
  <2> QED
    BY <2>1 DEF LockManagersAgree, LocksInv, GrantInv, VersionInv
<1> QED
  BY <1>1, LocksHold, PTL

\* validate_transaction never answers yes to a transaction that read a key
\* before the last write to it, wherever reads, their recording and the writes
\* of others fell in between.
THEOREM WritersAreCaught ==
  ASSUME LockConstants
  PROVE  LocksSpec => ValidationCatchesWriters
<1> DEFINE Caught == \A t \in Txns : validated[t] # "ok" /\ validated'[t] = "ok"
                       => \A k \in DOMAIN read_set[t] : read_set[t][k].at = applies[k]
<1>1. ASSUME LocksInv, [LocksNext]_lockVars
      PROVE  Caught
  <2> SUFFICES ASSUME NEW t \in Txns, validated[t] # "ok", validated'[t] = "ok",
                      NEW k \in DOMAIN read_set[t]
               PROVE  read_set[t][k].at = applies[k]
    OBVIOUS
  <2>1. O!validate_transaction(t)
    BY <1>1, ZenonT(60) DEF LocksInv, VersionInv, O!TypeOK, LocksNext, lockVars, ovars, HybridStep, StatisticsStep,
       acquire_lock, release_lock, release_all_locks, finish_release_all, PessimisticStep,
       OptimisticStep, set_strategy_for_transaction, set_default_strategy,
       update_conflict_statistics, enable_adaptive_strategy, O!acquire_lock, O!release_lock,
       O!release_all_locks, O!Step, O!add_to_read_set, O!validate_transaction,
       O!apply_write_set, O!get_current_version, O!write_with_version_check, O!increment_version
  <2>2. validated' = [validated EXCEPT ![t] = IF O!validate_read_set(t) THEN "ok" ELSE "failed"]
    BY <2>1 DEF O!validate_transaction
  <2>3. O!validate_read_set(t)
    BY <1>1, <2>2 DEF LocksInv, VersionInv, O!TypeOK
  <2>4. key_versions[k] = read_set[t][k].version
    BY <2>3 DEF O!validate_read_set
  <2> QED
    BY <1>1, <2>4 DEF LocksInv, VersionInv
<1>2. LocksInv /\ [LocksNext]_lockVars => [Caught]_(O!vars)
  BY <1>1
<1> QED
  BY <1>2, LocksHold, PTL DEF LocksSpec, ValidationCatchesWriters, O!ValidationCatchesWriters

\* Once a thread has locked its entry a second time, no call that still has to
\* pass the lock table goes on.
THEOREM StuckTableStays ==
  ASSUME LockConstants
  PROVE  LocksSpec => StuckStopsTheTable
<1> DEFINE Stays == ~P!TableFree => \A t \in Txns : pc[t] = "table" => pc'[t] = "table"
           Moves(t) == P!CallReleaseAll(t) \/ P!Proceed(t)
                       \/ \E r, m : P!Call(t, "acquire", r, m) \/ P!Call(t, "release", r, m)
<1>1. ASSUME LocksInv, [LocksNext]_lockVars
      PROVE  UNCHANGED pc \/ \E t \in Txns : Moves(t)
  <2>1. CASE UNCHANGED lockVars
    BY <2>1 DEF lockVars, pvars
  <2>2. ASSUME NEW r \in Resources, HybridStep(r) PROVE UNCHANGED pc \/ \E t \in Txns : Moves(t)
    BY <2>2 DEF HybridStep, acquire_lock, release_lock, release_all_locks, finish_release_all,
       PessimisticStep, set_strategy_for_transaction, set_default_strategy, pvars
  <2>3. ASSUME NEW t \in Txns, OptimisticStep(t) PROVE UNCHANGED pc
    BY <2>3 DEF OptimisticStep, pvars
  <2>4. CASE StatisticsStep
    BY <2>4 DEF StatisticsStep, set_default_strategy, update_conflict_statistics,
       enable_adaptive_strategy, pvars
  <2> QED
    BY <1>1, <2>1, <2>2, <2>3, <2>4 DEF LocksNext
<1>2. ASSUME LocksInv, ~P!TableFree, NEW t \in Txns, Moves(t)
      PROVE  /\ pc[t] # "table"
             /\ \A u \in Txns : u # t => pc'[u] = pc[u]
  <2>1. pc \in [Txns -> {"idle", "table", "entry", "relock"}]
    BY <1>2 DEF LocksInv, GrantInv, P!TypeOK
  <2> QED
    BY <1>2, <2>1 DEF P!CallReleaseAll, P!Proceed, P!Call, P!get_or_create_lock_entry,
       P!acquire_lock, P!release_lock, P!release_all_step, P!Return
<1>3. LocksInv /\ [LocksNext]_lockVars => [Stays]_(P!vars)
  BY <1>1, <1>2
<1> QED
  BY <1>3, LocksHold, PTL DEF LocksSpec, StuckStopsTheTable, P!StuckStopsTheTable

=============================================================================
