----------------------------- MODULE DataProofs -----------------------------
(***************************************************************************)
(* Facts about data that several components' proofs need: positions in a   *)
(* sequence, the best element of a finite set, and folds.                  *)
(***************************************************************************)
EXTENDS Positions, FiniteSetsExt, Functions, FiniteSetTheorems, SequenceTheorems,
        WellFoundedInduction, TLAPS

(***************************************************************************)
(* Positions in a sequence.                                                *)
(***************************************************************************)
\* The smallest of some numbers is one of them and no greater than any.
LEMMA MinOfNumbers ==
  ASSUME NEW S \in SUBSET Nat, NEW x \in S
  PROVE  Min(S) \in S /\ Min(S) <= x
<1> DEFINE R == OpToRel(<, Nat)
<1>1. \E m \in S : \A y \in S : <<y, m>> \notin R
  <2> HIDE DEF R
  <2>1. IsWellFoundedOn(R, Nat)
    BY NatLessThanWellFounded DEF R
  <2> QED
    BY <2>1, WFMin
<1>2. \A a, b \in Nat : a < b => <<a, b>> \in R
  BY DEF OpToRel
<1> HIDE DEF R
<1>3. PICK m \in S : \A y \in S : <<y, m>> \notin R
  BY <1>1
<1>4. \A y \in S : ~(y < m)
  BY <1>2, <1>3
<1>5. \A y \in S : m <= y
  BY <1>4
<1> QED
  BY <1>5 DEF Min

\* The greatest of some positions is one of them and no smaller than any.
LEMMA MaxOfPositions ==
  ASSUME NEW n \in Nat, NEW S \in SUBSET (0..n), NEW x \in S
  PROVE  Max(S) \in S /\ x <= Max(S)
<1> DEFINE D == {n - y : y \in S}
<1>1. D \subseteq Nat
  OBVIOUS
<1>2. n - x \in D
  OBVIOUS
<1>3. Min(D) \in D /\ \A z \in D : Min(D) <= z
  <2> HIDE DEF D
  <2> QED
    BY <1>1, <1>2, MinOfNumbers
<1>4. PICK m \in S : Min(D) = n - m
  BY <1>3
<1>5. ASSUME NEW y \in S PROVE m >= y
  <2>1. n - y \in D
    OBVIOUS
  <2>2. n - m <= n - y
    BY <1>3, <1>4, <2>1
  <2>3. y \in Int /\ m \in Int
    OBVIOUS
  <2> QED
    BY <2>2, <2>3
<1> QED
  BY <1>5 DEF Max

\* A set of positions is finite and has no more elements than there are.
LEMMA PositionsFinite ==
  ASSUME NEW n \in Nat, NEW S \in SUBSET (1..n)
  PROVE  IsFiniteSet(S) /\ Cardinality(S) \in 0..n
<1>1. IsFiniteSet(1..n) /\ Cardinality(1..n) = n
  BY FS_Interval
<1>2. IsFiniteSet(S) /\ Cardinality(S) <= n
  BY <1>1, FS_Subset
<1> QED
  BY <1>2, FS_CardinalityType

\* Positions with all those in front of them are the first ones.
LEMMA FirstPositions ==
  ASSUME NEW n \in Nat, NEW S \in SUBSET (1..n), \A i \in S : \A j \in 1..i : j \in S
  PROVE  Cardinality(S) \in 0..n /\ S = 1..Cardinality(S)
<1>1. \E m \in 0..n : S = 1..m
  <2>1. CASE S = {}
    BY <2>1
  <2>2. CASE S # {}
    <3>1. PICK x \in S : TRUE
      BY <2>2
    <3>2. S \subseteq 0..n
      OBVIOUS
    <3>3. PICK m \in S : \A y \in S : y <= m
      BY <3>1, <3>2, MaxOfPositions
    <3>4. m \in 1..n
      OBVIOUS
    <3>5. \A y \in S : y \in 1..m
      BY <3>3, <3>4
    <3>6. \A y \in 1..m : y \in S
      OBVIOUS
    <3>7. S = 1..m
      BY <3>5, <3>6
    <3> QED
      BY <3>4, <3>7
  <2> QED
    BY <2>1, <2>2
<1>2. PICK m \in 0..n : S = 1..m
  BY <1>1
<1>3. Cardinality(1..m) = m
  BY FS_Interval
<1> QED
  BY <1>2, <1>3

\* Nth numbers the positions of a set from the front.
LEMMA NthFacts ==
  ASSUME NEW n \in Nat, NEW S \in SUBSET (1..n)
  PROVE  /\ Cardinality(S) \in 0..n
         /\ \A m \in 1..Cardinality(S) : Nth(S, m) \in S
         /\ \A l, m \in 1..Cardinality(S) : l < m => Nth(S, l) < Nth(S, m)
         /\ \A x \in S : \E m \in 1..Cardinality(S) : x = Nth(S, m)
         /\ \A m \in 1..Cardinality(S) : Cardinality({j \in S : j <= Nth(S, m)}) = m
<1> DEFINE Upto(i) == {j \in S : j <= i}
           c == Cardinality(S)
           rank == [i \in S |-> Cardinality(Upto(i))]
<1>1. IsFiniteSet(S) /\ c \in 0..n
  BY PositionsFinite
<1>2. \A i \in S : /\ IsFiniteSet(Upto(i)) /\ Cardinality(Upto(i)) \in 1..c
  <2> SUFFICES ASSUME NEW i \in S
               PROVE  IsFiniteSet(Upto(i)) /\ Cardinality(Upto(i)) \in 1..c
    OBVIOUS
  <2>1. Upto(i) \subseteq S /\ i \in Upto(i)
    OBVIOUS
  <2> HIDE DEF Upto
  <2>2. IsFiniteSet(Upto(i)) /\ Cardinality(Upto(i)) <= c
    BY <1>1, <2>1, FS_Subset
  <2>3. Cardinality(Upto(i)) \in Nat /\ Cardinality(Upto(i)) # 0
    BY <2>1, <2>2, FS_CardinalityType, FS_EmptySet
  <2> QED
    BY <1>1, <2>2, <2>3
<1>3. \A i, j \in S : i < j => Cardinality(Upto(i)) < Cardinality(Upto(j))
  <2> SUFFICES ASSUME NEW i \in S, NEW j \in S, i < j
               PROVE  Cardinality(Upto(i)) < Cardinality(Upto(j))
    OBVIOUS
  <2>1. i \in Int /\ j \in Int /\ S \subseteq Int
    OBVIOUS
  <2>2. ASSUME NEW x \in Upto(i) PROVE x \in Upto(j)
    BY <2>1
  <2>3. j \in Upto(j) /\ j \notin Upto(i)
    BY <2>1
  <2>4. /\ IsFiniteSet(Upto(j))
        /\ Cardinality(Upto(i)) \in Nat /\ Cardinality(Upto(j)) \in Nat
    BY <1>1, <1>2
  <2> HIDE DEF Upto
  <2>5. Upto(i) \subseteq Upto(j) /\ Upto(i) # Upto(j)
    BY <2>2, <2>3
  <2> QED
    BY <2>4, <2>5, FS_Subset
<1> HIDE DEF Upto
<1>4. rank \in Surjection(S, 1..c)
  <2>1. rank \in [S -> 1..c]
    BY <1>2
  <2>2. \A i, j \in S : rank[i] = rank[j] => i = j
    <3> SUFFICES ASSUME NEW i \in S, NEW j \in S, rank[i] = rank[j], i # j PROVE FALSE
      OBVIOUS
    <3>1. i \in Int /\ j \in Int /\ rank[i] \in Int
      BY <1>1, <2>1
    <3>2. i < j \/ j < i
      BY <3>1
    <3> QED
      BY <1>3, <3>1, <3>2
  <2>3. rank \in Injection(S, 1..c)
    BY <2>1, <2>2 DEF Injection, IsInjective
  <2>4. IsFiniteSet(1..c) /\ Cardinality(1..c) = c
    BY <1>1, FS_Interval
  <2> QED
    BY <2>3, <2>4, FS_Injection
<1>5. \A m \in 1..c : \E i \in S : Cardinality(Upto(i)) = m
  BY <1>4 DEF Surjection
<1>6. \A m \in 1..c : Nth(S, m) \in S /\ Cardinality(Upto(Nth(S, m))) = m
  BY <1>5 DEF Nth, Upto
<1>7. ASSUME NEW l \in 1..c, NEW m \in 1..c, l < m
      PROVE  Nth(S, l) < Nth(S, m)
  <2>1. PICK i \in S, j \in S : i = Nth(S, l) /\ j = Nth(S, m)
    BY <1>6
  <2>2. Cardinality(Upto(i)) = l /\ Cardinality(Upto(j)) = m
    BY <1>6, <2>1
  <2>3. i \in Int /\ j \in Int /\ l \in Int /\ m \in Int
    BY <1>1
  <2>4. ~(j < i) /\ i # j
    BY <1>3, <1>7, <2>2, <2>3
  <2> QED
    BY <2>1, <2>3, <2>4
<1>8. ASSUME NEW x \in S PROVE \E m \in 1..c : x = Nth(S, m)
  <2>1. PICK m \in 1..c : m = Cardinality(Upto(x))
    BY <1>2
  <2>2. PICK y \in S : y = Nth(S, m) /\ Cardinality(Upto(y)) = m
    BY <1>6
  <2>3. ~(x < y) /\ ~(y < x)
    BY <1>1, <1>3, <2>1, <2>2
  <2>4. x \in Int /\ y \in Int
    OBVIOUS
  <2> QED
    BY <2>2, <2>3, <2>4
<1> QED
  BY <1>1, <1>6, <1>7, <1>8 DEF Upto

\* Its rank tells which one an element is.
LEMMA NthOfRank ==
  ASSUME NEW n \in Nat, NEW S \in SUBSET (1..n), NEW x \in S, NEW m,
         Cardinality({j \in S : j <= x}) = m
  PROVE  m \in 1..Cardinality(S) /\ Nth(S, m) = x
<1>1. PICK k \in 1..Cardinality(S) : x = Nth(S, k)
  BY NthFacts
<1>2. Cardinality({j \in S : j <= Nth(S, k)}) = k
  BY NthFacts
<1> QED
  BY <1>1, <1>2

\* What is left at some positions of a sequence: as many elements as positions,
\* each from one of them.
LEMMA SelectFacts ==
  ASSUME NEW E, NEW s \in Seq(E), NEW S \in SUBSET (DOMAIN s)
  PROVE  /\ Select(s, S) \in Seq(E)
         /\ Len(Select(s, S)) = Cardinality(S)
         /\ \A m \in DOMAIN Select(s, S) : \E i \in S : Select(s, S)[m] = s[i]
         /\ \A l, m \in DOMAIN Select(s, S) : l < m =>
              \E i, j \in S : i < j /\ Select(s, S)[l] = s[i] /\ Select(s, S)[m] = s[j]
<1>1. DOMAIN s = 1..Len(s) /\ Len(s) \in Nat
  OBVIOUS
<1>2. /\ Cardinality(S) \in Nat
      /\ \A m \in 1..Cardinality(S) : Nth(S, m) \in S
      /\ \A l, m \in 1..Cardinality(S) : l < m => Nth(S, l) < Nth(S, m)
  BY <1>1, NthFacts
<1>3. \A i \in S : s[i] \in E
  BY <1>1
<1>4. \A m \in 1..Cardinality(S) : s[Nth(S, m)] \in E
  BY <1>2, <1>3
<1> QED
  BY <1>2, <1>4 DEF Select, Selection

\* Every chosen position is in the selection.
LEMMA SelectCovers ==
  ASSUME NEW E, NEW s \in Seq(E), NEW S \in SUBSET (DOMAIN s)
  PROVE  \A i \in S : \E m \in DOMAIN Select(s, S) : Select(s, S)[m] = s[i]
<1>1. DOMAIN s = 1..Len(s) /\ Len(s) \in Nat
  OBVIOUS
<1>2. \A x \in S : \E m \in 1..Cardinality(S) : x = Nth(S, m)
  BY <1>1, NthFacts
<1>3. Select(s, S) = [m \in 1..Cardinality(S) |-> s[Nth(S, m)]]
  BY DEF Select, Selection
<1> QED
  BY <1>2, <1>3

\* What is left when one more element is pushed back, taken or not.
LEMMA SelectPushed ==
  ASSUME NEW E, NEW s \in Seq(E), NEW S \in SUBSET (DOMAIN s), NEW x \in E
  PROVE  /\ Select(Append(s, x), S) = Select(s, S)
         /\ Select(Append(s, x), S \cup {Len(s) + 1}) = Append(Select(s, S), x)
<1>1. PICK z \in Nat : z = Len(s) /\ DOMAIN s = 1..z
  OBVIOUS
<1>2. PICK t \in Seq(E) : t = Append(s, x)
  <2>1. Append(s, x) \in Seq(E)
    OBVIOUS
  <2> QED
    BY <2>1
<1>3. Len(t) = z + 1 /\ DOMAIN t = 1..(z + 1) /\ t[z + 1] = x /\ \A i \in 1..z : t[i] = s[i]
  BY <1>1, <1>2
<1>4. PICK c : c = Cardinality(S)
  OBVIOUS
<1>5. /\ c \in 0..z
      /\ \A m \in 1..c : Nth(S, m) \in S
      /\ \A m \in 1..c : Cardinality({j \in S : j <= Nth(S, m)}) = m
  BY <1>1, <1>4, NthFacts
<1>6. \A m \in 1..c : Nth(S, m) \in 1..z /\ t[Nth(S, m)] = s[Nth(S, m)]
  BY <1>1, <1>3, <1>5
<1>7. Select(s, S) = [m \in 1..c |-> s[Nth(S, m)]]
  BY <1>4 DEF Select, Selection
<1>8. Select(t, S) = [m \in 1..c |-> t[Nth(S, m)]]
  <2>1. S \in SUBSET (DOMAIN t)
    BY <1>1, <1>3
  <2> QED
    BY <1>4, <2>1 DEF Select, Selection
<1>9. Select(t, S) = Select(s, S)
  BY <1>6, <1>7, <1>8
<1>10. PICK B : B = S \cup {z + 1}
  OBVIOUS
<1>11. B \in SUBSET (1..(z + 1)) /\ z + 1 \in Nat /\ S \subseteq B /\ z + 1 \in B /\ z + 1 \notin S
  BY <1>1, <1>10
<1>12. \A m \in 1..c : Nth(B, m) = Nth(S, m)
  <2> SUFFICES ASSUME NEW m \in 1..c PROVE Nth(B, m) = Nth(S, m)
    OBVIOUS
  <2>1. PICK y \in S : y = Nth(S, m)
    BY <1>5
  <2>2. y \in 1..z /\ y \in B
    BY <1>1, <1>11
  <2>3. {j \in B : j <= y} = {j \in S : j <= y}
    BY <1>1, <1>10, <2>2
  <2>4. Cardinality({j \in B : j <= y}) = m
    BY <1>5, <2>1, <2>3
  <2> QED
    <3>1. PICK w \in Nat : w = z + 1
      BY <1>11
    <3>2. B \in SUBSET (1..w) /\ y \in B
      BY <1>11, <2>2, <3>1
    <3>3. Nth(B, m) = y
      BY <2>4, <3>2, NthOfRank
    <3> QED
      BY <2>1, <3>3
<1>13. Cardinality(B) = c + 1
  <2>1. IsFiniteSet(S)
    BY <1>1, PositionsFinite
  <2> QED
    BY <1>4, <1>10, <1>11, <2>1, FS_AddElement
<1>14. Nth(B, c + 1) = z + 1
  <2>1. PICK w \in Nat : w = z + 1
    BY <1>11
  <2>2. B \in SUBSET (1..w) /\ w \in B
    BY <1>11, <2>1
  <2>3. {j \in B : j <= w} = B
    <3>1. \A j \in B : j \in 1..w
      BY <2>2
    <3>2. \A j \in B : j <= w
      BY <3>1
    <3> QED
      BY <3>2
  <2>4. Nth(B, c + 1) = w
    BY <1>13, <2>2, <2>3, NthOfRank
  <2> QED
    BY <2>1, <2>4
<1>15. Select(t, B) = [m \in 1..(c + 1) |-> t[Nth(B, m)]]
  BY <1>3, <1>11, <1>13 DEF Select, Selection
<1>16. PICK a : a = Select(s, S)
  OBVIOUS
<1>17. a \in Seq(E) /\ Len(a) = c /\ DOMAIN a = 1..c /\ \A m \in 1..c : a[m] = s[Nth(S, m)]
  BY <1>4, <1>5, <1>7, <1>16, SelectFacts
<1>18. \A m \in 1..(c + 1) : t[Nth(B, m)] = Append(a, x)[m]
  <2> SUFFICES ASSUME NEW m \in 1..(c + 1) PROVE t[Nth(B, m)] = Append(a, x)[m]
    OBVIOUS
  <2>1. CASE m = c + 1
    BY <1>3, <1>5, <1>14, <1>17, <2>1
  <2>2. CASE m # c + 1
    <3>1. m \in 1..c
      BY <1>5, <2>2
    <3> QED
      BY <1>6, <1>12, <1>17, <3>1
  <2> QED
    BY <2>1, <2>2
<1>19. Append(a, x) \in Seq(E) /\ DOMAIN Append(a, x) = 1..(c + 1)
  BY <1>5, <1>17
<1>20. Select(t, B) = Append(a, x)
  <2>1. PICK u : u = Append(a, x)
    OBVIOUS
  <2>2. u \in Seq(E) /\ DOMAIN u = 1..(c + 1) /\ \A m \in 1..(c + 1) : t[Nth(B, m)] = u[m]
    BY <1>18, <1>19, <2>1
  <2>3. u = [m \in 1..(c + 1) |-> u[m]]
    BY <2>2
  <2> QED
    BY <1>15, <2>1, <2>2, <2>3
<1> QED
  BY <1>1, <1>2, <1>9, <1>10, <1>16, <1>20

(***************************************************************************)
(* The best element of a finite set.                                       *)
(***************************************************************************)
\* Where any two elements compare, one is as good as all the others.
LEMMA BestExists ==
  ASSUME NEW S, IsFiniteSet(S), S # {}, NEW R,
         \A x, y \in S : <<x, y>> \in R \/ <<y, x>> \in R,
         \A x, y, z \in S : <<x, y>> \in R /\ <<y, z>> \in R => <<x, z>> \in R
  PROVE  \E x \in S : \A y \in S : <<x, y>> \in R
<1> DEFINE Best(T) == \E x \in T : \A y \in T : <<x, y>> \in R
           Bad == {n \in Nat : \E T \in SUBSET S : T # {} /\ Cardinality(T) = n /\ ~Best(T)}
<1>1. Bad = {}
  <2> SUFFICES ASSUME NEW b \in Bad PROVE FALSE
    OBVIOUS
  <2>1. Min(Bad) \in Bad /\ \A m \in Bad : Min(Bad) <= m
    <3>1. Bad \subseteq Nat
      OBVIOUS
    <3> HIDE DEF Bad
    <3> QED
      BY <3>1, MinOfNumbers
  <2>2. PICK n \in Nat : n \in Bad /\ \A m \in Bad : n <= m
    BY <2>1
  <2>3. PICK T \in SUBSET S : T # {} /\ Cardinality(T) = n /\ ~Best(T)
    BY <2>2
  <2>4. PICK x \in T : TRUE
    BY <2>3
  <2>5. IsFiniteSet(T)
    BY FS_Subset
  <2>6. IsFiniteSet(T \ {x}) /\ Cardinality(T \ {x}) = n - 1
    BY <2>3, <2>4, <2>5, FS_RemoveElement
  <2>7. CASE T \ {x} = {}
    <3>1. T = {x}
      BY <2>4, <2>7
    <3> QED
      BY <2>3, <3>1
  <2>8. CASE T \ {x} # {}
    <3>1. n - 1 \in Nat
      BY <2>6, FS_CardinalityType
    <3>2. n - 1 \notin Bad
      BY <2>2, <3>1
    <3>3. Best(T \ {x})
      BY <2>6, <2>8, <3>1, <3>2
    <3>4. PICK y \in T \ {x} : \A z \in T \ {x} : <<y, z>> \in R
      BY <3>3
    <3>5. CASE <<y, x>> \in R
      BY <2>3, <3>4, <3>5
    <3>6. CASE <<x, y>> \in R
      <4>1. \A z \in T : <<x, z>> \in R
        BY <2>4, <3>4, <3>6
      <4> QED
        BY <2>3, <4>1
    <3> QED
      BY <2>4, <3>4, <3>5, <3>6
  <2> QED
    BY <2>7, <2>8
<1>2. Cardinality(S) \in Nat
  BY FS_CardinalityType
<1> QED
  BY <1>1, <1>2

\* The values of a function on a finite set are finitely many.
ImageOf(f, S) == {f[x] : x \in S}

LEMMA ImageFinite ==
  ASSUME NEW S, IsFiniteSet(S), NEW f
  PROVE  IsFiniteSet(ImageOf(f, S))
<1> DEFINE T == {f[x] : x \in S}
           g == [x \in S |-> f[x]]
<1>1. g \in Surjection(S, T)
  BY DEF Surjection
<1> HIDE DEF g, T
<1>2. IsFiniteSet(T)
  BY <1>1, FS_Surjection
<1> QED
  BY <1>2 DEF T, ImageOf

(***************************************************************************)
(* Folds.  An operator of MapThenFoldSet takes the elements of a set D one *)
(* after the other, c[s] first of what is left of it (s); F[s] is what it  *)
(* makes of the value for the others.                                      *)
(***************************************************************************)
Chooses(c, D) == \A s \in SUBSET D : s # {} => c[s] \in s
Makes(F, V, D) == \A s \in SUBSET D : s # {} => F[s] \in [V -> V]
Folds(g, F, base, c, D) ==
  \A s \in SUBSET D : g[s] = IF s = {} THEN base ELSE F[s][g[s \ {c[s]}]]

\* What holds of nothing and, with the others, of the next element, holds of all.
LEMMA FoldInduction ==
  ASSUME NEW D, IsFiniteSet(D), NEW c, Chooses(c, D),
         NEW Good, {} \in Good,
         \A s \in SUBSET D : s # {} /\ s \ {c[s]} \in Good => s \in Good
  PROVE  \A s \in SUBSET D : s \in Good
<1> DEFINE Bad == {n \in Nat : \E s \in SUBSET D : Cardinality(s) = n /\ s \notin Good}
<1>1. Bad = {}
  <2> SUFFICES ASSUME NEW b \in Bad PROVE FALSE
    OBVIOUS
  <2>1. Min(Bad) \in Bad /\ \A m \in Bad : Min(Bad) <= m
    <3>1. Bad \subseteq Nat
      OBVIOUS
    <3> HIDE DEF Bad
    <3> QED
      BY <3>1, MinOfNumbers
  <2>2. PICK n \in Nat : n \in Bad /\ \A m \in Bad : n <= m
    BY <2>1
  <2>3. PICK s \in SUBSET D : Cardinality(s) = n /\ s \notin Good
    BY <2>2
  <2>4. s # {} /\ c[s] \in s
    BY <2>3 DEF Chooses
  <2>5. IsFiniteSet(s)
    BY FS_Subset
  <2>6. IsFiniteSet(s \ {c[s]}) /\ Cardinality(s \ {c[s]}) = n - 1
    BY <2>3, <2>4, <2>5, FS_RemoveElement
  <2>7. n - 1 \in Nat
    BY <2>6, FS_CardinalityType
  <2>8. s \ {c[s]} \in SUBSET D /\ n - 1 \notin Bad
    BY <2>2, <2>7
  <2>9. s \ {c[s]} \in Good
    BY <2>6, <2>7, <2>8
  <2> QED
    BY <2>3, <2>4, <2>9
<1>2. \A s \in SUBSET D : Cardinality(s) \in Nat
  BY FS_Subset, FS_CardinalityType
<1> QED
  BY <1>1, <1>2

\* There is a function that does the fold, with values in any set that every step
\* stays in.
LEMMA FoldExists ==
  ASSUME NEW D, IsFiniteSet(D), NEW c, Chooses(c, D), NEW V, NEW base \in V,
         NEW F, Makes(F, V, D)
  PROVE  \E g \in [SUBSET D -> V] : Folds(g, F, base, c, D)
<1> DEFINE Step(g, s) == IF s = {} THEN base ELSE F[s][g[s \ {c[s]}]]
           Upto(g, n) == \A s \in SUBSET D : Cardinality(s) <= n => g[s] = Step(g, s)
           Bad == {n \in Nat : \A g \in [SUBSET D -> V] : ~Upto(g, n)}
<1>1. \A s \in SUBSET D : /\ IsFiniteSet(s) /\ Cardinality(s) \in Nat
                          /\ Cardinality(s) = 0 <=> s = {}
  BY FS_Subset, FS_CardinalityType, FS_EmptySet
<1>2. \A s \in SUBSET D : s # {} => /\ c[s] \in s /\ s \ {c[s]} \in SUBSET D
                                   /\ Cardinality(s \ {c[s]}) = Cardinality(s) - 1
  <2> SUFFICES ASSUME NEW s \in SUBSET D, s # {}
               PROVE  /\ c[s] \in s /\ s \ {c[s]} \in SUBSET D
                      /\ Cardinality(s \ {c[s]}) = Cardinality(s) - 1
    OBVIOUS
  <2>1. c[s] \in s
    BY DEF Chooses
  <2> QED
    BY <1>1, <2>1, FS_RemoveElement
<1>3. Bad = {}
  <2> SUFFICES ASSUME NEW b \in Bad PROVE FALSE
    OBVIOUS
  <2>1. Min(Bad) \in Bad /\ \A m \in Bad : Min(Bad) <= m
    <3>1. Bad \subseteq Nat
      OBVIOUS
    <3> HIDE DEF Bad
    <3> QED
      BY <3>1, MinOfNumbers
  <2>2. PICK n \in Nat : n \in Bad /\ \A m \in Bad : n <= m
    BY <2>1
  <2>3. ASSUME n = 0 PROVE FALSE
    <3> DEFINE g == [s \in SUBSET D |-> base]
    <3>1. g \in [SUBSET D -> V] /\ \A s \in SUBSET D : g[s] = base
      OBVIOUS
    <3> HIDE DEF g
    <3>2. Upto(g, 0)
      BY <1>1, <3>1
    <3> QED
      BY <2>2, <2>3, <3>1, <3>2
  <2>4. n - 1 \in Nat /\ n - 1 \notin Bad
    <3>1. n - 1 \in Nat /\ ~(n <= n - 1)
      BY <2>3
    <3> HIDE DEF Bad
    <3> QED
      BY <2>2, <3>1
  <2>5. PICK g \in [SUBSET D -> V] : Upto(g, n - 1)
    BY <2>4
  <2> DEFINE h == [s \in SUBSET D |-> Step(g, s)]
  <2>6. h \in [SUBSET D -> V]
    <3>1. ASSUME NEW s \in SUBSET D PROVE Step(g, s) \in V
      <4>1. CASE s = {}
        BY <4>1
      <4>2. CASE s # {}
        <5>1. F[s] \in [V -> V] /\ g[s \ {c[s]}] \in V
          BY <1>2, <4>2 DEF Makes
        <5> QED
          BY <4>2, <5>1
      <4> QED
        BY <4>1, <4>2
    <3> QED
      BY <3>1
  <2>7. \A s \in SUBSET D : h[s] = Step(g, s)
    OBVIOUS
  <2> HIDE DEF h
  <2>8. ASSUME NEW s \in SUBSET D, Cardinality(s) <= n PROVE h[s] = Step(h, s)
    <3>1. CASE s = {}
      BY <2>7, <3>1
    <3>2. CASE s # {}
      <4>1. PICK r \in SUBSET D : r = s \ {c[s]} /\ Cardinality(r) = Cardinality(s) - 1
        BY <1>2, <3>2
      <4>2. Cardinality(r) <= n - 1
        BY <1>1, <2>8, <4>1
      <4>3. g[r] = Step(g, r)
        BY <2>5, <4>2
      <4>4. h[r] = g[r]
        BY <2>7, <4>3
      <4> QED
        BY <2>7, <3>2, <4>1, <4>4
    <3> QED
      BY <3>1, <3>2
  <2>9. Upto(h, n)
    BY <2>8
  <2> QED
    BY <2>2, <2>6, <2>9
<1>4. Cardinality(D) \in Nat
  BY FS_CardinalityType
<1>5. PICK g \in [SUBSET D -> V] : Upto(g, Cardinality(D))
  BY <1>3, <1>4
<1>6. \A s \in SUBSET D : Cardinality(s) <= Cardinality(D)
  BY FS_Subset
<1> QED
  BY <1>5, <1>6 DEF Folds

\* A sum of natural numbers is a natural number.
LEMMA SumIsNatural ==
  ASSUME NEW D, IsFiniteSet(D), NEW f \in [D -> Nat]
  PROVE  SumFunction(f) \in Nat
<1> DEFINE next(s) == CHOOSE x \in s : TRUE
           step(g, s) == IF s = {} THEN 0 ELSE f[next(s)] + g[s \ {next(s)}]
           c == [s \in SUBSET D |-> next(s)]
           F == [s \in SUBSET D |-> [v \in Nat |-> f[next(s)] + v]]
           k == CHOOSE g : g = [s \in SUBSET D |-> step(g, s)]
<1>1. \A s \in SUBSET D : s # {} => next(s) \in s
  OBVIOUS
<1> HIDE DEF next
<1>2. Chooses(c, D) /\ \A s \in SUBSET D : c[s] = next(s)
  BY <1>1 DEF Chooses
<1>3. /\ Makes(F, Nat, D)
      /\ \A s \in SUBSET D : s # {} => \A v \in Nat : F[s][v] = f[next(s)] + v
  BY <1>1 DEF Makes
<1> HIDE DEF c, F
<1>4. PICK g \in [SUBSET D -> Nat] : Folds(g, F, 0, c, D)
  BY <1>2, <1>3, FoldExists
<1>5. \A s \in SUBSET D : g[s] = step(g, s)
  <2> SUFFICES ASSUME NEW s \in SUBSET D PROVE g[s] = step(g, s)
    OBVIOUS
  <2>1. CASE s = {}
    BY <1>4, <2>1 DEF Folds
  <2>2. CASE s # {}
    <3>1. g[s] = F[s][g[s \ {c[s]}]] /\ s \ {c[s]} \in SUBSET D /\ c[s] = next(s)
      BY <1>2, <1>4, <2>2 DEF Folds
    <3> QED
      BY <1>3, <2>2, <3>1
  <2> QED
    BY <2>1, <2>2
<1>6. g = [s \in SUBSET D |-> step(g, s)]
  BY <1>5
<1>7. k = [s \in SUBSET D |-> step(k, s)]
  BY <1>6
<1>8. \A s \in SUBSET D : k[s] = step(k, s)
  BY <1>7
<1> HIDE DEF k
<1> DEFINE Good == {s \in SUBSET D : k[s] \in Nat}
<1>9. {} \in Good
  <2>1. {} \in SUBSET D /\ k[{}] = 0
    BY <1>8
  <2> QED
    BY <2>1
<1>10. ASSUME NEW s \in SUBSET D, s # {}, s \ {c[s]} \in Good PROVE s \in Good
  BY <1>1, <1>2, <1>8, <1>10
<1> HIDE DEF Good
<1>11. D \in Good
  BY <1>2, <1>9, <1>10, FoldInduction
<1>12. k[D] \in Nat
  BY <1>11 DEF Good
<1>13. SumFunction(f) = MapThenFoldSet(+, 0, LAMBDA i : f[i], LAMBDA s : CHOOSE x \in s : TRUE, D)
  BY DEF SumFunction, SumFunctionOnSet, FoldFunctionOnSet
<1> QED
  BY <1>12, <1>13 DEF MapThenFoldSet, k, next
=============================================================================
