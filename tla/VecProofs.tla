----------------------------- MODULE VecProofs ------------------------------
(* What Retain and the other vector operations preserve, for every vector; *)
(* and what a loop over a vector computes, by induction on its turns.      *)
EXTENDS VecOps, FiniteSetTheorems, TLAPS

\* A leaf is tried with SMT, then with Zenon and with Z3 alone, for up to 30
\* seconds each, unless it names another prover.
USE SMTT(30), ZenonT(30), Z3T(30)

-----------------------------------------------------------------------------
(* Vectors by position.                                                    *)

\* A vector is a function on the positions up to its length.
LEMMA LengthOf ==
  ASSUME NEW T, NEW s \in Seq(T)
  PROVE  Len(s) \in Nat /\ s \in [1 .. Len(s) -> T] /\ DOMAIN s = 1 .. Len(s)
OBVIOUS

\* Vec::push.
LEMMA PushedAt ==
  ASSUME NEW T, NEW s \in Seq(T), NEW e \in T
  PROVE  /\ Append(s, e) \in Seq(T) /\ Len(Append(s, e)) = Len(s) + 1
         /\ \A i \in 1 .. Len(s) : Append(s, e)[i] = s[i]
         /\ Append(s, e)[Len(s) + 1] = e
OBVIOUS

\* Vec::extend.
LEMMA ExtendedAt ==
  ASSUME NEW T, NEW s \in Seq(T), NEW t \in Seq(T)
  PROVE  /\ s \o t \in Seq(T) /\ Len(s \o t) = Len(s) + Len(t)
         /\ \A i \in 1 .. Len(s) + Len(t) :
              (s \o t)[i] = IF i <= Len(s) THEN s[i] ELSE t[i - Len(s)]
OBVIOUS

-----------------------------------------------------------------------------
(* Retaining and picking.                                                  *)

\* A later kept position has a larger rank.
LEMMA RankMonotone ==
  ASSUME NEW K, IsFiniteSet(K), K \subseteq Nat,
         NEW i \in K, NEW j \in K, i < j
  PROVE  Rank(K, i) < Rank(K, j)
<1> DEFINE I == {h \in K : h <= i}
           J == {h \in K : h <= j}
<1>0. i \in Nat /\ j \in Nat /\ \A h \in K : h \in Nat
  OBVIOUS
<1>1. I \in SUBSET J /\ j \in J /\ j \notin I
  <2>1. \A h \in K : h <= i => h <= j
    BY <1>0
  <2>2. j <= j /\ ~ (j <= i)
    BY <1>0
  <2> QED
    BY <2>1, <2>2, Zenon
<1>2. IsFiniteSet(J) /\ IsFiniteSet(I)
  BY FS_Subset, I \in SUBSET K, J \in SUBSET K
<1>3. Cardinality(I) \in Nat /\ Cardinality(J) \in Nat
  BY <1>2, FS_CardinalityType
<1>4. Cardinality(I) <= Cardinality(J) /\ (Cardinality(J) = Cardinality(I) => J = I)
  BY <1>1, <1>2, FS_Subset
<1> QED
  BY <1>1, <1>3, <1>4 DEF Rank

\* Two kept positions have different ranks.
LEMMA RankInjective ==
  ASSUME NEW K, IsFiniteSet(K), K \subseteq Nat, NEW i \in K, NEW j \in K, i # j
  PROVE  Rank(K, i) # Rank(K, j)
<1>1. i \in Nat /\ j \in Nat
  OBVIOUS
<1>2. \A h \in K : Rank(K, h) \in Nat
  <2> SUFFICES ASSUME NEW h \in K PROVE Rank(K, h) \in Nat
    OBVIOUS
  <2> DEFINE H == {g \in K : g <= h}
  <2>1. IsFiniteSet(H)
    BY FS_Subset, H \in SUBSET K
  <2> QED
    BY <2>1, FS_CardinalityType DEF Rank
<1>3. CASE i < j
  <2>1. Rank(K, i) < Rank(K, j)
    BY <1>3, RankMonotone, Zenon
  <2> QED
    BY <1>2, <2>1
<1>4. CASE j < i
  <2>1. Rank(K, j) < Rank(K, i)
    BY <1>4, RankMonotone, Zenon
  <2> QED
    BY <1>2, <2>1
<1> QED
  BY <1>1, <1>3, <1>4

\* Ranks number the kept positions from 1 to |K| without gaps.
LEMMA RankSurjective ==
  ASSUME NEW K, IsFiniteSet(K), K \subseteq Nat
  PROVE  /\ \A i \in K : Rank(K, i) \in 1 .. Cardinality(K)
         /\ \A n \in 1 .. Cardinality(K) : \E i \in K : Rank(K, i) = n
<1> DEFINE f == [i \in K |-> Rank(K, i)]
           N == Cardinality(K)
<1>1. N \in Nat
  BY FS_CardinalityType
<1>2. ASSUME NEW i \in K PROVE Rank(K, i) \in 1 .. N
  <2> DEFINE I == {h \in K : h <= i}
  <2>1. IsFiniteSet(I) /\ Cardinality(I) <= N
    BY FS_Subset, I \in SUBSET K
  <2>2. Cardinality(I) \in Nat
    BY <2>1, FS_CardinalityType
  <2>3. i \in I
    OBVIOUS
  <2>4. Cardinality(I) # 0
    BY <2>1, <2>3, FS_EmptySet
  <2> QED
    BY <1>1, <2>1, <2>2, <2>4 DEF Rank
<1>3. \A i, j \in K : f[i] = f[j] => i = j
  BY RankInjective, Zenon
<1>4. f \in Injection(K, 1 .. N)
  BY <1>2, <1>3 DEF Injection, IsInjective
<1>5. IsFiniteSet(1 .. N) /\ Cardinality(1 .. N) = N
  BY <1>1, FS_Interval
<1>6. f \in Surjection(K, 1 .. N)
  BY <1>4, <1>5, FS_Injection
<1> QED
  BY <1>2, <1>6, Zenon DEF Surjection

\* Pick takes the elements at strictly increasing positions of K, and at all of
\* them.
LEMMA PickPositions ==
  ASSUME NEW T, NEW s \in Seq(T), NEW K \in SUBSET (1 .. Len(s))
  PROVE  \E p \in [1 .. Len(Pick(s, K)) -> K] :
           /\ Pick(s, K) \in Seq(T)
           /\ \A j \in 1 .. Len(Pick(s, K)) : Pick(s, K)[j] = s[p[j]]
           /\ \A i, j \in 1 .. Len(Pick(s, K)) : i < j => p[i] < p[j]
           /\ \A k \in K : \E j \in 1 .. Len(Pick(s, K)) : p[j] = k
<1> DEFINE N == Cardinality(K)
           p == [j \in 1 .. N |-> CHOOSE i \in K : Rank(K, i) = j]
<1>1. K \in SUBSET (1 .. Len(s)) /\ Len(s) \in Nat
  OBVIOUS
<1>2. IsFiniteSet(K) /\ K \subseteq Nat
  <2>1. IsFiniteSet(1 .. Len(s))
    BY <1>1, FS_Interval
  <2>2. IsFiniteSet(K)
    BY <1>1, <2>1, FS_Subset, Zenon
  <2>3. \A k \in K : k \in Nat
    BY <1>1
  <2> QED
    BY <2>2, <2>3
<1>3. N \in Nat
  BY <1>2, FS_CardinalityType
<1>4. \A j \in 1 .. N : p[j] \in K /\ Rank(K, p[j]) = j
  BY <1>2, RankSurjective, Zenon
<1>5. Pick(s, K) = [j \in 1 .. N |-> s[p[j]]]
  BY DEF Pick
<1>6. \A j \in 1 .. N : s[p[j]] \in T
  <2>1. \A k \in K : s[k] \in T
    BY <1>1
  <2> QED
    BY <1>4, <2>1, Zenon
<1>7. Pick(s, K) \in Seq(T) /\ Len(Pick(s, K)) = N
  <2>1. Pick(s, K) \in [1 .. N -> T]
    BY <1>5, <1>6, Zenon
  <2> HIDE DEF N
  <2> QED
    BY <1>3, <2>1
<1>8. ASSUME NEW i \in 1 .. N, NEW j \in 1 .. N, i < j PROVE p[i] < p[j]
  <2>1. p[i] \in Nat /\ p[j] \in Nat
    BY <1>2, <1>4, ZenonT(30)
  <2>2. p[i] # p[j]
    BY <1>4, <1>8
  <2>3. ~ (p[j] < p[i])
    <3> SUFFICES ASSUME p[j] < p[i] PROVE FALSE
      OBVIOUS
    <3>1. Rank(K, p[j]) < Rank(K, p[i])
      BY <1>2, <1>4, RankMonotone, Zenon
    <3> QED
      BY <1>4, <1>8, <3>1
  <2> QED
    BY <2>1, <2>2, <2>3
<1>9. ASSUME NEW k \in K PROVE \E j \in 1 .. N : p[j] = k
  <2>1. Rank(K, k) \in 1 .. N
    BY <1>2, RankSurjective, Zenon
  <2> DEFINE j == Rank(K, k)
  <2>2. p[j] \in K /\ Rank(K, p[j]) = Rank(K, k)
    BY <1>4, <2>1
  <2>3. p[j] = k
    BY <1>2, <2>2, RankInjective, Zenon
  <2> QED
    BY <2>1, <2>3
<1> QED
  <2>1. p \in [1 .. N -> K]
    BY <1>4
  <2> QED
    BY <1>5, <1>7, <1>8, <1>9, <2>1, Zenon

\* r holds exactly the elements of s that lie in S, without a new duplicate and
\* with no two of them in a new order.
IsFiltered(r, s, S) ==
  /\ Elements(r) = Elements(s) \cap S
  /\ Distinct(s) => Distinct(r)
  /\ \A i, j \in 1 .. Len(r) : i < j =>
       \E a, b \in 1 .. Len(s) : a < b /\ r[i] = s[a] /\ r[j] = s[b]

\* What retain preserves.
LEMMA RetainFacts ==
  ASSUME NEW T, NEW s \in Seq(T), NEW S
  PROVE  Retain(s, S) \in Seq(T) /\ IsFiltered(Retain(s, S), s, S)
<1> DEFINE K == KeptPositions(s, S)
           R == Pick(s, K)
           n == Len(R)
<1>0. K \in SUBSET (1 .. Len(s)) /\ Retain(s, S) = R
  BY DEF KeptPositions, Retain
<1>1. PICK p \in [1 .. n -> K] :
        /\ R \in Seq(T)
        /\ \A j \in 1 .. n : R[j] = s[p[j]]
        /\ \A i, j \in 1 .. n : i < j => p[i] < p[j]
        /\ \A k \in K : \E j \in 1 .. n : p[j] = k
  <2> HIDE DEF K
  <2> QED
    BY <1>0, PickPositions
<1> HIDE DEF R
<1>2. n \in Nat
  BY <1>1
<1>3. \A j \in 1 .. n : p[j] \in 1 .. Len(s) /\ s[p[j]] \in S
  BY DEF KeptPositions
<1>4. Elements(R) = Elements(s) \cap S
  <2>1. \A x \in Elements(R) : x \in Elements(s) /\ x \in S
    BY <1>1, <1>3 DEF Elements
  <2>2. ASSUME NEW k \in 1 .. Len(s), s[k] \in S PROVE s[k] \in Elements(R)
    <3>1. k \in K
      BY <2>2 DEF KeptPositions
    <3>2. PICK j \in 1 .. n : p[j] = k
      BY <1>1, <3>1
    <3> QED
      BY <1>1, <3>2 DEF Elements
  <2>3. \A x \in Elements(s) : x \in S => x \in Elements(R)
    BY <2>2 DEF Elements
  <2> QED
    BY <2>1, <2>3
<1>5. ASSUME Distinct(s) PROVE Distinct(R)
  <2> SUFFICES ASSUME NEW i \in 1 .. n, NEW j \in 1 .. n, R[i] = R[j], i # j
               PROVE  FALSE
    BY DEF Distinct
  <2>1. p[i] = p[j]
    BY <1>1, <1>3, <1>5, ZenonT(30) DEF Distinct
  <2>2. p[i] \in Int /\ i \in Int /\ j \in Int
    BY <1>3
  <2>3. CASE i < j
    BY <1>1, <2>1, <2>2, <2>3
  <2>4. CASE j < i
    BY <1>1, <2>1, <2>2, <2>4
  <2> QED
    BY <2>2, <2>3, <2>4
<1>6. ASSUME NEW i \in 1 .. n, NEW j \in 1 .. n, i < j
      PROVE  \E a, b \in 1 .. Len(s) : a < b /\ R[i] = s[a] /\ R[j] = s[b]
  BY <1>1, <1>3, <1>6, ZenonT(30)
<1> QED
  BY <1>0, <1>1, <1>4, <1>5, <1>6 DEF IsFiltered

\* The first element that retain keeps.
LEMMA RetainFirst ==
  ASSUME NEW T, NEW s \in Seq(T), NEW S, Retain(s, S) # << >>
  PROVE  \E i \in 1 .. Len(s) :
           /\ s[i] \in S /\ Retain(s, S)[1] = s[i]
           /\ \A j \in 1 .. i - 1 : s[j] \notin S
<1> DEFINE K == KeptPositions(s, S)
           R == Pick(s, K)
           n == Len(R)
<1>0. K \in SUBSET (1 .. Len(s)) /\ Retain(s, S) = R /\ Len(s) \in Nat
  BY DEF KeptPositions, Retain
<1>1. PICK p \in [1 .. n -> K] :
        /\ R \in Seq(T)
        /\ \A j \in 1 .. n : R[j] = s[p[j]]
        /\ \A i, j \in 1 .. n : i < j => p[i] < p[j]
        /\ \A k \in K : \E j \in 1 .. n : p[j] = k
  <2> HIDE DEF K
  <2> QED
    BY <1>0, PickPositions
<1>2. n \in Nat /\ 1 \in 1 .. n
  <2> HIDE DEF R
  <2> QED
    BY <1>0, <1>1
<1> HIDE DEF R, n
<1>3. p[1] \in 1 .. Len(s) /\ s[p[1]] \in S /\ R[1] = s[p[1]]
  BY <1>1, <1>2 DEF KeptPositions
<1>4. ASSUME NEW j \in 1 .. p[1] - 1 PROVE s[j] \notin S
  <2> SUFFICES ASSUME j \in K PROVE FALSE
    BY <1>0, <1>3 DEF KeptPositions
  <2> HIDE DEF K
  <2>1. PICK h \in 1 .. n : p[h] = j
    BY <1>1, Zenon
  <2>2. h = 1 \/ 1 < h
    BY <1>2
  <2>3. j \in Int /\ p[1] \in Int /\ j < p[1]
    BY <1>3
  <2>4. 1 < h => p[1] < p[h]
    BY <1>1, <1>2, Zenon
  <2> QED
    BY <2>1, <2>2, <2>3, <2>4
<1> QED
  BY <1>0, <1>3, <1>4, Zenon

\* What retain does where every element lies in S, and where none does.
LEMMA RetainAllOrNone ==
  ASSUME NEW T, NEW s \in Seq(T), NEW S
  PROVE  /\ Elements(s) \subseteq S => Retain(s, S) = s
         /\ Elements(s) \cap S = {} => Retain(s, S) = << >>
<1> DEFINE n == Len(s)
           K == KeptPositions(s, S)
<1>1. n \in Nat /\ s = [i \in 1 .. n |-> s[i]]
  BY LengthOf
<1>0. Elements(s) = {s[i] : i \in 1 .. n} /\ K = {i \in 1 .. n : s[i] \in S} /\ Retain(s, S) = Pick(s, K)
  BY DEF Elements, KeptPositions, Retain
<1> HIDE DEF n, K
<1>2. ASSUME Elements(s) \subseteq S PROVE Retain(s, S) = s
  <2>1. K = 1 .. n
    BY <1>0, <1>2, Zenon
  <2>2. ASSUME NEW i \in 1 .. n PROVE Rank(1 .. n, i) = i
    <3>1. {h \in 1 .. n : h <= i} = 1 .. i
      BY <1>1
    <3>2. i \in Int /\ i >= 1 /\ 1 \in Int
      OBVIOUS
    <3>3. Cardinality(1 .. i) = IF 1 > i THEN 0 ELSE i - 1 + 1
      BY <3>2, FS_Interval
    <3>4. Cardinality(1 .. i) = i
      BY <3>2, <3>3
    <3> QED
      BY <3>1, <3>4, Zenon DEF Rank
  <2>3. Cardinality(1 .. n) = n
    <3>0. 1 \in Int /\ n \in Int
      BY <1>1
    <3>1. Cardinality(1 .. n) = IF 1 > n THEN 0 ELSE n - 1 + 1
      BY <3>0, FS_Interval
    <3> QED
      BY <1>1, <3>1
  <2> DEFINE c(j) == CHOOSE i \in 1 .. n : Rank(1 .. n, i) = j
  <2>4. Pick(s, 1 .. n) = [j \in 1 .. n |-> s[c(j)]]
    BY <2>3, Zenon DEF Pick
  <2>5. ASSUME NEW j \in 1 .. n PROVE c(j) = j
    <3>1. c(j) \in 1 .. n /\ Rank(1 .. n, c(j)) = j
      BY <2>2, Zenon
    <3> QED
      BY <2>2, <3>1, Zenon
  <2> HIDE DEF c
  <2>6. Pick(s, 1 .. n) = [j \in 1 .. n |-> s[j]]
    BY <2>4, <2>5, Zenon
  <2> QED
    BY <1>0, <1>1, <2>1, <2>6, Zenon
<1>3. ASSUME Elements(s) \cap S = {} PROVE Retain(s, S) = << >>
  <2>1. Retain(s, S) \in Seq(T) /\ Elements(Retain(s, S)) = {}
    BY <1>3, RetainFacts DEF IsFiltered
  <2>2. 1 \notin 1 .. Len(Retain(s, S))
    BY <2>1, Zenon DEF Elements
  <2> QED
    BY <2>1, <2>2
<1> QED
  BY <1>2, <1>3

\* Dropping the first m elements of a vector without duplicates.
LEMMA SuffixFacts ==
  ASSUME NEW T, NEW s \in Seq(T), NEW m \in 0 .. Len(s), Distinct(s)
  PROVE  LET rest == SubSeq(s, m + 1, Len(s))
         IN /\ rest \in Seq(T)
            /\ Elements(rest) = Elements(s) \ {s[i] : i \in 1 .. m}
            /\ Distinct(rest)
            /\ Len(rest) = Len(s) - m
            /\ \A i \in 1 .. Len(rest) : rest[i] = s[m + i]
<1> DEFINE rest == SubSeq(s, m + 1, Len(s))
<1>1. Len(s) \in Nat /\ m \in Nat /\ m <= Len(s)
  OBVIOUS
<1>2. /\ rest \in Seq(T)
      /\ Len(rest) = Len(s) - m
      /\ \A i \in 1 .. Len(rest) : rest[i] = s[m + i]
  BY <1>1
<1> HIDE DEF rest
<1>3. \A i \in 1 .. Len(rest) : m + i \in 1 .. Len(s)
  BY <1>1, <1>2
<1>4. Distinct(rest)
  BY <1>1, <1>2, <1>3 DEF Distinct
<1>5. Elements(rest) = Elements(s) \ {s[i] : i \in 1 .. m}
  <2>1. ASSUME NEW i \in 1 .. Len(rest)
        PROVE  rest[i] \in Elements(s) \ {s[h] : h \in 1 .. m}
    <3>1. rest[i] = s[m + i] /\ m + i \in 1 .. Len(s)
      BY <1>2, <1>3, Zenon
    <3>2. \A h \in 1 .. m : s[h] # s[m + i]
      BY <1>1, <3>1 DEF Distinct
    <3> QED
      BY <3>1, <3>2 DEF Elements
  <2>2. ASSUME NEW k \in 1 .. Len(s), s[k] \notin {s[h] : h \in 1 .. m}
        PROVE  s[k] \in Elements(rest)
    <3>1. k - m \in 1 .. Len(rest)
      BY <1>1, <1>2, <2>2
    <3>2. rest[k - m] = s[k]
      BY <1>1, <1>2, <3>1
    <3> QED
      BY <3>1, <3>2 DEF Elements
  <2> QED
    BY <2>1, <2>2, ZenonT(30) DEF Elements
<1> QED
  BY <1>2, <1>4, <1>5, ZenonT(30) DEF rest

\* Pushing an element that is not there yet.
LEMMA PushFacts ==
  ASSUME NEW T, NEW s \in Seq(T), NEW e \in T
  PROVE  /\ Append(s, e) \in Seq(T)
         /\ Elements(Append(s, e)) = Elements(s) \cup {e}
         /\ Distinct(s) /\ e \notin Elements(s) => Distinct(Append(s, e))
<1> DEFINE t == Append(s, e)
<1>1. /\ t \in Seq(T) /\ Len(s) \in Nat
      /\ Len(t) = Len(s) + 1
      /\ \A i \in 1 .. Len(s) : t[i] = s[i]
      /\ t[Len(s) + 1] = e
  BY PushedAt
<1> HIDE DEF t
<1>2. \A i \in 1 .. Len(t) : i \in 1 .. Len(s) \/ i = Len(s) + 1
  BY <1>1
<1>3. 1 .. Len(s) \subseteq 1 .. Len(t) /\ Len(s) + 1 \in 1 .. Len(t)
  BY <1>1
<1>4. Elements(t) = Elements(s) \cup {e}
  BY <1>1, <1>2, <1>3 DEF Elements
<1>5. Distinct(s) /\ e \notin Elements(s) => Distinct(t)
  BY <1>1, <1>2 DEF Distinct, Elements
<1> QED
  BY <1>1, <1>4, <1>5 DEF t

\* A vector has finitely many elements.
LEMMA ElementsFinite ==
  ASSUME NEW T, NEW s \in Seq(T)
  PROVE  IsFiniteSet(Elements(s))
<1>1. s \in Surjection(1 .. Len(s), Elements(s))
  BY LengthOf DEF Surjection, Elements
<1>2. IsFiniteSet(1 .. Len(s))
  BY LengthOf, FS_Interval
<1> QED
  BY <1>1, <1>2, FS_Surjection

\* An element pushed at the end is picked after the others, or not at all.
LEMMA PickAppend ==
  ASSUME NEW T, NEW s \in Seq(T), NEW x \in T, NEW K \in SUBSET (1 .. Len(s))
  PROVE  /\ Pick(s, K) \in Seq(T)
         /\ Pick(Append(s, x), K) = Pick(s, K)
         /\ Pick(Append(s, x), K \cup {Len(s) + 1}) = Append(Pick(s, K), x)
<1> DEFINE n == Len(s)
           N == Cardinality(K)
           L == K \cup {n + 1}
           more == Append(s, x)
<1>1. n \in Nat /\ K \subseteq Nat /\ IsFiniteSet(K) /\ N \in Nat
  <2>1. n \in Nat /\ IsFiniteSet(1 .. n)
    BY FS_Interval
  <2>2. IsFiniteSet(K)
    BY <2>1, FS_Subset, Zenon
  <2> QED
    BY <2>1, <2>2, FS_CardinalityType
<1>2. /\ more \in Seq(T) /\ Len(more) = n + 1 /\ more[n + 1] = x
      /\ \A i \in 1 .. n : more[i] = s[i]
  BY PushedAt
<1>3. n + 1 \notin K /\ L \subseteq Nat /\ IsFiniteSet(L) /\ Cardinality(L) = N + 1
  <2>1. n + 1 \notin K /\ n + 1 \in Nat
    BY <1>1
  <2>2. L \subseteq Nat
    BY <1>1, <2>1, Zenon
  <2> QED
    BY <1>1, <2>1, <2>2, FS_AddElement
<1> HIDE DEF n, more, N, L
<1>4. PICK p \in [1 .. Len(Pick(s, K)) -> K] : Pick(s, K) \in Seq(T)
  BY PickPositions
<1>5. Pick(s, K) = [j \in 1 .. N |-> s[CHOOSE i \in K : Rank(K, i) = j]]
  BY DEF Pick, N
<1>6. Len(Pick(s, K)) = N
  BY <1>1, <1>4, <1>5
<1>7. \A j \in 1 .. N : (CHOOSE i \in K : Rank(K, i) = j) \in K
  BY <1>1, RankSurjective, Zenon DEF N
<1>8. Pick(more, K) = Pick(s, K)
  <2>1. Pick(more, K) = [j \in 1 .. N |-> more[CHOOSE i \in K : Rank(K, i) = j]]
    BY DEF Pick, N
  <2>2. \A j \in 1 .. N : more[CHOOSE i \in K : Rank(K, i) = j] = s[CHOOSE i \in K : Rank(K, i) = j]
    BY <1>2, <1>7, Zenon DEF n
  <2> QED
    BY <1>5, <2>1, <2>2, ZenonT(30)
<1>9. \A i \in K : Rank(L, i) = Rank(K, i)
  <2> SUFFICES ASSUME NEW i \in K PROVE {h \in L : h <= i} = {h \in K : h <= i}
    BY Zenon DEF Rank
  <2>1. i <= n /\ i \in Nat
    BY <1>1 DEF n
  <2>2. ~ (n + 1 <= i)
    BY <1>1, <2>1
  <2> QED
    BY <2>2 DEF L
<1>10. Rank(L, n + 1) = N + 1
  <2>1. \A h \in L : h <= n + 1
    BY <1>1 DEF L, n
  <2>2. {h \in L : h <= n + 1} = L
    BY <2>1
  <2> QED
    BY <1>3, <2>2, Zenon DEF Rank
<1>11. \A i, j \in L : Rank(L, i) = Rank(L, j) => i = j
  BY <1>3, RankInjective, Zenon
<1>12. Pick(more, L) = [j \in 1 .. N + 1 |-> more[CHOOSE i \in L : Rank(L, i) = j]]
  BY <1>3 DEF Pick
<1>13. \A j \in 1 .. N : more[CHOOSE i \in L : Rank(L, i) = j] = Pick(s, K)[j]
  <2> SUFFICES ASSUME NEW j \in 1 .. N
               PROVE  more[CHOOSE i \in L : Rank(L, i) = j] = Pick(s, K)[j]
    OBVIOUS
  <2> DEFINE k == CHOOSE i \in K : Rank(K, i) = j
             l == CHOOSE i \in L : Rank(L, i) = j
  <2>1. k \in K /\ Rank(K, k) = j
    BY <1>1, RankSurjective, Zenon DEF N
  <2>2. k \in L /\ Rank(L, k) = j
    BY <1>9, <2>1, Zenon DEF L
  <2>3. l \in L /\ Rank(L, l) = j
    BY <2>2
  <2>4. l = k
    BY <1>11, <2>2, <2>3
  <2>5. more[l] = s[k]
    BY <1>2, <2>1, <2>4, Zenon DEF n
  <2> QED
    BY <1>5, <2>5
<1>14. (CHOOSE i \in L : Rank(L, i) = N + 1) = n + 1
  <2>1. n + 1 \in L
    BY DEF L
  <2> QED
    BY <1>10, <1>11, <2>1
<1>15. Pick(more, L) = Append(Pick(s, K), x)
  <2> DEFINE P == Pick(s, K)
             Q == Append(P, x)
  <2> HIDE DEF P
  <2>1. P \in Seq(T) /\ Len(P) = N
    BY <1>4, <1>6 DEF P
  <2>2. Q \in Seq(T) /\ Len(Q) = N + 1 /\ Q[N + 1] = x /\ \A j \in 1 .. N : Q[j] = P[j]
    BY <2>1, PushedAt
  <2> HIDE DEF Q
  <2>3. Q = [j \in 1 .. N + 1 |-> Q[j]]
    BY <2>2
  <2>4. more[CHOOSE i \in L : Rank(L, i) = N + 1] = x
    BY <1>2, <1>14, Zenon
  <2>5. ASSUME NEW j \in 1 .. N + 1
        PROVE  more[CHOOSE i \in L : Rank(L, i) = j] = Q[j]
    <3>1. CASE j \in 1 .. N
      BY <1>13, <2>2, <3>1, Zenon DEF P
    <3>2. CASE j = N + 1
      BY <2>2, <2>4, <3>2, Zenon
    <3>3. j \in 1 .. N \/ j = N + 1
      BY <1>1
    <3> QED
      BY <3>1, <3>2, <3>3
  <2> QED
    BY <1>12, <2>3, <2>5, Zenon DEF Q, P
<1> QED
  BY <1>4, <1>8, <1>15, Zenon DEF more, L, n

\* Induction over the naturals, for a property given as the set of numbers that
\* have it.
LEMMA SetInduction ==
  ASSUME NEW S, 0 \in S, \A n \in Nat : n \in S => n + 1 \in S
  PROVE  Nat \subseteq S
<1> DEFINE R == OpToRel(<, Nat)
           T == Nat \ S
<1>1. IsWellFoundedOn(R, Nat)
  BY NatLessThanWellFounded, Zenon
<1> SUFFICES ASSUME T # {} PROVE FALSE
  OBVIOUS
<1>2. T \subseteq Nat
  OBVIOUS
<1>3. \A y, x \in Nat : y < x => <<y, x>> \in R
  BY DEF OpToRel
<1> HIDE DEF R, T
<1>4. PICK x \in T : \A y \in T : <<y, x>> \notin R
  BY <1>1, <1>2, WFMin, Zenon
<1>5. x \in Nat /\ x \notin S /\ x # 0
  BY DEF T
<1>6. x - 1 \in Nat /\ x - 1 < x
  BY <1>5
<1>7. x - 1 \in S
  BY <1>3, <1>4, <1>5, <1>6, Zenon DEF T
<1>8. (x - 1) + 1 \in S
  BY <1>6, <1>7
<1> QED
  BY <1>5, <1>8

\* The values of a loop that starts at a and whose i-th round is step.
LoopRuns(A, a, n, step) ==
  {f \in [0 .. n -> A] : f[0] = a /\ \A i \in 1 .. n : f[i] = step[<<i, f[i - 1]>>]}

\* A loop of n turns has a run: the state before the first turn, and after each.
LEMMA LoopHasRun ==
  ASSUME NEW A, NEW a \in A, NEW n \in Nat, NEW step \in [(1 .. n) \X A -> A]
  PROVE  LoopRuns(A, a, n, step) # {}
<1> SUFFICES \E f \in [0 .. n -> A] :
               f[0] = a /\ \A i \in 1 .. n : f[i] = step[<<i, f[i - 1]>>]
  BY DEF LoopRuns
<1> DEFINE Run(f, m) ==
             f \in [0 .. m -> A] /\ f[0] = a /\ \A i \in 1 .. m : f[i] = step[<<i, f[i - 1]>>]
           S == {m \in Nat : m <= n => \E f : Run(f, m)}
<1>1. 0 \in S
  <2> DEFINE f == [i \in 0 .. 0 |-> a]
  <2>1. Run(f, 0)
    OBVIOUS
  <2> HIDE DEF Run
  <2> QED
    BY <2>1
<1>2. ASSUME NEW m \in Nat, m \in S
      PROVE  m + 1 \in S
  <2> SUFFICES ASSUME m + 1 <= n PROVE \E f : Run(f, m + 1)
    OBVIOUS
  <2>1. PICK f : Run(f, m)
    BY <1>2
  <2> DEFINE x == step[<<m + 1, f[m]>>]
             g == [i \in 0 .. m + 1 |-> IF i = m + 1 THEN x ELSE f[i]]
  <2>2. f[m] \in A /\ x \in A
    BY <2>1
  <2>3. g \in [0 .. m + 1 -> A] /\ g[0] = a
    BY <2>1, <2>2
  <2>4. ASSUME NEW i \in 1 .. m + 1
        PROVE  g[i] = step[<<i, g[i - 1]>>]
    <3>1. g[i - 1] = f[i - 1] /\ i - 1 \in 0 .. m
      OBVIOUS
    <3>2. CASE i = m + 1
      <4>1. g[i] = x /\ i - 1 = m
        BY <3>2
      <4> HIDE DEF g
      <4> QED
        BY <3>1, <3>2, <4>1
    <3>3. CASE i \in 1 .. m
      <4>1. g[i] = f[i] /\ f[i] = step[<<i, f[i - 1]>>]
        BY <2>1, <3>3
      <4> QED
        BY <3>1, <4>1, Zenon
    <3> QED
      BY <3>2, <3>3
  <2>5. Run(g, m + 1)
    BY <2>3, <2>4, Zenon
  <2> HIDE DEF Run
  <2> QED
    BY <2>5
<1>3. n \in S
  BY <1>1, <1>2, SetInduction, Zenon
<1> QED
  BY <1>3

\* Two loops agree at the start, and after a turn whenever before it.
InStep(n, f, g) == f[0] = g[0] /\ \A i \in 1 .. n : f[i - 1] = g[i - 1] => f[i] = g[i]

\* Two such loops agree at the end.
LEMMA LoopsAgree ==
  ASSUME NEW n \in Nat, NEW f, NEW g, InStep(n, f, g)
  PROVE  f[n] = g[n]
<1> USE DEF InStep
<1> DEFINE S == {m \in Nat : m <= n => f[m] = g[m]}
<1>1. 0 \in S
  OBVIOUS
<1>2. ASSUME NEW m \in Nat, m \in S
      PROVE  m + 1 \in S
  <2> SUFFICES ASSUME m + 1 <= n PROVE f[m + 1] = g[m + 1]
    OBVIOUS
  <2>1. m + 1 \in 1 .. n /\ (m + 1) - 1 = m /\ m <= n
    OBVIOUS
  <2>2. f[m] = g[m]
    BY <1>2, <2>1
  <2> QED
    BY <2>1, <2>2
<1>3. Nat \subseteq S
  <2> HIDE DEF S
  <2> QED
    BY <1>1, <1>2, SetInduction
<1> QED
  BY <1>3

\* Joining vectors is a loop that extends the result by one after the other.
LEMMA JoinedIsRun ==
  ASSUME NEW T, NEW vs \in Seq(Seq(T)), NEW f \in [0 .. Len(vs) -> Seq(T)],
         f[0] = << >>, \A i \in 1 .. Len(vs) : f[i] = f[i - 1] \o vs[i]
  PROVE  Joined(vs) = f[Len(vs)]
<1> DEFINE n == Len(vs)
           Joins(h) == h = [i \in 0 .. n |-> IF i = 0 THEN << >> ELSE h[i - 1] \o vs[i]]
           F == CHOOSE h : Joins(h)
<1>1. n \in Nat
  OBVIOUS
<1>2. Joined(vs) = F[n]
  BY DEF Joined
<1>3. Joins(f)
  <2>1. ASSUME NEW i \in 0 .. n
        PROVE  f[i] = IF i = 0 THEN << >> ELSE f[i - 1] \o vs[i]
    <3>1. i = 0 \/ i \in 1 .. n
      BY <1>1
    <3>2. i \in 1 .. n => i # 0
      OBVIOUS
    <3>3. i \in 1 .. n => f[i] = f[i - 1] \o vs[i]
      BY Zenon
    <3> QED
      BY <3>1, <3>2, <3>3, Zenon
  <2> HIDE DEF n
  <2> QED
    BY <2>1, Zenon DEF n
<1>4. Joins(F)
  <2> HIDE DEF Joins
  <2> QED
    BY <1>3, Zenon
<1> HIDE DEF F, n
<1>5. \A i \in 0 .. n : F[i] = IF i = 0 THEN << >> ELSE F[i - 1] \o vs[i]
  BY <1>4, Zenon
<1>6. F[0] = f[0]
  BY <1>1, <1>5
<1>7. ASSUME NEW i \in 1 .. n, F[i - 1] = f[i - 1]
      PROVE  F[i] = f[i]
  <2>1. i \in 0 .. n /\ i # 0
    BY <1>1
  <2>2. f[i] = f[i - 1] \o vs[i]
    BY Zenon DEF n
  <2>3. F[i] = F[i - 1] \o vs[i]
    BY <1>5, <2>1, Zenon
  <2> QED
    BY <1>7, <2>2, <2>3
<1>8. F[n] = f[n]
  <2>1. InStep(n, F, f)
    BY <1>6, <1>7 DEF InStep
  <2> QED
    BY <1>1, <2>1, LoopsAgree
<1> QED
  BY <1>1, <1>2, <1>8 DEF n

\* There is such a loop.
LEMMA JoinedHasRun ==
  ASSUME NEW T, NEW vs \in Seq(Seq(T))
  PROVE  \E f \in [0 .. Len(vs) -> Seq(T)] :
           f[0] = << >> /\ \A i \in 1 .. Len(vs) : f[i] = f[i - 1] \o vs[i]
<1> DEFINE n == Len(vs)
           step == [p \in (1 .. n) \X Seq(T) |-> p[2] \o vs[p[1]]]
<1>1. n \in Nat /\ << >> \in Seq(T)
  OBVIOUS
<1>2. step \in [(1 .. n) \X Seq(T) -> Seq(T)]
  OBVIOUS
<1>3. \A i \in 1 .. n, x \in Seq(T) : step[<<i, x>>] = x \o vs[i]
  BY Zenon
<1> HIDE DEF step, n
<1>4. PICK f \in [0 .. n -> Seq(T)] :
        f[0] = << >> /\ \A i \in 1 .. n : f[i] = step[<<i, f[i - 1]>>]
  <2>1. LoopRuns(Seq(T), << >>, n, step) # {}
    BY <1>1, <1>2, LoopHasRun, Zenon
  <2> QED
    BY <2>1 DEF LoopRuns
<1>5. \A i \in 1 .. n : f[i - 1] \in Seq(T)
  BY <1>1
<1>6. \A i \in 1 .. n : f[i] = f[i - 1] \o vs[i]
  BY <1>3, <1>4, <1>5, ZenonT(30)
<1> QED
  BY <1>4, <1>6, Zenon DEF n

\* One more vector is joined at the end.
LEMMA JoinedAppend ==
  ASSUME NEW T, NEW vs \in Seq(Seq(T)), NEW s \in Seq(T)
  PROVE  /\ Joined(vs) \in Seq(T)
         /\ Joined(Append(vs, s)) = Joined(vs) \o s
<1> DEFINE n == Len(vs)
           more == Append(vs, s)
<1>1. PICK f \in [0 .. n -> Seq(T)] :
        f[0] = << >> /\ \A i \in 1 .. n : f[i] = f[i - 1] \o vs[i]
  BY JoinedHasRun, Zenon
<1>2. n \in Nat /\ f[n] \in Seq(T) /\ Joined(vs) = f[n]
  <2>1. Joined(vs) = f[Len(vs)]
    BY <1>1, JoinedIsRun, Zenon
  <2>2. n \in Nat /\ n \in 0 .. n
    OBVIOUS
  <2> HIDE DEF n
  <2>3. f[n] \in Seq(T)
    BY <2>2
  <2> QED
    BY <2>1, <2>2, <2>3 DEF n
<1> DEFINE g == [i \in 0 .. n + 1 |-> IF i = n + 1 THEN f[n] \o s ELSE f[i]]
<1>3. /\ more \in Seq(Seq(T)) /\ Len(more) = n + 1
      /\ more[n + 1] = s /\ \A i \in 1 .. n : more[i] = vs[i]
  BY PushedAt
<1> HIDE DEF more, n
<1>4. g \in [0 .. Len(more) -> Seq(T)] /\ g[0] = << >>
  BY <1>1, <1>2, <1>3
<1>5. ASSUME NEW i \in 1 .. Len(more)
      PROVE  g[i] = g[i - 1] \o more[i]
  <2>1. CASE i = n + 1
    <3>1. g[i] = f[n] \o s /\ g[i - 1] = f[n] /\ more[i] = s
      BY <1>2, <1>3, <2>1
    <3> QED
      BY <3>1, Zenon
  <2>2. CASE i \in 1 .. n
    <3>1. g[i] = f[i] /\ g[i - 1] = f[i - 1] /\ more[i] = vs[i]
      BY <1>2, <1>3, <2>2
    <3> QED
      BY <1>1, <2>2, <3>1, Zenon
  <2> QED
    <3>1. i \in 1 .. n + 1
      BY <1>3
    <3>2. i = n + 1 \/ i \in 1 .. n
      BY <1>2, <3>1
    <3> QED
      BY <2>1, <2>2, <3>2, Zenon
<1>6. Joined(more) = g[Len(more)]
  <2> HIDE DEF g
  <2> QED
    BY <1>3, <1>4, <1>5, JoinedIsRun, Zenon
<1> QED
  BY <1>2, <1>3, <1>6 DEF more

-----------------------------------------------------------------------------
(* Vectors put together.                                                   *)

\* What a vector holds after another was appended.
LEMMA ExtendFacts ==
  ASSUME NEW T, NEW s \in Seq(T), NEW t \in Seq(T)
  PROVE  /\ s \o t \in Seq(T)
         /\ Elements(s \o t) = Elements(s) \cup Elements(t)
         /\ Distinct(s) /\ Distinct(t) /\ Elements(s) \cap Elements(t) = {} => Distinct(s \o t)
<1> DEFINE u == s \o t
           m == Len(s)
           n == Len(t)
<1>1. m \in Nat /\ n \in Nat
  OBVIOUS
<1>2. /\ u \in Seq(T) /\ Len(u) = m + n
      /\ \A i \in 1 .. m + n : u[i] = IF i <= m THEN s[i] ELSE t[i - m]
  BY ExtendedAt
<1> HIDE DEF u, m, n
<1>3. \A i \in 1 .. m : i \in 1 .. m + n /\ u[i] = s[i]
  BY <1>1, <1>2
<1>4. \A i \in 1 .. n : m + i \in 1 .. m + n /\ u[m + i] = t[i]
  <2> SUFFICES ASSUME NEW i \in 1 .. n PROVE m + i \in 1 .. m + n /\ u[m + i] = t[i]
    OBVIOUS
  <2>1. m + i \in 1 .. m + n /\ ~ (m + i <= m) /\ (m + i) - m = i
    BY <1>1
  <2> QED
    BY <1>2, <2>1
<1>5. \A i \in 1 .. m + n : i \in 1 .. m \/ (i - m \in 1 .. n /\ i = m + (i - m))
  BY <1>1
<1>6. Elements(u) = Elements(s) \cup Elements(t)
  <2>1. \A i \in 1 .. m + n : u[i] \in Elements(s) \cup Elements(t)
    <3> SUFFICES ASSUME NEW i \in 1 .. m + n PROVE u[i] \in Elements(s) \cup Elements(t)
      OBVIOUS
    <3>1. CASE i \in 1 .. m
      BY <1>3, <3>1 DEF Elements, m
    <3>2. CASE i - m \in 1 .. n /\ i = m + (i - m)
      BY <1>4, <3>2 DEF Elements, n
    <3> QED
      BY <1>5, <3>1, <3>2
  <2>2. \A i \in 1 .. m : s[i] \in Elements(u)
    BY <1>2, <1>3 DEF Elements
  <2>3. \A i \in 1 .. n : t[i] \in Elements(u)
    BY <1>2, <1>4 DEF Elements
  <2> QED
    BY <1>2, <2>1, <2>2, <2>3, ZenonT(30) DEF Elements, m, n
<1>7. ASSUME Distinct(s), Distinct(t), Elements(s) \cap Elements(t) = {}
      PROVE  Distinct(u)
  <2> SUFFICES ASSUME NEW i \in 1 .. m + n, NEW j \in 1 .. m + n, u[i] = u[j] PROVE i = j
    BY <1>2, Zenon DEF Distinct
  <2>1. \A a \in 1 .. m, b \in 1 .. n : s[a] # t[b]
    BY <1>7, Zenon DEF Elements, m, n
  <2>2. \A a, b \in 1 .. m : s[a] = s[b] => a = b
    BY <1>7 DEF Distinct, m
  <2>3. \A a, b \in 1 .. n : t[a] = t[b] => a = b
    BY <1>7 DEF Distinct, n
  <2>4. CASE i \in 1 .. m /\ j \in 1 .. m
    BY <1>3, <2>2, <2>4
  <2>5. CASE i \in 1 .. m /\ j - m \in 1 .. n /\ j = m + (j - m)
    BY <1>3, <1>4, <2>1, <2>5
  <2>6. CASE i - m \in 1 .. n /\ i = m + (i - m) /\ j \in 1 .. m
    BY <1>3, <1>4, <2>1, <2>6
  <2>7. CASE i - m \in 1 .. n /\ i = m + (i - m) /\ j - m \in 1 .. n /\ j = m + (j - m)
    <3>1. t[i - m] = t[j - m]
      BY <1>4, <2>7
    <3>2. i - m = j - m
      BY <2>3, <2>7, <3>1
    <3> QED
      BY <2>7, <3>2
  <2> QED
    BY <1>5, <2>4, <2>5, <2>6, <2>7
<1> QED
  BY <1>2, <1>6, <1>7 DEF u

\* What joined vectors hold.
LEMMA JoinedFacts ==
  ASSUME NEW T, NEW vs \in Seq(Seq(T))
  PROVE  /\ Joined(vs) \in Seq(T)
         /\ Elements(Joined(vs)) = UNION {Elements(vs[i]) : i \in 1 .. Len(vs)}
         /\ (\A i, j \in 1 .. Len(vs) :
               Distinct(vs[i]) /\ (i # j => Elements(vs[i]) \cap Elements(vs[j]) = {}))
            => Distinct(Joined(vs))
<1> DEFINE n == Len(vs)
           Apart == \A i, j \in 1 .. n :
                      Distinct(vs[i]) /\ (i # j => Elements(vs[i]) \cap Elements(vs[j]) = {})
<1>1. n \in Nat /\ \A i \in 1 .. n : vs[i] \in Seq(T)
  OBVIOUS
<1>2. PICK f \in [0 .. n -> Seq(T)] :
        f[0] = << >> /\ \A i \in 1 .. n : f[i] = f[i - 1] \o vs[i]
  BY JoinedHasRun, Zenon
<1>3. Joined(vs) = f[n]
  BY <1>2, JoinedIsRun, Zenon
<1> HIDE DEF n
<1> DEFINE U(m) == UNION {Elements(vs[i]) : i \in 1 .. m}
           Good(m) == Elements(f[m]) = U(m) /\ (Apart => Distinct(f[m]))
           S == {m \in Nat : m <= n => Good(m)}
<1>4. 0 \in S
  <2>1. Elements(<< >>) = {} /\ Distinct(<< >>)
    BY DEF Elements, Distinct
  <2>2. U(0) = {}
    OBVIOUS
  <2> QED
    BY <1>2, <2>1, <2>2
<1>5. ASSUME NEW m \in Nat, m \in S
      PROVE  m + 1 \in S
  <2> SUFFICES ASSUME m + 1 <= n PROVE Good(m + 1)
    <3> HIDE DEF Good
    <3> QED
      OBVIOUS
  <2>1. m + 1 \in 1 .. n /\ (m + 1) - 1 = m /\ m \in 0 .. n /\ m <= n
    BY <1>1
  <2>2. Good(m)
    BY <1>5, <2>1, Zenon
  <2>3. f[m] \in Seq(T) /\ vs[m + 1] \in Seq(T)
    BY <1>1, <2>1
  <2>4. f[m + 1] = f[m] \o vs[m + 1]
    BY <1>2, <2>1, Zenon
  <2>5. U(m + 1) = U(m) \cup Elements(vs[m + 1])
    <3>1. 1 .. m + 1 = (1 .. m) \cup {m + 1}
      OBVIOUS
    <3> QED
      BY <3>1
  <2> HIDE DEF U
  <2>6. Elements(f[m + 1]) = U(m + 1)
    <3>1. Elements(f[m] \o vs[m + 1]) = Elements(f[m]) \cup Elements(vs[m + 1])
      BY <2>3, ExtendFacts
    <3>2. Elements(f[m]) = U(m)
      BY <2>2
    <3> QED
      BY <2>4, <2>5, <3>1, <3>2, Zenon
  <2>7. ASSUME Apart PROVE Distinct(f[m + 1])
    <3>1. Distinct(f[m]) /\ Distinct(vs[m + 1])
      BY <2>1, <2>2, <2>7, Zenon
    <3>2. \A i \in 1 .. m : Elements(vs[i]) \cap Elements(vs[m + 1]) = {}
      <4>1. \A i \in 1 .. m : i \in 1 .. n /\ i # m + 1
        BY <1>1, <2>1
      <4> QED
        BY <2>1, <2>7, <4>1, Zenon
    <3>3. U(m) \cap Elements(vs[m + 1]) = {}
      BY <3>2 DEF U
    <3> QED
      BY <2>2, <2>3, <2>4, <3>1, <3>3, ExtendFacts
  <2> QED
    BY <2>6, <2>7, Zenon
<1>6. n \in S
  <2> HIDE DEF S
  <2> QED
    BY <1>1, <1>4, <1>5, SetInduction, Zenon
<1>7. Good(n) /\ f[n] \in Seq(T)
  <2> HIDE DEF Good
  <2>1. n <= n /\ n \in 0 .. n
    BY <1>1
  <2> QED
    BY <1>1, <1>6, <2>1
<1> QED
  BY <1>3, <1>7, Zenon DEF n

\* A listing holds every element of a finite set, once.
LEMMA ListingFacts ==
  ASSUME NEW S, IsFiniteSet(S)
  PROVE  /\ Listing(S) \in Seq(S) /\ Len(Listing(S)) = Cardinality(S)
         /\ Elements(Listing(S)) = S /\ Distinct(Listing(S))
<1> DEFINE n == Cardinality(S)
           Lists(s) == s \in [1 .. n -> S] /\ S = {s[i] : i \in 1 .. n}
           l == CHOOSE s \in [1 .. n -> S] : S = {s[i] : i \in 1 .. n}
<1>1. n \in Nat /\ IsFiniteSet(1 .. n) /\ Cardinality(1 .. n) = n
  BY FS_CardinalityType, FS_Interval
<1> HIDE DEF n
<1>2. PICK b : b \in Bijection(1 .. n, S)
  <2>1. ExistsBijection(1 .. n, S)
    BY <1>1, FS_SameCardinalityBij DEF n
  <2> QED
    BY <2>1 DEF ExistsBijection
<1>3. b \in [1 .. n -> S] /\ S = {b[i] : i \in 1 .. n}
  BY <1>2 DEF Bijection, Injection, Surjection
<1>4. l \in [1 .. n -> S] /\ S = {l[i] : i \in 1 .. n}
  <2>1. \E s : Lists(s)
    BY <1>3, Zenon
  <2>2. Lists(CHOOSE s : Lists(s))
    BY <2>1, Zenon
  <2>3. l = CHOOSE s : Lists(s)
    BY Zenon
  <2> QED
    BY <2>2, <2>3, Zenon
<1>5. Listing(S) = l
  BY DEF Listing, n
<1> HIDE DEF l
<1>6. l \in Seq(S) /\ Len(l) = n
  BY <1>1, <1>4
<1>7. l \in Surjection(1 .. n, S)
  BY <1>4 DEF Surjection
<1>8. l \in Injection(1 .. n, S)
  BY <1>1, <1>7, FS_Surjection DEF n
<1>9. Distinct(l) /\ Elements(l) = S
  BY <1>4, <1>6, <1>8 DEF Distinct, Elements, Injection, IsInjective
<1> QED
  BY <1>5, <1>6, <1>9 DEF n

\* A vector without duplicates is no longer than the set its elements are of.
LEMMA DistinctLength ==
  ASSUME NEW T, IsFiniteSet(T), NEW s \in Seq(T), Distinct(s)
  PROVE  Len(s) <= Cardinality(T)
<1>1. Len(s) \in Nat /\ IsFiniteSet(1 .. Len(s)) /\ Cardinality(1 .. Len(s)) = Len(s)
  <2>1. Len(s) \in Nat
    OBVIOUS
  <2> HIDE DEF Distinct
  <2>2. IsFiniteSet(1 .. Len(s))
    BY <2>1, FS_Interval
  <2>3. Cardinality(1 .. Len(s)) = Len(s)
    <3>1. Cardinality(1 .. Len(s)) = IF 1 > Len(s) THEN 0 ELSE Len(s) - 1 + 1
      BY <2>1, FS_Interval
    <3> QED
      BY <2>1, <3>1
  <2> QED
    BY <2>1, <2>2, <2>3
<1>2. s \in Injection(1 .. Len(s), T)
  BY LengthOf DEF Injection, IsInjective, Distinct
<1> QED
  BY <1>1, <1>2, FS_Injection
=============================================================================
