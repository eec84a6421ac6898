---------------------------- MODULE DequesProofs ----------------------------
(***************************************************************************)
(* Facts about Retain (VecDeque::retain), for every sequence and every set *)
(* of kept elements.  They rest on Rank being a bijection from a finite    *)
(* set of positions onto 1..Cardinality of it.                             *)
(***************************************************************************)
EXTENDS Deques, FiniteSetTheorems, TLAPS

\* In a finite set P of naturals the rank of an element counts the elements
\* up to it: it is positive, at most the size of P and strictly increasing.
LEMMA RankMonotone ==
  ASSUME NEW P \in SUBSET Nat, IsFiniteSet(P)
  PROVE  /\ \A i \in P : Rank(P, i) \in 1..Cardinality(P)
         /\ \A i, j \in P : i < j => Rank(P, i) < Rank(P, j)
<1>. DEFINE Upto(i) == {j \in P : j <= i}
<1>1. Cardinality(P) \in Nat
  BY FS_CardinalityType
<1>2. \A i \in P : /\ IsFiniteSet(Upto(i))
                   /\ Cardinality(Upto(i)) \in Nat
                   /\ Cardinality(Upto(i)) <= Cardinality(P)
  <2>1. TAKE i \in P
  <2>2. Upto(i) \in SUBSET P
    OBVIOUS
  <2>3. QED
    BY <2>2, FS_Subset, FS_CardinalityType
<1>3. \A i \in P : Cardinality(Upto(i)) # 0
  <2>1. TAKE i \in P
  <2>2. i \in Upto(i)
    OBVIOUS
  <2>3. QED
    BY <1>2, <2>2, FS_EmptySet
<1>4. ASSUME NEW i \in P, NEW j \in P, i < j
      PROVE  Cardinality(Upto(i)) < Cardinality(Upto(j))
  <2>1. Upto(i) \in SUBSET Upto(j) /\ j \in Upto(j) /\ j \notin Upto(i)
    <3>1. i \in Nat /\ j \in Nat /\ \A m \in P : m \in Nat
      OBVIOUS
    <3>2. \A m \in P : m <= i => m <= j
      BY <1>4, <3>1
    <3>3. ~(j <= i) /\ j <= j
      BY <1>4, <3>1
    <3>4. QED
      BY <3>2, <3>3
  <2>2. Cardinality(Upto(i)) <= Cardinality(Upto(j))
        /\ Cardinality(Upto(i)) # Cardinality(Upto(j))
    BY <1>2, <2>1, FS_Subset
  <2>3. QED
    BY <1>2, <2>2
<1>5. \A i \in P : Rank(P, i) = Cardinality(Upto(i))
  BY DEF Rank
<1>. HIDE DEF Upto
<1>6. QED
  BY <1>1, <1>2, <1>3, <1>4, <1>5

\* Every number up to the size of P is the rank of exactly one element: the
\* n-th element that Retain chooses exists.
LEMMA RankOnto ==
  ASSUME NEW P \in SUBSET Nat, IsFiniteSet(P), NEW n \in 1..Cardinality(P)
  PROVE  \E i \in P : Rank(P, i) = n
<1>. DEFINE f == [i \in P |-> Rank(P, i)]
            T == 1..Cardinality(P)
<1>1. Cardinality(P) \in Nat
  BY FS_CardinalityType
<1>2. f \in Injection(P, T)
  <2>1. f \in [P -> T]
    BY RankMonotone
  <2>2. ASSUME NEW a \in P, NEW b \in P, f[a] = f[b]
        PROVE  a = b
    <3>1. Rank(P, a) = Rank(P, b)
      BY <2>2
    <3>2. ~(a < b) /\ ~(b < a)
      BY <3>1, RankMonotone
    <3>3. QED
      BY <3>2
  <2>3. QED
    BY <2>1, <2>2 DEF Injection, IsInjective
<1>3. IsFiniteSet(T) /\ Cardinality(T) = Cardinality(P)
  BY <1>1, FS_Interval
<1>4. f \in Surjection(P, T)
  BY <1>2, <1>3, FS_Injection
<1>5. QED
  BY <1>4 DEF Surjection

\* The positions a sequence is filtered at are a finite set of naturals.
LEMMA PositionsFinite ==
  ASSUME NEW T, NEW q \in Seq(T), NEW S
  PROVE  /\ Positions(q, S) \in SUBSET Nat
         /\ Positions(q, S) \subseteq 1..Len(q)
         /\ IsFiniteSet(Positions(q, S))
         /\ Cardinality(Positions(q, S)) \in Nat
<1>1. DOMAIN q = 1..Len(q) /\ Len(q) \in Nat
  OBVIOUS
<1>2. Positions(q, S) \in SUBSET (1..Len(q))
  BY <1>1 DEF Positions
<1>3. IsFiniteSet(1..Len(q))
  BY <1>1, FS_Interval
<1>4. IsFiniteSet(Positions(q, S))
  BY <1>2, <1>3, FS_Subset
<1>5. QED
  BY <1>1, <1>2, <1>4, FS_CardinalityType

\* What Retain does, position by position: an order-preserving bijection from
\* the positions of the result onto the kept positions of q.
LEMMA RetainPositions ==
  ASSUME NEW T, NEW q \in Seq(T), NEW S
  PROVE  LET P == Positions(q, S)
         IN  /\ Retain(q, S) \in Seq(T)
             /\ Len(Retain(q, S)) = Cardinality(P)
             /\ \A n \in 1..Cardinality(P) : \E i \in P :
                  Rank(P, i) = n /\ Retain(q, S)[n] = q[i]
<1>. DEFINE P == Positions(q, S)
            Nth(n) == CHOOSE i \in P : Rank(P, i) = n
<1>1. P \in SUBSET Nat /\ IsFiniteSet(P) /\ Cardinality(P) \in Nat /\ P \subseteq 1..Len(q)
  BY PositionsFinite
<1>2. ASSUME NEW n \in 1..Cardinality(P)
      PROVE  Nth(n) \in P /\ Rank(P, Nth(n)) = n
  <2>1. \E i \in P : Rank(P, i) = n
    BY <1>1, RankOnto
  <2>2. QED
    BY <2>1
<1>3. Retain(q, S) = [n \in 1..Cardinality(P) |-> q[Nth(n)]]
  BY DEF Retain
<1>. HIDE DEF P, Nth
<1>4. \A n \in 1..Cardinality(P) : q[Nth(n)] \in T
  <2>1. \A i \in 1..Len(q) : q[i] \in T
    OBVIOUS
  <2>2. \A n \in 1..Cardinality(P) : Nth(n) \in 1..Len(q)
    BY <1>1, <1>2
  <2>3. QED
    BY <2>1, <2>2
<1>5. Retain(q, S) \in Seq(T) /\ Len(Retain(q, S)) = Cardinality(P)
  BY <1>1, <1>3, <1>4
<1>6. \A n \in 1..Cardinality(P) : \E i \in P :
        Rank(P, i) = n /\ Retain(q, S)[n] = q[i]
  BY <1>2, <1>3
<1>7. QED
  BY <1>5, <1>6 DEF P

\* Retain keeps the type of the sequence.
LEMMA RetainType ==
  ASSUME NEW T, NEW q \in Seq(T), NEW S
  PROVE  Retain(q, S) \in Seq(T)
BY RetainPositions

\* Retain keeps exactly the elements of q that are in S.
THEOREM RetainElements ==
  ASSUME NEW T, NEW q \in Seq(T), NEW S
  PROVE  Elements(Retain(q, S)) = Elements(q) \cap S
<1>. DEFINE P == Positions(q, S)
            r == Retain(q, S)
<1>1. /\ P \in SUBSET Nat /\ IsFiniteSet(P) /\ Cardinality(P) \in Nat
      /\ P \subseteq 1..Len(q)
  BY PositionsFinite
<1>2. /\ r \in Seq(T) /\ Len(r) = Cardinality(P)
      /\ \A n \in 1..Cardinality(P) : \E i \in P : Rank(P, i) = n /\ r[n] = q[i]
  BY RetainPositions
<1>3. DOMAIN r = 1..Cardinality(P) /\ DOMAIN q = 1..Len(q)
  BY <1>2
<1>4. \A i \in P : i \in DOMAIN q /\ q[i] \in S
  BY DEF Positions
<1>5. \A i \in DOMAIN q : q[i] \in S => i \in P
  BY DEF Positions
<1>. HIDE DEF P, r
<1>6. ASSUME NEW x \in Elements(r)
      PROVE  x \in Elements(q) \cap S
  BY <1>2, <1>3, <1>4 DEF Elements
<1>7. ASSUME NEW x \in Elements(q) \cap S
      PROVE  x \in Elements(r)
  <2>1. PICK i \in P : q[i] = x
    BY <1>5 DEF Elements
  <2>2. Rank(P, i) \in 1..Cardinality(P)
    BY <1>1, RankMonotone
  <2>3. PICK j \in P : Rank(P, j) = Rank(P, i) /\ r[Rank(P, i)] = q[j]
    BY <1>2, <2>2
  <2>4. ~(i < j) /\ ~(j < i)
    BY <1>1, <2>2, <2>3, RankMonotone
  <2>5. i = j
    BY <1>1, <2>4
  <2>6. QED
    BY <1>3, <2>1, <2>2, <2>3, <2>5 DEF Elements
<1>8. QED
  BY <1>6, <1>7 DEF r

\* Retain preserves the order: what is sorted stays sorted.
THEOREM RetainSorted ==
  ASSUME NEW q \in Seq(Nat), NEW S,
         \A i, j \in DOMAIN q : i < j => q[i] < q[j]
  PROVE  \A m, n \in DOMAIN Retain(q, S) : m < n => Retain(q, S)[m] < Retain(q, S)[n]
<1>. DEFINE P == Positions(q, S)
            r == Retain(q, S)
<1>1. /\ P \in SUBSET Nat /\ IsFiniteSet(P) /\ Cardinality(P) \in Nat
      /\ P \subseteq 1..Len(q)
  BY PositionsFinite
<1>2. /\ r \in Seq(Nat) /\ Len(r) = Cardinality(P)
      /\ \A n \in 1..Cardinality(P) : \E i \in P : Rank(P, i) = n /\ r[n] = q[i]
  BY RetainPositions
<1>3. DOMAIN r = 1..Cardinality(P) /\ DOMAIN q = 1..Len(q)
  BY <1>2
<1>. HIDE DEF P, r
<1>4. ASSUME NEW m \in DOMAIN r, NEW n \in DOMAIN r, m < n
      PROVE  r[m] < r[n]
  <2>1. PICK i \in P : Rank(P, i) = m /\ r[m] = q[i]
    BY <1>2, <1>3
  <2>2. PICK j \in P : Rank(P, j) = n /\ r[n] = q[j]
    BY <1>2, <1>3
  <2>3. ~(j < i) /\ i # j
    <3>1. m \in Nat /\ n \in Nat /\ m < n
      BY <1>1, <1>3, <1>4
    <3>2. j < i => Rank(P, j) < Rank(P, i)
      BY <1>1, RankMonotone
    <3>3. j < i => n < m
      BY <2>1, <2>2, <3>2
    <3>4. i = j => m = n
      BY <2>1, <2>2
    <3>5. QED
      BY <3>1, <3>3, <3>4
  <2>4. i < j /\ i \in DOMAIN q /\ j \in DOMAIN q
    BY <1>1, <1>3, <2>3
  <2>5. QED
    BY <2>1, <2>2, <2>4
<1>5. QED
  BY <1>4 DEF r

\* The prefix that a loop pops while fewer than `free` marked positions lie
\* before the current one contains at most `free` marked positions.
LEMMA PrefixBound ==
  ASSUME NEW q \in Seq(Nat), NEW E \in SUBSET DOMAIN q, NEW free \in Nat
  PROVE  LET popped == {i \in DOMAIN q : Cardinality({j \in E : j < i}) < free}
             image  == {q[i] : i \in popped \cap E}
         IN  /\ Cardinality(popped) \in 0..Len(q)
             /\ IsFiniteSet(image)
             /\ Cardinality(image) \in Nat
             /\ Cardinality(image) <= free
             /\ free = 0 => popped = {}
<1>. DEFINE Before(i) == {j \in E : j < i}
            popped == {i \in DOMAIN q : Cardinality(Before(i)) < free}
            M      == popped \cap E
            image  == {q[i] : i \in M}
            g      == [i \in M |-> Cardinality(Before(i))]
            h      == [i \in M |-> q[i]]
<1>1. Len(q) \in Nat /\ DOMAIN q = 1..Len(q) /\ IsFiniteSet(DOMAIN q)
      /\ Cardinality(DOMAIN q) = Len(q)
  <2>1. Len(q) \in Nat /\ DOMAIN q = 1..Len(q)
    OBVIOUS
  <2>2. IsFiniteSet(1..Len(q)) /\ Cardinality(1..Len(q)) = IF 1 > Len(q) THEN 0 ELSE Len(q) - 1 + 1
    BY <2>1, FS_Interval
  <2>3. Cardinality(1..Len(q)) = Len(q)
    BY <2>1, <2>2
  <2>4. QED
    BY <2>1, <2>2, <2>3
<1>2. IsFiniteSet(E) /\ IsFiniteSet(popped) /\ IsFiniteSet(M)
      /\ Cardinality(popped) <= Len(q)
  <2>1. popped \in SUBSET DOMAIN q /\ M \in SUBSET DOMAIN q
    OBVIOUS
  <2>2. QED
    BY <1>1, <2>1, FS_Subset
<1>3. \A i \in DOMAIN q : IsFiniteSet(Before(i)) /\ Cardinality(Before(i)) \in Nat
  <2>1. TAKE i \in DOMAIN q
  <2>2. Before(i) \in SUBSET E
    OBVIOUS
  <2>3. QED
    BY <1>2, <2>2, FS_Subset, FS_CardinalityType
<1>4. ASSUME NEW a \in M, NEW b \in M, a < b
      PROVE  Cardinality(Before(a)) < Cardinality(Before(b))
  <2>1. a \in Nat /\ b \in Nat /\ \A j \in E : j \in Nat
    BY <1>1
  <2>2. Before(a) \in SUBSET Before(b) /\ a \in Before(b) /\ a \notin Before(a)
    BY <1>4, <2>1
  <2>3. IsFiniteSet(Before(b)) /\ Cardinality(Before(a)) \in Nat /\ Cardinality(Before(b)) \in Nat
    BY <1>3
  <2>4. Cardinality(Before(a)) <= Cardinality(Before(b))
        /\ Cardinality(Before(a)) # Cardinality(Before(b))
    BY <2>2, <2>3, FS_Subset
  <2>5. QED
    BY <2>3, <2>4
<1>. HIDE DEF Before
<1>5. Cardinality(M) <= free
  <2>1. \A i \in M : i \in DOMAIN q /\ i \in Nat /\ Cardinality(Before(i)) < free
    BY <1>1
  <2>2. \A i \in M : Cardinality(Before(i)) \in Nat
    BY <1>3, <2>1
  <2>. HIDE DEF M
  <2>3. \A i \in M : Cardinality(Before(i)) \in 0..(free - 1)
    BY <2>1, <2>2
  <2>4. \A a, b \in M : Cardinality(Before(a)) = Cardinality(Before(b)) => a = b
    <3>1. SUFFICES ASSUME NEW a \in M, NEW b \in M,
                          Cardinality(Before(a)) = Cardinality(Before(b))
                   PROVE  a = b
      OBVIOUS
    <3>2. ~(a < b) /\ ~(b < a)
      BY <1>4, <2>2, <3>1
    <3>3. QED
      BY <2>1, <3>2
  <2>5. g \in Injection(M, 0..(free - 1))
    BY <2>3, <2>4 DEF Injection, IsInjective
  <2>6. IsFiniteSet(0..(free - 1)) /\ Cardinality(0..(free - 1)) = free
    BY FS_Interval
  <2>7. QED
    BY <2>5, <2>6, FS_Injection
<1>6. IsFiniteSet(image) /\ Cardinality(image) <= Cardinality(M)
  <2>. HIDE DEF M
  <2>1. h \in Surjection(M, image)
    BY DEF Surjection
  <2>2. QED
    BY <1>2, <2>1, FS_Surjection
<1>7. free = 0 => popped = {}
  BY <1>3
<1>8. /\ Cardinality(popped) \in Nat /\ Cardinality(M) \in Nat
      /\ Cardinality(image) \in Nat
  BY <1>2, <1>6, FS_CardinalityType
<1>. HIDE DEF popped, M, image
<1>9. /\ Cardinality(popped) \in 0..Len(q)
      /\ IsFiniteSet(image)
      /\ Cardinality(image) \in Nat
      /\ Cardinality(image) <= free
      /\ free = 0 => popped = {}
  BY <1>1, <1>2, <1>5, <1>6, <1>7, <1>8
<1>10. QED
  BY <1>9 DEF popped, M, image, Before

\* 1..n has n elements.
LEMMA IntervalCount ==
  ASSUME NEW n \in Nat
  PROVE  IsFiniteSet(1..n) /\ Cardinality(1..n) = n
<1>1. IsFiniteSet(1..n) /\ Cardinality(1..n) = IF 1 > n THEN 0 ELSE n - 1 + 1
  BY FS_Interval
<1>2. QED
  BY <1>1

\* When every position is marked, that prefix is as long as `free` allows.
LEMMA PrefixAll ==
  ASSUME NEW q \in Seq(Nat), NEW free \in Nat
  PROVE  LET popped == {i \in DOMAIN q : Cardinality({j \in DOMAIN q : j < i}) < free}
             n      == IF Len(q) <= free THEN Len(q) ELSE free
         IN  popped = 1..n /\ Cardinality(popped) = n
<1>. DEFINE n == IF Len(q) <= free THEN Len(q) ELSE free
            popped == {i \in DOMAIN q : Cardinality({j \in DOMAIN q : j < i}) < free}
<1>1. Len(q) \in Nat /\ DOMAIN q = 1..Len(q) /\ n \in Nat
  OBVIOUS
<1>2. \A i \in DOMAIN q : Cardinality({j \in DOMAIN q : j < i}) = i - 1
  <2>1. SUFFICES ASSUME NEW i \in DOMAIN q
                 PROVE  Cardinality({j \in DOMAIN q : j < i}) = i - 1
    OBVIOUS
  <2>2. i \in 1..Len(q) /\ i - 1 \in Nat
    BY <1>1, <2>1
  <2>3. {j \in DOMAIN q : j < i} = 1..(i - 1)
    BY <1>1, <2>2
  <2>4. Cardinality(1..(i - 1)) = i - 1
    BY <2>2, IntervalCount
  <2>5. QED
    BY <2>2, <2>3, <2>4
<1>3. popped = {i \in DOMAIN q : i - 1 < free}
  BY <1>2
<1>4. popped = 1..n
  BY <1>1, <1>3
<1>5. Cardinality(1..n) = n
  BY <1>1, IntervalCount
<1>6. QED
  BY <1>1, <1>4, <1>5

\* What is left of a sorted queue, and what was taken, after n pops.
LEMMA PopPrefix ==
  ASSUME NEW q \in Seq(Nat), \A i, j \in DOMAIN q : i < j => q[i] < q[j],
         NEW n \in 0..Len(q)
  PROVE  LET rest  == SubSeq(q, n + 1, Len(q))
             front == {q[i] : i \in 1..n}
         IN  /\ rest \in Seq(Nat) /\ Len(rest) = Len(q) - n
             /\ Elements(rest) = Elements(q) \ front
             /\ front \subseteq Elements(q)
             /\ IsFiniteSet(front) /\ Cardinality(front) = n
             /\ \A x \in front, y \in Elements(rest) : x < y
             /\ \A i, j \in DOMAIN rest : i < j => rest[i] < rest[j]
<1>. DEFINE rest  == SubSeq(q, n + 1, Len(q))
            front == {q[i] : i \in 1..n}
            f     == [i \in 1..n |-> q[i]]
<1>1. Len(q) \in Nat /\ DOMAIN q = 1..Len(q) /\ n \in Nat /\ n <= Len(q)
      /\ \A i \in 1..Len(q) : q[i] \in Nat
  OBVIOUS
<1>2. /\ rest \in Seq(Nat) /\ Len(rest) = Len(q) - n
      /\ \A k \in 1..(Len(q) - n) : rest[k] = q[n + k]
  <2>1. n + 1 \in Int /\ Len(q) \in Int /\ \A i \in (n + 1)..Len(q) : q[i] \in Nat
    BY <1>1
  <2>2. rest \in Seq(Nat)
    BY <1>1, <2>1
  <2>3. Len(rest) = IF n + 1 <= Len(q) THEN Len(q) - (n + 1) + 1 ELSE 0
    BY <1>1, <2>1
  <2>4. \A k \in 1..(Len(q) - (n + 1) + 1) : rest[k] = q[(n + 1) + k - 1]
    BY <1>1, <2>1
  <2>. HIDE DEF rest
  <2>5. Len(rest) = Len(q) - n
    <3>1. CASE n + 1 <= Len(q)
      BY <1>1, <2>3, <3>1
    <3>2. CASE n = Len(q)
      BY <1>1, <2>3, <3>2
    <3>3. n + 1 <= Len(q) \/ n = Len(q)
      <4>1. Len(q) \in Nat /\ n \in Nat /\ n <= Len(q)
        BY <1>1
      <4>2. QED
        BY ONLY <4>1
    <3>4. QED
      BY <3>1, <3>2, <3>3
  <2>6. \A k \in 1..(Len(q) - n) : rest[k] = q[n + k]
    <3>1. Len(q) - (n + 1) + 1 = Len(q) - n /\ \A k \in Int : (n + 1) + k - 1 = n + k
      BY <1>1
    <3>2. QED
      BY <2>4, <3>1
  <2>7. QED
    BY <2>2, <2>5, <2>6
<1>. HIDE DEF rest
<1>3. DOMAIN rest = 1..(Len(q) - n)
  BY <1>1, <1>2
<1>4. \A i, j \in 1..Len(q) : q[i] = q[j] => i = j
  BY <1>1
<1>5. \A i, j \in DOMAIN rest : i < j => rest[i] < rest[j]
  <2>1. SUFFICES ASSUME NEW i \in DOMAIN rest, NEW j \in DOMAIN rest, i < j
                 PROVE  rest[i] < rest[j]
    OBVIOUS
  <2>2. n + i \in DOMAIN q /\ n + j \in DOMAIN q /\ n + i < n + j
    <3>1. /\ Len(q) \in Nat /\ n \in Nat /\ i < j
          /\ i \in 1..(Len(q) - n) /\ j \in 1..(Len(q) - n)
      BY <1>1, <1>3, <2>1
    <3>2. n + i \in 1..Len(q) /\ n + j \in 1..Len(q) /\ n + i < n + j
      BY ONLY <3>1
    <3>3. QED
      BY <1>1, <3>2
  <2>3. rest[i] = q[n + i] /\ rest[j] = q[n + j]
    BY <1>2, <1>3
  <2>4. QED
    BY <2>2, <2>3
<1>6. \A y \in Elements(rest) : \E j \in (n + 1)..Len(q) : y = q[j]
  <2>1. \A k \in DOMAIN rest : n + k \in (n + 1)..Len(q)
    BY <1>1, <1>3
  <2>2. \A k \in DOMAIN rest : rest[k] = q[n + k]
    BY <1>2, <1>3
  <2>3. QED
    BY <2>1, <2>2 DEF Elements
<1>7. \A j \in (n + 1)..Len(q) : q[j] \in Elements(rest)
  <2>1. SUFFICES ASSUME NEW j \in (n + 1)..Len(q) PROVE q[j] \in Elements(rest)
    OBVIOUS
  <2>2. j - n \in DOMAIN rest /\ n + (j - n) = j /\ j - n \in 1..(Len(q) - n)
    BY <1>1, <1>3
  <2>3. rest[j - n] = q[j]
    BY <1>2, <2>2
  <2>4. QED
    BY <2>2, <2>3 DEF Elements
<1>8. front \subseteq Elements(q)
  BY <1>1 DEF Elements
<1>9. \A x \in front, y \in Elements(rest) : x < y
  BY <1>1, <1>6
<1>10. Elements(rest) = Elements(q) \ front
  <2>1. \A y \in Elements(rest) : y \in Elements(q) /\ y \notin front
    <3>1. SUFFICES ASSUME NEW y \in Elements(rest)
                   PROVE  y \in Elements(q) /\ y \notin front
      OBVIOUS
    <3>2. PICK j \in (n + 1)..Len(q) : y = q[j]
      BY <1>6
    <3>3. j \in DOMAIN q /\ \A i \in 1..n : i \in DOMAIN q /\ i # j
      BY <1>1
    <3>4. QED
      BY <1>1, <1>4, <3>2, <3>3 DEF Elements
  <2>2. \A y \in Elements(q) : y \notin front => y \in Elements(rest)
    BY <1>1, <1>7 DEF Elements
  <2>3. QED
    BY <2>1, <2>2
<1>11. IsFiniteSet(front) /\ Cardinality(front) = n
  <2>1. f \in Bijection(1..n, front)
    <3>1. f \in Surjection(1..n, front)
      BY DEF Surjection
    <3>2. \A i, j \in 1..n : f[i] = f[j] => i = j
      BY <1>1, <1>4
    <3>3. QED
      BY <3>1, <3>2 DEF Bijection, Injection, IsInjective, Surjection
  <2>2. IsFiniteSet(1..n) /\ Cardinality(1..n) = n
    BY <1>1, IntervalCount
  <2>. HIDE DEF f, front
  <2>3. IsFiniteSet(front) /\ Cardinality(1..n) = Cardinality(front)
    BY <2>1, <2>2, FS_Bijection DEF ExistsBijection
  <2>4. QED
    BY <1>1, <2>2, <2>3
<1>12. QED
  BY <1>2, <1>5, <1>8, <1>9, <1>10, <1>11 DEF rest

=============================================================================
