--------------------------- MODULE OutboundProofs ---------------------------
(***************************************************************************)
(* The outbound queue of a connection keeps its structures in step and     *)
(* implements DeliveryContract, for every set of spaces and coalesce keys, *)
(* every configuration OutboundQueueConfig::validate accepts, and any      *)
(* number of publishes.                                                    *)
(***************************************************************************)
EXTENDS OutboundQueue, DequesProofs

Injective(s) == \A i, j \in DOMAIN s : s[i] = s[j] => i = j

-----------------------------------------------------------------------------
\* Sequences are equal when they are element by element.
LEMMA SeqEqual ==
  ASSUME NEW T, NEW s \in Seq(T), NEW t \in Seq(T), Len(s) = Len(t),
         \A i \in 1..Len(s) : s[i] = t[i]
  PROVE  s = t
OBVIOUS

\* The elements of two joined queues.
LEMMA ConcatAt ==
  ASSUME NEW T, NEW s \in Seq(T), NEW t \in Seq(T)
  PROVE  /\ s \o t \in Seq(T) /\ Len(s \o t) = Len(s) + Len(t)
         /\ \A i \in 1..Len(s) : (s \o t)[i] = s[i]
         /\ \A i \in 1..Len(t) : (s \o t)[Len(s) + i] = t[i]
OBVIOUS

\* The elements after a push_back.
LEMMA AppendAt ==
  ASSUME NEW T, NEW s \in Seq(T), NEW x \in T
  PROVE  /\ Append(s, x) \in Seq(T) /\ Len(Append(s, x)) = Len(s) + 1
         /\ Append(s, x)[Len(s) + 1] = x /\ Append(s, x) # <<>>
         /\ \A i \in 1..Len(s) : Append(s, x)[i] = s[i]
OBVIOUS

\* The elements after a pop_front.
LEMMA TailAt ==
  ASSUME NEW T, NEW s \in Seq(T), s # <<>>
  PROVE  /\ Tail(s) \in Seq(T) /\ Len(Tail(s)) = Len(s) - 1
         /\ Len(s) > 0 /\ Head(s) = s[1] /\ Head(s) \in T
         /\ \A i \in 1..(Len(s) - 1) : Tail(s)[i] = s[i + 1]
OBVIOUS

\* A push_back adds its element and no other.
LEMMA AppendElements ==
  ASSUME NEW T, NEW s \in Seq(T), NEW x \in T
  PROVE  Elements(Append(s, x)) = Elements(s) \cup {x}
<1>. DEFINE t == Append(s, x)
<1>1. /\ DOMAIN s = 1..Len(s) /\ DOMAIN t = 1..(Len(s) + 1) /\ Len(s) \in Nat
      /\ t[Len(s) + 1] = x /\ \A i \in 1..Len(s) : t[i] = s[i]
  BY AppendAt
<1>. HIDE DEF t
<1>2. \A i \in DOMAIN t : i \in DOMAIN s \/ i = Len(s) + 1
  BY <1>1
<1>3. DOMAIN s \subseteq DOMAIN t /\ Len(s) + 1 \in DOMAIN t
  BY <1>1
<1>4. Elements(t) = Elements(s) \cup {x}
  BY <1>1, <1>2, <1>3 DEF Elements
<1>5. QED
  BY <1>4 DEF t

\* Appending an element that is not there keeps the elements distinct.
LEMMA AppendInjective ==
  ASSUME NEW T, NEW s \in Seq(T), NEW x \in T, Injective(s), x \notin Elements(s)
  PROVE  Injective(Append(s, x))
<1>. DEFINE t == Append(s, x)
<1>1. /\ DOMAIN s = 1..Len(s) /\ DOMAIN t = 1..(Len(s) + 1) /\ Len(s) \in Nat
      /\ t[Len(s) + 1] = x /\ \A i \in 1..Len(s) : t[i] = s[i]
  BY AppendAt
<1>2. \A i \in 1..Len(s) : s[i] # x
  BY <1>1 DEF Elements
<1>. HIDE DEF t
<1>3. \A i \in DOMAIN t : i \in DOMAIN s \/ i = Len(s) + 1
  BY <1>1
<1>4. Injective(t)
  BY <1>1, <1>2, <1>3 DEF Injective
<1>5. QED
  BY <1>4 DEF t

\* What is left without the oldest element.
LEMMA TailElements ==
  ASSUME NEW T, NEW s \in Seq(T), s # <<>>
  PROVE  /\ Elements(Tail(s)) \subseteq Elements(s) /\ Head(s) \in Elements(s)
         /\ Injective(s) => Injective(Tail(s)) /\ Elements(Tail(s)) = Elements(s) \ {Head(s)}
<1>. DEFINE t == Tail(s)
<1>1. /\ DOMAIN s = 1..Len(s) /\ DOMAIN t = 1..(Len(s) - 1) /\ Len(s) \in Nat /\ Len(s) > 0
      /\ Head(s) = s[1] /\ \A i \in 1..(Len(s) - 1) : t[i] = s[i + 1]
  BY TailAt
<1>. HIDE DEF t
<1>2. \A i \in DOMAIN t : i + 1 \in DOMAIN s /\ t[i] = s[i + 1] /\ i + 1 # 1 /\ i \in Nat
  BY <1>1
<1>3. \A i \in DOMAIN s : i # 1 => i - 1 \in DOMAIN t /\ (i - 1) + 1 = i
  BY <1>1
<1>4. 1 \in DOMAIN s
  BY <1>1
<1>5. Elements(t) \subseteq Elements(s) /\ Head(s) \in Elements(s)
  BY <1>1, <1>2, <1>4 DEF Elements
<1>6. ASSUME Injective(s)
      PROVE  Injective(t)
  <2>1. SUFFICES ASSUME NEW i \in DOMAIN t, NEW j \in DOMAIN t, t[i] = t[j] PROVE i = j
    BY DEF Injective
  <2>2. i + 1 = j + 1
    BY <1>2, <1>6, <2>1 DEF Injective
  <2>3. QED
    BY <1>2, <2>2
<1>7. ASSUME Injective(s)
      PROVE  Elements(t) = Elements(s) \ {Head(s)}
  <2>1. \A i \in DOMAIN t : t[i] # Head(s)
    BY <1>1, <1>2, <1>4, <1>7 DEF Injective
  <2>2. ASSUME NEW y \in Elements(s), y # Head(s) PROVE y \in Elements(t)
    <3>1. PICK i \in DOMAIN s : s[i] = y
      BY DEF Elements
    <3>2. i - 1 \in DOMAIN t /\ t[i - 1] = y
      BY <1>1, <1>2, <1>3, <2>2, <3>1
    <3>3. QED
      BY <3>2 DEF Elements
  <2>3. Head(s) \notin Elements(t)
    BY <2>1 DEF Elements
  <2>4. QED
    BY <1>5, <2>2, <2>3
<1>8. QED
  BY <1>5, <1>6, <1>7 DEF t
\* A sequence of distinct elements is as long as the set of its elements is large.
LEMMA InjectiveCount ==
  ASSUME NEW T, NEW s \in Seq(T), Injective(s)
  PROVE  IsFiniteSet(Elements(s)) /\ Cardinality(Elements(s)) = Len(s)
<1>. DEFINE D == 1..Len(s)
            f == [i \in D |-> s[i]]
<1>1. DOMAIN s = D /\ Len(s) \in Nat
  OBVIOUS
<1>2. IsFiniteSet(D) /\ Cardinality(D) = Len(s)
  BY <1>1, IntervalCount
<1>. HIDE DEF D
<1>3. f \in Bijection(D, Elements(s))
  <2>1. f \in [D -> Elements(s)]
    BY <1>1 DEF Elements
  <2>2. \A i, j \in D : f[i] = f[j] => i = j
    BY <1>1 DEF Injective
  <2>3. \A y \in Elements(s) : \E i \in D : f[i] = y
    BY <1>1 DEF Elements
  <2>4. QED
    BY <2>1, <2>2, <2>3 DEF Bijection, Injection, Surjection, IsInjective
<1>4. QED
  BY <1>2, <1>3, FS_Bijection DEF ExistsBijection

\* What Retain keeps depends on the positions it keeps only.
LEMMA RetainSame ==
  ASSUME NEW s, NEW A, NEW B, \A i \in DOMAIN s : s[i] \in A <=> s[i] \in B
  PROVE  Retain(s, A) = Retain(s, B)
<1>1. Positions(s, A) = Positions(s, B)
  BY DEF Positions
<1>2. QED
  BY <1>1 DEF Retain

\* A retain of a queue without repeats has no repeats.
LEMMA RetainInjective ==
  ASSUME NEW T, NEW s \in Seq(T), NEW S, Injective(s)
  PROVE  Injective(Retain(s, S))
<1>. DEFINE P == Positions(s, S)
            r == Retain(s, S)
<1>1. /\ r \in Seq(T) /\ Len(r) = Cardinality(P)
      /\ \A n \in 1..Cardinality(P) : \E i \in P : Rank(P, i) = n /\ r[n] = s[i]
  BY RetainPositions
<1>2. DOMAIN r = 1..Cardinality(P) /\ \A i \in P : i \in DOMAIN s
  BY <1>1 DEF Positions
<1>. HIDE DEF P, r
<1>3. ASSUME NEW m \in DOMAIN r, NEW n \in DOMAIN r, r[m] = r[n]
      PROVE  m = n
  <2>1. PICK i \in P : Rank(P, i) = m /\ r[m] = s[i]
    BY <1>1, <1>2
  <2>2. PICK j \in P : Rank(P, j) = n /\ r[n] = s[j]
    BY <1>1, <1>2
  <2>3. i = j
    BY <1>2, <1>3, <2>1, <2>2 DEF Injective
  <2>4. QED
    BY <2>1, <2>2, <2>3
<1>4. QED
  BY <1>3 DEF r, Injective

\* Retain never makes a sequence longer.
LEMMA RetainLen ==
  ASSUME NEW T, NEW s \in Seq(T), NEW S
  PROVE  Len(Retain(s, S)) \in Nat /\ Len(Retain(s, S)) <= Len(s)
<1>. DEFINE P == Positions(s, S)
<1>1. P \subseteq 1..Len(s) /\ Cardinality(P) \in Nat
  BY PositionsFinite
<1>2. Len(Retain(s, S)) = Cardinality(P) /\ Len(s) \in Nat
  BY RetainPositions
<1>. HIDE DEF P
<1>3. Cardinality(P) <= Cardinality(1..Len(s)) /\ Cardinality(1..Len(s)) = Len(s)
  BY <1>1, <1>2, IntervalCount, FS_Subset
<1>4. QED
  BY <1>1, <1>2, <1>3

\* Retain of everything is the sequence itself.
LEMMA RetainAll ==
  ASSUME NEW T, NEW s \in Seq(T), NEW S, Elements(s) \subseteq S
  PROVE  Retain(s, S) = s
<1>. DEFINE P == Positions(s, S)
            r == Retain(s, S)
<1>1. /\ r \in Seq(T) /\ Len(r) = Cardinality(P)
      /\ \A n \in 1..Cardinality(P) : \E i \in P : Rank(P, i) = n /\ r[n] = s[i]
  BY RetainPositions
<1>2. P = 1..Len(s) /\ Len(s) \in Nat
  BY DEF Positions, Elements
<1>3. Cardinality(P) = Len(s)
  BY <1>2, IntervalCount
<1>. HIDE DEF P, r
<1>4. ASSUME NEW i \in P PROVE Rank(P, i) = i
  <2>1. i \in Nat /\ {j \in P : j <= i} = 1..i
    BY <1>2
  <2>2. Cardinality(1..i) = i
    BY <2>1, IntervalCount
  <2>3. QED
    BY <2>1, <2>2 DEF Rank
<1>5. \A n \in 1..Len(s) : r[n] = s[n]
  BY <1>1, <1>3, <1>4
<1>6. QED
  BY <1>1, <1>3, <1>5, SeqEqual DEF r

\* Concatenation is associative, and a sequence is its head and its tail.
LEMMA ConcatAssoc ==
  ASSUME NEW T, NEW a \in Seq(T), NEW b \in Seq(T), NEW c \in Seq(T)
  PROVE  (a \o b) \o c = a \o (b \o c)
OBVIOUS

\* A queue that is not empty is its front and the rest.
LEMMA HeadTail ==
  ASSUME NEW T, NEW a \in Seq(T), a # <<>>
  PROVE  <<Head(a)>> \o Tail(a) = a /\ <<Head(a)>> \in Seq(T)
OBVIOUS

\* The middle of three sequences, cut out by the lengths of the outer two.
LEMMA Middle ==
  ASSUME NEW T, NEW a \in Seq(T), NEW b \in Seq(T), NEW c \in Seq(T)
  PROVE  LET s == a \o b \o c IN SubSeq(s, Len(a) + 1, Len(s) - Len(c)) = b
<1>. DEFINE s == a \o b \o c
            t == SubSeq(s, Len(a) + 1, Len(s) - Len(c))
<1>1. /\ a \o b \in Seq(T) /\ Len(a \o b) = Len(a) + Len(b)
      /\ \A i \in 1..Len(b) : (a \o b)[Len(a) + i] = b[i]
  BY ConcatAt
<1>2. /\ s \in Seq(T) /\ Len(s) = Len(a) + Len(b) + Len(c)
      /\ \A i \in 1..(Len(a) + Len(b)) : s[i] = (a \o b)[i]
  BY <1>1, ConcatAt
<1>3. Len(a) \in Nat /\ Len(b) \in Nat /\ Len(c) \in Nat
  OBVIOUS
<1>. HIDE DEF s
<1>4. /\ t \in Seq(T) /\ Len(t) = Len(b) /\ \A i \in 1..Len(b) : t[i] = s[Len(a) + i]
  BY <1>2, <1>3
<1>. HIDE DEF t
<1>5. ASSUME NEW i \in 1..Len(b)
      PROVE  t[i] = b[i]
  <2>1. Len(a) + i \in 1..(Len(a) + Len(b))
    BY <1>3
  <2>2. QED
    BY <1>1, <1>2, <1>4, <2>1
<1>6. t = b
  BY <1>4, <1>5, SeqEqual
<1>7. QED
  BY <1>6 DEF t, s
-----------------------------------------------------------------------------
\* WithinCapacity and OrderSynchronized of a queue p.
Fits(p) ==
  /\ Size(p) <= TotalCapacity
  /\ Len(p.critical) <= CriticalCapacity
  /\ Cardinality(DOMAIN p.latest) <= LatestCapacity
  /\ Len(p.best) <= BestEffortCapacity

Synced(p) ==
  /\ Elements(p.order) = DOMAIN p.latest
  /\ Injective(p.order)
  /\ \A k \in DOMAIN p.latest : ScopedKey(p.latest[k]) = k

QueueInv(p) == QueueType(p) /\ Fits(p) /\ Synced(p)

Latest(p)   == {p.latest[k] : k \in DOMAIN p.latest}
Messages(p) == Elements(p.critical) \cup Latest(p) \cup Elements(p.best)

\* r has lost latest values of p, and the oldest best-effort message at most.
FewerLatest(p, r) ==
  DOMAIN r.latest \subseteq DOMAIN p.latest /\ \A k \in DOMAIN r.latest : r.latest[k] = p.latest[k]

FewerBest(p, r) == r.best = p.best \/ (p.best # <<>> /\ r.best = Tail(p.best))

\* The fields of a queue.
LEMMA QueueFields ==
  ASSUME NEW p, QueueType(p)
  PROVE  /\ p.critical \in Seq(OutboundMessage) /\ p.best \in Seq(OutboundMessage)
         /\ p.order \in Seq(Scopes \X CoalesceKeys) /\ p.slow \in BOOLEAN
         /\ p.latest \in [DOMAIN p.latest -> OutboundMessage]
         /\ DOMAIN p.latest \subseteq Scopes \X CoalesceKeys
         /\ Len(p.critical) \in Nat /\ Len(p.best) \in Nat /\ Len(p.order) \in Nat
<1>1. /\ p.critical \in Seq(OutboundMessage) /\ p.best \in Seq(OutboundMessage)
      /\ p.order \in Seq(Scopes \X CoalesceKeys) /\ p.slow \in BOOLEAN
      /\ p.latest \in [DOMAIN p.latest -> OutboundMessage]
      /\ DOMAIN p.latest \subseteq Scopes \X CoalesceKeys
  BY DEF QueueType
<1>2. QED
  BY <1>1

\* The order counts the latest values.
LEMMA LatestCount ==
  ASSUME NEW p, QueueType(p), Synced(p)
  PROVE  /\ IsFiniteSet(DOMAIN p.latest) /\ Cardinality(DOMAIN p.latest) \in Nat
         /\ Cardinality(DOMAIN p.latest) = Len(p.order)
         /\ Size(p) \in Nat
<1>1. /\ p.order \in Seq(Scopes \X CoalesceKeys) /\ Len(p.order) \in Nat
      /\ Len(p.critical) \in Nat /\ Len(p.best) \in Nat
  BY QueueFields
<1>2. Elements(p.order) = DOMAIN p.latest /\ Injective(p.order)
  BY DEF Synced
<1>3. IsFiniteSet(Elements(p.order)) /\ Cardinality(Elements(p.order)) = Len(p.order)
  BY <1>1, <1>2, InjectiveCount
<1>4. QED
  BY <1>1, <1>2, <1>3 DEF Size

\* evict_oldest_latest takes one value out of the map and the order alike.
LEMMA EvictInv ==
  ASSUME NEW p, QueueType(p), Synced(p), p.order # <<>>
  PROVE  LET r == EvictOldestLatest(p)
         IN  /\ QueueType(r) /\ Synced(r) /\ FewerLatest(p, r)
             /\ Cardinality(DOMAIN r.latest) = Cardinality(DOMAIN p.latest) - 1
             /\ r.critical = p.critical /\ r.best = p.best /\ r.slow = p.slow
<1>. DEFINE h  == Head(p.order)
            od == Tail(p.order)
            la == [k \in DOMAIN p.latest \ {h} |-> p.latest[k]]
            r  == [p EXCEPT !.order = od, !.latest = la]
<1>1. /\ p.order \in Seq(Scopes \X CoalesceKeys)
      /\ p.latest \in [DOMAIN p.latest -> OutboundMessage]
      /\ DOMAIN p.latest \subseteq Scopes \X CoalesceKeys
  BY QueueFields
<1>2. r = EvictOldestLatest(p)
  BY DEF EvictOldestLatest
<1>3. /\ od \in Seq(Scopes \X CoalesceKeys) /\ Injective(od) /\ h \in Elements(p.order)
      /\ Elements(od) = Elements(p.order) \ {h} /\ Len(od) = Len(p.order) - 1
  BY <1>1, TailElements, TailAt DEF Synced
<1>. HIDE DEF h, od
<1>4. /\ DOMAIN la = DOMAIN p.latest \ {h} /\ \A k \in DOMAIN la : la[k] = p.latest[k]
      /\ la \in [DOMAIN la -> OutboundMessage]
  BY <1>1
<1>. HIDE DEF la
<1>5. QueueType(r)
  BY <1>1, <1>3, <1>4 DEF QueueType
<1>6. /\ r.order = od /\ r.latest = la
      /\ r.critical = p.critical /\ r.best = p.best /\ r.slow = p.slow
  BY DEF QueueType
<1>. HIDE DEF r
<1>7. Synced(r)
  BY <1>3, <1>4, <1>6 DEF Synced
<1>8. Cardinality(DOMAIN r.latest) = Len(od) /\ Cardinality(DOMAIN p.latest) = Len(p.order)
  BY <1>5, <1>6, <1>7, LatestCount
<1>9. QED
  BY <1>2, <1>3, <1>4, <1>5, <1>6, <1>7, <1>8 DEF FewerLatest

\* insert_latest of a key that is not there.
LEMMA InsertInv ==
  ASSUME NEW p, QueueType(p), Synced(p), NEW m \in OutboundMessage,
         ScopedKey(m) \in (Scopes \X CoalesceKeys) \ DOMAIN p.latest
  PROVE  LET r == InsertLatest(p, m)
         IN  /\ QueueType(r) /\ Synced(r)
             /\ Cardinality(DOMAIN r.latest) = Cardinality(DOMAIN p.latest) + 1
             /\ DOMAIN r.latest = DOMAIN p.latest \cup {ScopedKey(m)}
             /\ r.latest[ScopedKey(m)] = m
             /\ \A k \in DOMAIN p.latest : r.latest[k] = p.latest[k]
             /\ r.critical = p.critical /\ r.best = p.best /\ r.slow = p.slow
<1>. DEFINE h  == ScopedKey(m)
            od == Append(p.order, h)
            la == [k \in DOMAIN p.latest \cup {h} |-> IF k = h THEN m ELSE p.latest[k]]
            r  == [p EXCEPT !.order = od, !.latest = la]
<1>1. /\ p.order \in Seq(Scopes \X CoalesceKeys)
      /\ p.latest \in [DOMAIN p.latest -> OutboundMessage]
      /\ DOMAIN p.latest \subseteq Scopes \X CoalesceKeys
  BY QueueFields
<1>2. r = InsertLatest(p, m)
  BY DEF InsertLatest
<1>3. /\ od \in Seq(Scopes \X CoalesceKeys) /\ Injective(od)
      /\ Elements(od) = Elements(p.order) \cup {h} /\ Len(od) = Len(p.order) + 1
  BY <1>1, AppendElements, AppendInjective, AppendAt DEF Synced
<1>. HIDE DEF od
<1>4. /\ DOMAIN la = DOMAIN p.latest \cup {h} /\ la[h] = m
      /\ \A k \in DOMAIN p.latest : la[k] = p.latest[k]
      /\ la \in [DOMAIN la -> OutboundMessage]
  BY <1>1
<1>. HIDE DEF la
<1>5. QueueType(r)
  BY <1>1, <1>3, <1>4 DEF QueueType
<1>6. /\ r.order = od /\ r.latest = la
      /\ r.critical = p.critical /\ r.best = p.best /\ r.slow = p.slow
  BY DEF QueueType
<1>. HIDE DEF r
<1>7. Synced(r)
  BY <1>3, <1>4, <1>6 DEF Synced
<1>8. Cardinality(DOMAIN r.latest) = Len(od) /\ Cardinality(DOMAIN p.latest) = Len(p.order)
  BY <1>5, <1>6, <1>7, LatestCount
<1>9. QED
  BY <1>2, <1>3, <1>4, <1>5, <1>6, <1>7, <1>8
\* What OutboundQueueConfig::validate establishes, one capacity at a time.
LEMMA Capacities ==
  /\ TotalCapacity \in Nat /\ CriticalCapacity \in Nat /\ LatestCapacity \in Nat
  /\ BestEffortCapacity \in Nat /\ CriticalCapacity <= TotalCapacity
BY ConfigAssumption

\* A full queue makes room among what may be lost, and only there.
LEMMA MakeRoomInv ==
  ASSUME NEW p, QueueInv(p)
  PROVE  LET r == MakeRoom(p)
         IN  /\ QueueInv(r) /\ FewerLatest(p, r) /\ FewerBest(p, r)
             /\ r.critical = p.critical /\ r.slow = p.slow
             /\ Size(r) = TotalCapacity => Len(r.critical) = TotalCapacity
<1>. DEFINE r == MakeRoom(p)
<1>1. QueueType(p) /\ Fits(p) /\ Synced(p)
  BY DEF QueueInv
<1>2. /\ Len(p.critical) \in Nat /\ Len(p.best) \in Nat /\ Size(p) \in Nat
      /\ Cardinality(DOMAIN p.latest) \in Nat /\ Cardinality(DOMAIN p.latest) = Len(p.order)
      /\ p.best \in Seq(OutboundMessage) /\ p.order \in Seq(Scopes \X CoalesceKeys)
  BY <1>1, QueueFields, LatestCount
<1>3. CASE Size(p) # TotalCapacity
  <2>1. r = p
    BY <1>3 DEF MakeRoom
  <2>. HIDE DEF r
  <2>2. QueueInv(r) /\ FewerLatest(p, r) /\ FewerBest(p, r)
    BY <2>1 DEF FewerLatest, FewerBest
  <2>3. QED
    BY <1>3, <2>1, <2>2 DEF r
<1>4. CASE Size(p) = TotalCapacity /\ p.order # <<>>
  <2>1. r = EvictOldestLatest(p)
    BY <1>4 DEF MakeRoom
  <2>. HIDE DEF r
  <2>2. /\ QueueType(r) /\ Synced(r) /\ FewerLatest(p, r)
        /\ Cardinality(DOMAIN r.latest) = Cardinality(DOMAIN p.latest) - 1
        /\ r.critical = p.critical /\ r.best = p.best /\ r.slow = p.slow
    BY <1>1, <1>4, <2>1, EvictInv
  <2>3. Fits(r) /\ Size(r) # TotalCapacity
    <3>1. /\ Size(p) = Len(p.critical) + Cardinality(DOMAIN p.latest) + Len(p.best)
          /\ Size(r) = Len(p.critical) + (Cardinality(DOMAIN p.latest) - 1) + Len(p.best)
      BY ONLY <2>2 DEF Size
    <3>2. Size(r) = Size(p) - 1
      <4>1. /\ Len(p.critical) \in Nat /\ Len(p.best) \in Nat
            /\ Cardinality(DOMAIN p.latest) \in Nat
        BY <1>2
      <4>2. QED
        BY ONLY <3>1, <4>1, SMTT(30)
    <3>3. QED
      BY ONLY <1>1, <1>2, <1>4, <2>2, <3>2, Capacities DEF Fits
  <2>4. QueueInv(r) /\ FewerBest(p, r)
    BY <2>2, <2>3 DEF QueueInv, FewerBest
  <2>5. QED
    BY <2>2, <2>3, <2>4 DEF r
<1>5. CASE Size(p) = TotalCapacity /\ p.order = <<>> /\ p.best # <<>>
  <2>1. r = [p EXCEPT !.best = Tail(p.best)]
    BY <1>5 DEF MakeRoom
  <2>2. Tail(p.best) \in Seq(OutboundMessage) /\ Len(Tail(p.best)) = Len(p.best) - 1
    BY <1>2, <1>5, TailAt
  <2>. HIDE DEF r
  <2>3. /\ QueueType(r) /\ r.best = Tail(p.best) /\ r.critical = p.critical
        /\ r.order = p.order /\ r.latest = p.latest /\ r.slow = p.slow
    BY ONLY <1>1, <2>1, <2>2 DEF QueueType
  <2>4. Fits(r) /\ Size(r) # TotalCapacity
    BY ONLY <1>1, <1>2, <1>5, <2>2, <2>3, Capacities DEF Fits, Size
  <2>5. Synced(r) /\ FewerLatest(p, r) /\ FewerBest(p, r)
    BY ONLY <1>1, <1>5, <2>3 DEF Synced, FewerLatest, FewerBest
  <2>6. QED
    BY <2>3, <2>4, <2>5 DEF QueueInv, r
<1>6. CASE Size(p) = TotalCapacity /\ p.order = <<>> /\ p.best = <<>>
  <2>1. r = p
    BY <1>6 DEF MakeRoom
  <2>2. Len(p.order) = 0 /\ Len(p.best) = 0
    BY <1>6
  <2>3. Len(p.critical) = TotalCapacity
    BY ONLY <1>2, <1>6, <2>2, Capacities DEF Size
  <2>. HIDE DEF r
  <2>4. QueueInv(r) /\ FewerLatest(p, r) /\ FewerBest(p, r)
    BY <2>1 DEF FewerLatest, FewerBest
  <2>5. QED
    BY <2>1, <2>3, <2>4 DEF r
<1>7. QED
  BY <1>3, <1>4, <1>5, <1>6

\* push_critical: a reliable message is queued behind the others unless the
\* reliable capacity is exhausted.  A full queue has room to make, since the
\* reliable capacity is within the total one.
LEMMA PushCriticalInv ==
  ASSUME NEW p, QueueInv(p), NEW m \in OutboundMessage
  PROVE  LET r == PushCritical(p, m)
         IN  /\ QueueInv(r) /\ FewerLatest(p, r) /\ FewerBest(p, r)
             /\ Len(p.critical) = CriticalCapacity =>
                  r.critical = p.critical /\ r.latest = p.latest /\ r.best = p.best
             /\ Len(p.critical) # CriticalCapacity => r.critical = Append(p.critical, m)
<1>. DEFINE r == PushCritical(p, m)
            a == MakeRoom(p)
<1>1. QueueType(p) /\ Fits(p) /\ Synced(p)
  BY DEF QueueInv
<1>2. CASE Len(p.critical) = CriticalCapacity
  <2>1. r = [p EXCEPT !.slow = TRUE]
    BY <1>2 DEF PushCritical
  <2>. HIDE DEF r
  <2>2. /\ QueueType(r) /\ r.best = p.best /\ r.critical = p.critical
        /\ r.order = p.order /\ r.latest = p.latest
    BY ONLY <1>1, <2>1 DEF QueueType
  <2>3. Fits(r) /\ Synced(r) /\ FewerLatest(p, r) /\ FewerBest(p, r)
    BY ONLY <1>1, <2>2 DEF Fits, Size, Synced, FewerLatest, FewerBest
  <2>4. QED
    BY <1>2, <2>2, <2>3 DEF QueueInv, r
<1>3. CASE Len(p.critical) # CriticalCapacity
  <2>1. r = [a EXCEPT !.critical = Append(a.critical, m)]
    BY <1>3 DEF PushCritical
  <2>2. /\ QueueInv(a) /\ FewerLatest(p, a) /\ FewerBest(p, a) /\ a.critical = p.critical
        /\ Size(a) = TotalCapacity => Len(a.critical) = TotalCapacity
    BY MakeRoomInv
  <2>. HIDE DEF r, a
  <2>3. QueueType(a) /\ Fits(a) /\ Synced(a)
    BY <2>2 DEF QueueInv
  <2>4. /\ Len(a.critical) \in Nat /\ Len(a.best) \in Nat /\ Size(a) \in Nat
        /\ Cardinality(DOMAIN a.latest) \in Nat /\ a.critical \in Seq(OutboundMessage)
    BY <2>3, QueueFields, LatestCount
  <2>5. /\ Append(a.critical, m) \in Seq(OutboundMessage)
        /\ Len(Append(a.critical, m)) = Len(a.critical) + 1
    BY <2>4, AppendAt
  <2>6. /\ QueueType(r) /\ r.best = a.best /\ r.critical = Append(a.critical, m)
        /\ r.order = a.order /\ r.latest = a.latest
    BY ONLY <2>1, <2>3, <2>5 DEF QueueType
  <2>7. Size(a) # TotalCapacity /\ Len(a.critical) < CriticalCapacity
    BY ONLY <1>1, <1>3, <2>2, <2>4, Capacities DEF Fits
  <2>8. Fits(r)
    <3>1. /\ Size(a) = Len(a.critical) + Cardinality(DOMAIN a.latest) + Len(a.best)
          /\ Size(r) = (Len(a.critical) + 1) + Cardinality(DOMAIN a.latest) + Len(a.best)
      BY ONLY <2>5, <2>6 DEF Size
    <3>2. Size(r) = Size(a) + 1
      BY ONLY <2>4, <3>1
    <3>3. QED
      BY ONLY <2>3, <2>4, <2>5, <2>6, <2>7, <3>2, Capacities DEF Fits
  <2>9. Synced(r) /\ FewerLatest(p, r) /\ FewerBest(p, r)
    BY ONLY <2>2, <2>3, <2>6 DEF Synced, FewerLatest, FewerBest
  <2>10. QED
    BY <1>3, <2>2, <2>6, <2>8, <2>9 DEF QueueInv, r
<1>4. QED
  BY <1>2, <1>3
\* r has the value m under its key, and apart from it only values of p.
Newest(p, r, m) ==
  /\ ScopedKey(m) \in DOMAIN r.latest /\ r.latest[ScopedKey(m)] = m
  /\ \A k \in DOMAIN r.latest \ {ScopedKey(m)} : k \in DOMAIN p.latest /\ r.latest[k] = p.latest[k]

\* The queue fits when its counts do.
LEMMA FitsByCount ==
  ASSUME NEW r, QueueType(r), Synced(r), NEW n \in Nat, NEW o \in Nat, NEW b \in Nat,
         Len(r.critical) = n, Cardinality(DOMAIN r.latest) = o, Len(r.best) = b,
         n <= CriticalCapacity, o <= LatestCapacity, b <= BestEffortCapacity,
         n + o + b <= TotalCapacity
  PROVE  QueueInv(r)
<1>1. Size(r) = n + o + b
  BY DEF Size
<1>2. Fits(r)
  BY ONLY <1>1, Len(r.critical) = n, Cardinality(DOMAIN r.latest) = o, Len(r.best) = b,
          n <= CriticalCapacity, o <= LatestCapacity, b <= BestEffortCapacity,
          n + o + b <= TotalCapacity DEF Fits
<1>3. QED
  BY <1>2 DEF QueueInv

\* The counts of a queue.
LEMMA CountsFit ==
  ASSUME NEW p, QueueInv(p)
  PROVE  /\ Len(p.critical) \in Nat /\ Cardinality(DOMAIN p.latest) \in Nat /\ Len(p.best) \in Nat
         /\ Len(p.critical) <= CriticalCapacity
         /\ Cardinality(DOMAIN p.latest) <= LatestCapacity
         /\ Len(p.best) <= BestEffortCapacity
         /\ Len(p.critical) + Cardinality(DOMAIN p.latest) + Len(p.best) <= TotalCapacity
         /\ Size(p) = Len(p.critical) + Cardinality(DOMAIN p.latest) + Len(p.best)
<1>1. QueueType(p) /\ Fits(p) /\ Synced(p)
  BY DEF QueueInv
<1>2. Len(p.critical) \in Nat /\ Cardinality(DOMAIN p.latest) \in Nat /\ Len(p.best) \in Nat
  BY <1>1, QueueFields, LatestCount
<1>3. QED
  BY ONLY <1>1, <1>2 DEF Fits, Size

\* push_latest: the newest value of a key is the one queued, and its key goes to
\* the back of the order.
LEMMA PushLatestInv ==
  ASSUME NEW p, QueueInv(p), NEW m \in OutboundMessage,
         ScopedKey(m) \in Scopes \X CoalesceKeys
  PROVE  LET r == PushLatest(p, m)
         IN  /\ QueueInv(r) /\ r.critical = p.critical /\ FewerBest(p, r)
             /\ Newest(p, r, m) \/ (r = p /\ ScopedKey(m) \notin DOMAIN p.latest)
<1>. DEFINE r == PushLatest(p, m)
            h == ScopedKey(m)
<1>. HIDE DEF h
<1>1. QueueType(p) /\ Fits(p) /\ Synced(p) /\ h \in Scopes \X CoalesceKeys /\ h = ScopedKey(m)
  BY DEF QueueInv, h
<1>2. /\ p.order \in Seq(Scopes \X CoalesceKeys)
      /\ p.latest \in [DOMAIN p.latest -> OutboundMessage]
      /\ DOMAIN p.latest \subseteq Scopes \X CoalesceKeys
      /\ Cardinality(DOMAIN p.latest) = Len(p.order) /\ IsFiniteSet(DOMAIN p.latest)
  BY <1>1, QueueFields, LatestCount
<1>3. CASE h \in DOMAIN p.latest
  <2>. DEFINE kp == Retain(p.order, (Scopes \X CoalesceKeys) \ {h})
              od == Append(kp, h)
              la == [p.latest EXCEPT ![h] = m]
  <2>1. r = [p EXCEPT !.latest = la, !.order = od]
    BY <1>3 DEF PushLatest, h
  <2>2. /\ kp \in Seq(Scopes \X CoalesceKeys) /\ Injective(kp)
        /\ Elements(kp) = Elements(p.order) \cap ((Scopes \X CoalesceKeys) \ {h})
    BY <1>1, <1>2, RetainType, RetainElements, RetainInjective DEF Synced
  <2>. HIDE DEF kp
  <2>3. Elements(kp) = DOMAIN p.latest \ {h}
    BY <1>1, <1>2, <2>2 DEF Synced
  <2>4. /\ od \in Seq(Scopes \X CoalesceKeys) /\ Injective(od)
        /\ Elements(od) = Elements(kp) \cup {h}
    BY <1>1, <2>2, <2>3, AppendAt, AppendElements, AppendInjective
  <2>5. Elements(od) = DOMAIN p.latest
    BY <1>3, <2>3, <2>4
  <2>6. /\ DOMAIN la = DOMAIN p.latest /\ la[h] = m /\ la \in [DOMAIN la -> OutboundMessage]
        /\ \A k \in DOMAIN la \ {h} : la[k] = p.latest[k]
    BY <1>2, <1>3
  <2>. HIDE DEF od, la, r
  <2>7. QueueType(r)
    BY ONLY <1>1, <1>2, <2>1, <2>4, <2>6 DEF QueueType
  <2>8. /\ r.order = od /\ r.latest = la /\ r.critical = p.critical /\ r.best = p.best
    BY ONLY <1>1, <2>1 DEF QueueType
  <2>9. Synced(r)
    BY ONLY <1>1, <2>4, <2>5, <2>6, <2>8 DEF Synced
  <2>10. QueueInv(r)
    BY <1>1, <2>6, <2>7, <2>8, <2>9 DEF QueueInv, Fits, Size
  <2>11. Newest(p, r, m) /\ FewerBest(p, r)
    BY ONLY <1>1, <1>3, <2>6, <2>8 DEF Newest, FewerBest
  <2>12. QED
    BY <2>8, <2>10, <2>11 DEF r
<1>4. CASE h \notin DOMAIN p.latest /\ LatestCapacity = 0
  <2>1. r = p
    BY <1>4 DEF PushLatest, h
  <2>. HIDE DEF r
  <2>2. FewerBest(p, r) /\ QueueInv(r)
    BY <2>1 DEF FewerBest
  <2>3. QED
    BY <1>1, <1>4, <2>1, <2>2 DEF r
<1>5. CASE /\ h \notin DOMAIN p.latest /\ LatestCapacity # 0
           /\ Cardinality(DOMAIN p.latest) = LatestCapacity
  <2>. DEFINE a == EvictOldestLatest(p)
  <2>1. r = InsertLatest(a, m)
    BY <1>5 DEF PushLatest, h
  <2>2. p.order # <<>>
    BY <1>2, <1>5
  <2>3. /\ QueueType(a) /\ Synced(a) /\ FewerLatest(p, a)
        /\ Cardinality(DOMAIN a.latest) = Cardinality(DOMAIN p.latest) - 1
        /\ a.critical = p.critical /\ a.best = p.best
    BY <1>1, <2>2, EvictInv
  <2>. HIDE DEF a, r
  <2>4. ScopedKey(m) \in (Scopes \X CoalesceKeys) \ DOMAIN a.latest
    BY <1>1, <1>5, <2>3 DEF FewerLatest
  <2>5. /\ QueueType(r) /\ Synced(r)
        /\ Cardinality(DOMAIN r.latest) = Cardinality(DOMAIN a.latest) + 1
        /\ DOMAIN r.latest = DOMAIN a.latest \cup {ScopedKey(m)}
        /\ r.latest[ScopedKey(m)] = m
        /\ \A k \in DOMAIN a.latest : r.latest[k] = a.latest[k]
        /\ r.critical = a.critical /\ r.best = a.best
    BY <2>1, <2>3, <2>4, InsertInv
  <2>6. Newest(p, r, m) /\ FewerBest(p, r)
    BY ONLY <2>3, <2>5 DEF Newest, FewerBest, FewerLatest
  <2>7. QueueInv(r)
    <3>1. Cardinality(DOMAIN p.latest) \in Nat
      BY CountsFit
    <3>2. Cardinality(DOMAIN r.latest) = Cardinality(DOMAIN p.latest)
      BY ONLY <2>3, <2>5, <3>1
    <3>3. QED
      BY <2>3, <2>5, <3>2, CountsFit, FitsByCount
  <2>8. QED
    BY <2>3, <2>5, <2>6, <2>7 DEF r
<1>6. CASE /\ h \notin DOMAIN p.latest /\ LatestCapacity # 0
           /\ Cardinality(DOMAIN p.latest) # LatestCapacity
  <2>. DEFINE a == MakeRoom(p)
  <2>1. r = IF Size(a) = TotalCapacity THEN p ELSE InsertLatest(a, m)
    BY <1>6 DEF PushLatest, h
  <2>2. QueueInv(a) /\ FewerLatest(p, a) /\ FewerBest(p, a) /\ a.critical = p.critical
    BY MakeRoomInv
  <2>. HIDE DEF a, r
  <2>3. CASE Size(a) = TotalCapacity
    <3>1. r = p
      BY <2>1, <2>3
    <3>2. FewerBest(p, r) /\ QueueInv(r)
      BY <3>1 DEF FewerBest
    <3>3. QED
      BY <1>1, <1>6, <3>1, <3>2 DEF r
  <2>4. CASE Size(a) # TotalCapacity
    <3>1. r = InsertLatest(a, m)
      BY <2>1, <2>4
    <3>2. ScopedKey(m) \in (Scopes \X CoalesceKeys) \ DOMAIN a.latest
      BY <1>1, <1>6, <2>2 DEF FewerLatest
    <3>3. /\ QueueType(r) /\ Synced(r)
          /\ Cardinality(DOMAIN r.latest) = Cardinality(DOMAIN a.latest) + 1
          /\ DOMAIN r.latest = DOMAIN a.latest \cup {ScopedKey(m)}
          /\ r.latest[ScopedKey(m)] = m
          /\ \A k \in DOMAIN a.latest : r.latest[k] = a.latest[k]
          /\ r.critical = a.critical /\ r.best = a.best
      BY <2>2, <3>1, <3>2, InsertInv DEF QueueInv
    <3>4. Newest(p, r, m) /\ FewerBest(p, r)
      BY ONLY <2>2, <3>3 DEF Newest, FewerBest, FewerLatest
    <3>5. Cardinality(DOMAIN a.latest) <= Cardinality(DOMAIN p.latest)
      BY <1>2, <2>2, FS_Subset DEF FewerLatest
    <3>. DEFINE n == Len(a.critical)
                o == Cardinality(DOMAIN a.latest)
                b == Len(a.best)
    <3>6. /\ n \in Nat /\ o \in Nat /\ b \in Nat /\ n <= CriticalCapacity
          /\ b <= BestEffortCapacity /\ n + o + b <= TotalCapacity
          /\ n + o + b # TotalCapacity
      BY <2>2, <2>4, CountsFit
    <3>7. o < LatestCapacity
      <4>1. Cardinality(DOMAIN p.latest) \in Nat /\ Cardinality(DOMAIN p.latest) <= LatestCapacity
        BY CountsFit
      <4>2. QED
        BY ONLY <1>6, <3>5, <3>6, <4>1, Capacities
    <3>8. /\ Len(r.critical) = n /\ Cardinality(DOMAIN r.latest) = o + 1 /\ Len(r.best) = b
      BY <3>3
    <3>. HIDE DEF n, o, b
    <3>9. o + 1 \in Nat /\ o + 1 <= LatestCapacity /\ n + (o + 1) + b <= TotalCapacity
      BY ONLY <3>6, <3>7, Capacities
    <3>10. QueueInv(r)
      BY ONLY <3>3, <3>6, <3>8, <3>9, FitsByCount
    <3>11. QED
      BY <2>2, <3>3, <3>4, <3>10 DEF r
  <2>5. QED
    BY <2>3, <2>4
<1>7. QED
  BY <1>3, <1>4, <1>5, <1>6
\* push_best_effort
LEMMA PushBestInv ==
  ASSUME NEW p, QueueInv(p), NEW m \in OutboundMessage
  PROVE  LET r == PushBestEffort(p, m)
         IN  \/ r = p
             \/ /\ QueueInv(r) /\ r.best = Append(p.best, m)
                /\ r.critical = p.critical /\ r.latest = p.latest
<1>. DEFINE r == PushBestEffort(p, m)
<1>1. QueueType(p) /\ Fits(p) /\ Synced(p)
  BY DEF QueueInv
<1>2. CASE Len(p.best) = BestEffortCapacity \/ Size(p) = TotalCapacity
  BY <1>2 DEF PushBestEffort
<1>3. CASE ~(Len(p.best) = BestEffortCapacity \/ Size(p) = TotalCapacity)
  <2>1. r = [p EXCEPT !.best = Append(p.best, m)]
    BY <1>3 DEF PushBestEffort
  <2>2. p.best \in Seq(OutboundMessage)
    BY <1>1, QueueFields
  <2>3. /\ Append(p.best, m) \in Seq(OutboundMessage)
        /\ Len(Append(p.best, m)) = Len(p.best) + 1
    BY <2>2, AppendAt
  <2>. HIDE DEF r
  <2>4. /\ QueueType(r) /\ r.best = Append(p.best, m) /\ r.critical = p.critical
        /\ r.order = p.order /\ r.latest = p.latest
    BY ONLY <1>1, <2>1, <2>3 DEF QueueType
  <2>5. Synced(r)
    BY ONLY <1>1, <2>4 DEF Synced
  <2>. DEFINE n == Len(p.critical)
              o == Cardinality(DOMAIN p.latest)
              b == Len(p.best)
  <2>6. /\ n \in Nat /\ o \in Nat /\ b \in Nat /\ n <= CriticalCapacity
        /\ o <= LatestCapacity /\ b <= BestEffortCapacity /\ n + o + b <= TotalCapacity
        /\ Size(p) = n + o + b
    BY CountsFit
  <2>7. Len(r.critical) = n /\ Cardinality(DOMAIN r.latest) = o /\ Len(r.best) = b + 1
    BY <2>3, <2>4
  <2>8. b # BestEffortCapacity /\ n + o + b # TotalCapacity
    BY <1>3, <2>6
  <2>. HIDE DEF n, o, b
  <2>9. b + 1 \in Nat /\ b + 1 <= BestEffortCapacity /\ n + o + (b + 1) <= TotalCapacity
    BY ONLY <2>6, <2>8, Capacities
  <2>10. QueueInv(r)
    BY ONLY <2>4, <2>5, <2>6, <2>7, <2>9, FitsByCount
  <2>11. QED
    BY <2>4, <2>10 DEF r
<1>4. QED
  BY <1>2, <1>3

\* purge and drain_matching: every class keeps exactly the messages that are not
\* in M.
LEMMA WithoutInv ==
  ASSUME NEW p, QueueInv(p), NEW M
  PROVE  LET r == Without(p, M)
         IN  /\ QueueInv(r) /\ FewerLatest(p, r)
             /\ r.critical = Retain(p.critical, Elements(p.critical) \ M)
             /\ r.best = Retain(p.best, Elements(p.best) \ M)
             /\ r.latest = [k \in {j \in DOMAIN p.latest : p.latest[j] \notin M} |-> p.latest[k]]
             /\ Messages(r) = Messages(p) \ M
<1>. DEFINE K  == {k \in DOMAIN p.latest : p.latest[k] \notin M}
            cr == Retain(p.critical, Elements(p.critical) \ M)
            be == Retain(p.best, Elements(p.best) \ M)
            la == [k \in K |-> p.latest[k]]
            od == Retain(p.order, K)
            r  == [p EXCEPT !.critical = cr, !.best = be, !.latest = la, !.order = od]
<1>1. QueueType(p) /\ Synced(p)
  BY DEF QueueInv
<1>2. /\ p.order \in Seq(Scopes \X CoalesceKeys)
      /\ p.critical \in Seq(OutboundMessage) /\ p.best \in Seq(OutboundMessage)
      /\ p.latest \in [DOMAIN p.latest -> OutboundMessage]
      /\ DOMAIN p.latest \subseteq Scopes \X CoalesceKeys
      /\ Cardinality(DOMAIN p.latest) = Len(p.order)
  BY <1>1, QueueFields, LatestCount
<1>3. r = Without(p, M)
  BY DEF Without
<1>4. /\ cr \in Seq(OutboundMessage) /\ Len(cr) \in Nat /\ Len(cr) <= Len(p.critical)
      /\ Elements(cr) = Elements(p.critical) \cap (Elements(p.critical) \ M)
  BY <1>2, RetainType, RetainElements, RetainLen
<1>5. /\ be \in Seq(OutboundMessage) /\ Len(be) \in Nat /\ Len(be) <= Len(p.best)
      /\ Elements(be) = Elements(p.best) \cap (Elements(p.best) \ M)
  BY <1>2, RetainType, RetainElements, RetainLen
<1>6. /\ od \in Seq(Scopes \X CoalesceKeys) /\ Len(od) \in Nat /\ Len(od) <= Len(p.order)
      /\ Elements(od) = Elements(p.order) \cap K
      /\ Injective(od)
  BY <1>1, <1>2, RetainType, RetainElements, RetainLen, RetainInjective DEF Synced
<1>7. /\ DOMAIN la = K /\ \A k \in K : la[k] = p.latest[k]
      /\ la \in [DOMAIN la -> OutboundMessage]
  BY <1>2
<1>8. K \subseteq DOMAIN p.latest /\ \A k \in DOMAIN p.latest : k \in K <=> p.latest[k] \notin M
  OBVIOUS
<1>. HIDE DEF K, cr, be, od, la
<1>9. QueueType(r)
  BY ONLY <1>1, <1>2, <1>4, <1>5, <1>6, <1>7, <1>8 DEF QueueType, r
<1>10. r.critical = cr /\ r.best = be /\ r.latest = la /\ r.order = od
  BY ONLY <1>1 DEF QueueType, r
<1>. HIDE DEF r
<1>11. Synced(r) /\ FewerLatest(p, r)
  BY ONLY <1>1, <1>6, <1>7, <1>8, <1>10 DEF Synced, FewerLatest
<1>12. QueueInv(r)
  <2>. DEFINE n == Len(p.critical)
              o == Cardinality(DOMAIN p.latest)
              b == Len(p.best)
              x == Len(cr)
              y == Len(od)
              z == Len(be)
  <2>1. /\ n \in Nat /\ o \in Nat /\ b \in Nat /\ n <= CriticalCapacity
        /\ o <= LatestCapacity /\ b <= BestEffortCapacity /\ n + o + b <= TotalCapacity
    BY CountsFit
  <2>2. Cardinality(DOMAIN r.latest) = y
    BY <1>9, <1>10, <1>11, LatestCount
  <2>3. x \in Nat /\ y \in Nat /\ z \in Nat /\ x <= n /\ y <= o /\ z <= b
    BY <1>2, <1>4, <1>5, <1>6
  <2>4. Len(r.critical) = x /\ Len(r.best) = z
    BY <1>10
  <2>. HIDE DEF n, o, b, x, y, z
  <2>5. /\ x <= CriticalCapacity /\ y <= LatestCapacity /\ z <= BestEffortCapacity
        /\ x + y + z <= TotalCapacity
    BY ONLY <2>1, <2>3, Capacities
  <2>6. QED
    BY ONLY <1>9, <1>11, <2>2, <2>3, <2>4, <2>5, FitsByCount
<1>13. Messages(r) = Messages(p) \ M
  <2>1. Latest(r) = Latest(p) \ M
    BY ONLY <1>7, <1>8, <1>10 DEF Latest
  <2>2. Elements(cr) = Elements(p.critical) \ M /\ Elements(be) = Elements(p.best) \ M
    BY ONLY <1>4, <1>5
  <2>3. QED
    BY ONLY <1>10, <2>1, <2>2 DEF Messages
<1>14. QED
  BY <1>3, <1>10, <1>11, <1>12, <1>13 DEF r, K, cr, be, la
-----------------------------------------------------------------------------
\* The latest values of p under the given keys.
Values(p, keys) == [i \in DOMAIN keys |-> p.latest[keys[i]]]

\* They are messages, one for each key.
LEMMA ValuesAt ==
  ASSUME NEW p, QueueType(p), NEW keys \in Seq(Scopes \X CoalesceKeys),
         Elements(keys) \subseteq DOMAIN p.latest
  PROVE  /\ Values(p, keys) \in Seq(OutboundMessage) /\ Len(Values(p, keys)) = Len(keys)
         /\ \A i \in 1..Len(keys) : Values(p, keys)[i] = p.latest[keys[i]]
         /\ Elements(Values(p, keys)) = {p.latest[k] : k \in Elements(keys)}
<1>. DEFINE v == Values(p, keys)
<1>1. p.latest \in [DOMAIN p.latest -> OutboundMessage]
  BY QueueFields
<1>2. DOMAIN keys = 1..Len(keys) /\ Len(keys) \in Nat
  OBVIOUS
<1>3. \A i \in DOMAIN keys : p.latest[keys[i]] \in OutboundMessage
  BY <1>1 DEF Elements
<1>4. v \in [1..Len(keys) -> OutboundMessage] /\ \A i \in 1..Len(keys) : v[i] = p.latest[keys[i]]
  BY <1>2, <1>3 DEF Values
<1>. HIDE DEF v
<1>5. v \in Seq(OutboundMessage) /\ Len(v) = Len(keys) /\ DOMAIN v = DOMAIN keys
  BY <1>2, <1>4, SMTT(30)
<1>6. Elements(v) = {p.latest[k] : k \in Elements(keys)}
  BY ONLY <1>2, <1>4, <1>5 DEF Elements
<1>7. QED
  BY <1>4, <1>5, <1>6 DEF v

\* drain_matching of everything is the whole queue, class by class.
LEMMA DrainedAll ==
  ASSUME NEW p, QueueType(p), Synced(p)
  PROVE  /\ Drained(p, OutboundMessage) = p.critical \o Values(p, p.order) \o p.best
         /\ Values(p, p.order) \in Seq(OutboundMessage)
         /\ Len(Values(p, p.order)) = Len(p.order)
         /\ \A i \in 1..Len(p.order) : Values(p, p.order)[i] = p.latest[p.order[i]]
<1>1. /\ p.order \in Seq(Scopes \X CoalesceKeys)
      /\ p.critical \in Seq(OutboundMessage) /\ p.best \in Seq(OutboundMessage)
      /\ p.latest \in [DOMAIN p.latest -> OutboundMessage]
      /\ Elements(p.order) = DOMAIN p.latest
  BY QueueFields DEF Synced
<1>2. Elements(p.critical) \subseteq OutboundMessage /\ Elements(p.best) \subseteq OutboundMessage
  BY <1>1 DEF Elements
<1>3. Retain(p.critical, OutboundMessage) = p.critical /\ Retain(p.best, OutboundMessage) = p.best
  BY ONLY <1>1, <1>2, RetainAll
<1>. DEFINE K == {k \in DOMAIN p.latest : p.latest[k] \in OutboundMessage}
<1>4. K = DOMAIN p.latest
  BY <1>1
<1>5. Drained(p, OutboundMessage) =
        Retain(p.critical, OutboundMessage) \o Values(p, Retain(p.order, K))
          \o Retain(p.best, OutboundMessage)
  BY DEF Drained, Values
<1>. HIDE DEF K
<1>6. Retain(p.order, K) = p.order
  BY ONLY <1>1, <1>4, RetainAll
<1>7. Drained(p, OutboundMessage) = p.critical \o Values(p, p.order) \o p.best
  BY ONLY <1>3, <1>5, <1>6
<1>8. Elements(p.order) \subseteq DOMAIN p.latest
  BY <1>1
<1>9. /\ Values(p, p.order) \in Seq(OutboundMessage)
      /\ Len(Values(p, p.order)) = Len(p.order)
      /\ \A i \in 1..Len(p.order) : Values(p, p.order)[i] = p.latest[p.order[i]]
  BY ONLY QueueType(p), <1>1, <1>8, ValuesAt
<1>10. QED
  BY ONLY <1>7, <1>9

\* An empty sequence adds nothing.
LEMMA EmptyConcat ==
  ASSUME NEW T, NEW a \in Seq(T)
  PROVE  <<>> \o a = a
OBVIOUS

\* The first of three sequences that is not empty holds the first element.
LEMMA FirstOfThree ==
  ASSUME NEW T, NEW a \in Seq(T), NEW b \in Seq(T), NEW c \in Seq(T)
  PROVE  /\ a # <<>> => (a \o b) \o c = <<Head(a)>> \o ((Tail(a) \o b) \o c)
         /\ a = <<>> /\ b # <<>> => a \o b \o c = <<Head(b)>> \o (a \o Tail(b) \o c)
         /\ a = <<>> /\ b = <<>> /\ c # <<>> => a \o b \o c = <<Head(c)>> \o (a \o b \o Tail(c))
<1>1. ASSUME a # <<>>
      PROVE  a \o b \o c = <<Head(a)>> \o (Tail(a) \o b \o c)
  <2>. DEFINE h == <<Head(a)>>
              t == Tail(a)
  <2>1. h \o t = a
    BY <1>1, HeadTail
  <2>. h \in Seq(T) /\ t \in Seq(T)
    BY <1>1, HeadTail, TailAt
  <2>. HIDE DEF h, t
  <2>2. t \o b \in Seq(T)
    BY <2>1, ConcatAt
  <2>3. (h \o t) \o b = h \o (t \o b)
    BY ONLY h \in Seq(T), t \in Seq(T), b \in Seq(T), ConcatAssoc, SMTT(30)
  <2>. DEFINE tb == t \o b
  <2>. tb \in Seq(T)
    BY <2>2
  <2>. HIDE DEF tb
  <2>4. (h \o tb) \o c = h \o (tb \o c)
    BY ONLY h \in Seq(T), tb \in Seq(T), c \in Seq(T), ConcatAssoc, SMTT(30)
  <2>5. QED
    BY ONLY <2>1, <2>3, <2>4 DEF h, t, tb
<1>2. ASSUME a = <<>>, b # <<>>
      PROVE  a \o b \o c = <<Head(b)>> \o (a \o Tail(b) \o c)
  <2>. DEFINE h == <<Head(b)>>
              t == Tail(b)
  <2>1. h \o t = b
    BY <1>2, HeadTail
  <2>. h \in Seq(T) /\ t \in Seq(T)
    BY <1>2, HeadTail, TailAt
  <2>. HIDE DEF h, t
  <2>2. a \o b = b /\ a \o t = t
    BY <1>2, <2>1, EmptyConcat
  <2>3. (h \o t) \o c = h \o (t \o c)
    BY ONLY h \in Seq(T), t \in Seq(T), c \in Seq(T), ConcatAssoc, SMTT(30)
  <2>4. QED
    BY ONLY <2>1, <2>2, <2>3 DEF h, t
<1>3. ASSUME a = <<>>, b = <<>>, c # <<>>
      PROVE  a \o b \o c = <<Head(c)>> \o (a \o b \o Tail(c))
  <2>1. <<Head(c)>> \o Tail(c) = c /\ Tail(c) \in Seq(T)
    BY <1>3, HeadTail, TailAt
  <2>2. a \o b = <<>>
    BY <1>3
  <2>3. <<>> \o c = c /\ <<>> \o Tail(c) = Tail(c)
    BY <2>1, EmptyConcat
  <2>4. QED
    BY ONLY <2>1, <2>2, <2>3
<1>4. QED
  BY <1>1, <1>2, <1>3

\* pop takes the first message of what drain_matching would hand out.
LEMMA PopAgrees ==
  ASSUME NEW p, QueueType(p), Synced(p), Size(p) > 0
  PROVE  Drained(p, OutboundMessage) = <<Front(p)>> \o Drained(Pop(p), OutboundMessage)
<1>. DEFINE T == OutboundMessage
            v == Values(p, p.order)
            r == Pop(p)
<1>1. /\ p.critical \in Seq(T) /\ p.best \in Seq(T) /\ p.order \in Seq(Scopes \X CoalesceKeys)
      /\ Cardinality(DOMAIN p.latest) = Len(p.order)
  BY QueueFields, LatestCount
<1>2. /\ Drained(p, T) = p.critical \o v \o p.best /\ v \in Seq(T) /\ Len(v) = Len(p.order)
      /\ \A i \in 1..Len(p.order) : v[i] = p.latest[p.order[i]]
  BY DrainedAll
<1>. p.critical \in Seq(T) /\ v \in Seq(T) /\ p.best \in Seq(T)
  BY <1>1, <1>2
<1>. HIDE DEF v, r, T
<1>3. CASE p.critical # <<>>
  <2>1. r = [p EXCEPT !.critical = Tail(p.critical)] /\ Front(p) = Head(p.critical)
    BY <1>3 DEF Pop, Front, r
  <2>2. Tail(p.critical) \in Seq(T)
    BY <1>1, <1>3, TailAt
  <2>3. /\ QueueType(r) /\ r.critical = Tail(p.critical) /\ r.best = p.best
        /\ r.order = p.order /\ r.latest = p.latest
    BY ONLY <2>1, <2>2, QueueType(p) DEF QueueType, T
  <2>4. Synced(r) /\ Values(r, r.order) = v
    BY ONLY <2>3, Synced(p) DEF Synced, Values, v
  <2>5. Drained(r, T) = Tail(p.critical) \o v \o p.best
    BY ONLY <2>3, <2>4, DrainedAll DEF T
  <2>6. p.critical \o v \o p.best = <<Head(p.critical)>> \o (Tail(p.critical) \o v \o p.best)
    <3>. DEFINE a == p.critical
                c == p.best
    <3>. a \in Seq(T) /\ c \in Seq(T) /\ a # <<>>
      BY <1>3
    <3>. HIDE DEF a, c
    <3>1. (a \o v) \o c = <<Head(a)>> \o ((Tail(a) \o v) \o c)
      BY ONLY a \in Seq(T), v \in Seq(T), c \in Seq(T), a # <<>>, FirstOfThree
    <3>2. QED
      BY <3>1 DEF a, c
  <2>7. QED
    BY <1>2, <2>1, <2>5, <2>6 DEF r, T
<1>4. CASE p.critical = <<>> /\ p.order # <<>>
  <2>1. r = EvictOldestLatest(p) /\ Front(p) = p.latest[Head(p.order)]
    BY <1>4 DEF Pop, Front, r
  <2>2. /\ QueueType(r) /\ Synced(r) /\ r.critical = p.critical /\ r.best = p.best
        /\ FewerLatest(p, r)
    BY <1>4, <2>1, EvictInv
  <2>3. r.order = Tail(p.order)
    BY ONLY <2>1, QueueType(p) DEF EvictOldestLatest, QueueType
  <2>4. /\ Drained(r, T) = p.critical \o Values(r, r.order) \o p.best
        /\ Values(r, r.order) \in Seq(T) /\ Len(Values(r, r.order)) = Len(r.order)
        /\ \A i \in 1..Len(r.order) : Values(r, r.order)[i] = r.latest[r.order[i]]
    BY <2>2, DrainedAll DEF T
  <2>5. v # <<>> /\ Len(p.order) \in Nat /\ Len(p.order) > 0
    BY <1>1, <1>2, <1>4
  <2>6. /\ Len(r.order) = Len(p.order) - 1 /\ Head(p.order) = p.order[1]
        /\ \A i \in 1..(Len(p.order) - 1) : r.order[i] = p.order[i + 1]
    BY <1>1, <1>4, <2>3, TailAt
  <2>7. Values(r, r.order) = Tail(v)
    <3>1. /\ Tail(v) \in Seq(T) /\ Len(Tail(v)) = Len(v) - 1
          /\ \A i \in 1..(Len(v) - 1) : Tail(v)[i] = v[i + 1]
      BY <1>2, <2>5, TailAt
    <3>2. ASSUME NEW i \in 1..(Len(p.order) - 1)
          PROVE  Values(r, r.order)[i] = Tail(v)[i]
      <4>1. i \in 1..Len(r.order) /\ i \in 1..(Len(v) - 1) /\ i + 1 \in 1..Len(p.order)
        BY <1>2, <2>5, <2>6
      <4>2. r.order[i] \in DOMAIN r.latest
        <5>1. r.order \in Seq(Scopes \X CoalesceKeys)
          BY <2>2, QueueFields
        <5>2. r.order[i] \in Elements(r.order)
          BY <4>1, <5>1 DEF Elements
        <5>3. QED
          BY <2>2, <5>2 DEF Synced
      <4>3. Values(r, r.order)[i] = p.latest[r.order[i]]
        BY <2>2, <2>4, <4>1, <4>2 DEF FewerLatest
      <4>4. Tail(v)[i] = p.latest[p.order[i + 1]]
        BY <1>2, <3>1, <4>1
      <4>5. QED
        BY <2>6, <4>3, <4>4
    <3>3. Len(Values(r, r.order)) = Len(p.order) - 1 /\ Len(Tail(v)) = Len(p.order) - 1
      BY <1>2, <2>4, <2>6, <3>1
    <3>4. QED
      BY ONLY <2>4, <3>1, <3>2, <3>3, SeqEqual
  <2>8. Head(v) = p.latest[Head(p.order)]
    <3>1. Head(v) = v[1] /\ 1 \in 1..Len(p.order)
      BY <1>2, <2>5, TailAt
    <3>2. QED
      BY <1>2, <2>6, <3>1
  <2>9. p.critical \o v \o p.best = <<Head(v)>> \o (p.critical \o Tail(v) \o p.best)
    BY ONLY p.critical \in Seq(T), v \in Seq(T), p.best \in Seq(T), <1>4, <2>5, FirstOfThree
  <2>10. QED
    BY <1>2, <2>1, <2>4, <2>7, <2>8, <2>9 DEF r, T
<1>5. CASE p.critical = <<>> /\ p.order = <<>>
  <2>1. r = [p EXCEPT !.best = Tail(p.best)] /\ Front(p) = Head(p.best)
    BY <1>5 DEF Pop, Front, r
  <2>2. v = <<>>
    BY <1>2, <1>5
  <2>3. p.best # <<>>
    BY <1>1, <1>5 DEF Size
  <2>4. Tail(p.best) \in Seq(T)
    BY <1>1, <2>3, TailAt
  <2>5. /\ QueueType(r) /\ r.best = Tail(p.best) /\ r.critical = p.critical
        /\ r.order = p.order /\ r.latest = p.latest
    BY ONLY <2>1, <2>4, QueueType(p) DEF QueueType, T
  <2>6. Synced(r) /\ Values(r, r.order) = v
    BY ONLY <2>5, Synced(p) DEF Synced, Values, v
  <2>7. Drained(r, T) = p.critical \o v \o Tail(p.best)
    BY ONLY <2>5, <2>6, DrainedAll DEF T
  <2>8. p.critical \o v \o p.best = <<Head(p.best)>> \o (p.critical \o v \o Tail(p.best))
    BY ONLY p.critical \in Seq(T), v \in Seq(T), p.best \in Seq(T), <1>5, <2>2, <2>3,
            FirstOfThree
  <2>9. QED
    BY <1>2, <2>1, <2>7, <2>8 DEF r, T
<1>6. QED
  BY <1>3, <1>4, <1>5
-----------------------------------------------------------------------------
\* What push may do with a message, class by class: refuse it when the reliable
\* capacity is exhausted; queue it behind the reliable messages; make it the
\* value of its key; drop it; queue it behind the best-effort messages.
Pushed(p, r, m) ==
  \/ /\ Exhausts(p, m)
     /\ r.critical = p.critical /\ r.latest = p.latest /\ r.best = p.best
  \/ /\ ~Exhausts(p, m) /\ ~IsReplaceable(m.delivery) /\ r.critical = Append(p.critical, m)
     /\ FewerLatest(p, r) /\ FewerBest(p, r)
  \/ /\ ~Exhausts(p, m) /\ IsReplaceable(m.delivery) /\ r.critical = p.critical
     /\ Newest(p, r, m) /\ FewerBest(p, r)
  \/ /\ ~Exhausts(p, m) /\ IsReplaceable(m.delivery) /\ r = p
     /\ ScopedKey(m) \notin DOMAIN p.latest
  \/ ~Exhausts(p, m) /\ ~IsReplaceable(m.delivery) /\ r = p
  \/ /\ ~Exhausts(p, m) /\ ~IsReplaceable(m.delivery) /\ r.best = Append(p.best, m)
     /\ r.critical = p.critical /\ r.latest = p.latest

\* push, with a message whose key validate_coalesce_key has looked at.
LEMMA PushInv ==
  ASSUME NEW p, QueueInv(p), NEW m \in OutboundMessage,
         m.key # NoKey <=> IsReplaceable(m.delivery)
  PROVE  QueueInv(Push(p, m)) /\ Pushed(p, Push(p, m), m)
<1>. DEFINE r == Push(p, m)
<1>1. CASE IsCritical(m.delivery)
  <2>1. r = PushCritical(p, m) /\ ~IsReplaceable(m.delivery)
    BY <1>1 DEF Push, IsCritical, IsReplaceable
  <2>. HIDE DEF r
  <2>2. /\ QueueInv(r) /\ FewerLatest(p, r) /\ FewerBest(p, r)
        /\ Len(p.critical) = CriticalCapacity =>
             r.critical = p.critical /\ r.latest = p.latest /\ r.best = p.best
        /\ Len(p.critical) # CriticalCapacity => r.critical = Append(p.critical, m)
    BY <2>1, PushCriticalInv
  <2>3. Exhausts(p, m) <=> Len(p.critical) = CriticalCapacity
    BY <1>1 DEF Exhausts
  <2>4. QED
    BY <2>1, <2>2, <2>3 DEF Pushed, r
<1>2. CASE ~IsCritical(m.delivery) /\ ~IsReplaceable(m.delivery)
  <2>1. r = PushBestEffort(p, m) /\ ~Exhausts(p, m)
    BY <1>2 DEF Push, Exhausts
  <2>. HIDE DEF r
  <2>2. \/ r = p
        \/ /\ QueueInv(r) /\ r.best = Append(p.best, m)
           /\ r.critical = p.critical /\ r.latest = p.latest
    BY <2>1, PushBestInv
  <2>3. QED
    BY <1>2, <2>1, <2>2 DEF Pushed, r
<1>3. CASE ~IsCritical(m.delivery) /\ IsReplaceable(m.delivery)
  <2>1. r = PushLatest(p, m) /\ ~Exhausts(p, m)
    BY <1>3 DEF Push, Exhausts
  <2>2. ScopedKey(m) \in Scopes \X CoalesceKeys
    BY <1>3 DEF OutboundMessage, ScopedKey
  <2>. HIDE DEF r
  <2>3. /\ QueueInv(r) /\ r.critical = p.critical /\ FewerBest(p, r)
        /\ Newest(p, r, m) \/ (r = p /\ ScopedKey(m) \notin DOMAIN p.latest)
    BY <2>1, <2>2, PushLatestInv
  <2>4. QED
    BY <1>3, <2>1, <2>3 DEF Pushed, r
<1>4. QED
  BY <1>1, <1>2, <1>3

\* The messages of a queue are messages.
LEMMA MessagesType ==
  ASSUME NEW p, QueueType(p)
  PROVE  Messages(p) \subseteq OutboundMessage
<1>1. /\ p.critical \in Seq(OutboundMessage) /\ p.best \in Seq(OutboundMessage)
      /\ p.latest \in [DOMAIN p.latest -> OutboundMessage]
  BY QueueFields
<1>2. Elements(p.critical) \subseteq OutboundMessage /\ Elements(p.best) \subseteq OutboundMessage
  BY <1>1 DEF Elements
<1>3. Latest(p) \subseteq OutboundMessage
  BY <1>1 DEF Latest
<1>4. QED
  BY <1>2, <1>3 DEF Messages

\* A push brings nothing else into the queue.
LEMMA PushedMessages ==
  ASSUME NEW p, QueueType(p), NEW r, NEW m \in OutboundMessage, Pushed(p, r, m)
  PROVE  Messages(r) \subseteq Messages(p) \cup {m}
<1>1. p.critical \in Seq(OutboundMessage) /\ p.best \in Seq(OutboundMessage)
  BY QueueFields
<1>2. /\ Elements(Append(p.critical, m)) = Elements(p.critical) \cup {m}
      /\ Elements(Append(p.best, m)) = Elements(p.best) \cup {m}
  BY ONLY <1>1, m \in OutboundMessage, AppendElements
<1>3. FewerBest(p, r) => Elements(r.best) \subseteq Elements(p.best)
  <2>1. SUFFICES ASSUME FewerBest(p, r)
                 PROVE  Elements(r.best) \subseteq Elements(p.best)
    OBVIOUS
  <2>2. p.best # <<>> => Elements(Tail(p.best)) \subseteq Elements(p.best)
    BY ONLY <1>1, TailElements
  <2>3. QED
    BY <2>1, <2>2 DEF FewerBest
<1>4. FewerLatest(p, r) => Latest(r) \subseteq Latest(p)
  BY DEF FewerLatest, Latest
<1>5. Newest(p, r, m) => Latest(r) \subseteq Latest(p) \cup {m}
  BY DEF Newest, Latest
<1>6. r.latest = p.latest => Latest(r) = Latest(p)
  BY DEF Latest
<1>7. QED
  BY ONLY Pushed(p, r, m), <1>2, <1>3, <1>4, <1>5, <1>6 DEF Pushed, Messages

\* drain_matching returns messages.
LEMMA DrainedParts ==
  ASSUME NEW p, QueueType(p), Synced(p), NEW M
  PROVE  LET keys == Retain(p.order, {k \in DOMAIN p.latest : p.latest[k] \in M})
         IN  /\ Drained(p, M) = Retain(p.critical, M) \o Values(p, keys) \o Retain(p.best, M)
             /\ Retain(p.critical, M) \in Seq(OutboundMessage)
             /\ Retain(p.best, M) \in Seq(OutboundMessage)
             /\ Values(p, keys) \in Seq(OutboundMessage)
             /\ Drained(p, M) \in Seq(OutboundMessage)
             /\ Len(Values(p, keys)) = Cardinality({k \in DOMAIN p.latest : p.latest[k] \in M})
             /\ Elements(Values(p, keys)) =
                  {p.latest[k] : k \in {j \in DOMAIN p.latest : p.latest[j] \in M}}
<1>. DEFINE K    == {k \in DOMAIN p.latest : p.latest[k] \in M}
            keys == Retain(p.order, K)
            v    == Values(p, keys)
            c    == Retain(p.critical, M)
            b    == Retain(p.best, M)
<1>1. Drained(p, M) = c \o v \o b
  BY DEF Drained, Values
<1>2. /\ p.order \in Seq(Scopes \X CoalesceKeys)
      /\ p.critical \in Seq(OutboundMessage) /\ p.best \in Seq(OutboundMessage)
      /\ Elements(p.order) = DOMAIN p.latest /\ Injective(p.order)
  BY QueueFields DEF Synced
<1>3. K \subseteq DOMAIN p.latest
  OBVIOUS
<1>4. c \in Seq(OutboundMessage) /\ b \in Seq(OutboundMessage)
  BY ONLY <1>2, RetainType
<1>. HIDE DEF K
<1>5. /\ keys \in Seq(Scopes \X CoalesceKeys) /\ Injective(keys)
      /\ Elements(keys) = Elements(p.order) \cap K
  BY ONLY <1>2, RetainType, RetainElements, RetainInjective
<1>. HIDE DEF keys, c, b
<1>6. Elements(keys) = K
  BY ONLY <1>2, <1>3, <1>5
<1>7. /\ v \in Seq(OutboundMessage) /\ Len(v) = Len(keys)
      /\ Elements(v) = {p.latest[k] : k \in K}
  BY <1>3, <1>5, <1>6, ValuesAt
<1>8. Cardinality(K) = Len(keys)
  BY ONLY <1>5, <1>6, InjectiveCount
<1>. HIDE DEF v
<1>9. (c \o v) \o b \in Seq(OutboundMessage)
  BY ONLY <1>4, <1>7, ConcatAt
<1>10. QED
  BY <1>1, <1>4, <1>7, <1>8, <1>9 DEF K, keys, c, b, v
-----------------------------------------------------------------------------
\* The inductive invariant: pop's agreement with drain_matching follows from it.
Inv == TypeOK /\ QueueInv(q) /\ NewestWins /\ QueuedOnlyForRouted

\* A new queue is empty.
LEMMA NewQueueInv ==
  /\ QueueInv(NewQueue) /\ Messages(NewQueue) = {} /\ DOMAIN NewQueue.latest = {}
  /\ NewQueue.critical = <<>> /\ NewQueue.best = <<>> /\ NewQueue.latest = [k \in {} |-> 0]
<1>. DEFINE p == NewQueue
<1>1. /\ p.critical = <<>> /\ p.order = <<>> /\ p.best = <<>> /\ p.slow = FALSE
      /\ p.latest = [k \in {} |-> 0] /\ DOMAIN p.latest = {}
  BY DEF NewQueue
<1>2. QueueType(p)
  BY <1>1 DEF QueueType, NewQueue
<1>. HIDE DEF p
<1>3. Elements(p.order) = {} /\ Elements(p.critical) = {} /\ Elements(p.best) = {}
  BY <1>1 DEF Elements
<1>4. Synced(p)
  BY <1>1, <1>3 DEF Synced, Injective
<1>5. Cardinality(DOMAIN p.latest) = 0 /\ Len(p.critical) = 0 /\ Len(p.best) = 0
  BY <1>1, FS_EmptySet
<1>6. 0 <= CriticalCapacity /\ 0 <= LatestCapacity /\ 0 <= BestEffortCapacity
      /\ 0 + 0 + 0 <= TotalCapacity
  BY ONLY Capacities
<1>7. QueueInv(p)
  BY <1>2, <1>4, <1>5, <1>6, FitsByCount
<1>8. Messages(p) = {}
  BY <1>1, <1>3 DEF Messages, Latest
<1>9. QED
  BY <1>1, <1>7, <1>8 DEF p

\* QueuedOnlyForRouted, of the messages of the queue.
LEMMA RoutedMessages ==
  QueuedOnlyForRouted <=> (connected => \A m \in Messages(q) : route[m.scope] # "none")
BY DEF QueuedOnlyForRouted, Messages, Latest

\* Every step keeps the invariant.
LEMMA StepKeeps ==
  ASSUME Inv, [Next]_vars
  PROVE  Inv'
<1>1. /\ QueueInv(q) /\ QueueType(q) /\ Synced(q)
      /\ connected \in BOOLEAN /\ registered \in BOOLEAN /\ route \in [Scopes -> Routes]
      /\ out \in Seq(OutboundMessage) /\ stamp \in Nat /\ newest \in [ScopedKeys -> Nat]
  BY DEF Inv, TypeOK, QueueInv
<1>2. Messages(q) \subseteq OutboundMessage
  BY <1>1, MessagesType
<1>3. \A k \in DOMAIN q.latest : q.latest[k].stamp = newest[k]
  BY DEF Inv, NewestWins
<1>4. connected => \A m \in Messages(q) : route[m.scope] # "none"
  BY RoutedMessages DEF Inv
<1>5. SUFFICES /\ QueueInv(q') /\ connected' \in BOOLEAN /\ registered' \in BOOLEAN
               /\ route' \in [Scopes -> Routes] /\ out' \in Seq(OutboundMessage)
               /\ stamp' \in Nat /\ newest' \in [ScopedKeys -> Nat]
               /\ \A k \in DOMAIN q'.latest : q'.latest[k].stamp = newest'[k]
               /\ connected' => \A m \in Messages(q') : route'[m.scope] # "none"
  BY DEF Inv, TypeOK, QueueInv, NewestWins, QueuedOnlyForRouted, Messages, Latest
<1>6. <<>> \in Seq(OutboundMessage)
  OBVIOUS
<1>7. CASE TransportConnected
  <2>1. q' = NewQueue /\ QueueInv(q') /\ Messages(q') = {} /\ DOMAIN q'.latest = {}
    BY <1>7, NewQueueInv DEF TransportConnected
  <2>2. QED
    BY <1>1, <1>6, <1>7, <2>1 DEF TransportConnected, Routes
<1>8. ASSUME NEW d \in Deliveries, NEW s \in Scopes, NEW k \in CoalesceKeys \cup {NoKey},
             Publish(d, s, k)
      PROVE  /\ QueueInv(q') /\ connected' \in BOOLEAN /\ registered' \in BOOLEAN
             /\ route' \in [Scopes -> Routes] /\ out' \in Seq(OutboundMessage)
             /\ stamp' \in Nat /\ newest' \in [ScopedKeys -> Nat]
             /\ \A j \in DOMAIN q'.latest : q'.latest[j].stamp = newest'[j]
             /\ connected' => \A m \in Messages(q') : route'[m.scope] # "none"
  <2>. DEFINE m == [delivery |-> d, scope |-> s, key |-> k, stamp |-> stamp + 1]
  <2>1. /\ m \in OutboundMessage /\ m.key = k /\ m.scope = s /\ m.stamp = stamp + 1
        /\ m.delivery = d /\ ScopedKey(m) = <<s, k>>
    BY <1>1, DeliveriesAssumption DEF OutboundMessage, ScopedKey
  <2>2. /\ connected /\ route[s] # "none" /\ q' = Push(q, m)
        /\ k # NoKey <=> IsReplaceable(d)
        /\ connected' = ~Exhausts(q, m) /\ stamp' = stamp + 1 /\ out' = <<>>
        /\ registered' = registered /\ route' = route
        /\ newest' = IF k = NoKey THEN newest ELSE [newest EXCEPT ![<<s, k>>] = stamp + 1]
    BY <1>8 DEF Publish
  <2>. HIDE DEF m
  <2>3. QueueInv(q') /\ Pushed(q, q', m)
    BY <1>1, <2>1, <2>2, PushInv
  <2>4. Messages(q') \subseteq Messages(q) \cup {m}
    BY <1>1, <2>1, <2>3, PushedMessages
  <2>5. /\ newest' \in [ScopedKeys -> Nat] /\ stamp' \in Nat
        /\ k # NoKey => newest'[<<s, k>>] = stamp + 1
        /\ \A j \in ScopedKeys : k = NoKey \/ j # <<s, k>> => newest'[j] = newest[j]
    BY <1>1, <2>2 DEF ScopedKeys
  <2>6. DOMAIN q.latest \subseteq ScopedKeys /\ DOMAIN q'.latest \subseteq ScopedKeys
    BY <1>1, <2>3, QueueFields DEF QueueInv, ScopedKeys
  <2>7. ASSUME NEW j \in DOMAIN q'.latest
        PROVE  q'.latest[j].stamp = newest'[j]
    <3>1. CASE ~IsReplaceable(m.delivery)
      <4>1. j \in DOMAIN q.latest /\ q'.latest[j] = q.latest[j]
        BY <2>3, <3>1 DEF Pushed, FewerLatest
      <4>2. k = NoKey
        BY <2>1, <2>2, <3>1
      <4>3. QED
        BY <1>3, <2>5, <2>6, <4>1, <4>2
    <3>2. CASE IsReplaceable(m.delivery) /\ Newest(q, q', m)
      <4>1. k # NoKey
        BY <2>1, <2>2, <3>2
      <4>2. CASE j = <<s, k>>
        BY <2>1, <2>5, <3>2, <4>1, <4>2 DEF Newest
      <4>3. CASE j # <<s, k>>
        BY <1>3, <2>1, <2>5, <2>6, <3>2, <4>3 DEF Newest
      <4>4. QED
        BY <4>2, <4>3
    <3>3. CASE IsReplaceable(m.delivery) /\ ~Newest(q, q', m)
      <4>1. q'.latest = q.latest /\ <<s, k>> \notin DOMAIN q.latest
        BY <2>1, <2>3, <3>3 DEF Pushed, Exhausts, IsCritical, IsReplaceable
      <4>2. QED
        BY <1>3, <2>5, <2>6, <4>1
    <3>4. QED
      BY <3>1, <3>2, <3>3
  <2>8. \A x \in Messages(q') : route'[x.scope] # "none"
    BY <1>4, <2>1, <2>2, <2>4
  <2>9. QED
    BY <1>1, <1>6, <2>2, <2>3, <2>5, <2>7, <2>8
<1>9. ASSUME NEW s \in Scopes, Subscribe(s) \/ Activate(s)
      PROVE  /\ route' \in [Scopes -> Routes] /\ out' \in Seq(OutboundMessage)
             /\ UNCHANGED <<q, connected, registered, stamp, newest>>
             /\ \A r \in Scopes : route[r] # "none" => route'[r] # "none"
  BY <1>1, <1>6, <1>9 DEF Subscribe, Activate, Routes
<1>10. ASSUME NEW M, q' = Without(q, M)
       PROVE  /\ QueueInv(q') /\ Messages(q') = Messages(q) \ M
              /\ \A k \in DOMAIN q'.latest : k \in DOMAIN q.latest /\ q'.latest[k] = q.latest[k]
  <2>. DEFINE r == Without(q, M)
  <2>1. QueueInv(r) /\ FewerLatest(q, r) /\ Messages(r) = Messages(q) \ M
    BY <1>1, WithoutInv
  <2>. HIDE DEF r
  <2>2. q' = r
    BY <1>10 DEF r
  <2>3. QED
    BY <2>1, <2>2 DEF FewerLatest
<1>11. ASSUME NEW s \in Scopes, Unsubscribe(s)
       PROVE  /\ QueueInv(q') /\ connected' \in BOOLEAN /\ registered' \in BOOLEAN
              /\ route' \in [Scopes -> Routes] /\ out' \in Seq(OutboundMessage)
              /\ stamp' \in Nat /\ newest' \in [ScopedKeys -> Nat]
              /\ \A k \in DOMAIN q'.latest : q'.latest[k].stamp = newest'[k]
              /\ connected' => \A m \in Messages(q') : route'[m.scope] # "none"
  <2>. DEFINE M == {m \in OutboundMessage : m.scope = s}
  <2>1. /\ connected /\ connected' = connected /\ registered' = registered /\ stamp' = stamp
        /\ newest' = newest /\ out' = <<>> /\ q' = Without(q, M)
        /\ route' = [route EXCEPT ![s] = "none"]
    BY <1>11 DEF Unsubscribe, Purge
  <2>2. /\ QueueInv(q') /\ Messages(q') = Messages(q) \ M
        /\ \A k \in DOMAIN q'.latest : k \in DOMAIN q.latest /\ q'.latest[k] = q.latest[k]
    BY <1>10, <2>1
  <2>3. ASSUME NEW m \in Messages(q') PROVE route'[m.scope] # "none"
    <3>1. m \in OutboundMessage /\ m.scope # s /\ m \in Messages(q)
      BY <1>2, <2>2
    <3>2. m.scope \in Scopes /\ route[m.scope] # "none"
      BY <1>4, <2>1, <3>1 DEF OutboundMessage
    <3>3. QED
      BY <1>1, <2>1, <3>1, <3>2
  <2>4. route' \in [Scopes -> Routes]
    BY <1>1, <2>1 DEF Routes
  <2>5. QED
    BY <1>1, <1>3, <1>6, <2>1, <2>2, <2>3, <2>4
<1>12. ASSUME NEW M, PurgeEntity(M)
       PROVE  /\ q' = Without(q, M) /\ out' = <<>>
              /\ UNCHANGED <<connected, registered, route, stamp, newest>>
  BY <1>12 DEF PurgeEntity, Purge
<1>13. CASE DrainOutbound
  <2>. DEFINE M == {m \in OutboundMessage : registered => route[m.scope] = "active"}
  <2>1. /\ q' = Without(q, M) /\ out' = Drained(q, M)
        /\ UNCHANGED <<connected, registered, route, stamp, newest>>
    BY <1>13 DEF DrainOutbound, DrainMatching
  <2>. HIDE DEF M
  <2>2. out' \in Seq(OutboundMessage)
    BY <1>1, <2>1, DrainedParts
  <2>3. QED
    BY <1>1, <1>3, <1>4, <1>10, <2>1, <2>2
<1>14. CASE TransportLost
  BY <1>1, <1>3, <1>6, <1>14 DEF TransportLost
<1>15. CASE UNCHANGED vars
  BY <1>1, <1>3, <1>4, <1>15 DEF vars
<1>16. CASE \E s \in Scopes : Subscribe(s) \/ Activate(s)
  <2>1. PICK s \in Scopes : Subscribe(s) \/ Activate(s)
    BY <1>16
  <2>2. /\ route' \in [Scopes -> Routes] /\ out' \in Seq(OutboundMessage)
        /\ UNCHANGED <<q, connected, registered, stamp, newest>>
        /\ \A r \in Scopes : route[r] # "none" => route'[r] # "none"
    BY <1>9, <2>1
  <2>3. \A m \in Messages(q) : m.scope \in Scopes
    BY <1>2 DEF OutboundMessage
  <2>4. QED
    BY <1>1, <1>3, <1>4, <2>2, <2>3
<1>17. CASE \E M : PurgeEntity(M)
  BY <1>1, <1>3, <1>4, <1>6, <1>10, <1>12, <1>17
<1>18. QED
  BY <1>7, <1>8, <1>11, <1>13, <1>14, <1>15, <1>16, <1>17 DEF Next
\* The invariant holds at the start.
LEMMA InitInv == Init => Inv
<1>1. SUFFICES ASSUME Init PROVE Inv
  OBVIOUS
<1>2. QueueInv(q) /\ QueueType(q) /\ Messages(q) = {} /\ DOMAIN q.latest = {}
  BY <1>1, NewQueueInv DEF Init, QueueInv
<1>3. TypeOK
  <2>1. /\ route \in [Scopes -> Routes] /\ out \in Seq(OutboundMessage)
        /\ stamp \in Nat /\ newest \in [ScopedKeys -> Nat]
    BY <1>1 DEF Init, Routes
  <2>2. connected \in BOOLEAN /\ registered \in BOOLEAN
    BY <1>1 DEF Init
  <2>3. QED
    BY <1>2, <2>1, <2>2 DEF TypeOK
<1>4. NewestWins /\ QueuedOnlyForRouted
  BY <1>2, RoutedMessages DEF NewestWins
<1>5. QED
  BY <1>2, <1>3, <1>4 DEF Inv

\* The queue's structures agree in every reachable state (QueueSound): no class
\* and no total outgrows its capacity, the three expect("latest order and values
\* remain synchronized") of queue.rs cannot fail, a coalesced value is the newest
\* one, nothing is left of a space that was left, and pop and drain_matching hand
\* out the same sequence.
THEOREM QueueStaysSound == Spec => []QueueSound
<1>1. Init => Inv
  BY InitInv
<1>2. Inv /\ [Next]_vars => Inv'
  BY StepKeeps
<1>3. Inv => QueueSound
  <2>1. SUFFICES ASSUME Inv PROVE QueueSound
    OBVIOUS
  <2>2. QueueType(q) /\ Fits(q) /\ Synced(q)
    BY <2>1 DEF Inv, QueueInv
  <2>3. WithinCapacity /\ OrderSynchronized
    BY <2>2 DEF WithinCapacity, OrderSynchronized, Fits, Synced, Injective
  <2>4. PopAgreesWithDrain
    BY <2>2, PopAgrees DEF PopAgreesWithDrain
  <2>5. QED
    BY <2>1, <2>3, <2>4 DEF Inv, QueueSound
<1>4. QED
  BY <1>1, <1>2, <1>3, PTL DEF Spec
-----------------------------------------------------------------------------
\* DeliveryContract takes out messages with the same operators.
LEMMA ContractOps ==
  /\ \A S : Contract!Cardinality(S) = Cardinality(S)
  /\ \A s, S : Contract!Retain(s, S) = Retain(s, S)
  /\ \A s : Contract!Elements(s) = Elements(s)
<1>1. ASSUME NEW S
      PROVE  Contract!Cardinality(S) = Cardinality(S)
  BY DEF Contract!Cardinality, Cardinality
<1>2. ASSUME NEW s, NEW S
      PROVE  Contract!Retain(s, S) = Retain(s, S)
  BY DEF Contract!Retain, Retain, Contract!Positions, Positions, Contract!Rank, Rank,
         Contract!Cardinality, Cardinality
<1>3. ASSUME NEW s
      PROVE  Contract!Elements(s) = Elements(s)
  BY DEF Contract!Elements, Elements
<1>4. QED
  BY <1>1, <1>2, <1>3

\* Making room takes the oldest best-effort message at most, and any latest
\* values: what the contract allows to be lost.
LEMMA ContractLosses ==
  ASSUME NEW p, QueueType(p), NEW r
  PROVE  /\ FewerBest(p, r) => Contract!LosesFirst(p.best, r.best)
         /\ FewerLatest(p, r) => Contract!Loses(p.latest, r.latest)
<1>1. p.best \in Seq(OutboundMessage) /\ Len(p.best) \in Nat
  BY QueueFields
<1>2. ASSUME r.best = p.best
      PROVE  Contract!LosesFirst(p.best, r.best)
  <2>1. p.best = SubSeq(p.best, 0 + 1, Len(p.best)) /\ 0 \in 0..Len(p.best)
    BY <1>1
  <2>2. QED
    BY <1>2, <2>1 DEF Contract!LosesFirst
<1>3. ASSUME p.best # <<>>, r.best = Tail(p.best)
      PROVE  Contract!LosesFirst(p.best, r.best)
  <2>1. Tail(p.best) = SubSeq(p.best, 1 + 1, Len(p.best)) /\ 1 \in 0..Len(p.best)
    BY <1>1, <1>3
  <2>2. QED
    BY <1>3, <2>1 DEF Contract!LosesFirst
<1>4. FewerLatest(p, r) => Contract!Loses(p.latest, r.latest)
  BY DEF FewerLatest, Contract!Loses
<1>5. QED
  BY <1>2, <1>3, <1>4 DEF FewerBest

\* M and N take the same out of every class of p.
SameOf(p, M, N) ==
  /\ Retain(p.critical, N) = Retain(p.critical, M)
  /\ Retain(p.best, N) = Retain(p.best, M)
  /\ Retain(p.critical, Elements(p.critical) \ N) = Retain(p.critical, Elements(p.critical) \ M)
  /\ Retain(p.best, Elements(p.best) \ N) = Retain(p.best, Elements(p.best) \ M)
  /\ {k \in DOMAIN p.latest : p.latest[k] \in N} = {k \in DOMAIN p.latest : p.latest[k] \in M}
  /\ {k \in DOMAIN p.latest : p.latest[k] \notin N} =
       {k \in DOMAIN p.latest : p.latest[k] \notin M}

\* The contract's steps take subsets of what is queued: the queued messages of M
\* do for M.
LEMMA OnlyQueued ==
  ASSUME NEW p, NEW M
  PROVE  SameOf(p, M, M \cap Messages(p))
<1>. DEFINE N == M \cap Messages(p)
<1>1. \A i \in DOMAIN p.critical : /\ p.critical[i] \in Elements(p.critical)
                                   /\ p.critical[i] \in N <=> p.critical[i] \in M
  BY DEF Messages, Elements
<1>2. \A i \in DOMAIN p.best : /\ p.best[i] \in Elements(p.best)
                               /\ p.best[i] \in N <=> p.best[i] \in M
  BY DEF Messages, Elements
<1>3. \A k \in DOMAIN p.latest : p.latest[k] \in N <=> p.latest[k] \in M
  BY DEF Messages, Latest
<1>. HIDE DEF N
<1>4. Retain(p.critical, N) = Retain(p.critical, M)
  BY ONLY <1>1, RetainSame
<1>5. Retain(p.best, N) = Retain(p.best, M)
  BY ONLY <1>2, RetainSame
<1>6. Retain(p.critical, Elements(p.critical) \ N) = Retain(p.critical, Elements(p.critical) \ M)
  <2>1. \A i \in DOMAIN p.critical : p.critical[i] \in Elements(p.critical) \ N <=>
                                     p.critical[i] \in Elements(p.critical) \ M
    BY ONLY <1>1
  <2>2. QED
    BY ONLY <2>1, RetainSame
<1>7. Retain(p.best, Elements(p.best) \ N) = Retain(p.best, Elements(p.best) \ M)
  <2>1. \A i \in DOMAIN p.best : p.best[i] \in Elements(p.best) \ N <=>
                                 p.best[i] \in Elements(p.best) \ M
    BY ONLY <1>2
  <2>2. QED
    BY ONLY <2>1, RetainSame
<1>8. /\ {k \in DOMAIN p.latest : p.latest[k] \in N} = {k \in DOMAIN p.latest : p.latest[k] \in M}
      /\ {k \in DOMAIN p.latest : p.latest[k] \notin N} =
           {k \in DOMAIN p.latest : p.latest[k] \notin M}
  BY ONLY <1>3
<1>9. SameOf(p, M, N)
  BY ONLY <1>4, <1>5, <1>6, <1>7, <1>8 DEF SameOf
<1>10. QED
  BY <1>9 DEF N
\* A publish is what the contract calls accepting a message, or dropping one
\* that may be lost, or losing the connection.
LEMMA PublishAllowed ==
  ASSUME Inv, NEW d \in Deliveries, NEW s \in Scopes, NEW k \in CoalesceKeys \cup {NoKey},
         Publish(d, s, k)
  PROVE  Contract!Next
<1>. DEFINE m == [delivery |-> d, scope |-> s, key |-> k, stamp |-> stamp + 1]
<1>1. QueueInv(q) /\ QueueType(q) /\ stamp \in Nat
  BY DEF Inv, QueueInv, TypeOK
<1>2. m \in OutboundMessage /\ (m.key # NoKey <=> IsReplaceable(m.delivery))
  BY <1>1, DeliveriesAssumption DEF OutboundMessage, Publish
<1>3. connected /\ q' = Push(q, m) /\ connected' = ~Exhausts(q, m) /\ out' = <<>>
  BY DEF Publish
<1>. HIDE DEF m
<1>4. Pushed(q, q', m)
  BY <1>1, <1>2, <1>3, PushInv
<1>5. q.critical \in Seq(OutboundMessage) /\ q.best \in Seq(OutboundMessage)
  BY <1>1, QueueFields
<1>6. /\ FewerBest(q, q') => Contract!LosesFirst(q.best, q'.best)
      /\ FewerLatest(q, q') => Contract!Loses(q.latest, q'.latest)
  BY <1>1, ContractLosses
<1>7. CASE Exhausts(q, m)
  <2>1. q'.critical = q.critical /\ q'.latest = q.latest /\ q'.best = q.best
    BY <1>4, <1>7 DEF Pushed
  <2>2. Contract!Disconnect
    BY <1>3, <1>7, <2>1 DEF Contract!Disconnect
  <2>3. QED
    BY <2>2 DEF Contract!Next
<1>8. CASE ~Exhausts(q, m)
  <2>1. SUFFICES \/ Contract!AcceptReliable
                 \/ Contract!AcceptFresh
                 \/ Contract!AcceptLossy
                 \/ q'.critical = q.critical /\ q'.latest = q.latest /\ q'.best = q.best
    BY <1>3, <1>8 DEF Contract!Next, Contract!Accept
  <2>2. CASE q'.critical = Append(q.critical, m) /\ FewerLatest(q, q') /\ FewerBest(q, q')
    <3>1. q'.critical # <<>> /\ q'.critical = Append(q.critical, q'.critical[Len(q'.critical)])
      BY <1>2, <1>5, <2>2, AppendAt, SMTT(30)
    <3>2. Contract!AcceptReliable
      BY <1>6, <2>2, <3>1 DEF Contract!AcceptReliable
    <3>3. QED
      BY <3>2
  <2>3. CASE q'.critical = q.critical /\ Newest(q, q', m) /\ FewerBest(q, q')
    <3>. DEFINE h == ScopedKey(m)
                f == [j \in DOMAIN q.latest \ {h} |-> q.latest[j]]
                g == [j \in DOMAIN q'.latest \ {h} |-> q'.latest[j]]
    <3>1. h \in DOMAIN q'.latest
      BY <2>3 DEF Newest
    <3>2. Contract!Loses(f, g)
      BY <2>3 DEF Newest, Contract!Loses
    <3>. HIDE DEF h
    <3>3. Contract!AcceptFresh
      BY <1>6, <2>3, <3>1, <3>2 DEF Contract!AcceptFresh
    <3>4. QED
      BY <3>3
  <2>4. CASE q'.best = Append(q.best, m) /\ q'.critical = q.critical /\ q'.latest = q.latest
    <3>1. q'.best # <<>> /\ q'.best = Append(q.best, q'.best[Len(q'.best)])
      BY <1>2, <1>5, <2>4, AppendAt
    <3>2. Contract!AcceptLossy
      BY <2>4, <3>1 DEF Contract!AcceptLossy
    <3>3. QED
      BY <3>2
  <2>5. CASE q' = q
    BY <2>5
  <2>6. QED
    BY <1>4, <1>8, <2>2, <2>3, <2>4, <2>5 DEF Pushed
<1>9. QED
  BY <1>7, <1>8

\* Purging and draining take out exactly the contract's Remove.
LEMMA RemoveAllowed ==
  ASSUME Inv, NEW M, q' = Without(q, M)
  PROVE  Contract!Remove(M \cap Messages(q))
<1>. DEFINE N == M \cap Messages(q)
            r == Without(q, M)
<1>1. QueueInv(q)
  BY DEF Inv
<1>2. /\ r.critical = Retain(q.critical, Elements(q.critical) \ M)
      /\ r.best = Retain(q.best, Elements(q.best) \ M)
      /\ r.latest = [k \in {j \in DOMAIN q.latest : q.latest[j] \notin M} |-> q.latest[k]]
  BY <1>1, WithoutInv
<1>3. /\ Retain(q.critical, Elements(q.critical) \ N) = Retain(q.critical, Elements(q.critical) \ M)
      /\ Retain(q.best, Elements(q.best) \ N) = Retain(q.best, Elements(q.best) \ M)
      /\ {j \in DOMAIN q.latest : q.latest[j] \notin N} =
           {j \in DOMAIN q.latest : q.latest[j] \notin M}
  <2>1. SameOf(q, M, N)
    BY OnlyQueued
  <2>. HIDE DEF N
  <2>2. QED
    BY ONLY <2>1 DEF SameOf
<1>4. q' = r
  OBVIOUS
<1>. HIDE DEF N, r
<1>5. /\ q'.critical = Contract!Retain(q.critical, Contract!Elements(q.critical) \ N)
      /\ q'.best = Contract!Retain(q.best, Contract!Elements(q.best) \ N)
      /\ q'.latest = [k \in {j \in DOMAIN q.latest : q.latest[j] \notin N} |-> q.latest[k]]
  BY ONLY <1>2, <1>3, <1>4, ContractOps
<1>6. Contract!Remove(N)
  BY <1>5 DEF Contract!Remove
<1>7. QED
  BY <1>6 DEF N

\* drain_matching hands out exactly the messages that it takes out, as the
\* contract's Deliver: reliable ones first and in order, one value for each key,
\* then best effort in order.
LEMMA DrainAllowed ==
  ASSUME Inv, NEW M, connected, connected' = connected, out' = Drained(q, M),
         q' = Without(q, M)
  PROVE  Contract!Deliver(M \cap Messages(q))
<1>. DEFINE N == M \cap Messages(q)
            K == {k \in DOMAIN q.latest : q.latest[k] \in M}
            c == Retain(q.critical, M)
            b == Retain(q.best, M)
            v == Values(q, Retain(q.order, K))
<1>1. QueueType(q) /\ Synced(q)
  BY DEF Inv, QueueInv
<1>2. /\ Drained(q, M) = c \o v \o b
      /\ c \in Seq(OutboundMessage) /\ b \in Seq(OutboundMessage) /\ v \in Seq(OutboundMessage)
      /\ Len(v) = Cardinality(K) /\ Elements(v) = {q.latest[k] : k \in K}
  BY <1>1, DrainedParts
<1>3. /\ Retain(q.critical, N) = c /\ Retain(q.best, N) = b
      /\ {k \in DOMAIN q.latest : q.latest[k] \in N} = K
  <2>1. SameOf(q, M, N)
    BY OnlyQueued
  <2>. HIDE DEF N
  <2>2. QED
    BY ONLY <2>1 DEF SameOf, c, b, K
<1>4. Contract!Remove(N)
  BY RemoveAllowed
<1>5. out' = c \o v \o b
  BY <1>2
<1>6. Contract!Retain(q.critical, N) = c /\ Contract!Retain(q.best, N) = b
  BY ONLY <1>3, ContractOps
<1>. HIDE DEF N, c, b, v
<1>7. SubSeq(out', Len(c) + 1, Len(out') - Len(b)) = v
  <2>1. SubSeq(c \o v \o b, Len(c) + 1, Len(c \o v \o b) - Len(b)) = v
    BY ONLY <1>2, Middle
  <2>2. QED
    BY ONLY <1>5, <2>1
<1>8. Len(v) = Contract!Cardinality({k \in DOMAIN q.latest : q.latest[k] \in N})
  BY ONLY <1>2, <1>3, ContractOps
<1>9. Contract!Elements(v) =
        {q.latest[k] : k \in {k \in DOMAIN q.latest : q.latest[k] \in N}}
  BY ONLY <1>2, <1>3, ContractOps
<1>. HIDE DEF K
<1>10. Contract!Deliver(N)
  BY ONLY connected, connected' = connected, <1>4, <1>5, <1>6, <1>7, <1>8, <1>9
     DEF Contract!Deliver
<1>11. QED
  BY <1>10 DEF N

\* Every step of the queue is a step of the contract.
LEMMA StepAllowed ==
  ASSUME Inv, [Next]_vars
  PROVE  [Contract!Next]_(Contract!vars)
<1>1. ASSUME NEW M PROVE M \cap Messages(q) \in SUBSET Contract!Contents
  BY ContractOps DEF Messages, Latest, Contract!Contents
<1>2. CASE TransportConnected
  <2>1. /\ ~connected /\ connected' /\ out' = <<>> /\ q'.critical = <<>> /\ q'.best = <<>>
        /\ q'.latest = [k \in {} |-> 0]
    BY <1>2, NewQueueInv DEF TransportConnected
  <2>2. QED
    BY <2>1 DEF Contract!Next, Contract!Connect
<1>3. CASE \E d \in Deliveries, s \in Scopes, k \in CoalesceKeys \cup {NoKey} : Publish(d, s, k)
  BY <1>3, PublishAllowed
<1>4. CASE \E s \in Scopes : Subscribe(s) \/ Activate(s)
  <2>1. connected /\ connected' = connected /\ out' = <<>> /\ q' = q
    BY <1>4 DEF Subscribe, Activate
  <2>2. QED
    BY <2>1 DEF Contract!Next, Contract!Accept
<1>5. ASSUME NEW M, q' = Without(q, M), connected, connected' = connected, out' = <<>>
      PROVE  Contract!Next
  <2>1. Contract!Remove(M \cap Messages(q))
    BY <1>5, RemoveAllowed
  <2>2. Contract!Discard(M \cap Messages(q))
    BY <1>5, <2>1 DEF Contract!Discard
  <2>3. QED
    BY <1>1, <2>2 DEF Contract!Next
<1>6. CASE \E s \in Scopes : Unsubscribe(s)
  BY <1>5, <1>6 DEF Unsubscribe, Purge
<1>7. CASE \E M : PurgeEntity(M)
  BY <1>5, <1>7 DEF PurgeEntity, Purge
<1>8. CASE DrainOutbound
  <2>. DEFINE M == {m \in OutboundMessage : registered => route[m.scope] = "active"}
  <2>1. connected /\ connected' = connected /\ out' = Drained(q, M) /\ q' = Without(q, M)
    BY <1>8 DEF DrainOutbound, DrainMatching
  <2>. HIDE DEF M
  <2>2. Contract!Deliver(M \cap Messages(q))
    BY <2>1, DrainAllowed
  <2>3. QED
    BY <1>1, <2>2 DEF Contract!Next
<1>9. CASE TransportLost
  <2>1. connected /\ ~connected' /\ out' = <<>> /\ q' = q
    BY <1>9 DEF TransportLost
  <2>2. QED
    BY <2>1 DEF Contract!Next, Contract!Disconnect
<1>10. CASE UNCHANGED vars
  BY <1>10 DEF vars, Contract!vars
<1>11. QED
  BY <1>2, <1>3, <1>4, <1>6, <1>7, <1>8, <1>9, <1>10 DEF Next

\* The outbound queue implements DeliveryContract (KeepsContract), whatever its
\* capacities: an accepted reliable message is handed out, in order, unless it is
\* purged or the connection goes down; a coalesced value is only ever replaced by
\* a newer one; best-effort messages are lost from the front only.
THEOREM QueueKeepsContract == Spec => KeepsContract
<1>1. Init => Inv /\ Contract!Init
  BY InitInv, NewQueueInv DEF Init, Contract!Init
<1>2. Inv /\ [Next]_vars => Inv'
  BY StepKeeps
<1>3. Inv /\ [Next]_vars => [Contract!Next]_(Contract!vars)
  BY StepAllowed
<1>4. QED
  BY <1>1, <1>2, <1>3, PTL DEF Spec, KeepsContract, Contract!Spec

=============================================================================
