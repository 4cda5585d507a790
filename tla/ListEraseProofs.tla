--------------------------- MODULE ListEraseProofs ---------------------------
(***************************************************************************)
(* What a list keeps when std::list::remove or erase takes elements out of *)
(* it: lemmas for the proofs about the dispatchers' lists of emissions.    *)
(***************************************************************************)
EXTENDS ListErase, SequencesExt, FiniteSetTheorems, SequenceTheorems, TLAPS

\* The places that are left, and how many of them come no later than `i`.
Left(s, places) == DOMAIN s \ places
UpTo(left, i) == {j \in left : j <= i}
Rank(left, i) == Cardinality(UpTo(left, i))

\* An increasing enumeration of the places that are left.
Enumerates(m, n, left) ==
    /\ m \in [1 .. n -> left]
    /\ \A k, l \in 1 .. n : k < l => m[k] < m[l]
    /\ \A i \in left : \E k \in 1 .. n : m[k] = i

\* The rank of the k-th place is k.
LEMMA EnumeratedRank ==
    ASSUME NEW left \in SUBSET Nat, NEW n \in Nat, NEW m, Enumerates(m, n, left),
           NEW k \in 1 .. n
    PROVE  Rank(left, m[k]) = k
<1> DEFINE upTo == {j \in left : j <= m[k]}
           f == [l \in 1 .. k |-> m[l]]
<1>1. f \in [1 .. k -> upTo]
  <2> SUFFICES ASSUME NEW l \in 1 .. k PROVE m[l] \in upTo
    OBVIOUS
  <2>1. l \in 1 .. n /\ (l = k \/ l < k)
    OBVIOUS
  <2>2. m[l] \in left /\ m[l] \in Nat /\ m[k] \in Nat
    BY <2>1 DEF Enumerates
  <2>3. m[l] = m[k] \/ m[l] < m[k]
    BY <2>1 DEF Enumerates
  <2>4. m[l] <= m[k]
    BY <2>2, <2>3
  <2> QED BY <2>2, <2>4
<1>2. \A a, b \in 1 .. k : f[a] = f[b] => a = b
  <2> SUFFICES ASSUME NEW a \in 1 .. k, NEW b \in 1 .. k, m[a] = m[b] PROVE a = b
    OBVIOUS
  <2>0. a \in 1 .. n /\ b \in 1 .. n
    OBVIOUS
  <2>1. m[a] \in Nat /\ m[b] \in Nat
    BY <2>0 DEF Enumerates
  <2>2. ~ a < b /\ ~ b < a
    BY <2>0, <2>1 DEF Enumerates
  <2> QED BY <2>2
<1>3. \A j \in upTo : \E l \in 1 .. k : f[l] = j
  <2> SUFFICES ASSUME NEW j \in upTo PROVE \E l \in 1 .. k : m[l] = j
    OBVIOUS
  <2>1. PICK l \in 1 .. n : m[l] = j
    BY DEF Enumerates
  <2>2. m[k] \in Nat /\ m[l] \in Nat
    BY DEF Enumerates
  <2>3. ~ k < l
    BY <2>1, <2>2 DEF Enumerates
  <2> QED BY <2>1, <2>3
<1>4. ExistsBijection(1 .. k, upTo)
  <2> HIDE DEF f, upTo
  <2> QED
    BY <1>1, <1>2, <1>3 DEF ExistsBijection, Bijection, Injection, IsInjective, Surjection
<1> QED BY <1>4, FS_CountingElements DEF Rank, UpTo

\* Without() follows any such enumeration.
LEMMA WithoutEnumerated ==
    ASSUME NEW s, NEW places, Left(s, places) \in SUBSET Nat,
           NEW n \in Nat, NEW m, Enumerates(m, n, Left(s, places))
    PROVE  Without(s, places) = [k \in 1 .. n |-> s[m[k]]]
<1> DEFINE left == Left(s, places)
           rank == [i \in left |-> Rank(left, i)]
           kept(k) == CHOOSE i \in left : rank[i] = k
<1>1. Cardinality(left) = n
  <2>1. \A a, b \in 1 .. n : m[a] = m[b] => a = b
    <3> SUFFICES ASSUME NEW a \in 1 .. n, NEW b \in 1 .. n, m[a] = m[b] PROVE a = b
      OBVIOUS
    <3>1. Rank(left, m[a]) = a /\ Rank(left, m[b]) = b
      BY EnumeratedRank
    <3> QED BY <3>1
  <2>2. ExistsBijection(1 .. n, left)
    BY <2>1 DEF ExistsBijection, Bijection, Injection, IsInjective, Surjection, Enumerates
  <2> QED BY <2>2, FS_CountingElements
<1>2. ASSUME NEW k \in 1 .. n PROVE kept(k) = m[k]
  <2>1. m[k] \in left /\ Rank(left, m[k]) = k
    BY EnumeratedRank DEF Enumerates
  <2>2. ASSUME NEW i \in left, Rank(left, i) = k PROVE i = m[k]
    <3>1. PICK l \in 1 .. n : m[l] = i
      BY DEF Enumerates
    <3>2. l = k
      BY <2>2, <3>1, EnumeratedRank
    <3> QED BY <3>1, <3>2
  <2>3. \A i \in left : rank[i] = k <=> i = m[k]
    BY <2>1, <2>2
  <2> HIDE DEF left, rank
  <2> QED BY <2>1, <2>3
<1>3. Without(s, places) = [k \in 1 .. Cardinality(left) |-> s[kept(k)]]
  BY DEF Without, Rank, UpTo, Left
<1> HIDE DEF left, rank, kept
<1> QED BY <1>1, <1>2, <1>3

\* There is one: the place of rank k, for each k.
LEMMA EnumerationExists ==
    ASSUME NEW left \in SUBSET Nat, IsFiniteSet(left)
    PROVE  \E n \in Nat : \E m : Enumerates(m, n, left)
<1> DEFINE n == Cardinality(left)
           rank == [i \in left |-> Rank(left, i)]
<1>0. \A i \in left : i \in Nat
  OBVIOUS
<1>1. n \in Nat
  BY FS_CardinalityType
<1>2. ASSUME NEW i \in left
      PROVE  IsFiniteSet(UpTo(left, i)) /\ Rank(left, i) \in 1 .. n
  <2>0. UpTo(left, i) \in SUBSET left
    BY DEF UpTo
  <2>1. IsFiniteSet(UpTo(left, i)) /\ Cardinality(UpTo(left, i)) <= n /\ Cardinality(UpTo(left, i)) \in Nat
    BY <2>0, FS_Subset, FS_CardinalityType
  <2>2. i \in UpTo(left, i)
    BY <1>0 DEF UpTo
  <2>3. Cardinality(UpTo(left, i)) # 0
    BY <2>1, <2>2, FS_EmptySet
  <2> QED BY <1>1, <2>1, <2>3 DEF Rank
<1>3. ASSUME NEW i \in left, NEW k \in left, i < k
      PROVE  Rank(left, i) < Rank(left, k)
  <2>1. UpTo(left, i) \in SUBSET UpTo(left, k) /\ k \in UpTo(left, k) /\ k \notin UpTo(left, i)
    <3>1. i \in Nat /\ k \in Nat
      BY <1>0
    <3>2. \A j \in left : j <= i => j <= k
      BY <1>0, <1>3, <3>1
    <3>3. \A j \in UpTo(left, i) : j \in UpTo(left, k)
      BY <3>2 DEF UpTo
    <3>4. k \in UpTo(left, k)
      BY <3>1 DEF UpTo
    <3>5. k \notin UpTo(left, i)
      <4>1. ~ k <= i
        BY <1>3, <3>1
      <4> QED BY <4>1 DEF UpTo
    <3> QED BY <3>3, <3>4, <3>5
  <2>2. Cardinality(UpTo(left, i)) <= Cardinality(UpTo(left, k))
        /\ Cardinality(UpTo(left, i)) # Cardinality(UpTo(left, k))
    BY <1>2, <2>1, FS_Subset
  <2>3. Rank(left, i) <= Rank(left, k) /\ Rank(left, i) # Rank(left, k)
    BY <2>2 DEF Rank
  <2>4. Rank(left, i) \in Nat /\ Rank(left, k) \in Nat
    <3> HIDE DEF n
    <3> QED BY <1>0, <1>1, <1>2
  <2> QED BY <2>3, <2>4
<1>4. rank \in Injection(left, 1 .. n)
  <2>1. \A i, k \in left : rank[i] = rank[k] => i = k
    <3> SUFFICES ASSUME NEW i \in left, NEW k \in left, Rank(left, i) = Rank(left, k)
                 PROVE  i = k
      OBVIOUS
    <3>1. i \in Nat /\ k \in Nat /\ Rank(left, i) \in Nat
      <4> HIDE DEF n
      <4> QED BY <1>0, <1>1, <1>2
    <3>2. ~ i < k /\ ~ k < i
      BY <1>3, <3>1
    <3> QED BY <3>1, <3>2
  <2>2. rank \in [left -> 1 .. n]
    BY <1>2
  <2> QED BY <2>1, <2>2 DEF Injection, IsInjective
<1>5. rank \in Surjection(left, 1 .. n)
  <2>1. IsFiniteSet(1 .. n) /\ Cardinality(1 .. n) = n
    BY <1>1, FS_Interval
  <2> QED BY <1>4, <2>1, FS_Injection
<1> DEFINE m == [k \in 1 .. n |-> CHOOSE i \in left : Rank(left, i) = k]
<1>6. ASSUME NEW k \in 1 .. n PROVE m[k] \in left /\ Rank(left, m[k]) = k
  <2>1. \E i \in left : Rank(left, i) = k
    BY <1>5 DEF Surjection
  <2> QED BY <2>1
<1>7. Enumerates(m, n, left)
  <2> HIDE DEF n, rank
  <2>1. m \in [1 .. n -> left]
    BY <1>6
  <2>2. ASSUME NEW k \in 1 .. n, NEW l \in 1 .. n, k < l PROVE m[k] < m[l]
    <3>1. /\ m[k] \in left /\ m[l] \in left
          /\ Rank(left, m[k]) = k /\ Rank(left, m[l]) = l
      BY <1>6
    <3> HIDE DEF m
    <3>2. m[k] \in Nat /\ m[l] \in Nat
      BY <1>0, <3>1
    <3>3. m[l] < m[k] => l < k
      BY <1>3, <3>1
    <3>4. m[k] # m[l] /\ ~ m[l] < m[k]
      BY <1>1, <2>2, <3>1, <3>2, <3>3
    <3> QED BY <3>2, <3>4
  <2>3. ASSUME NEW i \in left PROVE \E k \in 1 .. n : m[k] = i
    <3>1. Rank(left, i) \in 1 .. n
      BY <1>2
    <3>2. PICK k \in 1 .. n : k = Rank(left, i)
      BY <3>1
    <3>3. m[k] \in left /\ Rank(left, m[k]) = Rank(left, i)
      BY <1>6, <3>2
    <3> HIDE DEF m
    <3>4. i \in Nat /\ m[k] \in Nat
      BY <1>0, <3>3
    <3>5. ~ m[k] < i /\ ~ i < m[k]
      <4>1. Rank(left, i) \in Nat /\ Rank(left, i) = Rank(left, m[k])
        BY <1>1, <3>1, <3>3
      <4>2. ~ Rank(left, i) < Rank(left, m[k]) /\ ~ Rank(left, m[k]) < Rank(left, i)
        BY <4>1
      <4> QED BY <1>3, <3>3, <4>2
    <3> QED BY <3>4, <3>5
  <2> HIDE DEF m
  <2> QED BY <2>1, <2>2, <2>3 DEF Enumerates
<1> QED BY <1>1, <1>7

LEMMA PlacesEnumerated ==
    ASSUME NEW S, NEW s \in Seq(S), NEW places
    PROVE  /\ Left(s, places) \in SUBSET Nat
           /\ \E n \in Nat : \E m : Enumerates(m, n, Left(s, places))
<1>1. Left(s, places) \in SUBSET (1 .. Len(s)) /\ Len(s) \in Nat
  BY DEF Left
<1>2. IsFiniteSet(1 .. Len(s))
  BY <1>1, FS_Interval
<1>3. IsFiniteSet(Left(s, places)) /\ Left(s, places) \in SUBSET Nat
  BY <1>1, <1>2, FS_Subset
<1> QED BY <1>3, EnumerationExists

-----------------------------------------------------------------------------
\* A list without its last element.
LEMMA FrontAndLast ==
    ASSUME NEW S, NEW s \in Seq(S), s # <<>>
    PROVE  /\ Last(s) \in S /\ Front(s) \in Seq(S)
           /\ Len(s) \in DOMAIN s /\ Len(Front(s)) = Len(s) - 1
           /\ \A i \in 1 .. Len(s) - 1 : Front(s)[i] = s[i]
<1>1. Len(s) \in Nat /\ Len(s) # 0 /\ DOMAIN s = 1 .. Len(s)
  BY EmptySeq
<1>2. \A i \in 1 .. Len(s) - 1 : s[i] \in S
  BY <1>1
<1>3. /\ SubSeq(s, 1, Len(s) - 1) \in Seq(S)
      /\ Len(SubSeq(s, 1, Len(s) - 1)) = Len(s) - 1
      /\ \A i \in 1 .. Len(s) - 1 : SubSeq(s, 1, Len(s) - 1)[i] = s[i]
  BY <1>1, <1>2, SubSeqProperties
<1> QED
  BY <1>1, <1>3 DEF Front, Last

\* What is left of a list holds nothing new.
LEMMA WithoutTyped ==
    ASSUME NEW S, NEW s \in Seq(S), NEW places
    PROVE  Without(s, places) \in Seq(S)
<1>0. PICK n \in Nat : \E m : Enumerates(m, n, Left(s, places))
  BY PlacesEnumerated
<1>1. PICK m : Enumerates(m, n, Left(s, places))
  BY <1>0
<1>2. Without(s, places) = [k \in 1 .. n |-> s[m[k]]]
  BY <1>1, PlacesEnumerated, WithoutEnumerated
<1>3. \A k \in 1 .. n : s[m[k]] \in S
  <2> SUFFICES ASSUME NEW k \in 1 .. n PROVE s[m[k]] \in S
    OBVIOUS
  <2>1. m[k] \in 1 .. Len(s)
    BY <1>1 DEF Enumerates, Left
  <2> QED BY <2>1
<1>4. [k \in 1 .. n |-> s[m[k]]] \in [1 .. n -> S]
  BY <1>3
<1> QED BY <1>2, <1>4, SeqDef

\* Erasing nothing changes nothing.
LEMMA WithoutNothing ==
    ASSUME NEW S, NEW s \in Seq(S)
    PROVE  Without(s, {}) = s
<1> DEFINE m == [k \in 1 .. Len(s) |-> k]
<1>1. Enumerates(m, Len(s), Left(s, {})) /\ Left(s, {}) \in SUBSET Nat
  BY DEF Enumerates, Left
<1>2. Without(s, {}) = [k \in 1 .. Len(s) |-> s[m[k]]]
  BY <1>1, WithoutEnumerated
<1> QED BY <1>2

\* Erasing the first element leaves the others.
LEMMA WithoutFirst ==
    ASSUME NEW S, NEW s \in Seq(S), s # <<>>
    PROVE  Without(s, {1}) = Tail(s)
<1>1. Len(s) \in Nat \ {0} /\ DOMAIN s = 1 .. Len(s)
  BY EmptySeq
<1> DEFINE n == Len(s) - 1
           m == [k \in 1 .. n |-> k + 1]
<1>2. Left(s, {1}) = 2 .. Len(s)
  BY <1>1 DEF Left
<1>3. Enumerates(m, n, Left(s, {1}))
  <2>1. m \in [1 .. n -> 2 .. Len(s)]
    BY <1>1
  <2>2. ASSUME NEW i \in 2 .. Len(s) PROVE \E k \in 1 .. n : m[k] = i
    <3>1. i - 1 \in 1 .. n /\ m[i - 1] = i
      BY <1>1
    <3> QED BY <3>1
  <2> QED BY <1>1, <1>2, <2>1, <2>2 DEF Enumerates
<1>4. Without(s, {1}) = [k \in 1 .. n |-> s[m[k]]]
  BY <1>1, <1>2, <1>3, WithoutEnumerated
<1>5. \A k \in 1 .. n : m[k] = k + 1
  OBVIOUS
<1>6. Tail(s) = [k \in 1 .. n |-> s[k + 1]]
  <2>1. /\ Tail(s) \in Seq(S) /\ Len(Tail(s)) = n
        /\ \A k \in 1 .. n : Tail(s)[k] = s[k + 1]
    BY HeadTailProperties
  <2>2. Tail(s) = [k \in 1 .. n |-> Tail(s)[k]]
    BY <2>1, LenProperties
  <2> QED BY <2>1, <2>2
<1> HIDE DEF m
<1> QED BY <1>4, <1>5, <1>6

\* Erasing from the second of two lists.
LEMMA WithoutConcat ==
    ASSUME NEW S, NEW e \in Seq(S), NEW s \in Seq(S), NEW places \in SUBSET DOMAIN s
    PROVE  Without(e \o s, {Len(e) + i : i \in places}) = e \o Without(s, places)
<1> DEFINE q == e \o s
           moved == {Len(e) + i : i \in places}
           a == Len(e)
<1>1. /\ a \in Nat /\ Len(s) \in Nat /\ DOMAIN e = 1 .. a /\ DOMAIN s = 1 .. Len(s)
      /\ q \in Seq(S) /\ Len(q) = a + Len(s) /\ DOMAIN q = 1 .. a + Len(s)
      /\ \A i \in 1 .. a + Len(s) : q[i] = IF i <= a THEN e[i] ELSE s[i - a]
  BY ConcatProperties
<1>0. PICK n \in Nat : \E m : Enumerates(m, n, Left(s, places))
  BY PlacesEnumerated
<1>2. PICK m : Enumerates(m, n, Left(s, places))
  BY <1>0
<1>3. Without(s, places) = [k \in 1 .. n |-> s[m[k]]]
  BY <1>2, PlacesEnumerated, WithoutEnumerated
<1>4. Without(s, places) \in Seq(S)
  BY WithoutTyped
<1>5. Len(Without(s, places)) = n
  BY <1>3, <1>4
<1>6. \A k \in 1 .. n : m[k] \in 1 .. Len(s) /\ m[k] \notin places
  BY <1>1, <1>2 DEF Enumerates, Left
<1> DEFINE mq == [k \in 1 .. a + n |-> IF k <= a THEN k ELSE a + m[k - a]]
<1> HIDE DEF q
<1>7. Left(q, moved) \in SUBSET Nat
  BY <1>1 DEF Left
<1>8. Enumerates(mq, a + n, Left(q, moved))
  <2> HIDE DEF a
  <2>1. ASSUME NEW k \in 1 .. a + n PROVE mq[k] \in Left(q, moved)
    <3>1. CASE k <= a
      <4>1. mq[k] = k /\ k \in 1 .. a + Len(s)
        BY <1>1, <3>1
      <4>2. k \notin moved
        BY <1>1, <3>1 DEF a
      <4> QED BY <1>1, <4>1, <4>2 DEF Left
    <3>2. CASE ~ k <= a
      <4>1. k - a \in 1 .. n /\ mq[k] = a + m[k - a]
        BY <1>1, <3>2
      <4>2. PICK i \in 1 .. Len(s) : i = m[k - a] /\ i \notin places
        BY <1>6, <4>1
      <4>3. a + i \in 1 .. a + Len(s) /\ a + i \notin moved
        BY <1>1, <4>2 DEF a
      <4> QED BY <1>1, <4>1, <4>2, <4>3 DEF Left
    <3> QED BY <3>1, <3>2
  <2>2. ASSUME NEW k \in 1 .. a + n, NEW l \in 1 .. a + n, k < l PROVE mq[k] < mq[l]
    <3>1. CASE l <= a
      BY <1>1, <2>2, <3>1
    <3>2. CASE ~ l <= a
      <4>1. l - a \in 1 .. n /\ mq[l] = a + m[l - a] /\ m[l - a] \in 1 .. Len(s)
        BY <1>1, <1>6, <3>2
      <4>2. CASE k <= a
        BY <1>1, <4>1, <4>2
      <4>3. CASE ~ k <= a
        <5>1. k - a \in 1 .. n /\ mq[k] = a + m[k - a] /\ m[k - a] \in 1 .. Len(s)
          BY <1>1, <1>6, <4>3
        <5>2. k - a < l - a
          BY <1>1, <2>2
        <5>3. m[k - a] < m[l - a]
          BY <1>2, <4>1, <5>1, <5>2 DEF Enumerates
        <5> QED BY <1>1, <4>1, <5>1, <5>3
      <4> QED BY <4>2, <4>3
    <3> QED BY <3>1, <3>2
  <2>3. ASSUME NEW i \in Left(q, moved) PROVE \E k \in 1 .. a + n : mq[k] = i
    <3>1. i \in 1 .. a + Len(s) /\ i \notin moved
      BY <1>1 DEF Left
    <3>2. CASE i <= a
      <4>1. i \in 1 .. a + n /\ mq[i] = i
        BY <1>1, <3>1, <3>2
      <4> QED BY <4>1
    <3>3. CASE ~ i <= a
      <4>1. i - a \in 1 .. Len(s) /\ i = a + (i - a)
        BY <1>1, <3>1, <3>3
      <4>2. i - a \notin places
        BY <3>1, <4>1 DEF a
      <4>3. PICK k \in 1 .. n : m[k] = i - a
        BY <1>1, <1>2, <4>1, <4>2 DEF Enumerates, Left
      <4>4. a + k \in 1 .. a + n /\ ~ a + k <= a /\ (a + k) - a = k
        BY <1>1
      <4>5. mq[a + k] = a + m[k]
        BY <4>4
      <4> QED BY <4>1, <4>3, <4>4, <4>5
    <3> QED BY <3>2, <3>3
  <2>4. mq \in [1 .. a + n -> Left(q, moved)]
    BY <2>1
  <2> HIDE DEF mq
  <2> QED BY <2>2, <2>3, <2>4 DEF Enumerates
<1>9. Without(q, moved) = [k \in 1 .. a + n |-> q[mq[k]]]
  <2> HIDE DEF a, moved, mq
  <2>1. a + n \in Nat
    BY <1>1
  <2> QED BY <2>1, <1>7, <1>8, WithoutEnumerated
<1>10. /\ e \o Without(s, places) \in Seq(S)
       /\ Len(e \o Without(s, places)) = a + n
       /\ \A k \in 1 .. a + n : (e \o Without(s, places))[k] =
              IF k <= a THEN e[k] ELSE Without(s, places)[k - a]
  BY <1>4, <1>5, ConcatProperties
<1>11. ASSUME NEW k \in 1 .. a + n PROVE q[mq[k]] = (e \o Without(s, places))[k]
  <2>1. CASE k <= a
    <3>1. mq[k] = k /\ k \in 1 .. a + Len(s)
      BY <1>1, <2>1
    <3>2. q[k] = e[k]
      BY <1>1, <2>1, <3>1
    <3> QED BY <1>10, <2>1, <3>1, <3>2
  <2>2. CASE ~ k <= a
    <3>1. k - a \in 1 .. n /\ mq[k] = a + m[k - a]
      BY <1>1, <2>2
    <3>2. PICK i \in 1 .. Len(s) : i = m[k - a]
      BY <1>6, <3>1
    <3>3. q[a + i] = s[i]
      <4> HIDE DEF a
      <4>1. a + i \in 1 .. a + Len(s) /\ ~ a + i <= a /\ (a + i) - a = i
        BY <1>1
      <4> QED BY <1>1, <4>1
    <3>4. Without(s, places)[k - a] = s[i]
      BY <1>3, <3>1, <3>2
    <3> QED BY <1>10, <2>2, <3>1, <3>2, <3>3, <3>4
  <2> QED BY <2>1, <2>2
<1>12. e \o Without(s, places) = [k \in 1 .. a + n |-> (e \o Without(s, places))[k]]
  <2> HIDE DEF a
  <2> QED BY <1>10, LenProperties
<1> HIDE DEF mq
<1> QED BY <1>9, <1>11, <1>12 DEF q

\* Erasing the places of an element from the second of two lists erases nothing else
\* from the two.
LEMMA ErasedFromSecond ==
    ASSUME NEW S, NEW e \in Seq(S), NEW s \in Seq(S), NEW x
    PROVE  \/ e \o Without(s, PlacesOf(s, x)) = e \o s
           \/ \E places \in SUBSET PlacesOf(e \o s, x) :
                 places # {} /\ e \o Without(s, PlacesOf(s, x)) = Without(e \o s, places)
<1> DEFINE places == PlacesOf(s, x)
           moved == {Len(e) + i : i \in places}
<1>1. CASE places = {}
  BY <1>1, WithoutNothing
<1>2. CASE places # {}
  <2>1. places \in SUBSET DOMAIN s
    BY DEF PlacesOf
  <2>2. e \o Without(s, places) = Without(e \o s, moved)
    BY <2>1, WithoutConcat
  <2>3. ASSUME NEW i \in places PROVE Len(e) + i \in DOMAIN (e \o s) /\ (e \o s)[Len(e) + i] = x
    <3>1. i \in 1 .. Len(s) /\ s[i] = x /\ Len(e) \in Nat /\ Len(s) \in Nat
      BY DEF PlacesOf
    <3>2. /\ Len(e) + i \in 1 .. Len(e) + Len(s) /\ ~ Len(e) + i <= Len(e)
          /\ (Len(e) + i) - Len(e) = i
      BY <3>1
    <3> QED BY <3>1, <3>2, ConcatProperties
  <2>4. moved \in SUBSET PlacesOf(e \o s, x)
    BY <2>3 DEF PlacesOf
  <2>5. moved # {}
    BY <1>2
  <2> HIDE DEF places, moved
  <2> QED BY <2>2, <2>4, <2>5 DEF places
<1> QED BY <1>1, <1>2

\* list::remove finds nothing in an empty list.
LEMMA NothingToErase ==
    ASSUME NEW h PROVE Without(<<>>, PlacesOf(<<>>, h)) = <<>>
<1>1. DOMAIN <<>> \ PlacesOf(<<>>, h) = {}
  OBVIOUS
<1>2. Cardinality({}) = 0
  BY FS_EmptySet
<1> QED
  BY <1>1, <1>2 DEF Without
=============================================================================
