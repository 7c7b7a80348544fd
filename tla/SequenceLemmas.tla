--------------------------- MODULE SequenceLemmas ---------------------------
(* Facts about natural numbers and sequences that the proofs of the kernel's *)
(* queues share.                                                             *)
EXTENDS Integers, FiniteSets, SequencesExt, SequenceTheorems, FiniteSetTheorems, WellFoundedInduction, TLAPS

LessThan == {pair \in Nat \X Nat : pair[1] < pair[2]}

\* A set of naturals that is not empty has a least element, which Min() returns:
\* what every search for the best priority or the first occurrence rests on.
LEMMA MinOfNaturals ==
    ASSUME NEW S \in SUBSET Nat, S # {}
    PROVE  Min(S) \in S /\ \A n \in S : Min(S) <= n
<1>1. IsWellFoundedOn(LessThan, Nat)
  BY NatLessThanWellFounded, Zenon DEF LessThan, OpToRel
<1>2. PICK least \in S : \A n \in S : ~(<<n, least>> \in LessThan)
  BY <1>1, WFMin
<1>3. \A m, n \in Nat : m < n => <<m, n>> \in LessThan
  BY DEF LessThan
<1>4. \A n \in S : ~(n < least)
  BY <1>2, <1>3
<1>5. \A n \in S : least <= n
  BY <1>4
<1> QED
  BY <1>5 DEF Min

\* A set of naturals with an upper bound has a greatest element.
LEMMA MaxOfNaturals ==
    ASSUME NEW S \in SUBSET Nat, S # {}, NEW bound \in Nat, \A n \in S : n <= bound
    PROVE  Max(S) \in S /\ \A n \in S : n <= Max(S)
<1> DEFINE Distances == {d \in Nat : \E n \in S : d = bound - n}
<1>1. Distances # {}
  <2>1. PICK n \in S : TRUE
    OBVIOUS
  <2>2. bound - n \in Distances
    BY <2>1
  <2> QED
    BY <2>2
<1>2. Min(Distances) \in Distances /\ \A d \in Distances : Min(Distances) <= d
  BY <1>1, MinOfNaturals
<1>3. PICK greatest \in S : Min(Distances) = bound - greatest
  BY <1>2
<1>4. \A n \in S : n <= greatest
  <2> SUFFICES ASSUME NEW n \in S PROVE n <= greatest
    OBVIOUS
  <2>1. bound - n \in Distances
    OBVIOUS
  <2> QED
    BY <2>1, <1>2, <1>3
<1> QED
  BY <1>4 DEF Max

\* The members of a set of places in ascending order.
Ascending(S) ==
    [k \in 1 .. Cardinality(S) |-> CHOOSE i \in S : Cardinality({j \in S : j <= i}) = k]

\* It has each of them once, and no other.
LEMMA AscendingFacts ==
    ASSUME NEW n \in Nat, NEW S \in SUBSET (1 .. n)
    PROVE  /\ IsFiniteSet(S) /\ Cardinality(S) \in 0 .. n
           /\ Ascending(S) \in [1 .. Cardinality(S) -> S]
           /\ \A k, l \in 1 .. Cardinality(S) : k < l => Ascending(S)[k] < Ascending(S)[l]
           /\ \A i \in S : \E k \in 1 .. Cardinality(S) : Ascending(S)[k] = i
<1> DEFINE upTo(i) == {j \in S : j <= i}
           rank == [i \in S |-> Cardinality(upTo(i))]
           size == Cardinality(S)
<1>0. \A i \in S : i \in 1 .. n /\ i \in Int
  OBVIOUS
<1>1. IsFiniteSet(S) /\ size \in 0 .. n
  <2>1. IsFiniteSet(1 .. n) /\ Cardinality(1 .. n) = n
    BY FS_Interval
  <2>2. IsFiniteSet(S) /\ size <= n
    BY <2>1, FS_Subset
  <2> QED
    BY <2>2, FS_CardinalityType
<1>2. ASSUME NEW i \in S PROVE IsFiniteSet(upTo(i)) /\ Cardinality(upTo(i)) \in 1 .. size
  <2>1. upTo(i) \in SUBSET S /\ i \in upTo(i)
    BY <1>0
  <2>2. IsFiniteSet(upTo(i)) /\ Cardinality(upTo(i)) <= size
    BY <1>1, <2>1, FS_Subset
  <2>3. Cardinality(upTo(i)) \in Nat /\ Cardinality(upTo(i)) # 0
    BY <2>1, <2>2, FS_CardinalityType, FS_EmptySet
  <2> QED
    BY <1>1, <2>2, <2>3
<1>3. ASSUME NEW i \in S, NEW j \in S, i < j
      PROVE  Cardinality(upTo(i)) # Cardinality(upTo(j))
  <2>1. \A m \in S : m <= i => m <= j
    BY <1>0, <1>3
  <2>2. j \in S /\ j <= j /\ ~(j <= i)
    BY <1>0, <1>3
  <2>3. upTo(i) \in SUBSET upTo(j) /\ j \in upTo(j) /\ j \notin upTo(i)
    BY <2>1, <2>2
  <2> QED
    BY <1>2, <2>3, FS_Subset
<1>4. \A i, j \in S : rank[i] = rank[j] => i = j
  <2> SUFFICES ASSUME NEW i \in S, NEW j \in S, i # j PROVE rank[i] # rank[j]
    OBVIOUS
  <2>1. i < j \/ j < i
    BY <1>0
  <2> QED
    BY <1>3, <2>1
<1>5. \A k \in 1 .. size : \E i \in S : Cardinality(upTo(i)) = k
  <2>1. rank \in Injection(S, 1 .. size)
    BY <1>2, <1>4 DEF Injection, IsInjective
  <2>2. IsFiniteSet(1 .. size) /\ Cardinality(1 .. size) = size
    BY <1>1, FS_Interval
  <2>3. rank \in Surjection(S, 1 .. size)
    BY <1>1, <2>1, <2>2, FS_Injection
  <2> QED
    BY <2>3 DEF Surjection
<1>6. ASSUME NEW k \in 1 .. size
      PROVE  Ascending(S)[k] \in S /\ Cardinality(upTo(Ascending(S)[k])) = k
  BY <1>5 DEF Ascending
<1>7. Ascending(S) \in [1 .. size -> S]
  <2>1. Ascending(S) = [k \in 1 .. size |-> Ascending(S)[k]]
    BY DEF Ascending
  <2> QED
    BY <1>6, <2>1
<1>8. ASSUME NEW k \in 1 .. size, NEW l \in 1 .. size, k < l
      PROVE  Ascending(S)[k] < Ascending(S)[l]
  <2>1. Ascending(S)[k] \in 1 .. n /\ Ascending(S)[l] \in 1 .. n
    BY <1>6
  <2>2. CASE Ascending(S)[l] <= Ascending(S)[k]
    <3>0. \A m \in S : m <= Ascending(S)[l] => m <= Ascending(S)[k]
      BY <1>0, <2>1, <2>2
    <3>1. upTo(Ascending(S)[l]) \in SUBSET upTo(Ascending(S)[k])
      BY <3>0
    <3>2. Cardinality(upTo(Ascending(S)[l])) <= Cardinality(upTo(Ascending(S)[k]))
      BY <1>2, <1>6, <3>1, FS_Subset
    <3> QED
      BY <1>6, <1>8, <3>2
  <2> QED
    BY <2>1, <2>2
<1>9. ASSUME NEW i \in S PROVE \E k \in 1 .. size : Ascending(S)[k] = i
  <2>1. rank[i] \in 1 .. size
    BY <1>2
  <2>2. Ascending(S)[rank[i]] \in S /\ rank[Ascending(S)[rank[i]]] = rank[i]
    BY <1>6, <2>1
  <2> QED
    BY <1>4, <2>1, <2>2
<1> QED
  BY <1>1, <1>7, <1>8, <1>9

\* Removing the element at place k closes the gap.
LEMMA RemoveAtIs ==
    ASSUME NEW S, NEW q \in Seq(S), NEW k \in 1 .. Len(q)
    PROVE  RemoveAt(q, k) = [i \in 1 .. Len(q) - 1 |-> IF i < k THEN q[i] ELSE q[i + 1]]
<1> DEFINE front == SubSeq(q, 1, k - 1)
           back == SubSeq(q, k + 1, Len(q))
<1>1. /\ front \in Seq(S) /\ Len(front) = k - 1
      /\ \A i \in 1 .. k - 1 : front[i] = q[i]
  BY SubSeqProperties, ElementOfSeq
<1>2. /\ back \in Seq(S) /\ Len(back) = Len(q) - k
      /\ \A i \in 1 .. Len(q) - k : back[i] = q[k + i]
  BY SubSeqProperties, ElementOfSeq
<1> DEFINE closed == [i \in 1 .. Len(q) - 1 |-> IF i < k THEN q[i] ELSE q[i + 1]]
<1>3. closed \in Seq(S) /\ Len(closed) = Len(q) - 1
  OBVIOUS
<1> HIDE DEF front, back
<1>4. /\ front \o back \in Seq(S)
      /\ Len(front \o back) = Len(q) - 1
      /\ \A i \in 1 .. Len(q) - 1 :
            (front \o back)[i] = IF i <= k - 1 THEN front[i] ELSE back[i - (k - 1)]
  <2>1. k - 1 + (Len(q) - k) = Len(q) - 1
    OBVIOUS
  <2>2. /\ front \o back \in Seq(S)
        /\ Len(front \o back) = Len(front) + Len(back)
        /\ \A i \in 1 .. Len(front) + Len(back) :
              (front \o back)[i] = IF i <= Len(front) THEN front[i] ELSE back[i - Len(front)]
    BY <1>1, <1>2, ConcatProperties, ZenonT(30)
  <2> QED
    BY <1>1, <1>2, <2>1, <2>2
<1>5. \A i \in 1 .. Len(q) - 1 : (front \o back)[i] = closed[i]
  <2> SUFFICES ASSUME NEW i \in 1 .. Len(q) - 1 PROVE (front \o back)[i] = closed[i]
    OBVIOUS
  <2>1. CASE i <= k - 1
    BY <2>1, <1>1, <1>4
  <2>2. CASE ~(i <= k - 1)
    <3>1. i - (k - 1) \in 1 .. Len(q) - k /\ k + (i - (k - 1)) = i + 1
      BY <2>2
    <3>2. back[i - (k - 1)] = q[i + 1]
      BY <1>2, <3>1
    <3>3. (front \o back)[i] = back[i - (k - 1)]
      BY <1>4, <2>2
    <3> QED
      BY <2>2, <3>2, <3>3
  <2> QED
    BY <2>1, <2>2
<1>6. front \o back = closed
  BY <1>3, <1>4, <1>5, SeqEqual
<1> QED
  BY <1>6 DEF front, back, RemoveAt

\* Inserting an element at place k moves up those that were there.
LEMMA InsertAtIs ==
    ASSUME NEW S, NEW q \in Seq(S), NEW e \in S, NEW k \in 1 .. Len(q) + 1
    PROVE  InsertAt(q, k, e) =
             [i \in 1 .. Len(q) + 1 |-> IF i < k THEN q[i] ELSE IF i = k THEN e ELSE q[i - 1]]
<1> DEFINE front == SubSeq(q, 1, k - 1)
           back == SubSeq(q, k, Len(q))
           opened == [i \in 1 .. Len(q) + 1 |-> IF i < k THEN q[i] ELSE IF i = k THEN e ELSE q[i - 1]]
<1>1. /\ front \in Seq(S) /\ Len(front) = k - 1
      /\ \A i \in 1 .. k - 1 : front[i] = q[i]
  BY SubSeqProperties, ElementOfSeq
<1>2. /\ back \in Seq(S) /\ Len(back) = Len(q) + 1 - k
      /\ \A i \in 1 .. Len(q) + 1 - k : back[i] = q[k + i - 1]
  BY SubSeqProperties, ElementOfSeq
<1>3. opened \in Seq(S) /\ Len(opened) = Len(q) + 1
  OBVIOUS
<1> DEFINE most == front \o <<e>>
<1> HIDE DEF front, back, opened
<1>4. /\ most \in Seq(S) /\ Len(most) = k
      /\ \A i \in 1 .. k : most[i] = IF i < k THEN front[i] ELSE e
  <2>1. <<e>> \in Seq(S) /\ Len(<<e>>) = 1 /\ <<e>>[1] = e
    OBVIOUS
  <2>2. /\ front \o <<e>> \in Seq(S)
        /\ Len(front \o <<e>>) = Len(front) + Len(<<e>>)
        /\ \A i \in 1 .. Len(front) + Len(<<e>>) :
              (front \o <<e>>)[i] = IF i <= Len(front) THEN front[i] ELSE <<e>>[i - Len(front)]
    BY <1>1, <2>1, ConcatProperties, ZenonT(30)
  <2>3. Len(front) + Len(<<e>>) = k /\ \A i \in 1 .. k : ~(i <= Len(front)) => i - Len(front) = 1
    BY <1>1, <2>1
  <2>4. most \in Seq(S) /\ Len(most) = k
    BY <2>2, <2>3 DEF most
  <2>5. ASSUME NEW i \in 1 .. k PROVE most[i] = IF i < k THEN front[i] ELSE e
    <3>1. most[i] = IF i <= Len(front) THEN front[i] ELSE <<e>>[i - Len(front)]
      BY <2>2, <2>3 DEF most
    <3>2. i <= Len(front) <=> i < k
      BY <1>1
    <3> QED
      BY <2>1, <2>3, <3>1, <3>2
  <2> QED
    BY <2>4, <2>5
<1> HIDE DEF most
<1>5. /\ most \o back \in Seq(S)
      /\ Len(most \o back) = Len(most) + Len(back)
      /\ \A i \in 1 .. Len(most) + Len(back) :
            (most \o back)[i] = IF i <= Len(most) THEN most[i] ELSE back[i - Len(most)]
  BY <1>2, <1>4, ConcatProperties, ZenonT(30)
<1>6. Len(most) = k /\ Len(most) + Len(back) = Len(q) + 1
  BY <1>2, <1>4
<1>7. ASSUME NEW i \in 1 .. Len(q) + 1 PROVE (most \o back)[i] = opened[i]
  <2>1. CASE i <= k
    BY <1>1, <1>4, <1>5, <1>6, <2>1 DEF opened
  <2>2. CASE i > k
    <3>1. i - k \in 1 .. Len(q) + 1 - k /\ k + (i - k) - 1 = i - 1
      BY <2>2
    <3> QED
      BY <1>2, <1>5, <1>6, <2>2, <3>1 DEF opened
  <2>3. i <= k \/ i > k
    OBVIOUS
  <2> QED
    BY <2>1, <2>2, <2>3
<1>8. most \o back = opened
  <2>1. Len(most \o back) = Len(opened)
    BY <1>3, <1>5, <1>6
  <2> QED
    BY <1>3, <1>5, <1>6, <1>7, <2>1, SeqEqual
<1> QED
  BY <1>8 DEF most, front, back, opened, InsertAt

\* Removing an id that is not in the sequence changes nothing; removing one that
\* is closes the gap at its first occurrence.
LEMMA RemoveFirstAbsent ==
    ASSUME NEW S, NEW q \in Seq(S), NEW e, \A i \in 1 .. Len(q) : q[i] # e
    PROVE  RemoveFirst(q, e) = q
BY DEF RemoveFirst

LEMMA RemoveFirstPresent ==
    ASSUME NEW S, NEW q \in Seq(S), NEW k \in 1 .. Len(q),
           \A i \in 1 .. Len(q) : q[i] = q[k] => k <= i
    PROVE  RemoveFirst(q, q[k]) =
             [i \in 1 .. Len(q) - 1 |-> IF i < k THEN q[i] ELSE q[i + 1]]
<1> DEFINE places == {i \in 1 .. Len(q) : q[i] = q[k]}
<1>1. Min(places) \in places /\ \A i \in places : Min(places) <= i
  <2>1. places \in SUBSET Nat /\ places # {}
    OBVIOUS
  <2> QED
    BY <2>1, MinOfNaturals
<1>2. Min(places) = k
  BY <1>1
<1>3. RemoveFirst(q, q[k]) = RemoveAt(q, k)
  BY <1>2 DEF RemoveFirst, SelectInSeq
<1> QED
  BY <1>3, RemoveAtIs

\* What is left of a sequence without repetitions once an id is removed.
LEMMA RemoveFirstDistinct ==
    ASSUME NEW S, NEW q \in Seq(S), IsInjective(q), NEW e
    PROVE  /\ RemoveFirst(q, e) \in Seq(S)
           /\ IsInjective(RemoveFirst(q, e))
           /\ \A x : Contains(RemoveFirst(q, e), x) <=> Contains(q, x) /\ x # e
<1>1. CASE \A i \in 1 .. Len(q) : q[i] # e
  BY <1>1, RemoveFirstAbsent DEF Contains
<1>2. CASE \E i \in 1 .. Len(q) : q[i] = e
  <2>1. PICK k \in 1 .. Len(q) : q[k] = e
    BY <1>2
  <2> DEFINE r == [i \in 1 .. Len(q) - 1 |-> IF i < k THEN q[i] ELSE q[i + 1]]
  <2>2. RemoveFirst(q, e) = r
    <3>1. \A i \in 1 .. Len(q) : q[i] = q[k] => k <= i
      BY DEF IsInjective
    <3> QED
      BY <2>1, <3>1, RemoveFirstPresent
  <2>3. r \in Seq(S) /\ Len(r) = Len(q) - 1
    OBVIOUS
  <2>4. IsInjective(r)
    BY <2>3 DEF IsInjective
  <2>5. ASSUME NEW x PROVE Contains(r, x) <=> Contains(q, x) /\ x # e
    <3>1. ASSUME Contains(r, x) PROVE Contains(q, x) /\ x # e
      <4>1. PICK i \in 1 .. Len(q) - 1 : r[i] = x
        BY <3>1, <2>3 DEF Contains
      <4> QED
        BY <4>1, <2>1 DEF Contains, IsInjective
    <3>2. ASSUME Contains(q, x), x # e PROVE Contains(r, x)
      <4>1. PICK i \in 1 .. Len(q) : q[i] = x
        BY <3>2 DEF Contains
      <4>2. CASE i < k
        <5>1. i \in 1 .. Len(r) /\ r[i] = x
          BY <4>1, <4>2, <2>3
        <5> QED
          BY <5>1 DEF Contains
      <4>3. CASE i > k
        <5>1. i - 1 \in 1 .. Len(r) /\ r[i - 1] = x
          BY <4>1, <4>3, <2>3
        <5> QED
          BY <5>1 DEF Contains
      <4> QED
        BY <4>1, <4>2, <4>3, <2>1, <3>2
    <3> QED
      BY <3>1, <3>2
  <2> QED
    BY <2>2, <2>3, <2>4, <2>5
<1> QED
  BY <1>1, <1>2
\* Queueing an id that is not queued yet, at either end.
LEMMA AppendNew ==
    ASSUME NEW S, NEW q \in Seq(S), IsInjective(q), NEW e \in S, ~Contains(q, e)
    PROVE  /\ Append(q, e) \in Seq(S)
           /\ IsInjective(Append(q, e))
           /\ \A x : Contains(Append(q, e), x) <=> Contains(q, x) \/ x = e
<1>1. /\ Append(q, e) \in Seq(S) /\ Len(Append(q, e)) = Len(q) + 1
      /\ \A i \in 1 .. Len(q) : Append(q, e)[i] = q[i]
      /\ Append(q, e)[Len(q) + 1] = e
  BY AppendProperties
<1>2. IsInjective(Append(q, e))
  BY <1>1 DEF IsInjective, Contains
<1>3. ASSUME NEW x, Contains(q, x) \/ x = e PROVE Contains(Append(q, e), x)
  BY <1>1, <1>3 DEF Contains
<1>4. ASSUME NEW x, Contains(Append(q, e), x) PROVE Contains(q, x) \/ x = e
  BY <1>1, <1>4 DEF Contains
<1> QED
  BY <1>1, <1>2, <1>3, <1>4

LEMMA ConsNew ==
    ASSUME NEW S, NEW q \in Seq(S), IsInjective(q), NEW e \in S, ~Contains(q, e)
    PROVE  /\ <<e>> \o q \in Seq(S)
           /\ IsInjective(<<e>> \o q)
           /\ \A x : Contains(<<e>> \o q, x) <=> Contains(q, x) \/ x = e
<1>1. /\ <<e>> \o q \in Seq(S) /\ Len(<<e>> \o q) = Len(q) + 1
      /\ (<<e>> \o q)[1] = e
      /\ \A i \in 1 .. Len(q) : (<<e>> \o q)[i + 1] = q[i]
      /\ \A i \in 2 .. Len(q) + 1 : (<<e>> \o q)[i] = q[i - 1]
  OBVIOUS
<1>2. IsInjective(<<e>> \o q)
  BY <1>1 DEF IsInjective, Contains
<1>3. ASSUME NEW x, Contains(q, x) \/ x = e PROVE Contains(<<e>> \o q, x)
  <2>1. CASE x = e
    BY <1>1, <2>1 DEF Contains
  <2>2. CASE Contains(q, x)
    <3>1. PICK i \in 1 .. Len(q) : q[i] = x
      BY <2>2 DEF Contains
    <3>2. i + 1 \in 1 .. Len(<<e>> \o q) /\ (<<e>> \o q)[i + 1] = x
      BY <1>1, <3>1
    <3> QED
      BY <3>2 DEF Contains
  <2> QED
    BY <1>3, <2>1, <2>2
<1>4. ASSUME NEW x, Contains(<<e>> \o q, x) PROVE Contains(q, x) \/ x = e
  BY <1>1, <1>4 DEF Contains
<1> QED
  BY <1>1, <1>2, <1>3, <1>4

\* Removing the first id is taking the tail.
LEMMA RemoveHead ==
    ASSUME NEW S, NEW q \in Seq(S), q # <<>>
    PROVE  RemoveFirst(q, Head(q)) = Tail(q)
<1>1. 1 \in 1 .. Len(q) /\ Head(q) = q[1]
  OBVIOUS
<1>2. RemoveFirst(q, q[1]) = [i \in 1 .. Len(q) - 1 |-> IF i < 1 THEN q[i] ELSE q[i + 1]]
  BY <1>1, RemoveFirstPresent
<1>3. Tail(q) = [i \in 1 .. Len(q) - 1 |-> q[i + 1]]
  <2> DEFINE shifted == [i \in 1 .. Len(q) - 1 |-> q[i + 1]]
  <2>1. shifted \in Seq(S) /\ Len(shifted) = Len(q) - 1
    OBVIOUS
  <2>2. /\ Tail(q) \in Seq(S) /\ Len(Tail(q)) = Len(q) - 1
        /\ \A i \in 1 .. Len(Tail(q)) : Tail(q)[i] = q[i + 1]
    BY HeadTailProperties
  <2> QED
    BY <2>1, <2>2, SeqEqual
<1> QED
  BY <1>1, <1>2, <1>3

\* The concatenation of two sequences that have nothing in common.
LEMMA ConcatDisjoint ==
    ASSUME NEW S, NEW q \in Seq(S), NEW r \in Seq(S), IsInjective(q), IsInjective(r),
           \A x \in S : ~(Contains(q, x) /\ Contains(r, x))
    PROVE  /\ q \o r \in Seq(S)
           /\ IsInjective(q \o r)
           /\ \A x : Contains(q \o r, x) <=> Contains(q, x) \/ Contains(r, x)
<1>1. /\ q \o r \in Seq(S) /\ Len(q \o r) = Len(q) + Len(r)
      /\ \A i \in 1 .. Len(q) : (q \o r)[i] = q[i]
      /\ \A i \in 1 .. Len(r) : (q \o r)[i + Len(q)] = r[i]
  OBVIOUS
<1>2. \A i \in 1 .. Len(q) + Len(r) :
         \/ i \in 1 .. Len(q) /\ (q \o r)[i] = q[i]
         \/ i - Len(q) \in 1 .. Len(r) /\ (q \o r)[i] = r[i - Len(q)]
  OBVIOUS
<1>3. IsInjective(q \o r)
  <2> SUFFICES ASSUME NEW i \in 1 .. Len(q) + Len(r), NEW j \in 1 .. Len(q) + Len(r),
                      (q \o r)[i] = (q \o r)[j]
               PROVE  i = j
    BY <1>1 DEF IsInjective
  <2>1. \A k \in 1 .. Len(q), l \in 1 .. Len(r) : q[k] # r[l]
    <3> SUFFICES ASSUME NEW k \in 1 .. Len(q), NEW l \in 1 .. Len(r), q[k] = r[l] PROVE FALSE
      OBVIOUS
    <3>1. q[k] \in S /\ Contains(q, q[k]) /\ Contains(r, q[k])
      BY DEF Contains
    <3> QED
      BY <3>1
  <2>2. CASE i \in 1 .. Len(q) /\ j \in 1 .. Len(q)
    BY <1>1, <2>2 DEF IsInjective
  <2>3. CASE i - Len(q) \in 1 .. Len(r) /\ j - Len(q) \in 1 .. Len(r)
    <3>1. (q \o r)[i] = r[i - Len(q)] /\ (q \o r)[j] = r[j - Len(q)]
      BY <1>2, <2>3
    <3>2. \A k, l \in 1 .. Len(r) : r[k] = r[l] => k = l
      BY DEF IsInjective
    <3>3. i - Len(q) = j - Len(q)
      BY <2>3, <3>1, <3>2
    <3> QED
      BY <3>3
  <2> QED
    BY <1>2, <2>1, <2>2, <2>3
<1>4. ASSUME NEW x, Contains(q, x) \/ Contains(r, x) PROVE Contains(q \o r, x)
  <2>1. CASE Contains(q, x)
    BY <1>1, <2>1 DEF Contains
  <2>2. CASE Contains(r, x)
    <3>1. PICK i \in 1 .. Len(r) : r[i] = x
      BY <2>2 DEF Contains
    <3>2. i + Len(q) \in 1 .. Len(q \o r) /\ (q \o r)[i + Len(q)] = x
      BY <1>1, <3>1
    <3> QED
      BY <3>2 DEF Contains
  <2> QED
    BY <1>4, <2>1, <2>2
<1>5. ASSUME NEW x, Contains(q \o r, x) PROVE Contains(q, x) \/ Contains(r, x)
  BY <1>1, <1>2, <1>5 DEF Contains
<1> QED
  BY <1>1, <1>3, <1>4, <1>5

\* Moving the first id of a queue to its end keeps the ids that are queued.
LEMMA RotateDistinct ==
    ASSUME NEW S, NEW q \in Seq(S), q # <<>>, IsInjective(q)
    PROVE  LET r == Append(Tail(q), Head(q)) IN
           /\ r \in Seq(S) /\ IsInjective(r)
           /\ \A x : Contains(r, x) <=> Contains(q, x)
<1>1. Head(q) \in S /\ Contains(q, Head(q)) /\ Tail(q) \in Seq(S)
  BY DEF Contains
<1>2. /\ IsInjective(Tail(q))
      /\ \A x : Contains(Tail(q), x) <=> Contains(q, x) /\ x # Head(q)
  <2>1. /\ IsInjective(RemoveFirst(q, Head(q)))
        /\ \A x : Contains(RemoveFirst(q, Head(q)), x) <=> Contains(q, x) /\ x # Head(q)
    BY <1>1, RemoveFirstDistinct
  <2>2. RemoveFirst(q, Head(q)) = Tail(q)
    BY RemoveHead
  <2> QED
    BY <2>1, <2>2
<1>3. /\ IsInjective(Append(Tail(q), Head(q))) /\ Append(Tail(q), Head(q)) \in Seq(S)
      /\ \A x : Contains(Append(Tail(q), Head(q)), x) <=> Contains(Tail(q), x) \/ x = Head(q)
  BY <1>1, <1>2, AppendNew
<1> QED
  BY <1>1, <1>2, <1>3
=============================================================================
