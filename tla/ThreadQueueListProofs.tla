------------------------ MODULE ThreadQueueListProofs ------------------------
(***************************************************************************)
(* Proofs about ThreadQueueList: its arrays and its chain are well formed, *)
(* and they implement the sequences of ReadyQueue.                         *)
(***************************************************************************)
EXTENDS ThreadQueueList, SequenceLemmas

\* A linked queue between two operations: its fields have their types, and its
\* ids leave a cell free at both ends.
Roomy(q) ==
    /\ QueueType(q)
    /\ 0 < q.first /\ q.first <= q.end /\ q.end < q.capacity

\* The ids of a queue are a sequence of as many ids as it has cells.
LEMMA QueuedIdsType ==
    ASSUME NEW q, QueueType(q), q.first <= q.end
    PROVE  /\ QueuedIds(q) \in Seq(Threads)
           /\ Len(QueuedIds(q)) = Size(q) /\ Size(q) \in Nat
           /\ \A i \in 1 .. Size(q) : QueuedIds(q)[i] = q.data[q.first + i - 1]
<1>1. Size(q) \in Nat
  BY DEF QueueType, Size
<1>2. \A i \in 1 .. Size(q) : q.data[q.first + i - 1] \in Threads
  BY DEF QueueType, Size
<1> QED
  BY <1>1, <1>2 DEF QueuedIds

\* Two queues that hold the same ids in their cells, counted from the first.
LEMMA SameIds ==
    ASSUME NEW q, QueueType(q), q.first <= q.end, NEW s \in Seq(Threads), Len(s) = Size(q),
           \A i \in 1 .. Size(q) : q.data[q.first + i - 1] = s[i]
    PROVE  QueuedIds(q) = s
<1>1. /\ QueuedIds(q) \in Seq(Threads) /\ Len(QueuedIds(q)) = Size(q)
      /\ \A i \in 1 .. Size(q) : QueuedIds(q)[i] = q.data[q.first + i - 1]
  BY QueuedIdsType
<1> QED
  BY <1>1, SeqEqual

\* Moving the ids inside the array keeps them and their order.
LEMMA MovedToFacts ==
    ASSUME NEW q, QueueType(q), q.first <= q.end, NEW n \in Nat
    PROVE  LET m == MovedTo(q, n) IN
           /\ QueueType(m) /\ m.first = n /\ m.end = n + Size(q)
           /\ m.next = q.next /\ m.capacity = q.capacity
           /\ QueuedIds(m) = QueuedIds(q)
<1> DEFINE m == MovedTo(q, n)
<1>1. /\ m.first = n /\ m.end = n + Size(q) /\ m.next = q.next /\ m.capacity = q.capacity
      /\ m.data = [i \in n .. n + Size(q) - 1 |-> q.data[i - n + q.first]]
      /\ DOMAIN m = DOMAIN q
  BY DEF MovedTo, QueueType
<1> HIDE DEF m
<1>2. /\ QueuedIds(q) \in Seq(Threads) /\ Len(QueuedIds(q)) = Size(q) /\ Size(q) \in Nat
      /\ \A i \in 1 .. Size(q) : QueuedIds(q)[i] = q.data[q.first + i - 1]
  BY QueuedIdsType
<1>3. QueueType(m)
  <2>1. \A i \in n .. n + Size(q) - 1 : q.data[i - n + q.first] \in Threads
    BY SMTT(30) DEF QueueType, Size
  <2> QED
    BY <1>1, <1>2, <2>1 DEF QueueType
<1>4. Size(m) = Size(q) /\ m.first <= m.end
  BY <1>1, <1>2 DEF Size
<1>5. \A i \in 1 .. Size(m) : m.data[m.first + i - 1] = QueuedIds(q)[i]
  <2> SUFFICES ASSUME NEW i \in 1 .. Size(q) PROVE m.data[n + i - 1] = QueuedIds(q)[i]
    BY <1>1, <1>4
  <2>1. n + i - 1 \in n .. n + Size(q) - 1 /\ (n + i - 1) - n + q.first = q.first + i - 1
    BY <1>2 DEF QueueType
  <2> QED
    BY <1>1, <1>2, <2>1
<1>6. QueuedIds(m) = QueuedIds(q)
  BY <1>2, <1>3, <1>4, <1>5, SameIds
<1> QED
  BY <1>1, <1>3, <1>6 DEF m

\* rebalance() makes room at both ends.
LEMMA RebalanceFacts ==
    ASSUME NEW q, QueueType(q), q.first <= q.end, q.end - q.first < q.capacity \/ q.first > 0,
           q.end <= q.capacity, q.capacity >= 2
    PROVE  LET r == Rebalance(q) IN
           /\ Roomy(r) /\ r.next = q.next /\ QueuedIds(r) = QueuedIds(q)
<1> DEFINE c == IF Size(q) >= q.capacity - 2 THEN 2 * q.capacity ELSE q.capacity
           n == (c - Size(q)) \div 2
           m == MovedTo(q, n)
           r == Rebalance(q)
<1>1. Size(q) \in Nat /\ Size(q) < q.capacity /\ c \in Nat /\ c - Size(q) >= 2
  BY DEF QueueType, Size
<1>2. n \in Nat /\ n >= 1 /\ n + Size(q) < c
  <2>1. \A k \in Nat : k >= 2 => k \div 2 \in Nat /\ k \div 2 >= 1 /\ k \div 2 < k
    OBVIOUS
  <2> HIDE DEF c
  <2>2. c - Size(q) \in Nat
    BY <1>1
  <2> QED
    BY <1>1, <2>1, <2>2
<1>3. r = [m EXCEPT !.capacity = c]
  BY DEF Rebalance
<1> HIDE DEF c, n
<1>4. /\ QueueType(m) /\ m.first = n /\ m.end = n + Size(q) /\ m.next = q.next
      /\ QueuedIds(m) = QueuedIds(q)
  BY <1>2, MovedToFacts
<1> HIDE DEF m, r
<1>5. /\ r.first = m.first /\ r.end = m.end /\ r.next = m.next /\ r.data = m.data /\ r.capacity = c
      /\ DOMAIN r = DOMAIN m
  BY <1>3, <1>4 DEF QueueType
<1>6. Roomy(r)
  BY <1>1, <1>2, <1>4, <1>5, SMTT(30) DEF Roomy, QueueType
<1>7. QueuedIds(r) = QueuedIds(m)
  BY <1>5 DEF QueuedIds, Size
<1> QED
  BY <1>4, <1>5, <1>6, <1>7 DEF r
-----------------------------------------------------------------------------
(* The operations on one queue *)

\* push_front() is <<t>> \o, whether the array is rebalanced or not.
LEMMA PushFrontFacts ==
    ASSUME NEW q, Roomy(q), NEW t \in Threads
    PROVE  LET r == AfterPushFront(q, t) IN
           /\ Roomy(r) /\ r.next = q.next /\ QueuedIds(r) = <<t>> \o QueuedIds(q)
<1> DEFINE pushed == [q EXCEPT !.first = @ - 1,
                               !.data = [i \in q.first - 1 .. q.end - 1 |->
                                           IF i = q.first - 1 THEN t ELSE q.data[i]]]
<1>1. /\ pushed.first = q.first - 1 /\ pushed.end = q.end /\ pushed.next = q.next
      /\ pushed.capacity = q.capacity /\ DOMAIN pushed = DOMAIN q
      /\ pushed.data = [i \in q.first - 1 .. q.end - 1 |->
                           IF i = q.first - 1 THEN t ELSE q.data[i]]
  BY DEF Roomy, QueueType
<1>2. AfterPushFront(q, t) = IF pushed.first = 0 THEN Rebalance(pushed) ELSE pushed
  BY DEF AfterPushFront
<1> HIDE DEF pushed
<1>3. QueueType(pushed) /\ pushed.first <= pushed.end
  <2>1. \A i \in q.first - 1 .. q.end - 1 :
           (IF i = q.first - 1 THEN t ELSE q.data[i]) \in Threads
    BY DEF Roomy, QueueType
  <2> QED
    BY <1>1, <2>1 DEF Roomy, QueueType
<1>4. QueuedIds(pushed) = <<t>> \o QueuedIds(q)
  <2>1. /\ QueuedIds(q) \in Seq(Threads) /\ Len(QueuedIds(q)) = Size(q) /\ Size(q) \in Nat
        /\ \A i \in 1 .. Size(q) : QueuedIds(q)[i] = q.data[q.first + i - 1]
    BY QueuedIdsType DEF Roomy
  <2> DEFINE s == <<t>> \o QueuedIds(q)
  <2>2. /\ s \in Seq(Threads) /\ Len(s) = Size(q) + 1 /\ s[1] = t
        /\ \A i \in 2 .. Size(q) + 1 : s[i] = QueuedIds(q)[i - 1]
    BY <2>1
  <2> HIDE DEF s
  <2>3. Size(pushed) = Size(q) + 1
    BY <1>1 DEF Size, Roomy, QueueType
  <2>4. \A i \in 1 .. Size(pushed) : pushed.data[pushed.first + i - 1] = s[i]
    <3> SUFFICES ASSUME NEW i \in 1 .. Size(q) + 1 PROVE pushed.data[q.first - 1 + i - 1] = s[i]
      BY <1>1, <2>3
    <3>1. q.first - 1 + i - 1 \in q.first - 1 .. q.end - 1
      BY DEF Size, Roomy, QueueType
    <3>2. CASE i = 1
      BY <1>1, <2>2, <3>1, <3>2 DEF Roomy, QueueType
    <3>3. CASE i # 1
      <4>1. i - 1 \in 1 .. Size(q) /\ q.first + (i - 1) - 1 = q.first - 1 + i - 1
        BY <2>1, <3>3 DEF Roomy, QueueType
      <4> QED
        BY <1>1, <2>1, <2>2, <3>1, <3>3, <4>1 DEF Roomy, QueueType
    <3> QED
      BY <3>2, <3>3
  <2>5. QueuedIds(pushed) = s
    BY <1>3, <2>2, <2>3, <2>4, SameIds
  <2> QED
    BY <2>5 DEF s
<1>5. CASE pushed.first = 0
  <2>1. Roomy(Rebalance(pushed)) /\ Rebalance(pushed).next = pushed.next
        /\ QueuedIds(Rebalance(pushed)) = QueuedIds(pushed)
    <3>1. /\ pushed.end - pushed.first < pushed.capacity
          /\ pushed.end <= pushed.capacity /\ pushed.capacity >= 2
      BY <1>1, <1>5 DEF Roomy, QueueType
    <3> QED
      BY <1>3, <3>1, RebalanceFacts
  <2> QED
    BY <1>1, <1>2, <1>4, <1>5, <2>1
<1>6. CASE pushed.first # 0
  <2>1. Roomy(pushed)
    BY <1>1, <1>3, <1>6 DEF Roomy, QueueType
  <2> QED
    BY <1>1, <1>2, <1>4, <1>6, <2>1
<1> QED
  BY <1>5, <1>6

\* push_back() is Append(), for which one free cell at the end is enough.
LEMMA PushBackFacts ==
    ASSUME NEW q, QueueType(q), 0 < q.first, q.first <= q.end, q.end < q.capacity,
           NEW t \in Threads
    PROVE  LET r == AfterPushBack(q, t) IN
           /\ Roomy(r) /\ r.next = q.next /\ QueuedIds(r) = Append(QueuedIds(q), t)
<1> DEFINE pushed == [q EXCEPT !.end = @ + 1,
                               !.data = [i \in q.first .. q.end |->
                                           IF i = q.end THEN t ELSE q.data[i]]]
<1>1. /\ pushed.first = q.first /\ pushed.end = q.end + 1 /\ pushed.next = q.next
      /\ pushed.capacity = q.capacity /\ DOMAIN pushed = DOMAIN q
      /\ pushed.data = [i \in q.first .. q.end |-> IF i = q.end THEN t ELSE q.data[i]]
  BY DEF QueueType
<1>2. AfterPushBack(q, t) = IF pushed.end = q.capacity THEN Rebalance(pushed) ELSE pushed
  BY <1>1 DEF AfterPushBack
<1> HIDE DEF pushed
<1>3. QueueType(pushed) /\ pushed.first <= pushed.end
  <2>1. \A i \in q.first .. q.end : (IF i = q.end THEN t ELSE q.data[i]) \in Threads
    BY DEF QueueType
  <2>2. q.first .. q.end = pushed.first .. pushed.end - 1
    BY <1>1 DEF QueueType
  <2> QED
    BY <1>1, <2>1, <2>2 DEF QueueType
<1>4. QueuedIds(pushed) = Append(QueuedIds(q), t)
  <2>1. /\ QueuedIds(q) \in Seq(Threads) /\ Len(QueuedIds(q)) = Size(q) /\ Size(q) \in Nat
        /\ \A i \in 1 .. Size(q) : QueuedIds(q)[i] = q.data[q.first + i - 1]
    BY QueuedIdsType
  <2> DEFINE s == Append(QueuedIds(q), t)
  <2>2. /\ s \in Seq(Threads) /\ Len(s) = Size(q) + 1 /\ s[Size(q) + 1] = t
        /\ \A i \in 1 .. Size(q) : s[i] = QueuedIds(q)[i]
    BY <2>1
  <2> HIDE DEF s
  <2>3. Size(pushed) = Size(q) + 1
    BY <1>1 DEF Size, QueueType
  <2>4. \A i \in 1 .. Size(pushed) : pushed.data[pushed.first + i - 1] = s[i]
    <3> SUFFICES ASSUME NEW i \in 1 .. Size(q) + 1 PROVE pushed.data[q.first + i - 1] = s[i]
      BY <1>1, <2>3
    <3>1. q.first + i - 1 \in q.first .. q.end
      BY DEF Size, QueueType
    <3>2. CASE i = Size(q) + 1
      <4>1. q.first + i - 1 = q.end
        BY <3>2 DEF Size, QueueType
      <4> QED
        BY <1>1, <2>2, <3>1, <3>2, <4>1
    <3>3. CASE i # Size(q) + 1
      <4>1. i \in 1 .. Size(q) /\ q.first + i - 1 # q.end
        BY <2>1, <3>3 DEF Size, QueueType
      <4> QED
        BY <1>1, <2>1, <2>2, <3>1, <4>1
    <3> QED
      BY <3>2, <3>3
  <2>5. QueuedIds(pushed) = s
    BY <1>3, <2>2, <2>3, <2>4, SameIds
  <2> QED
    BY <2>5 DEF s
<1>5. CASE pushed.end = q.capacity
  <2>1. Roomy(Rebalance(pushed)) /\ Rebalance(pushed).next = pushed.next
        /\ QueuedIds(Rebalance(pushed)) = QueuedIds(pushed)
    BY <1>1, <1>3, <1>5, RebalanceFacts DEF QueueType
  <2> QED
    BY <1>1, <1>2, <1>4, <1>5, <2>1
<1>6. CASE pushed.end # q.capacity
  BY <1>1, <1>2, <1>3, <1>4, <1>6 DEF Roomy, QueueType
<1> QED
  BY <1>5, <1>6

\* Taking the first id is Tail().
LEMMA PopFacts ==
    ASSUME NEW q, Roomy(q), Size(q) > 0
    PROVE  LET r == AfterPop(q) IN
           /\ Roomy(r) /\ r.next = q.next /\ QueuedIds(r) = Tail(QueuedIds(q))
           /\ r.end = q.end /\ r.capacity = q.capacity /\ r.first = q.first + 1
           /\ q.data[q.first] = Head(QueuedIds(q)) /\ QueuedIds(q) # <<>>
<1> DEFINE r == AfterPop(q)
<1>1. /\ r.first = q.first + 1 /\ r.end = q.end /\ r.next = q.next
      /\ r.capacity = q.capacity /\ DOMAIN r = DOMAIN q
      /\ r.data = [i \in q.first + 1 .. q.end - 1 |-> q.data[i]]
  BY DEF AfterPop, Roomy, QueueType
<1> HIDE DEF r
<1>2. /\ QueuedIds(q) \in Seq(Threads) /\ Len(QueuedIds(q)) = Size(q) /\ Size(q) \in Nat
      /\ \A i \in 1 .. Size(q) : QueuedIds(q)[i] = q.data[q.first + i - 1]
  BY QueuedIdsType DEF Roomy
<1>3. Roomy(r)
  <2>1. \A i \in q.first + 1 .. q.end - 1 : q.data[i] \in Threads
    BY DEF Roomy, QueueType
  <2> QED
    BY <1>1, <2>1 DEF Roomy, QueueType, Size
<1> DEFINE s == Tail(QueuedIds(q))
<1>4. /\ s \in Seq(Threads) /\ Len(s) = Size(q) - 1
      /\ \A i \in 1 .. Size(q) - 1 : s[i] = QueuedIds(q)[i + 1]
  BY <1>2
<1> HIDE DEF s
<1>5. Size(r) = Size(q) - 1
  BY <1>1 DEF Size, Roomy, QueueType
<1>6. \A i \in 1 .. Size(r) : r.data[r.first + i - 1] = s[i]
  <2> SUFFICES ASSUME NEW i \in 1 .. Size(q) - 1 PROVE r.data[q.first + 1 + i - 1] = s[i]
    BY <1>1, <1>5
  <2>1. /\ q.first + 1 + i - 1 \in q.first + 1 .. q.end - 1
        /\ i + 1 \in 1 .. Size(q) /\ q.first + (i + 1) - 1 = q.first + 1 + i - 1
    BY DEF Size, Roomy, QueueType
  <2> QED
    BY <1>1, <1>2, <1>4, <2>1
<1>7. QueuedIds(r) = s
  BY <1>3, <1>4, <1>5, <1>6, SameIds DEF Roomy
<1>8. q.data[q.first] = Head(QueuedIds(q)) /\ QueuedIds(q) # <<>>
  <2>1. 1 \in 1 .. Size(q) /\ q.first + 1 - 1 = q.first
    BY <1>2 DEF Roomy, QueueType
  <2> QED
    BY <1>2, <2>1
<1> QED
  BY <1>1, <1>3, <1>7, <1>8 DEF r, s

\* remove() closes the gap that the first cell with the id leaves.
LEMMA RemoveFacts ==
    ASSUME NEW q, Roomy(q), NEW t
    PROVE  LET r == AfterRemove(q, t) IN
           /\ Roomy(r) /\ r.next = q.next /\ QueuedIds(r) = RemoveFirst(QueuedIds(q), t)
<1> DEFINE ids == QueuedIds(q)
<1>1. /\ ids \in Seq(Threads) /\ Len(ids) = Size(q) /\ Size(q) \in Nat
      /\ \A i \in 1 .. Size(q) : ids[i] = q.data[q.first + i - 1]
  BY QueuedIdsType DEF Roomy
<1>2. \A i \in q.first .. q.end - 1 :
         /\ i - q.first + 1 \in 1 .. Size(q)
         /\ q.data[i] = ids[i - q.first + 1]
  <2> SUFFICES ASSUME NEW i \in q.first .. q.end - 1
               PROVE  i - q.first + 1 \in 1 .. Size(q) /\ q.data[i] = ids[i - q.first + 1]
    OBVIOUS
  <2>1. i - q.first + 1 \in 1 .. Size(q) /\ q.first + (i - q.first + 1) - 1 = i
    BY DEF Size, Roomy, QueueType
  <2> QED
    BY <1>1, <2>1
<1> HIDE DEF ids
<1>3. CASE CellsOf(q, t) = {}
  <2>1. \A i \in 1 .. Len(ids) : ids[i] # t
    <3> SUFFICES ASSUME NEW i \in 1 .. Size(q), ids[i] = t PROVE FALSE
      BY <1>1
    <3>1. q.first + i - 1 \in q.first .. q.end - 1
      BY DEF Size, Roomy, QueueType
    <3>2. q.first + i - 1 \in CellsOf(q, t)
      BY <1>1, <3>1 DEF CellsOf
    <3> QED
      BY <1>3, <3>2
  <2>2. RemoveFirst(ids, t) = ids
    BY <1>1, <2>1, RemoveFirstAbsent
  <2> QED
    BY <1>3, <2>2 DEF AfterRemove, ids
<1>4. CASE CellsOf(q, t) # {}
  <2> DEFINE gap == Min(CellsOf(q, t))
             k == gap - q.first + 1
             r == AfterRemove(q, t)
             s == [i \in 1 .. Len(ids) - 1 |-> IF i < k THEN ids[i] ELSE ids[i + 1]]
  <2>1. gap \in CellsOf(q, t) /\ \A n \in CellsOf(q, t) : gap <= n
    <3>1. CellsOf(q, t) \in SUBSET Nat
      BY DEF CellsOf, Roomy, QueueType
    <3> QED
      BY <1>4, <3>1, MinOfNaturals
  <2> HIDE DEF gap
  <2>2. gap \in q.first .. q.end - 1 /\ q.data[gap] = t
    BY <2>1 DEF CellsOf
  <2>3. /\ r.first = q.first /\ r.end = q.end - 1 /\ r.next = q.next
        /\ r.capacity = q.capacity /\ DOMAIN r = DOMAIN q
        /\ r.data = [i \in q.first .. q.end - 2 |->
                        IF i < gap THEN q.data[i] ELSE q.data[i + 1]]
    BY <1>4 DEF AfterRemove, Roomy, QueueType, gap
  <2> HIDE DEF r
  <2>4. k \in 1 .. Len(ids) /\ ids[k] = t
    BY <1>1, <1>2, <2>2
  <2>5. \A i \in 1 .. Len(ids) : ids[i] = ids[k] => k <= i
    <3> SUFFICES ASSUME NEW i \in 1 .. Size(q), ids[i] = t PROVE k <= i
      BY <1>1, <2>4
    <3>1. q.first + i - 1 \in q.first .. q.end - 1
      BY DEF Size, Roomy, QueueType
    <3>2. q.first + i - 1 \in CellsOf(q, t)
      BY <1>1, <3>1 DEF CellsOf
    <3>3. gap <= q.first + i - 1
      BY <2>1, <3>2
    <3> QED
      BY <2>2, <3>3 DEF Roomy, QueueType
  <2>6. RemoveFirst(ids, t) = s
    BY <1>1, <2>4, <2>5, RemoveFirstPresent
  <2>7. s \in Seq(Threads) /\ Len(s) = Size(q) - 1
    BY <1>1, <2>4, SMTT(30)
  <2>8. Roomy(r)
    <3>1. \A i \in q.first .. q.end - 2 :
             (IF i < gap THEN q.data[i] ELSE q.data[i + 1]) \in Threads
      BY DEF Roomy, QueueType
    <3>2. q.first .. q.end - 2 = r.first .. r.end - 1
      BY <2>3 DEF Roomy, QueueType
    <3>3. r.data \in [r.first .. r.end - 1 -> Threads]
      BY <2>3, <3>1, <3>2
    <3> QED
      BY <2>2, <2>3, <3>3 DEF Roomy, QueueType
  <2>9. Size(r) = Size(q) - 1
    BY <2>3 DEF Size, Roomy, QueueType
  <2>10. \A i \in 1 .. Size(r) : r.data[r.first + i - 1] = s[i]
    <3> SUFFICES ASSUME NEW i \in 1 .. Size(q) - 1 PROVE r.data[q.first + i - 1] = s[i]
      BY <2>3, <2>9
    <3>1. /\ q.first + i - 1 \in q.first .. q.end - 2
          /\ q.first + i - 1 < gap <=> i < k
          /\ i \in 1 .. Size(q) /\ i + 1 \in 1 .. Size(q)
          /\ (q.first + i - 1) + 1 = q.first + (i + 1) - 1
      <4>1. /\ q.first \in Int /\ q.end \in Int /\ gap \in Int
            /\ Size(q) = q.end - q.first /\ i \in Int /\ 1 <= i /\ i <= Size(q) - 1
        BY <1>1, <2>2 DEF Size, Roomy, QueueType
      <4> QED
        BY <4>1
    <3>2. s[i] = IF i < k THEN ids[i] ELSE ids[i + 1]
      BY <1>1
    <3>3. r.data[q.first + i - 1] = IF i < k THEN q.data[q.first + i - 1]
                                            ELSE q.data[q.first + (i + 1) - 1]
      BY <2>3, <3>1
    <3> HIDE DEF k, s
    <3> QED
      BY <1>1, <3>1, <3>2, <3>3
  <2> HIDE DEF s
  <2>11. QueuedIds(r) = s
    BY <2>7, <2>8, <2>9, <2>10, SameIds DEF Roomy
  <2> QED
    BY <2>3, <2>6, <2>8, <2>11 DEF r, ids
<1> QED
  BY <1>3, <1>4

\* rotate() moves the first id to the end; that it takes the id off first leaves
\* push_back() more room.
LEMMA RotateFacts ==
    ASSUME NEW q, Roomy(q)
    PROVE  LET r == AfterRotate(q) IN
           /\ Roomy(r) /\ r.next = q.next
           /\ QueuedIds(r) = IF Len(QueuedIds(q)) > 1
                              THEN Append(Tail(QueuedIds(q)), Head(QueuedIds(q)))
                              ELSE QueuedIds(q)
<1>1. Len(QueuedIds(q)) = Size(q) /\ Size(q) \in Nat
  BY QueuedIdsType DEF Roomy
<1>2. CASE Size(q) <= 1
  BY <1>1, <1>2 DEF AfterRotate
<1>3. CASE Size(q) > 1
  <2> DEFINE p == AfterPop(q)
             r == AfterPushBack(p, q.data[q.first])
  <2>1. /\ Roomy(p) /\ p.next = q.next /\ QueuedIds(p) = Tail(QueuedIds(q))
        /\ q.data[q.first] = Head(QueuedIds(q))
    BY <1>1, <1>3, PopFacts
  <2>2. q.data[q.first] \in Threads
    BY <1>3 DEF Roomy, QueueType, Size
  <2>3. AfterRotate(q) = r
    BY <1>1, <1>3 DEF AfterRotate
  <2> HIDE DEF p
  <2>4. Roomy(r) /\ r.next = p.next /\ QueuedIds(r) = Append(QueuedIds(p), q.data[q.first])
    BY <2>1, <2>2, PushBackFacts DEF Roomy
  <2> QED
    BY <1>1, <1>3, <2>1, <2>3, <2>4
<1> QED
  BY <1>1, <1>2, <1>3
-----------------------------------------------------------------------------
(* The inductive invariant *)

\* A queue is linked and roomy, or it is blank.
QueuesWellFormed ==
    /\ DOMAIN queues = Priorities
    /\ \A p \in Priorities :
          IF IsLinked(p) THEN Roomy(queues[p]) ELSE queues[p] = Unlinked
    /\ firstQueue \in 0 .. Invalid
    /\ popped \in [id : Threads \union {NoThread}, limit : 0 .. NumQueues]

\* A pop has passed by empty queues only, and has missed none.
WalkInv ==
    \/ walk = NoWalk
    \/ /\ walk \in [cursor : 0 .. Invalid, stop : 0 .. NumQueues]
       /\ walk.cursor = Invalid \/ IsLinked(walk.cursor)
       /\ \A p \in Priorities : p < walk.cursor => Size(queues[p]) <= 0

QueueInv == QueuesWellFormed /\ ChainSorted /\ WalkInv

LEMMA NumQueuesType == NumQueues \in Nat \ {0} /\ Invalid = NumQueues /\ Null = NumQueues + 1
BY NumQueuesAssumption DEF Invalid, Null

\* The blank queue.
LEMMA UnlinkedFacts ==
    QueueType(Unlinked) /\ Size(Unlinked) = 0 /\ Unlinked.next = Null /\ QueuedIds(Unlinked) = <<>>
<1>1. /\ Unlinked.next = Null /\ Unlinked.first = 0 /\ Unlinked.end = 0
      /\ Unlinked.capacity = 0 /\ Unlinked.data = <<>>
      /\ DOMAIN Unlinked = {"next", "first", "end", "capacity", "data"}
  BY DEF Unlinked
<1>2. <<>> \in [0 .. -1 -> Threads]
  OBVIOUS
<1>3. QueueType(Unlinked)
  BY <1>1, <1>2, NumQueuesType DEF QueueType
<1>4. Size(Unlinked) = 0
  BY <1>1 DEF Size
<1>5. QueuedIds(Unlinked) = <<>>
  <2>1. <<>> \in Seq(Threads) /\ Len(<<>>) = 0
    OBVIOUS
  <2>2. Unlinked.first <= Unlinked.end /\ \A i \in 1 .. Size(Unlinked) : FALSE
    BY <1>1, <1>4
  <2> QED
    BY <1>3, <1>4, <2>1, <2>2, SameIds
<1> QED
  BY <1>1, <1>3, <1>4, <1>5

\* The invariant contains the properties.
LEMMA QueueInvSuffices == QueueInv => TypeOK /\ RoomAtBothEnds /\ ChainSorted
<1> SUFFICES ASSUME QueueInv PROVE TypeOK /\ RoomAtBothEnds
  BY DEF QueueInv
<1>1. \A p \in Priorities : QueueType(queues[p])
  BY UnlinkedFacts DEF QueueInv, QueuesWellFormed, Roomy
<1>2. walk \in [cursor : 0 .. Null, stop : 0 .. Null]
  BY NumQueuesType DEF QueueInv, WalkInv, NoWalk
<1> QED
  BY <1>1, <1>2 DEF QueueInv, QueuesWellFormed, TypeOK, RoomAtBothEnds, Roomy

LEMMA QueueInvInit == Init => QueueInv
<1> SUFFICES ASSUME Init PROVE QueueInv
  OBVIOUS
<1>1. \A p \in Priorities : queues[p] = Unlinked /\ ~IsLinked(p)
  BY UnlinkedFacts DEF Init, IsLinked
<1>2. QueuesWellFormed
  BY <1>1, NumQueuesType DEF Init, QueuesWellFormed
<1>3. ChainSorted
  BY <1>1 DEF Init, ChainSorted
<1> QED
  BY <1>2, <1>3 DEF Init, QueueInv, WalkInv

\* IsLinked() with other queues.
LinkedIn(qs, p) == qs[p].next # Null

\* Between operations one linked queue changes, and stays roomy and where it is in
\* the chain.
LEMMA OneQueueChanges ==
    ASSUME QueueInv, NEW p \in Priorities, IsLinked(p), NEW q, Roomy(q),
           q.next = queues[p].next, queues' = [queues EXCEPT ![p] = q],
           UNCHANGED firstQueue,
           popped' \in [id : Threads \union {NoThread}, limit : 0 .. NumQueues]
    PROVE  /\ QueuesWellFormed' /\ ChainSorted'
           /\ \A r \in Priorities : /\ IsLinked(r)' <=> IsLinked(r)
                                    /\ queues'[r] = IF r = p THEN q ELSE queues[r]
<1>1. \A r \in Priorities : queues'[r] = IF r = p THEN q ELSE queues[r]
  BY DEF QueueInv, QueuesWellFormed
<1>2. \A r \in Priorities : queues'[r].next = queues[r].next
  BY <1>1
<1>3. \A r \in Priorities : IsLinked(r)' <=> IsLinked(r)
  BY <1>2 DEF IsLinked
<1>4. QueuesWellFormed'
  BY <1>1, <1>3 DEF QueueInv, QueuesWellFormed
<1>5. ChainSorted'
  <2>1. \A n \in 0 .. Invalid : n = Invalid \/ IsLinked(n) => n = Invalid \/ IsLinked(n)'
    BY <1>3, NumQueuesType DEF Priorities
  <2>2. \A r \in Priorities : IsLinked(r) => queues[r].next \in 0 .. Invalid
    BY NumQueuesType, SMTT(30) DEF QueueInv, QueuesWellFormed, Roomy, QueueType, IsLinked
  <2> QED
    BY <1>2, <1>3, <2>1, <2>2 DEF QueueInv, QueuesWellFormed, ChainSorted
<1> QED
  BY <1>1, <1>3, <1>4, <1>5
-----------------------------------------------------------------------------
(* The chain *)

\* The queues that are linked within a range of priorities, as a pop or a saved
\* state finds the next one.
LEMMA LinkedFromFacts ==
    ASSUME NEW p \in 0 .. NumQueues
    PROVE  /\ Min(LinkedFrom(p)) \in p .. Invalid
           /\ Min(LinkedFrom(p)) = Invalid \/ IsLinked(Min(LinkedFrom(p)))
           /\ \A r \in Priorities : r >= p /\ IsLinked(r) => Min(LinkedFrom(p)) <= r
<1>1. LinkedFrom(p) \in SUBSET Nat /\ LinkedFrom(p) # {}
  BY NumQueuesType DEF LinkedFrom
<1>2. /\ Min(LinkedFrom(p)) \in LinkedFrom(p)
      /\ \A n \in LinkedFrom(p) : Min(LinkedFrom(p)) <= n
  BY <1>1, MinOfNaturals
<1>3. \A r \in Priorities : r >= p /\ IsLinked(r) => r \in LinkedFrom(p)
  BY NumQueuesType DEF LinkedFrom, Priorities
<1> QED
  BY <1>2, <1>3, NumQueuesType DEF LinkedFrom

LEMMA NewQueueFacts ==
    ASSUME NEW next \in 0 .. Invalid
    PROVE  /\ Roomy(NewQueue(next)) /\ NewQueue(next).next = next
           /\ Size(NewQueue(next)) = 0 /\ QueuedIds(NewQueue(next)) = <<>>
<1> DEFINE q == NewQueue(next)
           h == InitialCapacity \div 2
<1>1. h \in Nat /\ 0 < h /\ h < InitialCapacity /\ InitialCapacity \in Nat
  BY CapacityAssumption
<1>2. /\ q.next = next /\ q.first = h /\ q.end = h /\ q.capacity = InitialCapacity
      /\ q.data = [i \in {} |-> NoThread]
      /\ DOMAIN q = {"next", "first", "end", "capacity", "data"}
  BY DEF NewQueue
<1> HIDE DEF q, h
<1>3. Roomy(q)
  <2>1. [i \in {} |-> NoThread] \in [h .. h - 1 -> Threads]
    BY <1>1
  <2> QED
    BY <1>1, <1>2, <2>1, NumQueuesType DEF Roomy, QueueType
<1>4. Size(q) = 0
  BY <1>1, <1>2 DEF Size
<1>5. QueuedIds(q) = <<>>
  <2>1. <<>> \in Seq(Threads) /\ Len(<<>>) = 0
    OBVIOUS
  <2>2. \A i \in 1 .. Size(q) : FALSE
    BY <1>4
  <2> QED
    BY <1>3, <1>4, <2>1, <2>2, SameIds DEF Roomy
<1> QED
  BY <1>2, <1>3, <1>4, <1>5 DEF q

\* link() puts the new queue where the chain has its place.
LEMMA LinkFacts ==
    ASSUME QueueInv, NEW p \in Priorities, ~IsLinked(p), Link(p), UNCHANGED <<walk, popped>>
    PROVE  /\ QueuesWellFormed' /\ ChainSorted'
           /\ \A r \in Priorities : /\ IsLinked(r)' <=> IsLinked(r) \/ r = p
                                    /\ QueuedIds(queues'[r]) = QueuedIds(queues[r])
<1>1. CASE LinkedBelow(p) = {}
  <2>1. queues' = [queues EXCEPT ![p] = NewQueue(firstQueue)] /\ firstQueue' = p
    BY <1>1 DEF Link
  <2>2. firstQueue \in 0 .. Invalid /\ p \in 0 .. Invalid
    BY NumQueuesType DEF QueueInv, QueuesWellFormed, Priorities
  <2> DEFINE q == NewQueue(firstQueue)
  <2>3. Roomy(q) /\ q.next = firstQueue /\ QueuedIds(q) = <<>>
    BY <2>2, NewQueueFacts
  <2> HIDE DEF q
  <2>4. \A r \in Priorities : queues'[r] = IF r = p THEN q ELSE queues[r]
    BY <2>1 DEF QueueInv, QueuesWellFormed, q
  <2>5. \A r \in Priorities : IsLinked(r)' <=> IsLinked(r) \/ r = p
    BY <2>2, <2>3, <2>4, NumQueuesType DEF IsLinked
  <2>6. QueuesWellFormed'
    BY <2>1, <2>2, <2>3, <2>4, <2>5 DEF QueueInv, QueuesWellFormed, q
  <2>7. \A r \in Priorities : IsLinked(r) => p < r
    BY <1>1 DEF LinkedBelow, Priorities
  <2>8. ChainSorted'
    <3>1. firstQueue = Invalid \/ (firstQueue \in Priorities /\ IsLinked(firstQueue))
      BY <2>2, NumQueuesType DEF QueueInv, ChainSorted, Priorities
    <3>2. firstQueue > p
      BY <2>7, <3>1, NumQueuesType DEF Priorities
    <3>3. p \in Int /\ \A r \in Priorities : r \in Int
      BY DEF Priorities
    <3>4. \A n \in Priorities : IsLinked(n) => LinkedIn(queues', n)
      BY <2>5 DEF IsLinked, LinkedIn
    <3>5. \A r \in Priorities : IsLinked(r) =>
             /\ queues'[r].next = queues[r].next
             /\ queues[r].next = Invalid \/ (queues[r].next \in Priorities /\ IsLinked(queues[r].next))
      <4> SUFFICES ASSUME NEW r \in Priorities, IsLinked(r)
                   PROVE  /\ queues'[r].next = queues[r].next
                          /\ queues[r].next = Invalid
                             \/ (queues[r].next \in Priorities /\ IsLinked(queues[r].next))
        OBVIOUS
      <4>1. queues[r].next \in 0 .. Null /\ queues[r].next # Null
        BY DEF QueueInv, QueuesWellFormed, Roomy, QueueType, IsLinked
      <4> QED
        BY <2>4, <4>1, NumQueuesType DEF QueueInv, ChainSorted, Priorities
    <3>6. \A r \in Priorities : IsLinked(r)' => p <= r
      BY <2>5, <2>7, <3>3
    <3>7. IsLinked(p)'
      BY <2>5
    <3>8. \A r \in Priorities : r > p /\ IsLinked(r)' => queues'[p].next <= r
      BY <2>3, <2>4, <2>5, <3>3 DEF QueueInv, ChainSorted
    <3>9. queues'[p].next > p /\ (queues'[p].next = Invalid \/ LinkedIn(queues', queues'[p].next))
      BY <2>3, <2>4, <3>1, <3>2, <3>4
    <3>10. \A r \in Priorities : IsLinked(r) =>
             /\ queues'[r].next > r
             /\ queues'[r].next = Invalid \/ LinkedIn(queues', queues'[r].next)
             /\ \A o \in Priorities : o > r /\ IsLinked(o)' => queues'[r].next <= o
      <4> SUFFICES ASSUME NEW r \in Priorities, IsLinked(r)
                   PROVE  /\ queues'[r].next > r
                          /\ queues'[r].next = Invalid \/ LinkedIn(queues', queues'[r].next)
                          /\ \A o \in Priorities : o > r /\ IsLinked(o)' => queues'[r].next <= o
        OBVIOUS
      <4>1. \A o \in Priorities : o > r /\ IsLinked(o)' => IsLinked(o)
        BY <2>5, <2>7, <3>3
      <4> QED
        BY <3>4, <3>5, <4>1 DEF QueueInv, ChainSorted
    <3> QED
      BY <2>1, <2>5, <3>6, <3>7, <3>8, <3>9, <3>10 DEF ChainSorted, IsLinked, LinkedIn
  <2>9. QueuedIds(queues[p]) = <<>>
    BY UnlinkedFacts DEF QueueInv, QueuesWellFormed
  <2> QED
    BY <2>3, <2>4, <2>5, <2>6, <2>8, <2>9
<1>2. CASE LinkedBelow(p) # {}
  <2> DEFINE prev == Max(LinkedBelow(p))
             q == NewQueue(queues[prev].next)
             before == [queues[prev] EXCEPT !.next = p]
  <2>1. prev \in LinkedBelow(p) /\ \A n \in LinkedBelow(p) : n <= prev
    <3>1. LinkedBelow(p) \in SUBSET Nat /\ p \in Nat /\ \A n \in LinkedBelow(p) : n <= p
      BY DEF LinkedBelow, Priorities
    <3> QED
      BY <1>2, <3>1, MaxOfNaturals
  <2>2. /\ queues' = [queues EXCEPT ![p] = NewQueue(queues[prev].next), ![prev].next = p]
        /\ firstQueue' = firstQueue
    BY <1>2 DEF Link
  <2> HIDE DEF prev
  <2>3. /\ prev \in Priorities /\ IsLinked(prev) /\ prev < p /\ p \in Int /\ prev \in Int
        /\ \A r \in Priorities : r \in Int /\ (IsLinked(r) => r <= prev \/ p < r)
    <3>1. p \in 0 .. NumQueues - 1 /\ prev \in 0 .. p - 1 /\ IsLinked(prev)
      BY <2>1 DEF LinkedBelow, Priorities
    <3>2. \A r \in Priorities : r \in Int /\ (IsLinked(r) => r <= prev \/ p < r)
      <4> SUFFICES ASSUME NEW r \in Priorities
                   PROVE  r \in Int /\ (IsLinked(r) => r <= prev \/ p < r)
        OBVIOUS
      <4>1. r \in Int /\ r >= 0
        BY DEF Priorities
      <4>2. IsLinked(r) /\ r < p => r <= prev
        BY <2>1, <3>1, <4>1 DEF LinkedBelow
      <4> QED
        BY <3>1, <4>1, <4>2
    <3> QED
      BY <3>1, <3>2, NumQueuesType DEF Priorities
  <2>4. /\ Roomy(queues[prev]) /\ queues[prev].next \in 0 .. Invalid
        /\ queues[prev].next = Invalid \/ (queues[prev].next \in Priorities /\ IsLinked(queues[prev].next))
        /\ queues[prev].next > p
        /\ \A r \in Priorities : r > prev /\ IsLinked(r) => queues[prev].next <= r
    <3>1. queues[prev].next \in 0 .. Null /\ queues[prev].next # Null /\ Roomy(queues[prev])
      BY <2>3 DEF QueueInv, QueuesWellFormed, Roomy, QueueType, IsLinked
    <3>2. queues[prev].next > prev /\ (queues[prev].next = Invalid \/ IsLinked(queues[prev].next))
      BY <2>3 DEF QueueInv, ChainSorted
    <3>3. \A r \in Priorities : r > prev /\ IsLinked(r) => queues[prev].next <= r
      BY <2>3 DEF QueueInv, ChainSorted
    <3>4. queues[prev].next \in 0 .. Invalid
          /\ (queues[prev].next = Invalid \/ queues[prev].next \in Priorities)
      BY <3>1, NumQueuesType DEF Priorities
    <3>5. p \in 0 .. NumQueues - 1
      BY DEF Priorities
    <3> QED
      BY <2>3, <3>1, <3>2, <3>3, <3>4, <3>5, NumQueuesType
  <2>5. Roomy(q) /\ q.next = queues[prev].next /\ QueuedIds(q) = <<>>
    BY <2>4, NewQueueFacts
  <2>6. /\ Roomy(before) /\ before.next = p /\ QueuedIds(before) = QueuedIds(queues[prev])
    <3>1. /\ before.next = p /\ before.first = queues[prev].first /\ before.end = queues[prev].end
          /\ before.capacity = queues[prev].capacity /\ before.data = queues[prev].data
          /\ DOMAIN before = DOMAIN queues[prev]
      BY <2>4 DEF Roomy, QueueType
    <3> HIDE DEF before
    <3>2. p \in 0 .. Null
      BY NumQueuesType DEF Priorities
    <3> QED
      BY <2>4, <3>1, <3>2 DEF Roomy, QueueType, QueuedIds, Size
  <2>7. \A r \in Priorities : queues'[r] = IF r = p THEN q ELSE IF r = prev THEN before ELSE queues[r]
    BY <2>2, <2>3 DEF QueueInv, QueuesWellFormed
  <2> HIDE DEF q, before
  <2>8. \A r \in Priorities : IsLinked(r)' <=> IsLinked(r) \/ r = p
    BY <2>3, <2>4, <2>5, <2>6, <2>7, NumQueuesType DEF IsLinked, Priorities
  <2>9. QueuesWellFormed'
    BY <2>2, <2>3, <2>5, <2>6, <2>7, <2>8, SMTT(30) DEF QueueInv, QueuesWellFormed
  <2>10. ChainSorted'
    <3>1. firstQueue <= p /\ (firstQueue = Invalid \/ (firstQueue \in Priorities /\ IsLinked(firstQueue)))
      <4>1. firstQueue <= prev /\ firstQueue \in 0 .. Invalid
        BY <2>3 DEF QueueInv, QueuesWellFormed, ChainSorted
      <4> QED
        BY <2>3, <4>1, NumQueuesType DEF QueueInv, ChainSorted, Priorities
    <3>2. \A n \in Priorities : IsLinked(n) => LinkedIn(queues', n)
      BY <2>8 DEF IsLinked, LinkedIn
    <3>3. /\ queues'[p].next > p
          /\ queues'[p].next = Invalid \/ LinkedIn(queues', queues'[p].next)
          /\ \A o \in Priorities : o > p /\ IsLinked(o)' => queues'[p].next <= o
      BY <2>3, <2>4, <2>5, <2>7, <2>8, <3>2
    <3>4. /\ queues'[prev].next > prev
          /\ LinkedIn(queues', queues'[prev].next)
          /\ \A o \in Priorities : o > prev /\ IsLinked(o)' => queues'[prev].next <= o
      <4>1. queues'[prev].next = p /\ LinkedIn(queues', p)
        BY <2>3, <2>6, <2>7, <2>8 DEF IsLinked, LinkedIn
      <4> QED
        BY <2>3, <2>8, <4>1
    <3>5. \A r \in Priorities : IsLinked(r) /\ r # prev =>
             /\ queues'[r].next > r
             /\ queues'[r].next = Invalid \/ LinkedIn(queues', queues'[r].next)
             /\ \A o \in Priorities : o > r /\ IsLinked(o)' => queues'[r].next <= o
      <4> SUFFICES ASSUME NEW r \in Priorities, IsLinked(r), r # prev
                   PROVE  /\ queues'[r].next > r
                          /\ queues'[r].next = Invalid \/ LinkedIn(queues', queues'[r].next)
                          /\ \A o \in Priorities : o > r /\ IsLinked(o)' => queues'[r].next <= o
        OBVIOUS
      <4>1. queues'[r].next = queues[r].next /\ r # p
        BY <2>7
      <4>2. queues[r].next \in 0 .. Null /\ queues[r].next # Null
        BY DEF QueueInv, QueuesWellFormed, Roomy, QueueType, IsLinked
      <4>3. queues[r].next > r /\ (queues[r].next = Invalid \/ IsLinked(queues[r].next))
            /\ \A o \in Priorities : o > r /\ IsLinked(o) => queues[r].next <= o
        BY DEF QueueInv, ChainSorted
      <4>4. r < prev => queues[r].next <= prev
        BY <2>3, <4>3
      <4>5. \A o \in Priorities : o > r /\ IsLinked(o)' => queues[r].next <= o
        BY <2>3, <2>8, <4>2, <4>3, <4>4
      <4>6. queues[r].next = Invalid \/ LinkedIn(queues', queues[r].next)
      <5>1. queues[r].next = Invalid \/ queues[r].next \in Priorities
        BY <4>2, NumQueuesType DEF Priorities
      <5> QED
        BY <3>2, <4>3, <5>1
      <4> QED
        BY <4>1, <4>3, <4>5, <4>6
    <3>6. \A r \in Priorities : IsLinked(r)' => firstQueue <= r
      BY <2>8, <3>1 DEF QueueInv, ChainSorted
    <3> QED
      BY <2>2, <2>8, <3>1, <3>2, <3>3, <3>4, <3>5, <3>6 DEF ChainSorted, IsLinked, LinkedIn
  <2>11. QueuedIds(queues[p]) = <<>>
    BY UnlinkedFacts DEF QueueInv, QueuesWellFormed
  <2> QED
    BY <2>3, <2>5, <2>6, <2>7, <2>8, <2>9, <2>10, <2>11
<1> QED
  BY <1>1, <1>2

\* DoState() rebuilds the chain, with the same ids in the same queues.
LEMMA LoadStateFacts ==
    ASSUME QueueInv, LoadState
    PROVE  /\ QueuesWellFormed' /\ ChainSorted'
           /\ \A r \in Priorities : /\ IsLinked(r)' <=> IsLinked(r)
                                    /\ QueuedIds(queues'[r]) = QueuedIds(queues[r])
<1> DEFINE moved(r) == MovedTo(queues[r], (queues[r].capacity - Size(queues[r])) \div 2)
           next(r) == Min(LinkedFrom(r + 1))
           saved(r) == [moved(r) EXCEPT !.next = next(r)]
<1>1. /\ queues' = [p \in Priorities |-> IF ~IsLinked(p) THEN Unlinked ELSE saved(p)]
      /\ firstQueue' = Min(LinkedFrom(0)) /\ popped' = popped
  BY DEF LoadState
<1>2. /\ 0 \in 0 .. NumQueues
      /\ \A r \in Priorities : r \in Int /\ r \in 0 .. NumQueues /\ r + 1 \in 0 .. NumQueues
  BY NumQueuesType DEF Priorities
<1>3. \A r \in Priorities :
         /\ next(r) \in r + 1 .. Invalid
         /\ next(r) = Invalid \/ (next(r) \in Priorities /\ IsLinked(next(r)))
         /\ \A o \in Priorities : o >= r + 1 /\ IsLinked(o) => next(r) <= o
  <2> SUFFICES ASSUME NEW r \in Priorities
               PROVE  /\ next(r) \in r + 1 .. Invalid
                      /\ next(r) = Invalid \/ (next(r) \in Priorities /\ IsLinked(next(r)))
                      /\ \A o \in Priorities : o >= r + 1 /\ IsLinked(o) => next(r) <= o
    OBVIOUS
  <2>1. /\ next(r) \in r + 1 .. Invalid /\ (next(r) = Invalid \/ IsLinked(next(r)))
        /\ \A o \in Priorities : o >= r + 1 /\ IsLinked(o) => next(r) <= o
    BY <1>2, LinkedFromFacts
  <2> HIDE DEF next
  <2>2. next(r) = Invalid \/ next(r) \in Priorities
    BY <1>2, <2>1, NumQueuesType DEF Priorities
  <2> QED
    BY <2>1, <2>2
<1>4. /\ firstQueue' \in 0 .. Invalid /\ (firstQueue' = Invalid \/ IsLinked(firstQueue'))
      /\ \A o \in Priorities : IsLinked(o) => firstQueue' <= o
  BY <1>1, <1>2, LinkedFromFacts DEF Priorities
<1> HIDE DEF next
<1>5. ASSUME NEW r \in Priorities, IsLinked(r)
      PROVE  /\ Roomy(saved(r)) /\ saved(r).next = next(r)
             /\ QueuedIds(saved(r)) = QueuedIds(queues[r])
  <2> DEFINE q == queues[r]
             n == (q.capacity - Size(q)) \div 2
             m == MovedTo(q, n)
             s == [m EXCEPT !.next = next(r)]
  <2>1. Roomy(q)
    BY <1>5 DEF QueueInv, QueuesWellFormed
  <2> HIDE DEF q
  <2>2. /\ Size(q) \in Nat /\ q.capacity - Size(q) \in Nat /\ q.capacity - Size(q) >= 2
        /\ q.capacity \in Nat
    BY <2>1 DEF Roomy, QueueType, Size
  <2>3. n \in Nat /\ n >= 1 /\ n + Size(q) < q.capacity
    <3>1. \A k \in Nat : k >= 2 => k \div 2 \in Nat /\ k \div 2 >= 1 /\ k \div 2 < k
      OBVIOUS
    <3> QED
      BY <2>2, <3>1
  <2> HIDE DEF n
  <2>4. /\ QueueType(m) /\ m.first = n /\ m.end = n + Size(q) /\ m.capacity = q.capacity
        /\ QueuedIds(m) = QueuedIds(q)
    BY <2>1, <2>3, MovedToFacts DEF Roomy
  <2> HIDE DEF m
  <2>5. /\ s.next = next(r) /\ s.first = m.first /\ s.end = m.end /\ s.capacity = m.capacity
        /\ s.data = m.data /\ DOMAIN s = DOMAIN m
    BY <2>4 DEF QueueType
  <2> HIDE DEF s
  <2>6. next(r) \in 0 .. Null
    BY <1>2, <1>3, NumQueuesType
  <2>7. Roomy(s)
    BY <2>2, <2>3, <2>4, <2>5, <2>6 DEF Roomy, QueueType
  <2>8. QueuedIds(s) = QueuedIds(m)
    BY <2>5 DEF QueuedIds, Size
  <2> QED
    BY <2>4, <2>5, <2>7, <2>8 DEF q, n, m, s
<1> HIDE DEF saved
<1>6. \A r \in Priorities : queues'[r] = IF ~IsLinked(r) THEN Unlinked ELSE saved(r)
  BY <1>1
<1>7. \A r \in Priorities : IsLinked(r)' <=> IsLinked(r)
  BY <1>2, <1>3, <1>5, <1>6, UnlinkedFacts, NumQueuesType DEF IsLinked
<1>8. QueuesWellFormed'
  BY <1>1, <1>4, <1>5, <1>6, <1>7 DEF QueueInv, QueuesWellFormed
<1>9. ChainSorted'
  <2>1. \A n \in Priorities : IsLinked(n) => LinkedIn(queues', n)
    BY <1>7 DEF IsLinked, LinkedIn
  <2>2. firstQueue' = Invalid \/ LinkedIn(queues', firstQueue')
    BY <1>4, <2>1, NumQueuesType DEF Priorities
  <2>3. \A r \in Priorities : IsLinked(r) =>
           /\ queues'[r].next > r
           /\ queues'[r].next = Invalid \/ LinkedIn(queues', queues'[r].next)
           /\ \A o \in Priorities : o > r /\ IsLinked(o)' => queues'[r].next <= o
    BY <1>2, <1>3, <1>5, <1>6, <1>7, <2>1, NumQueuesType
  <2> QED
    BY <1>4, <1>7, <2>2, <2>3 DEF ChainSorted, IsLinked, LinkedIn
<1> QED
  BY <1>5, <1>6, <1>7, <1>8, <1>9, UnlinkedFacts DEF QueueInv, QueuesWellFormed
-----------------------------------------------------------------------------
(* The walk of a pop *)

LEMMA StartPopInv ==
    ASSUME QueueInv, NEW stop \in 0 .. NumQueues, StartPop(stop)
    PROVE  QueueInv' /\ queues' = queues /\ popped' = popped
<1>1. /\ walk' = [cursor |-> firstQueue, stop |-> stop]
      /\ queues' = queues /\ firstQueue' = firstQueue /\ popped' = popped
  BY DEF StartPop
<1>2. QueuesWellFormed' /\ ChainSorted'
  BY <1>1 DEF QueueInv, QueuesWellFormed, ChainSorted, IsLinked
<1>3. firstQueue \in 0 .. Invalid /\ (firstQueue = Invalid \/ IsLinked(firstQueue))
  BY DEF QueueInv, QueuesWellFormed, ChainSorted
<1>4. \A p \in Priorities : p < firstQueue => Size(queues[p]) <= 0
  <2> SUFFICES ASSUME NEW p \in Priorities, p < firstQueue PROVE Size(queues[p]) <= 0
    OBVIOUS
  <2>1. ~IsLinked(p)
    BY <1>3, NumQueuesType DEF QueueInv, ChainSorted, Priorities
  <2>2. Size(queues[p]) = 0
    BY <2>1, UnlinkedFacts DEF QueueInv, QueuesWellFormed
  <2> QED
    BY <2>2
<1>5. WalkInv'
  BY <1>1, <1>3, <1>4 DEF WalkInv, IsLinked
<1> QED
  BY <1>1, <1>2, <1>5 DEF QueueInv

\* What the invariant says while the loop of a pop looks at a queue.
LEMMA CursorFacts ==
    ASSUME QueueInv, Inside
    PROVE  /\ walk \in [cursor : 0 .. Invalid, stop : 0 .. NumQueues]
           /\ walk.cursor \in Priorities /\ IsLinked(walk.cursor) /\ Roomy(queues[walk.cursor])
           /\ walk.cursor < walk.stop
           /\ \A p \in Priorities : p < walk.cursor => Size(queues[p]) <= 0
<1>1. /\ walk \in [cursor : 0 .. Invalid, stop : 0 .. NumQueues] /\ walk.cursor < walk.stop
      /\ walk.cursor = Invalid \/ IsLinked(walk.cursor)
      /\ \A p \in Priorities : p < walk.cursor => Size(queues[p]) <= 0
  BY DEF QueueInv, WalkInv, Inside, Walking
<1>2. walk.cursor \in Priorities /\ IsLinked(walk.cursor)
  BY <1>1, NumQueuesType DEF Priorities
<1> QED
  BY <1>1, <1>2 DEF QueueInv, QueuesWellFormed

LEMMA WalkOnInv ==
    ASSUME QueueInv, WalkOn
    PROVE  QueueInv' /\ queues' = queues /\ popped' = popped
<1> DEFINE c == walk.cursor
<1>1. /\ Size(queues[c]) <= 0 /\ walk' = [walk EXCEPT !.cursor = queues[c].next]
      /\ queues' = queues /\ firstQueue' = firstQueue /\ popped' = popped /\ Inside
  BY DEF WalkOn
<1>2. /\ walk \in [cursor : 0 .. Invalid, stop : 0 .. NumQueues]
      /\ c \in Priorities /\ IsLinked(c) /\ Roomy(queues[c])
      /\ \A p \in Priorities : p < c => Size(queues[p]) <= 0
  BY <1>1, CursorFacts
<1>3. QueuesWellFormed' /\ ChainSorted'
  BY <1>1 DEF QueueInv, QueuesWellFormed, ChainSorted, IsLinked
<1>4. /\ queues[c].next \in 0 .. Invalid
      /\ queues[c].next = Invalid \/ IsLinked(queues[c].next)
      /\ \A r \in Priorities : r > c /\ IsLinked(r) => queues[c].next <= r
  BY <1>2, NumQueuesType DEF QueueInv, ChainSorted, Roomy, QueueType, IsLinked
<1>5. \A p \in Priorities : p < queues[c].next => Size(queues[p]) <= 0
  <2> SUFFICES ASSUME NEW p \in Priorities, p < queues[c].next PROVE Size(queues[p]) <= 0
    OBVIOUS
  <2>1. p \in Int /\ c \in Int
    BY <1>2 DEF Priorities
  <2>2. CASE p < c
    BY <1>2, <2>2
  <2>3. CASE p = c
    BY <1>1, <2>3
  <2>4. CASE p > c
    <3>1. ~IsLinked(p)
      BY <1>4, <2>1, <2>4, NumQueuesType
    <3>2. Size(queues[p]) = 0
      BY <3>1, UnlinkedFacts DEF QueueInv, QueuesWellFormed
    <3> QED
      BY <3>2
  <2> QED
    BY <2>1, <2>2, <2>3, <2>4
<1>6. WalkInv'
  <2>1. /\ walk' \in [cursor : 0 .. Invalid, stop : 0 .. NumQueues]
        /\ walk'.cursor = queues[c].next
    BY <1>1, <1>2, <1>4
  <2> QED
    BY <1>1, <1>4, <1>5, <2>1 DEF WalkInv, IsLinked
<1> QED
  BY <1>1, <1>3, <1>6 DEF QueueInv
-----------------------------------------------------------------------------
(* Every action keeps the invariant and is a step of ReadyQueue, or a stutter *)

\* The state of ReadyQueue that the refinement maps to.
Ids == [p \in Priorities |-> QueuedIds(queues[p])]

Used == {p \in Priorities : IsLinked(p)}

\* What every operation on one linked queue does to the abstract state.
LEMMA UpdateFacts ==
    ASSUME QueueInv, NEW p \in Priorities, NEW q, Roomy(q), q.next = queues[p].next,
           Update(p, q)
    PROVE  /\ QueueInv' /\ Ids' = [Ids EXCEPT ![p] = QueuedIds(q)]
           /\ Used' = Used /\ p \in Used /\ popped' = popped
<1>1. /\ walk = NoWalk /\ IsLinked(p) /\ queues' = [queues EXCEPT ![p] = q]
      /\ firstQueue' = firstQueue /\ walk' = walk /\ popped' = popped
  BY DEF Update, Walking
<1>2. popped' \in [id : Threads \union {NoThread}, limit : 0 .. NumQueues]
  BY <1>1 DEF QueueInv, QueuesWellFormed
<1>3. /\ QueuesWellFormed' /\ ChainSorted'
      /\ \A r \in Priorities : /\ IsLinked(r)' <=> IsLinked(r)
                               /\ queues'[r] = IF r = p THEN q ELSE queues[r]
  BY <1>1, <1>2, OneQueueChanges
<1>4. WalkInv'
  BY <1>1 DEF WalkInv, NoWalk
<1>5. Ids' = [Ids EXCEPT ![p] = QueuedIds(q)]
  BY <1>3 DEF Ids
<1>6. Used' = Used /\ p \in Used
  BY <1>1, <1>3 DEF Used
<1> QED
  BY <1>1, <1>3, <1>4, <1>5, <1>6 DEF QueueInv

\* A queue that an operation is given has been prepared.
LEMMA UsedQueue ==
    ASSUME QueueInv, NEW p \in Priorities, IsLinked(p)
    PROVE  /\ Roomy(queues[p]) /\ Ids[p] = QueuedIds(queues[p])
           /\ Len(Ids[p]) = Size(queues[p])
<1>1. Roomy(queues[p])
  BY DEF QueueInv, QueuesWellFormed
<1> QED
  BY <1>1, QueuedIdsType DEF Ids, Roomy

LEMMA PushFrontStep ==
    ASSUME QueueInv, NEW p \in Priorities, NEW t \in Threads, PushFront(p, t)
    PROVE  QueueInv' /\ Abstract!PushFront(p, t)
<1> DEFINE q == AfterPushFront(queues[p], t)
<1>1. Size(queues[p]) < MaxLength[p] /\ Update(p, q) /\ IsLinked(p)
  BY DEF PushFront, Update
<1>2. Roomy(queues[p]) /\ Ids[p] = QueuedIds(queues[p]) /\ Len(Ids[p]) = Size(queues[p])
  BY <1>1, UsedQueue
<1>3. Roomy(q) /\ q.next = queues[p].next /\ QueuedIds(q) = <<t>> \o Ids[p]
  BY <1>2, PushFrontFacts
<1> HIDE DEF q
<1>4. /\ QueueInv' /\ Ids' = [Ids EXCEPT ![p] = QueuedIds(q)]
      /\ Used' = Used /\ p \in Used /\ popped' = popped
  BY <1>1, <1>3, UpdateFacts
<1> QED
  BY <1>1, <1>2, <1>3, <1>4 DEF Abstract!PushFront, Ids, Used

LEMMA PushBackStep ==
    ASSUME QueueInv, NEW p \in Priorities, NEW t \in Threads, PushBack(p, t)
    PROVE  QueueInv' /\ Abstract!PushBack(p, t)
<1> DEFINE q == AfterPushBack(queues[p], t)
<1>1. Size(queues[p]) < MaxLength[p] /\ Update(p, q) /\ IsLinked(p)
  BY DEF PushBack, Update
<1>2. Roomy(queues[p]) /\ Ids[p] = QueuedIds(queues[p]) /\ Len(Ids[p]) = Size(queues[p])
  BY <1>1, UsedQueue
<1>3. Roomy(q) /\ q.next = queues[p].next /\ QueuedIds(q) = Append(Ids[p], t)
  BY <1>2, PushBackFacts DEF Roomy
<1> HIDE DEF q
<1>4. /\ QueueInv' /\ Ids' = [Ids EXCEPT ![p] = QueuedIds(q)]
      /\ Used' = Used /\ p \in Used /\ popped' = popped
  BY <1>1, <1>3, UpdateFacts
<1> QED
  BY <1>1, <1>2, <1>3, <1>4 DEF Abstract!PushBack, Ids, Used

LEMMA RemoveIdStep ==
    ASSUME QueueInv, NEW p \in Priorities, NEW t \in Threads, RemoveId(p, t)
    PROVE  QueueInv' /\ Abstract!RemoveId(p, t)
<1> DEFINE q == AfterRemove(queues[p], t)
<1>1. Update(p, q) /\ IsLinked(p)
  BY DEF RemoveId, Update
<1>2. Roomy(queues[p]) /\ Ids[p] = QueuedIds(queues[p])
  BY <1>1, UsedQueue
<1>3. Roomy(q) /\ q.next = queues[p].next /\ QueuedIds(q) = RemoveFirst(Ids[p], t)
  BY <1>2, RemoveFacts
<1> HIDE DEF q
<1>4. /\ QueueInv' /\ Ids' = [Ids EXCEPT ![p] = QueuedIds(q)]
      /\ Used' = Used /\ p \in Used /\ popped' = popped
  BY <1>1, <1>3, UpdateFacts
<1>5. \A s : Abstract!RemoveFirst(s, t) = RemoveFirst(s, t)
  BY DEF Abstract!RemoveFirst, Abstract!RemoveAt, Abstract!SelectInSeq, Abstract!Min,
         RemoveFirst, RemoveAt, SelectInSeq, Min
<1> QED
  BY <1>1, <1>2, <1>3, <1>4, <1>5 DEF Abstract!RemoveId, Ids, Used

LEMMA RotateStep ==
    ASSUME QueueInv, NEW p \in Priorities, Rotate(p)
    PROVE  QueueInv' /\ Abstract!Rotate(p)
<1> DEFINE q == AfterRotate(queues[p])
<1>1. Update(p, q) /\ IsLinked(p)
  BY DEF Rotate, Update
<1>2. Roomy(queues[p]) /\ Ids[p] = QueuedIds(queues[p])
  BY <1>1, UsedQueue
<1>3. /\ Roomy(q) /\ q.next = queues[p].next
      /\ QueuedIds(q) = IF Len(Ids[p]) > 1 THEN Append(Tail(Ids[p]), Head(Ids[p])) ELSE Ids[p]
  BY <1>2, RotateFacts
<1> HIDE DEF q
<1>4. /\ QueueInv' /\ Ids' = [Ids EXCEPT ![p] = QueuedIds(q)]
      /\ Used' = Used /\ p \in Used /\ popped' = popped
  BY <1>1, <1>3, UpdateFacts
<1> QED
  BY <1>1, <1>2, <1>3, <1>4 DEF Abstract!Rotate, Ids, Used

LEMMA PrepareStep ==
    ASSUME QueueInv, NEW p \in Priorities, Prepare(p)
    PROVE  QueueInv' /\ Abstract!Prepare(p)
<1>1. walk = NoWalk /\ walk' = walk /\ popped' = popped
  BY DEF Prepare, Walking
<1>2. WalkInv'
  BY <1>1 DEF WalkInv, NoWalk
<1>3. CASE IsLinked(p)
  <2>1. queues' = queues /\ firstQueue' = firstQueue
    BY <1>3 DEF Prepare
  <2>2. QueueInv'
    BY <1>1, <1>2, <2>1 DEF QueueInv, QueuesWellFormed, ChainSorted, IsLinked
  <2>3. Ids' = Ids /\ Used' = Used /\ p \in Used
    BY <1>3, <2>1 DEF Ids, Used, IsLinked
  <2> QED
    BY <1>1, <2>2, <2>3 DEF Abstract!Prepare, Ids, Used
<1>4. CASE ~IsLinked(p)
  <2>1. Link(p) /\ UNCHANGED <<walk, popped>>
    BY <1>1, <1>4 DEF Prepare
  <2>2. /\ QueuesWellFormed' /\ ChainSorted'
        /\ \A r \in Priorities : /\ IsLinked(r)' <=> IsLinked(r) \/ r = p
                                 /\ QueuedIds(queues'[r]) = QueuedIds(queues[r])
    BY <1>4, <2>1, LinkFacts
  <2>3. Ids' = Ids /\ Used' = Used \union {p}
    BY <2>2 DEF Ids, Used
  <2> QED
    BY <1>1, <1>2, <2>2, <2>3 DEF QueueInv, Abstract!Prepare, Ids, Used
<1> QED
  BY <1>3, <1>4

LEMMA ClearStep ==
    ASSUME QueueInv, Clear
    PROVE  QueueInv' /\ Abstract!Clear
<1>1. /\ walk = NoWalk /\ walk' = walk /\ popped' = popped /\ firstQueue' = Invalid
      /\ queues' = [p \in Priorities |-> Unlinked]
  BY DEF Clear, Walking
<1>2. \A p \in Priorities : queues'[p] = Unlinked /\ ~IsLinked(p)'
  BY <1>1, UnlinkedFacts DEF IsLinked
<1>3. QueuesWellFormed' /\ ChainSorted'
  BY <1>1, <1>2, NumQueuesType DEF QueueInv, QueuesWellFormed, ChainSorted
<1>4. WalkInv'
  BY <1>1 DEF WalkInv, NoWalk
<1>5. Ids' = [p \in Priorities |-> <<>>] /\ Used' = {}
  BY <1>2, UnlinkedFacts DEF Ids, Used
<1> QED
  BY <1>1, <1>3, <1>4, <1>5 DEF QueueInv, Abstract!Clear, Abstract!Priorities, Priorities, Ids, Used

\* A saved state holds the same sequences as the one it is read back into.
LEMMA LoadStateStep ==
    ASSUME QueueInv, LoadState
    PROVE  QueueInv' /\ Ids' = Ids /\ Used' = Used /\ popped' = popped
<1>1. walk = NoWalk /\ walk' = walk /\ popped' = popped
  BY DEF LoadState, Walking
<1>2. /\ QueuesWellFormed' /\ ChainSorted'
      /\ \A r \in Priorities : /\ IsLinked(r)' <=> IsLinked(r)
                               /\ QueuedIds(queues'[r]) = QueuedIds(queues[r])
  BY LoadStateFacts
<1>3. WalkInv'
  BY <1>1 DEF WalkInv, NoWalk
<1>4. Ids' = Ids /\ Used' = Used
  BY <1>2 DEF Ids, Used
<1> QED
  BY <1>1, <1>2, <1>3, <1>4 DEF QueueInv

\* The priorities that PopBetter() chooses from, seen in the queues.
LEMMA BetterFacts ==
    ASSUME QueueInv, NEW limit \in 0 .. NumQueues
    PROVE  /\ Abstract!Better(limit) = {p \in Priorities : p < limit /\ Size(queues[p]) > 0}
           /\ \A p \in Priorities : Size(queues[p]) \in Nat
<1>1. \A p \in Priorities : /\ Size(queues[p]) \in Nat
                            /\ QueuedIds(queues[p]) # <<>> <=> Size(queues[p]) > 0
  <2> SUFFICES ASSUME NEW p \in Priorities
               PROVE  /\ Size(queues[p]) \in Nat
                      /\ QueuedIds(queues[p]) # <<>> <=> Size(queues[p]) > 0
    OBVIOUS
  <2>1. QueueType(queues[p]) /\ queues[p].first <= queues[p].end
    BY UnlinkedFacts DEF QueueInv, QueuesWellFormed, Roomy, Unlinked
  <2>2. /\ QueuedIds(queues[p]) \in Seq(Threads) /\ Size(queues[p]) \in Nat
        /\ Len(QueuedIds(queues[p])) = Size(queues[p])
    BY <2>1, QueuedIdsType
  <2>3. \A s \in Seq(Threads) : s # <<>> <=> Len(s) > 0
    OBVIOUS
  <2> QED
    BY <2>2, <2>3
<1>2. Abstract!Better(limit) = {p \in Priorities : p < limit /\ QueuedIds(queues[p]) # <<>>}
  BY DEF Abstract!Better, Abstract!Priorities, Priorities
<1> QED
  BY <1>1, <1>2

\* The loop stops at the first queue of the chain that holds somebody: it is the
\* best of all queues below the limit, because those it passed by and those that
\* are not in the chain are empty.
LEMMA FinishPopStep ==
    ASSUME QueueInv, FinishPop
    PROVE  QueueInv' /\ walk.stop \in 0 .. NumQueues /\ Abstract!PopBetter(walk.stop)
<1> DEFINE c == walk.cursor
           q == queues[c]
           better == Abstract!Better(walk.stop)
<1>1. /\ Inside /\ Size(q) > 0 /\ popped' = [id |-> q.data[q.first], limit |-> walk.stop]
      /\ queues' = [queues EXCEPT ![c] = AfterPop(q)]
      /\ walk' = NoWalk /\ firstQueue' = firstQueue
  BY DEF FinishPop
<1>2. /\ walk.stop \in 0 .. NumQueues /\ c \in Priorities /\ IsLinked(c) /\ Roomy(q)
      /\ c < walk.stop /\ \A p \in Priorities : p < c => Size(queues[p]) <= 0
  BY <1>1, CursorFacts
<1>3. /\ Roomy(AfterPop(q)) /\ AfterPop(q).next = q.next
      /\ QueuedIds(AfterPop(q)) = Tail(QueuedIds(q)) /\ q.data[q.first] = Head(QueuedIds(q))
  BY <1>1, <1>2, PopFacts
<1>4. q.data[q.first] \in Threads
  BY <1>1, <1>2 DEF Roomy, QueueType, Size
<1> DEFINE r == AfterPop(q)
<1>5. popped' \in [id : Threads \union {NoThread}, limit : 0 .. NumQueues]
  BY <1>1, <1>2, <1>4
<1>6. /\ QueuesWellFormed' /\ ChainSorted'
      /\ \A p \in Priorities : /\ IsLinked(p)' <=> IsLinked(p)
                               /\ queues'[p] = IF p = c THEN r ELSE queues[p]
  <2>1. Roomy(r) /\ r.next = queues[c].next /\ queues' = [queues EXCEPT ![c] = r]
    BY <1>1, <1>3
  <2> HIDE DEF c, r
  <2> QED
    BY <1>1, <1>2, <1>5, <2>1, OneQueueChanges
<1>7. WalkInv'
  BY <1>1 DEF WalkInv, NoWalk
<1>8. /\ Ids' = [Ids EXCEPT ![c] = Tail(Ids[c])] /\ Ids[c] = QueuedIds(q)
      /\ Used' = Used
  BY <1>2, <1>3, <1>6 DEF Ids, Used
<1>9. better # {} /\ Min(better) = c
  <2>1. better = {p \in Priorities : p < walk.stop /\ Size(queues[p]) > 0}
        /\ \A p \in Priorities : Size(queues[p]) \in Nat
    BY <1>2, BetterFacts
  <2> HIDE DEF better
  <2>2. c \in better /\ \A p \in better : c <= p /\ p \in Nat
    BY <1>1, <1>2, <2>1, NumQueuesType DEF Priorities
  <2>3. Min(better) \in better /\ \A p \in better : Min(better) <= p
    BY <2>2, MinOfNaturals
  <2> QED
    BY <2>2, <2>3
<1>10. Abstract!Min(better) = c
  BY <1>9 DEF Abstract!Min, Min
<1> HIDE DEF c, q, better
<1>11. Abstract!PopBetter(walk.stop)
  <2>1. popped' = [id |-> Head(Ids[c]), limit |-> walk.stop]
    BY <1>1, <1>3, <1>8
  <2> QED
    BY <1>8, <1>9, <1>10, <2>1 DEF Abstract!PopBetter, Ids, Used, better
<1> QED
  BY <1>2, <1>6, <1>7, <1>11 DEF QueueInv

\* The loop that comes to its limit has found every queue below it empty.
LEMMA FailPopStep ==
    ASSUME QueueInv, FailPop
    PROVE  QueueInv' /\ walk.stop \in 0 .. NumQueues /\ Abstract!PopBetter(walk.stop)
<1>1. /\ Walking /\ ~Inside /\ popped' = [id |-> NoThread, limit |-> walk.stop]
      /\ walk' = NoWalk /\ queues' = queues /\ firstQueue' = firstQueue
  BY DEF FailPop
<1>2. /\ walk.stop \in 0 .. NumQueues /\ walk.cursor \in 0 .. Invalid
      /\ \A p \in Priorities : p < walk.cursor => Size(queues[p]) <= 0
      /\ ~(walk.cursor < walk.stop)
  BY <1>1 DEF QueueInv, WalkInv, Walking, Inside
<1>3. popped' \in [id : Threads \union {NoThread}, limit : 0 .. NumQueues]
  BY <1>1, <1>2
<1>4. QueueInv'
  BY <1>1, <1>3 DEF QueueInv, QueuesWellFormed, ChainSorted, IsLinked, WalkInv
<1>5. Abstract!Better(walk.stop) = {}
  <2>1. \A p \in Priorities : p < walk.stop => p < walk.cursor
    BY <1>2, NumQueuesType DEF Priorities
  <2>2. \A p \in Priorities : p < walk.stop => ~(Size(queues[p]) > 0)
    BY <1>2, <2>1, BetterFacts
  <2> QED
    BY <1>2, <2>2, BetterFacts
<1>6. Ids' = Ids /\ Used' = Used
  BY <1>1 DEF Ids, Used, IsLinked
<1> QED
  BY <1>1, <1>2, <1>4, <1>5, <1>6 DEF Abstract!PopBetter, Ids, Used

\* Every step keeps the invariant, and is a step of ReadyQueue or a stutter.
LEMMA QueueStep ==
    ASSUME QueueInv, [Next]_vars
    PROVE  QueueInv' /\ [Abstract!Next]_(Abstract!vars)
<1> DEFINE Done == QueueInv' /\ [Abstract!Next]_(Abstract!vars)
<1> SUFFICES Done
  OBVIOUS
<1>1. Abstract!vars = <<Ids, Used, popped>> /\ Abstract!Priorities = Priorities
  BY DEF Abstract!vars, Abstract!Priorities, Priorities, Ids, Used
<1>2. Ids' = Ids /\ Used' = Used /\ popped' = popped => UNCHANGED Abstract!vars
  BY <1>1 DEF Ids, Used, Abstract!vars
<1>3. queues' = queues => Ids' = Ids /\ Used' = Used
  BY DEF Ids, Used, IsLinked
<1>4. ASSUME NEW p \in Priorities, Prepare(p) \/ Rotate(p) PROVE Done
  BY <1>1, <1>4, PrepareStep, RotateStep DEF Abstract!Next
<1>5. ASSUME NEW p \in Priorities, NEW t \in Threads,
             PushFront(p, t) \/ PushBack(p, t) \/ RemoveId(p, t)
      PROVE  Done
  BY <1>1, <1>5, PushFrontStep, PushBackStep, RemoveIdStep DEF Abstract!Next
<1>6. ASSUME NEW stop \in 0 .. NumQueues, StartPop(stop) PROVE Done
  BY <1>2, <1>3, <1>6, StartPopInv
<1>7. ASSUME WalkOn PROVE Done
  BY <1>2, <1>3, <1>7, WalkOnInv
<1>8. ASSUME FinishPop PROVE Done
  BY <1>8, FinishPopStep DEF Abstract!Next
<1>9. ASSUME FailPop PROVE Done
  BY <1>9, FailPopStep DEF Abstract!Next
<1>10. ASSUME Clear PROVE Done
  BY <1>10, ClearStep DEF Abstract!Next
<1>11. ASSUME LoadState PROVE Done
  BY <1>2, <1>11, LoadStateStep
<1>12. ASSUME UNCHANGED vars PROVE Done
  <2>1. /\ queues' = queues /\ firstQueue' = firstQueue /\ walk' = walk /\ popped' = popped
    BY <1>12 DEF vars
  <2>2. QueueInv'
    BY <2>1 DEF QueueInv, QueuesWellFormed, ChainSorted, IsLinked, WalkInv
  <2> QED
    BY <1>2, <1>3, <2>1, <2>2
<1> HIDE DEF Done
<1>13. CASE Next
  <2>1. CASE WalkOn \/ FinishPop \/ FailPop \/ Clear \/ LoadState
    BY <1>7, <1>8, <1>9, <1>10, <1>11, <2>1
  <2>2. CASE \E p \in Priorities : Prepare(p) \/ Rotate(p)
    BY <1>4, <2>2
  <2>3. CASE \E p \in Priorities, t \in Threads :
                PushFront(p, t) \/ PushBack(p, t) \/ RemoveId(p, t)
    BY <1>5, <2>3
  <2>4. CASE \E stop \in 0 .. NumQueues : StartPop(stop)
    BY <1>6, <2>4
  <2> QED
    BY <1>13, <2>1, <2>2, <2>3, <2>4 DEF Next
<1> QED
  BY <1>12, <1>13
-----------------------------------------------------------------------------
(* The theorems *)

\* The queues are well formed, their chain is sorted, and a pop in progress has
\* passed by empty queues only.
THEOREM QueueInvariance == Spec => []QueueInv
<1>1. QueueInv /\ [Next]_vars => QueueInv'
  BY QueueStep
<1> QED
  BY QueueInvInit, <1>1, PTL DEF Spec

\* The fields keep their types.
THEOREM QueueTypeCorrect == Spec => []TypeOK
BY QueueInvariance, QueueInvSuffices, PTL

\* However the ids drift in their arrays, push_front(), push_back() and rotate()
\* find a free cell where they write.
THEOREM RoomAlwaysAtBothEnds == Spec => []RoomAtBothEnds
BY QueueInvariance, QueueInvSuffices, PTL

\* The chain that a pop follows is sorted and complete, in whatever order the
\* priorities came into use, and after a state is loaded.
THEOREM ChainAlwaysSorted == Spec => []ChainSorted
BY QueueInvariance, QueueInvSuffices, PTL

LEMMA AbstractInit == Init => Abstract!Init
<1> SUFFICES ASSUME Init PROVE Abstract!Init
  OBVIOUS
<1>1. \A p \in Priorities : queues[p] = Unlinked /\ ~IsLinked(p)
  BY UnlinkedFacts DEF Init, IsLinked
<1>2. Ids = [p \in Priorities |-> <<>>] /\ Used = {}
  BY <1>1, UnlinkedFacts DEF Ids, Used
<1> QED
  BY <1>2 DEF Init, Abstract!Init, Abstract!Priorities, Priorities, Ids, Used

\* The arrays and the chain do to the sequences of ids what ReadyQueue promises
\* the scheduler: above all, a pop returns the head of the best sequence that is
\* not empty, and fails only when all of those below its limit are.
THEOREM QueueImplementsReadyQueue == Spec => ImplementsReadyQueue
<1>1. QueueInv /\ [Next]_vars => [Abstract!Next]_(Abstract!vars)
  BY QueueStep
<1> QED
  BY AbstractInit, QueueInvariance, <1>1, PTL DEF Spec, ImplementsReadyQueue, Abstract!Spec
=============================================================================
