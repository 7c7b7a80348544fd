--------------------------- MODULE SchedulerProofs ---------------------------
(* Every operator of Scheduler.tla keeps a sched record consistent, whatever *)
(* the threads, the priorities and the length of the queues.                 *)
EXTENDS Scheduler, SequenceLemmas

\* Well typed, with legal statuses, and with a ready queue that lists exactly the
\* ready threads.
QueueOK(s) ==
    /\ s \in SchedType
    /\ \A t \in AllThreads : s.status[t] \in LegalStatus
    /\ ReadyQueued(s)

\* What every kernel call relies on and leaves behind.
Consistent(s) == QueueOK(s) /\ RunningIsCurrent(s) /\ IdleCanRun(s)

\* What an update of one queue of a sched record is.
LEMMA QueueFields ==
    ASSUME NEW s \in SchedType, NEW p \in AllPriorities, NEW q \in Seq(AllThreads)
    PROVE  LET u == [s EXCEPT !.queue[p] = q] IN
           /\ u \in SchedType
           /\ u.queue = [s.queue EXCEPT ![p] = q]
           /\ u.status = s.status /\ u.prio = s.prio /\ u.cur = s.cur /\ u.wait = s.wait
BY DEF SchedType

\* The types of the parts of a sched record.
LEMMA SchedTypes ==
    ASSUME NEW s \in SchedType
    PROVE  /\ s.status \in [AllThreads -> SUBSET StatusBits]
           /\ s.prio \in [AllThreads -> AllPriorities]
           /\ s.queue \in [AllPriorities -> Seq(AllThreads)]
           /\ s.cur \in AllThreads \union {NoThread}
           /\ s.wait \in [AllThreads -> Waits]
BY DEF SchedType

\* A sched record is determined by its parts.
LEMMA SameParts ==
    ASSUME NEW s \in SchedType, NEW r \in SchedType,
           s.status = r.status, s.prio = r.prio, s.queue = r.queue, s.cur = r.cur, s.wait = r.wait
    PROVE  s = r
<1>1. ASSUME NEW A, NEW B, NEW C, NEW D, NEW E,
             NEW x \in [status : A, prio : B, queue : C, cur : D, wait : E],
             NEW y \in [status : A, prio : B, queue : C, cur : D, wait : E],
             x.status = y.status, x.prio = y.prio, x.queue = y.queue, x.cur = y.cur, x.wait = y.wait
      PROVE  x = y
  BY <1>1
<1> QED
  BY <1>1, Zenon DEF SchedType

\* Removing a thread from the queue of its priority, ready or not, leaves every
\* other thread where it was.
LEMMA RemovedFacts ==
    ASSUME NEW s, QueueOK(s), NEW t \in AllThreads
    PROVE  LET u == [s EXCEPT !.queue[s.prio[t]] = RemoveFirst(@, t)] IN
           /\ u \in SchedType
           /\ u.status = s.status /\ u.prio = s.prio /\ u.cur = s.cur /\ u.wait = s.wait
           /\ \A p \in AllPriorities :
                 /\ IsInjective(u.queue[p])
                 /\ \A x \in AllThreads :
                       Contains(u.queue[p], x) <=> Contains(s.queue[p], x) /\ x # t
<1>1. s \in SchedType
  BY DEF QueueOK
<1>2. s.prio[t] \in AllPriorities /\ s.queue \in [AllPriorities -> Seq(AllThreads)]
  BY <1>1, SchedTypes
<1> DEFINE q == s.queue[s.prio[t]]
           r == RemoveFirst(q, t)
           u == [s EXCEPT !.queue[s.prio[t]] = r]
<1>3. /\ r \in Seq(AllThreads) /\ IsInjective(r)
      /\ \A x : Contains(r, x) <=> Contains(q, x) /\ x # t
  BY <1>2, RemoveFirstDistinct DEF QueueOK, ReadyQueued
<1> HIDE DEF r
<1>4. /\ u \in SchedType
      /\ u.queue = [s.queue EXCEPT ![s.prio[t]] = r]
      /\ u.status = s.status /\ u.prio = s.prio /\ u.cur = s.cur /\ u.wait = s.wait
  BY <1>1, <1>2, <1>3, QueueFields
<1> HIDE DEF u
<1>5. \A p \in AllPriorities :
         /\ IsInjective(u.queue[p])
         /\ \A x \in AllThreads :
               Contains(u.queue[p], x) <=> Contains(s.queue[p], x) /\ x # t
  BY <1>2, <1>3, <1>4 DEF QueueOK, ReadyQueued
<1> QED
  BY <1>4, <1>5 DEF u, r

\* So does __KernelChangeReadyState(t, false).
LEMMA UnqueueFacts ==
    ASSUME NEW s, QueueOK(s), NEW t \in AllThreads
    PROVE  LET u == Unqueue(s, t) IN
           /\ u \in SchedType
           /\ u.status = s.status /\ u.prio = s.prio /\ u.cur = s.cur /\ u.wait = s.wait
           /\ \A p \in AllPriorities :
                 /\ IsInjective(u.queue[p])
                 /\ \A x \in AllThreads :
                       Contains(u.queue[p], x) <=> Contains(s.queue[p], x) /\ x # t
<1>1. CASE Has(s, t, "READY")
  BY <1>1, RemovedFacts DEF Unqueue
<1>2. CASE ~Has(s, t, "READY")
  BY <1>2 DEF Unqueue, QueueOK, ReadyQueued
<1> QED
  BY <1>1, <1>2

\* Making a thread ready queues it once, whatever it was doing.
LEMMA MakeReadyFacts ==
    ASSUME NEW s, QueueOK(s), NEW t \in AllThreads
    PROVE  LET m == MakeReady(s, t) IN
           /\ QueueOK(m)
           /\ m.status = [s.status EXCEPT ![t] = {"READY"}]
           /\ m.prio = s.prio /\ m.cur = s.cur /\ m.wait = s.wait
<1>1. s \in SchedType
  BY DEF QueueOK
<1>2. /\ s.prio[t] \in AllPriorities
      /\ s.queue \in [AllPriorities -> Seq(AllThreads)]
      /\ s.status \in [AllThreads -> SUBSET StatusBits]
  BY <1>1, SchedTypes
<1>3. CASE Has(s, t, "READY")
  <2>1. s.status[t] = {"READY"}
    BY <1>3 DEF QueueOK, Has, LegalStatus
  <2> QED
    BY <1>2, <1>3, <2>1 DEF MakeReady
<1>4. CASE ~Has(s, t, "READY")
  <2> DEFINE q == s.queue[s.prio[t]]
             r == IF Has(s, t, "RUNNING") THEN <<t>> \o q ELSE Append(q, t)
             m == [s EXCEPT !.queue[s.prio[t]] = r, !.status[t] = {"READY"}]
  <2>1. IsInjective(q) /\ ~Contains(q, t)
    BY <1>2, <1>4 DEF QueueOK, ReadyQueued
  <2>2. /\ r \in Seq(AllThreads) /\ IsInjective(r)
        /\ \A x : Contains(r, x) <=> Contains(q, x) \/ x = t
    BY <1>2, <2>1, ConsNew, AppendNew
  <2>3. MakeReady(s, t) = m
    BY <1>4 DEF MakeReady
  <2>4. {"READY"} \in SUBSET StatusBits
    BY DEF StatusBits
  <2> HIDE DEF q, r
  <2>5. /\ m \in SchedType
        /\ m.queue = [s.queue EXCEPT ![s.prio[t]] = r]
        /\ m.status = [s.status EXCEPT ![t] = {"READY"}]
        /\ m.prio = s.prio /\ m.cur = s.cur /\ m.wait = s.wait
    BY <1>1, <1>2, <2>2, <2>4 DEF SchedType
  <2> HIDE DEF m
  <2>6. \A x \in AllThreads : m.status[x] \in LegalStatus
    BY <1>2, <2>5 DEF QueueOK, LegalStatus
  <2>7. ReadyQueued(m)
    BY <1>2, <2>2, <2>5 DEF QueueOK, ReadyQueued, Has, q
  <2> QED
    BY <2>3, <2>5, <2>6, <2>7 DEF QueueOK
<1> QED
  BY <1>3, <1>4

\* InOrder() keeps the members of a sequence that are in a set, in their order, each
\* once when the sequence has each of them once.
LEMMA InOrderMembers ==
    ASSUME NEW S, NEW w \in Seq(S), NEW v,
           \A i, j \in DOMAIN w : w[i] = w[j] /\ w[i] \in v => i = j
    PROVE  /\ InOrder(w, v) \in Seq(S \intersect v)
           /\ IsInjective(InOrder(w, v))
           /\ \A x : Contains(InOrder(w, v), x) <=> Contains(w, x) /\ x \in v
           /\ \A k, l \in DOMAIN InOrder(w, v) : k < l =>
                 \E i, j \in DOMAIN w : i < j /\ w[i] = InOrder(w, v)[k] /\ w[j] = InOrder(w, v)[l]
<1> DEFINE at == {i \in 1 .. Len(w) : w[i] \in v}
           n == Cardinality(at)
           index == Ascending(at)
<1>0. at \in SUBSET (1 .. Len(w)) /\ Len(w) \in Nat
  OBVIOUS
<1>1. n \in Nat
  BY <1>0, AscendingFacts
<1>2. \A i \in at : \E k \in 1 .. n : index[k] = i
  <2> HIDE DEF at
  <2> QED
    BY <1>0, AscendingFacts
<1>3. index \in [1 .. n -> at]
  BY <1>0, AscendingFacts
<1>4. \A k, l \in 1 .. n : k < l => index[k] < index[l]
  BY <1>0, AscendingFacts
<1>7. InOrder(w, v) = [k \in 1 .. n |-> w[index[k]]]
  BY DEF InOrder, Ascending
<1> HIDE DEF index
<1>8. \A k \in 1 .. n : index[k] \in 1 .. Len(w) /\ w[index[k]] \in v /\ w[index[k]] \in S
  <2> SUFFICES ASSUME NEW k \in 1 .. n
               PROVE  index[k] \in 1 .. Len(w) /\ w[index[k]] \in v /\ w[index[k]] \in S
    OBVIOUS
  <2>1. index[k] \in 1 .. Len(w) /\ w[index[k]] \in v
    BY <1>3
  <2> QED
    BY <2>1, ElementOfSeq
<1> DEFINE r == [k \in 1 .. n |-> w[index[k]]]
<1>9. r \in Seq(S \intersect v) /\ Len(r) = n /\ DOMAIN r = 1 .. n
  BY <1>1, <1>8
<1>10. IsInjective(r)
  <2> SUFFICES ASSUME NEW k \in 1 .. n, NEW l \in 1 .. n, r[k] = r[l] PROVE k = l
    BY <1>9 DEF IsInjective
  <2>1. index[k] = index[l]
    BY <1>8
  <2>2. k < l \/ l < k \/ k = l
    OBVIOUS
  <2> QED
    BY <1>4, <1>8, <2>1, <2>2
<1>11. ASSUME NEW x, Contains(r, x) PROVE Contains(w, x) /\ x \in v
  BY <1>8, <1>9, <1>11 DEF Contains
<1>12. ASSUME NEW x, Contains(w, x), x \in v PROVE Contains(r, x)
  <2>1. PICK i \in 1 .. Len(w) : w[i] = x
    BY <1>12 DEF Contains
  <2>2. PICK k \in 1 .. n : index[k] = i
    BY <1>2, <1>12, <2>1
  <2> QED
    BY <1>9, <2>1, <2>2 DEF Contains
<1>14. \A k, l \in DOMAIN r : k < l => \E i, j \in DOMAIN w : i < j /\ w[i] = r[k] /\ w[j] = r[l]
  BY <1>4, <1>8, <1>9
<1>15. InOrder(w, v) = r
  BY <1>7
<1> HIDE DEF r
<1> QED
  BY <1>9, <1>10, <1>11, <1>12, <1>14, <1>15

\* In particular the waiters that several wake-ups in a row append to the queue of a
\* priority.
LEMMA InOrderFacts ==
    ASSUME NEW S, NEW w \in Seq(S), IsInjective(w), NEW v
    PROVE  /\ InOrder(w, v) \in Seq(S)
           /\ IsInjective(InOrder(w, v))
           /\ \A x : Contains(InOrder(w, v), x) <=> Contains(w, x) /\ x \in v
<1>1. InOrder(w, v) \in Seq(S \intersect v) => InOrder(w, v) \in Seq(S)
  BY SeqMonotonic
<1> QED
  BY <1>1, InOrderMembers DEF IsInjective

\* The queue depends on nothing but who is ready, and at what priority.
LEMMA SameReady ==
    ASSUME NEW s, QueueOK(s), NEW r \in SchedType,
           r.queue = s.queue,
           \A t \in AllThreads : r.status[t] \in LegalStatus /\ (Has(r, t, "READY") <=> Has(s, t, "READY")),
           \A t \in AllThreads : Has(s, t, "READY") => r.prio[t] = s.prio[t]
    PROVE  QueueOK(r)
BY DEF QueueOK, ReadyQueued

\* A thread that leaves the queue may get any status that is not ready.
LEMMA LeaveQueue ==
    ASSUME NEW s, QueueOK(s), NEW t \in AllThreads, NEW r \in SchedType,
           NEW bits \in LegalStatus, "READY" \notin bits,
           r.queue = Unqueue(s, t).queue, r.prio = s.prio,
           r.status = [s.status EXCEPT ![t] = bits]
    PROVE  QueueOK(r)
<1>1. s.status \in [AllThreads -> SUBSET StatusBits]
  BY SchedTypes DEF QueueOK
<1>2. \A x \in AllThreads : r.status[x] \in LegalStatus
  BY <1>1 DEF QueueOK
<1>3. \A p \in AllPriorities :
         /\ IsInjective(r.queue[p])
         /\ \A x \in AllThreads : Contains(r.queue[p], x) <=> Contains(s.queue[p], x) /\ x # t
  BY UnqueueFacts
<1>4. ReadyQueued(r)
  BY <1>1, <1>3 DEF QueueOK, ReadyQueued, Has
<1> QED
  BY <1>2, <1>4 DEF QueueOK

\* The end of a wait makes the thread ready, unless it is suspended or dormant.
LEMMA ResumeFromWaitFacts ==
    ASSUME NEW s, QueueOK(s), NEW t \in AllThreads
    PROVE  LET r == ResumeFromWait(s, t)
               bits == s.status[t] \ {"WAIT"}
           IN  /\ QueueOK(r)
               /\ r.status = [s.status EXCEPT ![t] =
                                 IF bits \intersect {"SUSPEND", "DORMANT"} = {} THEN {"READY"} ELSE bits]
               /\ r.prio = s.prio /\ r.cur = s.cur /\ r.wait = s.wait
<1> DEFINE bits == s.status[t] \ {"WAIT"}
           woken == [s EXCEPT !.status[t] = @ \ {"WAIT"}]
<1>1. s \in SchedType /\ s.status \in [AllThreads -> SUBSET StatusBits]
  BY SchedTypes DEF QueueOK
<1>2. /\ woken \in SchedType
      /\ woken.status = [s.status EXCEPT ![t] = bits]
      /\ woken.queue = s.queue /\ woken.prio = s.prio
      /\ woken.cur = s.cur /\ woken.wait = s.wait
  BY <1>1 DEF SchedType
<1>3. bits \in LegalStatus /\ ("READY" \in bits <=> Has(s, t, "READY"))
  BY DEF QueueOK, LegalStatus, Has
<1>4. QueueOK(woken)
  <2>1. \A x \in AllThreads : /\ woken.status[x] \in LegalStatus
                              /\ Has(woken, x, "READY") <=> Has(s, x, "READY")
    BY <1>1, <1>2, <1>3 DEF QueueOK, Has
  <2> QED
    BY <1>2, <2>1, SameReady
<1>5. ResumeFromWait(s, t) = IF bits \intersect {"SUSPEND", "DORMANT"} = {}
                             THEN MakeReady(woken, t) ELSE woken
  BY <1>1, <1>2 DEF ResumeFromWait
<1> HIDE DEF woken
<1>6. CASE bits \intersect {"SUSPEND", "DORMANT"} = {}
  <2>1. /\ QueueOK(MakeReady(woken, t))
        /\ MakeReady(woken, t).status = [woken.status EXCEPT ![t] = {"READY"}]
        /\ MakeReady(woken, t).prio = s.prio
        /\ MakeReady(woken, t).cur = s.cur /\ MakeReady(woken, t).wait = s.wait
    BY <1>2, <1>4, MakeReadyFacts
  <2>2. [woken.status EXCEPT ![t] = {"READY"}] = [s.status EXCEPT ![t] = {"READY"}]
    BY <1>1, <1>2
  <2> QED
    BY <1>5, <1>6, <2>1, <2>2
<1>7. CASE bits \intersect {"SUSPEND", "DORMANT"} # {}
  BY <1>2, <1>4, <1>5, <1>7
<1> QED
  BY <1>6, <1>7

\* The status of t after the end of its wait.
EndedWaitStatus(s, t) ==
    IF s.status[t] = {"WAIT"} THEN {"READY"} ELSE s.status[t] \ {"WAIT"}

\* Resuming several threads queues each of them at most once.
LEMMA ResumeEachFacts ==
    ASSUME NEW s, QueueOK(s), NEW w \in Seq(AllThreads), IsInjective(w),
           NEW valid, \A t \in valid : t \in AllThreads /\ Contains(w, t)
    PROVE  LET r == ResumeEach(s, w, valid) IN
           /\ QueueOK(r)
           /\ \A t \in AllThreads : r.status[t] = IF t \in valid THEN EndedWaitStatus(s, t)
                                                  ELSE s.status[t]
           /\ r.prio = s.prio /\ r.cur = s.cur /\ r.wait = s.wait
<1> DEFINE woken == {t \in valid : s.status[t] = {"WAIT"}}
           added(p) == InOrder(w, {t \in woken : s.prio[t] = p})
           status == [t \in AllThreads |-> IF t \in woken THEN {"READY"}
                                           ELSE IF t \in valid THEN s.status[t] \ {"WAIT"}
                                           ELSE s.status[t]]
           queue == [p \in AllPriorities |-> s.queue[p] \o added(p)]
           r == [s EXCEPT !.status = status, !.queue = queue]
<1>1. /\ s \in SchedType
      /\ s.status \in [AllThreads -> SUBSET StatusBits]
      /\ s.queue \in [AllPriorities -> Seq(AllThreads)]
  BY SchedTypes DEF QueueOK
<1>2. ResumeEach(s, w, valid) = r
  BY <1>1 DEF ResumeEach
<1>4. woken \subseteq AllThreads /\ \A t \in woken : Contains(w, t) /\ ~Has(s, t, "READY")
  BY DEF Has
<1>5. ASSUME NEW p \in AllPriorities
      PROVE  /\ added(p) \in Seq(AllThreads) /\ IsInjective(added(p))
             /\ \A x : Contains(added(p), x) <=> x \in woken /\ s.prio[x] = p
  <2>1. /\ added(p) \in Seq(AllThreads) /\ IsInjective(added(p))
        /\ \A x : Contains(added(p), x)
                    <=> Contains(w, x) /\ x \in {t \in woken : s.prio[t] = p}
    BY InOrderFacts
  <2> QED
    BY <1>4, <2>1
<1> HIDE DEF added
<1>6. ASSUME NEW p \in AllPriorities
      PROVE  /\ s.queue[p] \o added(p) \in Seq(AllThreads)
             /\ IsInjective(s.queue[p] \o added(p))
             /\ \A x \in AllThreads : Contains(s.queue[p] \o added(p), x)
                    <=> s.prio[x] = p /\ (Has(s, x, "READY") \/ x \in woken)
  <2>1. s.queue[p] \in Seq(AllThreads) /\ IsInjective(s.queue[p])
    BY <1>1 DEF QueueOK, ReadyQueued
  <2>2. \A x \in AllThreads : Contains(s.queue[p], x) <=> Has(s, x, "READY") /\ s.prio[x] = p
    BY DEF QueueOK, ReadyQueued
  <2>3. \A x \in AllThreads : ~(Contains(s.queue[p], x) /\ Contains(added(p), x))
    BY <1>4, <1>5, <2>2
  <2>4. /\ s.queue[p] \o added(p) \in Seq(AllThreads)
        /\ IsInjective(s.queue[p] \o added(p))
        /\ \A x : Contains(s.queue[p] \o added(p), x)
                    <=> Contains(s.queue[p], x) \/ Contains(added(p), x)
    BY <1>5, <2>1, <2>3, ConcatDisjoint
  <2> QED
    BY <1>5, <2>2, <2>4
<1>7. queue \in [AllPriorities -> Seq(AllThreads)]
  BY <1>6
<1>8. status \in [AllThreads -> SUBSET StatusBits] /\ \A t \in AllThreads : status[t] \in LegalStatus
  <2> SUFFICES ASSUME NEW t \in AllThreads
               PROVE  status[t] \in SUBSET StatusBits /\ status[t] \in LegalStatus
    OBVIOUS
  <2>1. s.status[t] \in LegalStatus
    BY DEF QueueOK
  <2>2. status[t] \in LegalStatus
    BY <2>1 DEF LegalStatus
  <2> QED
    BY <2>2 DEF LegalStatus, StatusBits
<1>9. \A t \in AllThreads : "READY" \in status[t] <=> Has(s, t, "READY") \/ t \in woken
  BY DEF Has
<1> HIDE DEF queue, status
<1>10. /\ r \in SchedType /\ r.status = status /\ r.queue = queue
       /\ r.prio = s.prio /\ r.cur = s.cur /\ r.wait = s.wait
  BY <1>1, <1>7, <1>8 DEF SchedType
<1> HIDE DEF r
<1>11. ReadyQueued(r)
  <2> SUFFICES ASSUME NEW p \in AllPriorities
               PROVE  /\ IsInjective(r.queue[p])
                      /\ \A t \in AllThreads :
                            Contains(r.queue[p], t) <=> Has(r, t, "READY") /\ r.prio[t] = p
    BY DEF ReadyQueued
  <2>1. r.queue[p] = s.queue[p] \o added(p)
    BY <1>10 DEF queue
  <2> QED
    BY <1>6, <1>9, <1>10, <2>1 DEF Has
<1>12. QueueOK(r)
  BY <1>8, <1>10, <1>11 DEF QueueOK
<1> QED
  BY <1>2, <1>10, <1>12 DEF status, EndedWaitStatus

\* The status of t after the waiters w of an object are resumed.
ResumedStatus(s, w, type, id, t) ==
    IF Contains(w, t) /\ VerifyWait(s, t, type, id) THEN EndedWaitStatus(s, t) ELSE s.status[t]

\* So does resuming all the waiters of an object.
LEMMA ResumeAllFacts ==
    ASSUME NEW s, QueueOK(s), NEW w \in Seq(AllThreads), IsInjective(w), NEW type, NEW id
    PROVE  LET r == ResumeAll(s, w, type, id) IN
           /\ QueueOK(r)
           /\ \A t \in AllThreads : r.status[t] = ResumedStatus(s, w, type, id, t)
           /\ r.prio = s.prio /\ r.cur = s.cur /\ r.wait = s.wait
<1> DEFINE valid == {t \in ToSet(w) : VerifyWait(s, t, type, id)}
<1>1. \A t : t \in valid <=> Contains(w, t) /\ VerifyWait(s, t, type, id)
  BY DEF ToSet, Contains
<1>2. \A t \in valid : t \in AllThreads /\ Contains(w, t)
  BY <1>1 DEF VerifyWait, Exists
<1>3. ResumeAll(s, w, type, id) = ResumeEach(s, w, valid)
  BY DEF ResumeAll
<1> HIDE DEF valid
<1>4. LET r == ResumeEach(s, w, valid) IN
      /\ QueueOK(r)
      /\ \A t \in AllThreads : r.status[t] = IF t \in valid THEN EndedWaitStatus(s, t)
                                             ELSE s.status[t]
      /\ r.prio = s.prio /\ r.cur = s.cur /\ r.wait = s.wait
  BY <1>2, ResumeEachFacts
<1> QED
  BY <1>1, <1>3, <1>4 DEF ResumedStatus


\* The current thread starts to wait.
LEMMA WaitCurThreadFacts ==
    ASSUME NEW s, QueueOK(s), s.cur \in AllThreads,
           NEW type \in WaitTypes, NEW id \in AllThreads \union Objects \union {NoThread}
    PROVE  LET r == WaitCurThread(s, type, id) IN
           /\ QueueOK(r)
           /\ r.status = [s.status EXCEPT ![s.cur] = {"WAIT"} \union (@ \intersect {"SUSPEND"})]
           /\ r.wait = [s.wait EXCEPT ![s.cur] = [type |-> type, id |-> id]]
           /\ r.prio = s.prio /\ r.cur = s.cur
<1> DEFINE t == s.cur
           u == Unqueue(s, t)
           r == WaitCurThread(s, type, id)
           bits == {"WAIT"} \union (s.status[t] \intersect {"SUSPEND"})
<1>1. s \in SchedType /\ s.status \in [AllThreads -> SUBSET StatusBits] /\ t \in AllThreads
  BY SchedTypes DEF QueueOK
<1>2. /\ u \in SchedType /\ u.status = s.status /\ u.prio = s.prio
      /\ u.cur = s.cur /\ u.wait = s.wait
  BY <1>1, UnqueueFacts
<1>3. bits \in LegalStatus /\ "READY" \notin bits /\ bits \in SUBSET StatusBits
  BY <1>1 DEF QueueOK, LegalStatus, StatusBits
<1>4. [type |-> type, id |-> id] \in Waits
  BY DEF Waits
<1> HIDE DEF u
<1>5. /\ r \in SchedType
      /\ r.status = [u.status EXCEPT ![t] = {"WAIT"} \union (@ \intersect {"SUSPEND"})]
      /\ r.wait = [u.wait EXCEPT ![t] = [type |-> type, id |-> id]]
      /\ r.queue = u.queue /\ r.prio = u.prio /\ r.cur = u.cur
  BY <1>1, <1>2, <1>3, <1>4 DEF WaitCurThread, SchedType, u
<1>6. r.status = [s.status EXCEPT ![t] = bits]
  BY <1>1, <1>2, <1>5
<1> HIDE DEF r, bits
<1>7. QueueOK(r)
  BY <1>1, <1>2, <1>3, <1>5, <1>6, LeaveQueue DEF u
<1> QED
  BY <1>2, <1>5, <1>7 DEF r

\* A switch to a ready thread leaves one running thread, the new current one, and
\* loses neither it nor the old one.
LEMMA SwitchContextFacts ==
    ASSUME NEW s, QueueOK(s), RunningIsCurrent(s), NEW t \in AllThreads, Has(s, t, "READY")
    PROVE  LET r == SwitchContext(s, t) IN
           /\ QueueOK(r)
           /\ r.cur = t
           /\ \A x \in AllThreads : r.status[x] = IF x = t THEN {"RUNNING"}
                                                  ELSE IF Has(s, x, "RUNNING") THEN {"READY"}
                                                  ELSE s.status[x]
           /\ r.prio = s.prio
           /\ r.wait = [s.wait EXCEPT ![t] = NoWait]
<1> DEFINE left == IF CurIsRunning(s) THEN MakeReady(s, s.cur) ELSE s
           moved == [left EXCEPT !.cur = t]
           entered == Unqueue(moved, t)
           r == [entered EXCEPT !.status[t] = (@ \union {"RUNNING"}) \ {"READY"}, !.wait[t] = NoWait]
<1>1. /\ s \in SchedType /\ s.status \in [AllThreads -> SUBSET StatusBits]
      /\ s.wait \in [AllThreads -> Waits] /\ s.cur \in AllThreads \union {NoThread}
  BY SchedTypes DEF QueueOK
<1>2. s.status[t] = {"READY"}
  BY DEF QueueOK, LegalStatus, Has
<1>3. /\ QueueOK(left) /\ left.prio = s.prio /\ left.cur = s.cur /\ left.wait = s.wait
      /\ left.status = [x \in AllThreads |-> IF Has(s, x, "RUNNING") THEN {"READY"}
                                             ELSE s.status[x]]
  <2>1. CASE CurIsRunning(s)
    <3>1. s.cur \in AllThreads
      BY <1>1, <2>1 DEF CurIsRunning
    <3>2. /\ QueueOK(left) /\ left.prio = s.prio /\ left.cur = s.cur /\ left.wait = s.wait
          /\ left.status = [s.status EXCEPT ![s.cur] = {"READY"}]
      BY <2>1, <3>1, MakeReadyFacts
    <3> QED
      BY <1>1, <2>1, <3>1, <3>2 DEF RunningIsCurrent, CurIsRunning
  <2>2. CASE ~CurIsRunning(s)
    <3>1. \A x \in AllThreads : ~Has(s, x, "RUNNING")
      BY <1>1, <2>2, SchedulerAssumption DEF RunningIsCurrent, CurIsRunning, AllThreads
    <3> QED
      BY <1>1, <2>2, <3>1
  <2> QED
    BY <2>1, <2>2
<1> HIDE DEF left
<1>4. /\ moved \in SchedType /\ moved.status = left.status /\ moved.prio = left.prio
      /\ moved.queue = left.queue /\ moved.wait = left.wait /\ moved.cur = t
  BY <1>3 DEF QueueOK, SchedType
<1> HIDE DEF moved
<1>5. QueueOK(moved)
  BY <1>3, <1>4, SameReady DEF QueueOK, Has
<1>6. /\ entered \in SchedType /\ entered.status = moved.status /\ entered.prio = moved.prio
      /\ entered.cur = moved.cur /\ entered.wait = moved.wait
  BY <1>5, UnqueueFacts
<1>7. NoWait \in Waits
  BY DEF NoWait, Waits, WaitTypes
<1>8. left.status[t] = {"READY"}
  BY <1>2, <1>3 DEF Has
<1> HIDE DEF entered
<1>9. /\ r \in SchedType
      /\ r.status = [entered.status EXCEPT ![t] = (@ \union {"RUNNING"}) \ {"READY"}]
      /\ r.wait = [entered.wait EXCEPT ![t] = NoWait]
      /\ r.queue = entered.queue /\ r.prio = entered.prio /\ r.cur = entered.cur
  BY <1>6, <1>7 DEF SchedType, StatusBits
<1>10. SwitchContext(s, t) = r
  BY DEF SwitchContext, left, moved, entered
<1> HIDE DEF r
<1>11. r.status = [moved.status EXCEPT ![t] = {"RUNNING"}]
  <2>1. entered.status[t] = {"READY"}
    BY <1>4, <1>6, <1>8
  <2>2. ({"READY"} \union {"RUNNING"}) \ {"READY"} = {"RUNNING"}
    OBVIOUS
  <2> QED
    BY <1>6, <1>9, <2>1, <2>2
<1>12. QueueOK(r)
  <2>1. {"RUNNING"} \in LegalStatus /\ "READY" \notin {"RUNNING"}
    BY DEF LegalStatus
  <2>2. r \in SchedType /\ r.queue = Unqueue(moved, t).queue /\ r.prio = moved.prio
    BY <1>6, <1>9 DEF entered
  <2> QED
    BY <1>5, <1>11, <2>1, <2>2, LeaveQueue
<1>13. \A x \in AllThreads : r.status[x] = IF x = t THEN {"RUNNING"}
                                          ELSE IF Has(s, x, "RUNNING") THEN {"READY"}
                                          ELSE s.status[x]
  <2>1. r.status = [left.status EXCEPT ![t] = {"RUNNING"}]
    BY <1>4, <1>11
  <2> QED
    BY <1>3, <2>1
<1>14. r.cur = t /\ r.prio = s.prio /\ r.wait = [s.wait EXCEPT ![t] = NoWait]
  BY <1>3, <1>4, <1>6, <1>9
<1> QED
  BY <1>10, <1>12, <1>13, <1>14

\* In a consistent state that includes the idle thread.
LEMMA SwitchContextConsistent ==
    ASSUME NEW s, Consistent(s), NEW t \in AllThreads, Has(s, t, "READY")
    PROVE  Consistent(SwitchContext(s, t))
<1> DEFINE r == SwitchContext(s, t)
<1>1. /\ QueueOK(r) /\ r.cur = t /\ r.prio = s.prio
      /\ \A x \in AllThreads : r.status[x] = IF x = t THEN {"RUNNING"}
                                             ELSE IF Has(s, x, "RUNNING") THEN {"READY"}
                                             ELSE s.status[x]
  <2>1. QueueOK(s) /\ RunningIsCurrent(s)
    BY DEF Consistent
  <2>2. \A x \in AllThreads : r.status[x] = IF x = t THEN {"RUNNING"}
                                            ELSE IF Has(s, x, "RUNNING") THEN {"READY"}
                                            ELSE s.status[x]
    BY <2>1, SwitchContextFacts, ZenonT(30)
  <2>3. QueueOK(r) /\ r.cur = t /\ r.prio = s.prio
    BY <2>1, SwitchContextFacts
  <2> QED
    BY <2>2, <2>3
<1> HIDE DEF r
<1>2. \A x \in AllThreads : s.status[x] \in LegalStatus
  BY DEF Consistent, QueueOK
<1>3. RunningIsCurrent(r)
  BY <1>1, <1>2 DEF RunningIsCurrent, Has
<1>4. IdleCanRun(r)
  BY <1>1 DEF Consistent, IdleCanRun, AllThreads, Has
<1> QED
  BY <1>1, <1>3, <1>4 DEF Consistent, r

\* A reschedule pops the best ready thread and switches to it: the same as a
\* switch to that thread where it is, for the thread that leaves is not as good.
LEMMA NextThreadIsSwitch ==
    ASSUME NEW s, Consistent(s), Candidates(s) # {}
    PROVE  LET best == Min(Candidates(s))
               t == Head(s.queue[best])
           IN  /\ best \in Candidates(s) /\ \A p \in Candidates(s) : best <= p
               /\ t \in AllThreads /\ Has(s, t, "READY") /\ s.prio[t] = best
               /\ NextThread(s) = SwitchContext(s, t)
<1> DEFINE best == Min(Candidates(s))
           q == s.queue[best]
           t == Head(q)
           popped == [s EXCEPT !.queue[best] = Tail(@)]
<1>1. /\ s \in SchedType /\ s.queue \in [AllPriorities -> Seq(AllThreads)]
      /\ s.prio \in [AllThreads -> AllPriorities] /\ s.cur \in AllThreads \union {NoThread}
      /\ s.status \in [AllThreads -> SUBSET StatusBits]
  BY SchedTypes DEF Consistent, QueueOK
<1>2. AllPriorities \subseteq Nat
  BY SchedulerAssumption DEF AllPriorities
<1>3. best \in Candidates(s) /\ \A p \in Candidates(s) : best <= p
  <2>1. Candidates(s) \in SUBSET Nat
    BY <1>2 DEF Candidates
  <2> QED
    BY <2>1, MinOfNaturals
<1>4. best \in AllPriorities /\ q \in Seq(AllThreads) /\ q # <<>>
  BY <1>1, <1>3 DEF Candidates
<1> HIDE DEF best
<1>5. t \in AllThreads /\ Contains(q, t)
  BY <1>4 DEF Contains
<1>6. Has(s, t, "READY") /\ s.prio[t] = best
  BY <1>4, <1>5 DEF Consistent, QueueOK, ReadyQueued
<1>7. RemoveFirst(q, t) = Tail(q)
  BY <1>4, RemoveHead
<1> DEFINE into(left) == [Unqueue([left EXCEPT !.cur = t], t) EXCEPT
                            !.status[t] = (@ \union {"RUNNING"}) \ {"READY"}, !.wait[t] = NoWait]
<1>8. /\ popped \in SchedType /\ popped.queue = [s.queue EXCEPT ![best] = Tail(q)]
      /\ popped.status = s.status /\ popped.prio = s.prio
      /\ popped.cur = s.cur /\ popped.wait = s.wait
  <2>1. Tail(q) \in Seq(AllThreads)
    BY <1>4
  <2> QED
    BY <1>1, <1>4, <2>1 DEF SchedType
<1>9. NextThread(s) = SwitchContext(popped, t)
  BY DEF NextThread, best
<1> HIDE DEF popped, q, t
<1>10. ASSUME NEW a \in SchedType, NEW b \in SchedType,
              Has(a, t, "READY"), Has(b, t, "READY"), a.prio[t] = best, b.prio = a.prio,
              a.status = b.status, a.cur = b.cur, a.wait = b.wait, a.queue[best] = q,
              b.queue = [a.queue EXCEPT ![best] = Tail(q)], ~Contains(Tail(q), t)
       PROVE  into(b) = into(a)
  <2> DEFINE moved(x) == [x EXCEPT !.cur = t]
             entered(x) == Unqueue(moved(x), t)
  <2>1. ASSUME NEW x \in SchedType
        PROVE  /\ moved(x) \in SchedType /\ moved(x).cur = t /\ moved(x).queue = x.queue
               /\ moved(x).status = x.status /\ moved(x).prio = x.prio /\ moved(x).wait = x.wait
    BY <1>5 DEF SchedType
  <2> HIDE DEF moved
  <2>2. ASSUME NEW x \in SchedType, Has(x, t, "READY"), x.prio[t] = best,
               RemoveFirst(x.queue[best], t) = Tail(q)
        PROVE  entered(x) = [moved(x) EXCEPT !.queue[best] = Tail(q)]
    BY <2>1, <2>2 DEF Unqueue, Has
  <2>3. RemoveFirst(Tail(q), t) = Tail(q)
    <3>1. Tail(q) \in Seq(AllThreads)
      BY <1>4
    <3>2. \A i \in 1 .. Len(Tail(q)) : Tail(q)[i] # t
      BY <1>10 DEF Contains
    <3> QED
      BY <3>1, <3>2, RemoveFirstAbsent
  <2>4. entered(a) = [moved(a) EXCEPT !.queue[best] = Tail(q)]
    BY <1>7, <1>10, <2>2
  <2>5. entered(b) = [moved(b) EXCEPT !.queue[best] = Tail(q)]
    <3>1. b.queue[best] = Tail(q) /\ b.prio[t] = best
      BY <1>4, <1>10, SchedTypes
    <3> QED
      BY <1>10, <2>2, <2>3, <3>1
  <2>6. entered(a) = entered(b)
    <3> DEFINE ea == [moved(a) EXCEPT !.queue[best] = Tail(q)]
               eb == [moved(b) EXCEPT !.queue[best] = Tail(q)]
    <3>1. Tail(q) \in Seq(AllThreads)
      BY <1>4
    <3>2. /\ ea \in SchedType /\ ea.queue = [a.queue EXCEPT ![best] = Tail(q)]
          /\ ea.status = a.status /\ ea.prio = a.prio /\ ea.cur = t /\ ea.wait = a.wait
      BY <1>4, <2>1, <3>1 DEF SchedType
    <3>3. /\ eb \in SchedType /\ eb.queue = [b.queue EXCEPT ![best] = Tail(q)]
          /\ eb.status = b.status /\ eb.prio = b.prio /\ eb.cur = t /\ eb.wait = b.wait
      BY <1>4, <2>1, <3>1 DEF SchedType
    <3>4. [b.queue EXCEPT ![best] = Tail(q)] = [a.queue EXCEPT ![best] = Tail(q)]
      BY <1>4, <1>10, SchedTypes
    <3> HIDE DEF ea, eb
    <3>5. ea = eb
      BY <1>10, <3>2, <3>3, <3>4, SameParts
    <3> QED
      BY <2>4, <2>5, <3>5 DEF ea, eb
  <2> QED
    BY <2>6 DEF moved
<1>11. ~Contains(Tail(q), t)
  <2>1. IsInjective(q)
    BY <1>4 DEF Consistent, QueueOK, ReadyQueued, q
  <2>2. ~Contains(RemoveFirst(q, t), t)
    BY <1>4, <2>1, RemoveFirstDistinct
  <2> QED
    BY <1>7, <2>2
<1>12. CASE ~CurIsRunning(s)
  <2>1. ~CurIsRunning(popped)
    BY <1>8, <1>12 DEF CurIsRunning, Has
  <2>2. SwitchContext(s, t) = into(s)
    BY <1>12 DEF SwitchContext
  <2>3. SwitchContext(popped, t) = into(popped)
    BY <2>1 DEF SwitchContext
  <2>4. into(popped) = into(s)
    BY <1>1, <1>6, <1>8, <1>10, <1>11 DEF q, Has
  <2> QED
    BY <1>3, <1>5, <1>6, <1>9, <2>2, <2>3, <2>4 DEF best, q, t
<1>13. CASE CurIsRunning(s)
  <2> DEFINE c == s.cur
             back == <<c>> \o s.queue[s.prio[c]]
             a == [s EXCEPT !.queue[s.prio[c]] = back, !.status[c] = {"READY"}]
             b == [popped EXCEPT !.queue[s.prio[c]] = back, !.status[c] = {"READY"}]
  <2>1. c \in AllThreads /\ ~Has(s, c, "READY") /\ Has(s, c, "RUNNING")
    <3>1. c \in AllThreads /\ Has(s, c, "RUNNING")
      BY <1>1, <1>13 DEF CurIsRunning
    <3>2. s.status[c] \in LegalStatus
      BY <3>1 DEF Consistent, QueueOK
    <3> QED
      BY <3>1, <3>2 DEF LegalStatus, Has
  <2>2. s.prio[c] \in AllPriorities /\ s.prio[c] # best /\ c # t
    <3>1. best < s.prio[c]
      BY <1>3, <1>13 DEF Candidates
    <3> QED
      BY <1>1, <1>2, <1>4, <1>6, <2>1, <3>1
  <2>3. back \in Seq(AllThreads) /\ {"READY"} \in SUBSET StatusBits
    BY <1>1, <2>1, <2>2 DEF StatusBits
  <2>4. SwitchContext(s, t) = into(a)
    BY <1>13, <2>1 DEF SwitchContext, MakeReady
  <2>5. SwitchContext(popped, t) = into(b)
    <3>1. CurIsRunning(popped) /\ popped.cur = c
      BY <1>8, <1>13 DEF CurIsRunning, Has
    <3>2. popped.queue[s.prio[c]] = s.queue[s.prio[c]]
      BY <1>1, <1>8, <2>2
    <3>3. MakeReady(popped, c) = b
      BY <1>8, <2>1, <3>2 DEF MakeReady, Has
    <3> QED
      BY <3>1, <3>3 DEF SwitchContext
  <2> HIDE DEF c, back
  <2>6. /\ a \in SchedType /\ a.queue = [s.queue EXCEPT ![s.prio[c]] = back]
        /\ a.status = [s.status EXCEPT ![c] = {"READY"}]
        /\ a.prio = s.prio /\ a.cur = s.cur /\ a.wait = s.wait
    BY <1>1, <2>1, <2>2, <2>3 DEF SchedType
  <2>7. /\ b \in SchedType /\ b.queue = [popped.queue EXCEPT ![s.prio[c]] = back]
        /\ b.status = [popped.status EXCEPT ![c] = {"READY"}]
        /\ b.prio = popped.prio /\ b.cur = popped.cur /\ b.wait = popped.wait
    BY <1>8, <2>1, <2>2, <2>3 DEF SchedType
  <2> HIDE DEF a, b
  <2>8. into(b) = into(a)
    <3>1. a.queue[best] = q /\ b.queue = [a.queue EXCEPT ![best] = Tail(q)]
      <4>1. a.queue[best] = q
        BY <1>1, <1>4, <2>2, <2>6 DEF q
      <4>2. b.queue = [[s.queue EXCEPT ![best] = Tail(q)] EXCEPT ![s.prio[c]] = back]
        BY <1>8, <2>7
      <4>3. ASSUME NEW F, NEW i, NEW j, i # j, NEW u, NEW v
            PROVE  [[F EXCEPT ![i] = u] EXCEPT ![j] = v] = [[F EXCEPT ![j] = v] EXCEPT ![i] = u]
        BY <4>3
      <4>4. [[s.queue EXCEPT ![best] = Tail(q)] EXCEPT ![s.prio[c]] = back]
              = [[s.queue EXCEPT ![s.prio[c]] = back] EXCEPT ![best] = Tail(q)]
        BY <2>2, <4>3
      <4> QED
        BY <2>6, <4>1, <4>2, <4>4
    <3>2. Has(a, t, "READY") /\ Has(b, t, "READY") /\ a.prio[t] = best
      BY <1>1, <1>5, <1>6, <1>8, <2>1, <2>2, <2>6, <2>7 DEF Has
    <3> HIDE DEF into
    <3> QED
      BY <1>8, <1>10, <1>11, <2>6, <2>7, <3>1, <3>2
  <2> QED
    BY <1>3, <1>5, <1>6, <1>9, <2>4, <2>5, <2>8 DEF best, q, t
<1> QED
  BY <1>12, <1>13

\* A reschedule keeps the state consistent and leaves the CPU to a thread that no
\* ready thread is better than; it only ever goes to a thread that was ready.
LEMMA NextThreadFacts ==
    ASSUME NEW s, Consistent(s)
    PROVE  LET r == NextThread(s) IN
           /\ Consistent(r)
           /\ r.cur \in AllThreads /\ Has(r, r.cur, "RUNNING")
           /\ \A t \in AllThreads : Has(r, t, "READY") => r.prio[r.cur] <= r.prio[t]
           /\ r.cur # s.cur => Has(s, r.cur, "READY")
           /\ \A t \in AllThreads : t # r.cur =>
                  r.status[t] = IF Has(s, t, "RUNNING") THEN {"READY"} ELSE s.status[t]
           /\ r.prio = s.prio
           /\ r = s \/ r.wait = [s.wait EXCEPT ![r.cur] = NoWait]
<1>1. /\ s \in SchedType /\ s.queue \in [AllPriorities -> Seq(AllThreads)]
      /\ s.prio \in [AllThreads -> AllPriorities] /\ s.cur \in AllThreads \union {NoThread}
      /\ AllPriorities \subseteq Nat /\ Idle \in AllThreads
  BY SchedTypes, SchedulerAssumption DEF Consistent, QueueOK, AllPriorities, AllThreads
<1>2. \A t \in AllThreads : Has(s, t, "READY") => s.queue[s.prio[t]] # <<>>
  <2> SUFFICES ASSUME NEW t \in AllThreads, Has(s, t, "READY") PROVE s.queue[s.prio[t]] # <<>>
    OBVIOUS
  <2>1. s.prio[t] \in AllPriorities
    BY <1>1
  <2>2. Contains(s.queue[s.prio[t]], t)
    BY <2>1 DEF Consistent, QueueOK, ReadyQueued
  <2> QED
    BY <2>2 DEF Contains
<1>3. CASE Candidates(s) = {}
  <2>1. CurIsRunning(s)
    <3> SUFFICES ASSUME ~CurIsRunning(s) PROVE FALSE
      OBVIOUS
    <3>1. ~Has(s, Idle, "RUNNING")
      BY <1>1, SchedulerAssumption DEF Consistent, RunningIsCurrent, CurIsRunning
    <3>2. Has(s, Idle, "READY")
      BY <3>1 DEF Consistent, IdleCanRun, Has
    <3> QED
      BY <1>1, <1>2, <1>3, <3>2 DEF Candidates
  <2>2. s.cur \in AllThreads /\ Has(s, s.cur, "RUNNING")
    BY <1>1, <2>1 DEF CurIsRunning
  <2>3. \A t \in AllThreads : Has(s, t, "READY") => s.prio[s.cur] <= s.prio[t]
    <3> SUFFICES ASSUME NEW t \in AllThreads, Has(s, t, "READY")
                 PROVE  s.prio[s.cur] <= s.prio[t]
      OBVIOUS
    <3>1. s.prio[t] \in AllPriorities /\ s.queue[s.prio[t]] # <<>>
      BY <1>1, <1>2
    <3>2. ~(s.prio[t] < s.prio[s.cur])
      BY <1>3, <3>1 DEF Candidates
    <3>3. s.prio[t] \in Nat /\ s.prio[s.cur] \in Nat
      BY <1>1, <2>2
    <3> QED
      BY <3>2, <3>3
  <2>4. \A t \in AllThreads : Has(s, t, "RUNNING") => t = s.cur
    BY DEF Consistent, RunningIsCurrent
  <2> QED
    BY <1>3, <2>2, <2>3, <2>4 DEF NextThread
<1>4. CASE Candidates(s) # {}
  <2> DEFINE best == Min(Candidates(s))
             t == Head(s.queue[best])
             r == SwitchContext(s, t)
  <2>1. /\ best \in Candidates(s) /\ \A p \in Candidates(s) : best <= p
        /\ t \in AllThreads /\ Has(s, t, "READY") /\ s.prio[t] = best
        /\ NextThread(s) = r
    BY <1>4, NextThreadIsSwitch
  <2> HIDE DEF best, t
  <2>2. Consistent(r)
    BY <2>1, SwitchContextConsistent
  <2>3. /\ r.cur = t /\ r.prio = s.prio /\ r.wait = [s.wait EXCEPT ![t] = NoWait]
        /\ \A x \in AllThreads : r.status[x] = IF x = t THEN {"RUNNING"}
                                               ELSE IF Has(s, x, "RUNNING") THEN {"READY"}
                                               ELSE s.status[x]
    BY <2>1, SwitchContextFacts DEF Consistent
  <2> HIDE DEF r
  <2>4. ASSUME NEW x \in AllThreads, Has(r, x, "READY") PROVE r.prio[r.cur] <= r.prio[x]
    <3>1. CASE Has(s, x, "RUNNING")
      <4>1. x = s.cur /\ CurIsRunning(s)
        BY <1>1, <3>1, SchedulerAssumption
        DEF Consistent, RunningIsCurrent, CurIsRunning, AllThreads
      <4>2. best < s.prio[x]
        BY <2>1, <4>1 DEF Candidates
      <4>3. best \in Nat /\ s.prio[x] \in Nat
        BY <1>1, <2>1
      <4> QED
        BY <2>1, <2>3, <4>2, <4>3
    <3>2. CASE ~Has(s, x, "RUNNING")
      <4>1. Has(s, x, "READY")
        BY <2>1, <2>3, <2>4, <3>2 DEF Has
      <4>2. s.queue[s.prio[x]] # <<>> /\ s.prio[x] \in AllPriorities
        BY <1>1, <1>2, <4>1
      <4>3. s.prio[x] \in Candidates(s) \/ (CurIsRunning(s) /\ ~(s.prio[x] < s.prio[s.cur]))
        BY <4>2 DEF Candidates
      <4>4. CASE s.prio[x] \in Candidates(s)
        BY <2>1, <2>3, <4>4
      <4>5. CASE CurIsRunning(s) /\ ~(s.prio[x] < s.prio[s.cur])
        <5>1. best < s.prio[s.cur]
          BY <2>1, <4>5 DEF Candidates
        <5>2. s.cur \in AllThreads
          BY <1>1, <4>5 DEF CurIsRunning
        <5>3. best \in Nat /\ s.prio[x] \in Nat /\ s.prio[s.cur] \in Nat
          BY <1>1, <2>1, <5>2
        <5>4. best <= s.prio[x]
          BY <4>5, <5>1, <5>3
        <5> QED
          BY <2>1, <2>3, <5>4
      <4> QED
        BY <4>3, <4>4, <4>5
    <3> QED
      BY <3>1, <3>2
  <2>5. Has(r, r.cur, "RUNNING")
    BY <2>1, <2>3 DEF Has
  <2> QED
    BY <2>1, <2>2, <2>3, <2>4, <2>5
<1> QED
  BY <1>3, <1>4
-----------------------------------------------------------------------------
\* What executes is able to.
Runnable(s) == s.cur # NoThread /\ s.status[s.cur] \in {{"RUNNING"}, {"READY"}}

\* From s to r no thread starts to wait, or waits for something else, and none
\* ends or is deleted.
KeepsWaits(s, r) ==
    \A x \in Threads :
        /\ Has(r, x, "WAIT") => Has(s, x, "WAIT") /\ r.wait[x] = s.wait[x]
        /\ Exists(s, x) /\ ~Has(s, x, "DORMANT") => Exists(r, x) /\ ~Has(r, x, "DORMANT")

\* What a call that neither waits, nor ends a thread, nor switches, does.
Quiet(s, r) ==
    /\ Consistent(r)
    /\ r.cur = s.cur
    /\ Runnable(s) => Runnable(r)
    /\ KeepsWaits(s, r)

\* Quiet changes compose.
LEMMA QuietTrans ==
    ASSUME NEW s, NEW r, NEW u, Quiet(s, r), Quiet(r, u)
    PROVE  Quiet(s, u)
BY DEF Quiet, KeepsWaits

\* No change is a quiet change.
LEMMA QuietSelf ==
    ASSUME NEW s, Consistent(s)
    PROVE  Quiet(s, s)
BY DEF Quiet, KeepsWaits

\* One thread changes its status and the queue follows: enough conditions.
LEMMA QuietStatus ==
    ASSUME NEW s, Consistent(s), NEW r, QueueOK(r), NEW t \in AllThreads,
           r.status = [s.status EXCEPT ![t] = r.status[t]],
           Has(r, t, "RUNNING") => Has(s, t, "RUNNING"),
           Has(r, t, "WAIT") => Has(s, t, "WAIT"),
           Exists(s, t) /\ ~Has(s, t, "DORMANT") => Exists(r, t) /\ ~Has(r, t, "DORMANT"),
           t = Idle \/ (t = s.cur /\ Runnable(s)) => r.status[t] \in {{"RUNNING"}, {"READY"}},
           r.prio[Idle] = s.prio[Idle], r.cur = s.cur,
           \A x \in AllThreads : Has(r, x, "WAIT") => r.wait[x] = s.wait[x]
    PROVE  Quiet(s, r)
<1>1. s.status \in [AllThreads -> SUBSET StatusBits] /\ Idle \in AllThreads
  BY SchedTypes DEF Consistent, QueueOK, AllThreads
<1>2. \A x \in AllThreads : x # t => r.status[x] = s.status[x]
  BY <1>1
<1>3. RunningIsCurrent(r)
  BY <1>2 DEF Consistent, RunningIsCurrent, Has
<1>4. IdleCanRun(r)
  BY <1>1, <1>2 DEF Consistent, IdleCanRun
<1>5. Runnable(s) => Runnable(r)
  <2>1. s.cur \in AllThreads \union {NoThread}
    BY SchedTypes DEF Consistent, QueueOK
  <2> QED
    BY <1>2, <2>1 DEF Runnable
<1>6. KeepsWaits(s, r)
  <2> SUFFICES ASSUME NEW x \in Threads
               PROVE  /\ Has(r, x, "WAIT") => Has(s, x, "WAIT") /\ r.wait[x] = s.wait[x]
                      /\ Exists(s, x) /\ ~Has(s, x, "DORMANT")
                            => Exists(r, x) /\ ~Has(r, x, "DORMANT")
    BY DEF KeepsWaits
  <2>1. CASE x = t
    BY <2>1
  <2>2. CASE x # t
    BY <1>2, <2>2 DEF Has, Exists, AllThreads
  <2> QED
    BY <2>1, <2>2
<1> QED
  BY <1>3, <1>4, <1>5, <1>6 DEF Quiet, Consistent

\* __KernelChangeReadyState(t, true) disturbs no other thread.
LEMMA MakeReadyQuiet ==
    ASSUME NEW s, Consistent(s), NEW t \in AllThreads
    PROVE  Quiet(s, MakeReady(s, t))
<1> DEFINE m == MakeReady(s, t)
<1>1. /\ QueueOK(m) /\ m.status = [s.status EXCEPT ![t] = {"READY"}]
      /\ m.prio = s.prio /\ m.cur = s.cur /\ m.wait = s.wait
  BY MakeReadyFacts DEF Consistent
<1>2. m.status[t] = {"READY"}
  BY <1>1, SchedTypes DEF Consistent, QueueOK
<1> HIDE DEF m
<1>3. Quiet(s, m)
  <2>1. m.status = [s.status EXCEPT ![t] = m.status[t]]
    BY <1>1, <1>2
  <2>2. ~Has(m, t, "RUNNING") /\ ~Has(m, t, "WAIT") /\ Exists(m, t) /\ ~Has(m, t, "DORMANT")
    BY <1>2 DEF Has, Exists
  <2> QED
    BY <1>1, <1>2, <2>1, <2>2, QuietStatus
<1> QED
  BY <1>3 DEF m

\* Nor does the end of a wait, even that of a wait which ended before.
LEMMA ResumeFromWaitQuiet ==
    ASSUME NEW s, Consistent(s), NEW t \in AllThreads
    PROVE  Quiet(s, ResumeFromWait(s, t))
<1> DEFINE r == ResumeFromWait(s, t)
           bits == s.status[t] \ {"WAIT"}
<1>1. /\ QueueOK(r)
      /\ r.status = [s.status EXCEPT ![t] =
                        IF bits \intersect {"SUSPEND", "DORMANT"} = {} THEN {"READY"} ELSE bits]
      /\ r.prio = s.prio /\ r.cur = s.cur /\ r.wait = s.wait
  BY ResumeFromWaitFacts DEF Consistent
<1> HIDE DEF r
<1>2. r.status[t] = IF bits \intersect {"SUSPEND", "DORMANT"} = {} THEN {"READY"} ELSE bits
  BY <1>1, SchedTypes DEF Consistent, QueueOK
<1>3. s.status[t] \in LegalStatus /\ t \in AllThreads
  BY DEF Consistent, QueueOK
<1>4. /\ Has(r, t, "RUNNING") => Has(s, t, "RUNNING")
      /\ Has(r, t, "WAIT") => Has(s, t, "WAIT")
      /\ Exists(s, t) /\ ~Has(s, t, "DORMANT") => Exists(r, t) /\ ~Has(r, t, "DORMANT")
  BY <1>2, <1>3 DEF Has, Exists, LegalStatus
<1>5. t = Idle \/ (t = s.cur /\ Runnable(s)) => r.status[t] \in {{"RUNNING"}, {"READY"}}
  BY <1>2 DEF Consistent, IdleCanRun, Runnable
<1>6. Quiet(s, r)
  BY <1>1, <1>2, <1>4, <1>5, QuietStatus
<1> QED
  BY <1>6 DEF r

\* A thread other than the idle one is put aside: it leaves the ready queue and
\* gets a status that is neither ready nor running.
LEMMA PutAsideFacts ==
    ASSUME NEW s, Consistent(s), NEW t \in Threads,
           NEW bits \in LegalStatus, "READY" \notin bits, "RUNNING" \notin bits
    PROVE  LET r == [Unqueue(s, t) EXCEPT !.status[t] = bits] IN
           /\ Consistent(r)
           /\ r.status = [s.status EXCEPT ![t] = bits]
           /\ r.prio = s.prio /\ r.cur = s.cur /\ r.wait = s.wait
<1> DEFINE u == Unqueue(s, t)
           r == [u EXCEPT !.status[t] = bits]
<1>1. t \in AllThreads /\ QueueOK(s)
  BY DEF AllThreads, Consistent
<1>2. /\ u \in SchedType /\ u.status = s.status /\ u.prio = s.prio
      /\ u.cur = s.cur /\ u.wait = s.wait
  BY <1>1, UnqueueFacts
<1>3. bits \in SUBSET StatusBits
  BY DEF LegalStatus, StatusBits
<1> HIDE DEF u
<1>4. /\ r \in SchedType
      /\ r.status = [u.status EXCEPT ![t] = bits]
      /\ r.queue = u.queue /\ r.prio = u.prio /\ r.cur = u.cur /\ r.wait = u.wait
  BY <1>1, <1>2, <1>3 DEF SchedType
<1> HIDE DEF r
<1>5. QueueOK(r)
  BY <1>1, <1>2, <1>4, LeaveQueue DEF u
<1>6. \A x \in AllThreads : r.status[x] = IF x = t THEN bits ELSE s.status[x]
  BY <1>1, <1>2, <1>4, SchedTypes
<1>7. RunningIsCurrent(r)
  BY <1>2, <1>4, <1>6 DEF Consistent, RunningIsCurrent, Has
<1>8. Idle \in AllThreads /\ Idle # t
  BY SchedulerAssumption DEF AllThreads
<1>9. IdleCanRun(r)
  BY <1>2, <1>4, <1>6, <1>8 DEF Consistent, IdleCanRun
<1> QED
  BY <1>2, <1>4, <1>5, <1>7, <1>9 DEF Consistent, r, u

\* Nor do the ends of several waits at once.
LEMMA ResumeEachQuiet ==
    ASSUME NEW s, Consistent(s), NEW w \in Seq(AllThreads), IsInjective(w),
           NEW valid, \A t \in valid : t \in AllThreads /\ Contains(w, t)
    PROVE  Quiet(s, ResumeEach(s, w, valid))
<1> DEFINE r == ResumeEach(s, w, valid)
<1>1. QueueOK(s) /\ \A t \in Threads : t \in AllThreads
  BY DEF Consistent, AllThreads
<1>2. /\ QueueOK(r) /\ r.prio = s.prio /\ r.cur = s.cur /\ r.wait = s.wait
      /\ \A t \in AllThreads : r.status[t] = IF t \in valid THEN EndedWaitStatus(s, t)
                                             ELSE s.status[t]
  BY <1>1, ResumeEachFacts
<1> HIDE DEF r
<1>3. RunningIsCurrent(r)
  <2>1. ASSUME NEW t \in AllThreads, "RUNNING" \in r.status[t] PROVE "RUNNING" \in s.status[t]
    <3>1. r.status[t] = s.status[t] \/ r.status[t] = EndedWaitStatus(s, t)
      BY <1>2
    <3>2. "RUNNING" \notin {"READY"}
      OBVIOUS
    <3> QED
      BY <2>1, <3>1, <3>2 DEF EndedWaitStatus
  <2> QED
    BY <1>2, <2>1 DEF Consistent, RunningIsCurrent, Has
<1>4. IdleCanRun(r)
  BY <1>2 DEF Consistent, IdleCanRun, AllThreads, EndedWaitStatus
<1>5. Runnable(s) => Runnable(r)
  BY <1>1, <1>2, SchedTypes DEF Runnable, EndedWaitStatus, QueueOK
<1>6. ASSUME NEW x \in Threads
      PROVE  /\ Has(r, x, "WAIT") => Has(s, x, "WAIT") /\ r.wait[x] = s.wait[x]
             /\ Exists(s, x) /\ ~Has(s, x, "DORMANT") => Exists(r, x) /\ ~Has(r, x, "DORMANT")
  <2>1. s.status[x] \in LegalStatus /\ x \in AllThreads
    BY <1>1 DEF QueueOK
  <2>2. r.status[x] \in {s.status[x], {"READY"}, s.status[x] \ {"WAIT"}}
    BY <1>2, <2>1 DEF EndedWaitStatus
  <2>3. Has(r, x, "WAIT") => Has(s, x, "WAIT") /\ r.wait[x] = s.wait[x]
    BY <1>2, <2>2 DEF Has
  <2>4. Exists(s, x) /\ ~Has(s, x, "DORMANT") => Exists(r, x) /\ ~Has(r, x, "DORMANT")
    <3>1. r.status[x] = s.status[x] \/ r.status[x] = {"READY"} \/ r.status[x] = {"SUSPEND"}
          \/ "DORMANT" \in s.status[x] \/ s.status[x] = {}
      BY <1>2, <2>1 DEF EndedWaitStatus, LegalStatus
    <3> QED
      BY <2>1, <3>1 DEF Has, Exists
  <2> QED
    BY <2>3, <2>4
<1> QED
  BY <1>2, <1>3, <1>4, <1>5, <1>6 DEF Quiet, KeepsWaits, Consistent, r

\* In particular those of the waiters of an object.
LEMMA ResumeAllQuiet ==
    ASSUME NEW s, Consistent(s), NEW w \in Seq(AllThreads), IsInjective(w), NEW type, NEW id
    PROVE  Quiet(s, ResumeAll(s, w, type, id))
<1> DEFINE valid == {t \in ToSet(w) : VerifyWait(s, t, type, id)}
<1>1. \A t \in valid : t \in AllThreads /\ Contains(w, t)
  BY DEF ToSet, Contains, VerifyWait, Exists
<1>2. ResumeAll(s, w, type, id) = ResumeEach(s, w, valid)
  BY DEF ResumeAll
<1> HIDE DEF valid
<1> QED
  BY <1>1, <1>2, ResumeEachQuiet

\* What a switch to another thread does, or a reschedule that finds none better.
Switched(s, r) ==
    /\ Consistent(r)
    /\ r.cur \in AllThreads
    /\ Runnable(r)
    /\ KeepsWaits(s, r)
    /\ r.cur # s.cur => Has(s, r.cur, "READY") /\ r.wait[r.cur] = NoWait

\* Entering a ready thread is such a switch.
LEMMA SwitchContextSwitched ==
    ASSUME NEW s, Consistent(s), NEW t \in AllThreads, Has(s, t, "READY")
    PROVE  Switched(s, SwitchContext(s, t)) /\ SwitchContext(s, t).cur = t
<1> DEFINE r == SwitchContext(s, t)
<1>1. /\ r.cur = t /\ r.wait = [s.wait EXCEPT ![t] = NoWait]
      /\ \A x \in AllThreads : r.status[x] = IF x = t THEN {"RUNNING"}
                                             ELSE IF Has(s, x, "RUNNING") THEN {"READY"}
                                             ELSE s.status[x]
  BY SwitchContextFacts DEF Consistent
<1>2. Consistent(r)
  BY SwitchContextConsistent
<1> HIDE DEF r
<1>3. Runnable(r)
  BY <1>1, SchedulerAssumption DEF Runnable, AllThreads
<1>4. s.wait \in [AllThreads -> Waits]
  BY SchedTypes DEF Consistent, QueueOK
<1>5. KeepsWaits(s, r)
  <2> SUFFICES ASSUME NEW x \in Threads
               PROVE  /\ Has(r, x, "WAIT") => Has(s, x, "WAIT") /\ r.wait[x] = s.wait[x]
                      /\ Exists(s, x) /\ ~Has(s, x, "DORMANT")
                            => Exists(r, x) /\ ~Has(r, x, "DORMANT")
    BY DEF KeepsWaits
  <2>1. x \in AllThreads
    BY DEF AllThreads
  <2>2. CASE x = t
    BY <1>1, <2>1, <2>2 DEF Has, Exists
  <2>3. CASE x # t /\ Has(s, x, "RUNNING")
    BY <1>1, <2>1, <2>3 DEF Has, Exists
  <2>4. CASE x # t /\ ~Has(s, x, "RUNNING")
    BY <1>1, <1>4, <2>1, <2>4 DEF Has, Exists
  <2> QED
    BY <2>2, <2>3, <2>4
<1>6. r.wait[t] = NoWait
  BY <1>1, <1>4
<1> QED
  BY <1>1, <1>2, <1>3, <1>5, <1>6 DEF Switched, r

\* A reschedule is one.
LEMMA NextThreadSwitched ==
    ASSUME NEW s, Consistent(s)
    PROVE  Switched(s, NextThread(s))
<1>1. CASE Candidates(s) = {}
  <2>1. NextThread(s) = s
    BY <1>1 DEF NextThread
  <2>2. s.cur \in AllThreads /\ Has(s, s.cur, "RUNNING")
    BY <2>1, NextThreadFacts
  <2>3. s.status[s.cur] = {"RUNNING"}
    BY <2>2 DEF Consistent, QueueOK, LegalStatus, Has
  <2>4. Runnable(s)
    BY <2>2, <2>3, SchedulerAssumption DEF Runnable, AllThreads
  <2> QED
    BY <2>1, <2>2, <2>4 DEF Switched, KeepsWaits
<1>2. CASE Candidates(s) # {}
  <2> DEFINE t == Head(s.queue[Min(Candidates(s))])
  <2>1. t \in AllThreads /\ Has(s, t, "READY") /\ NextThread(s) = SwitchContext(s, t)
    BY <1>2, NextThreadIsSwitch
  <2> QED
    BY <2>1, SwitchContextSwitched
<1> QED
  BY <1>1, <1>2

\* So is the start of an interrupt, which takes the CPU to the idle thread.
LEMMA SwitchOffSwitched ==
    ASSUME NEW s, Consistent(s)
    PROVE  Switched(s, SwitchOffThread(s)) /\ SwitchOffThread(s).cur = Idle
<1>1. Idle \in AllThreads /\ Idle # NoThread
  BY SchedulerAssumption DEF AllThreads
<1>2. s.status[Idle] \in {{"RUNNING"}, {"READY"}}
  BY DEF Consistent, IdleCanRun
<1>3. CASE s.cur = Idle
  BY <1>1, <1>2, <1>3 DEF SwitchOffThread, Switched, KeepsWaits, Runnable
<1>4. CASE s.cur # Idle
  <2>1. Has(s, Idle, "READY")
    BY <1>1, <1>2, <1>4 DEF Consistent, RunningIsCurrent, Has
  <2> QED
    BY <1>1, <1>4, <2>1, SwitchContextSwitched DEF SwitchOffThread
<1> QED
  BY <1>3, <1>4

\* And the return from one to the interrupted thread.
LEMMA CanSwitchToReady ==
    ASSUME NEW s, Consistent(s), NEW t, CanSwitchTo(s, t)
    PROVE  t \in AllThreads /\ Has(s, t, "READY")
BY DEF CanSwitchTo, Consistent, RunningIsCurrent, Exists
=============================================================================
