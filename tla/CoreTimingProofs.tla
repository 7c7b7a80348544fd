-------------------------- MODULE CoreTimingProofs ---------------------------
(***************************************************************************)
(* Proofs about the event scheduler: the flag covers what other threads    *)
(* post, the display goes on and is on time whatever happens, and the      *)
(* lists, the lock and the slices implement the agenda (Agenda.tla).       *)
(*                                                                         *)
(* The properties of the display need one invariant, TimingInv: a display  *)
(* event is not due before the slice of the running program ends, there is *)
(* always one that carries the display on, the times of the display fit    *)
(* into an int, and a callback that may still flip was called a block of   *)
(* code late at most.                                                      *)
(***************************************************************************)
EXTENDS CoreTiming, SequenceLemmas
-----------------------------------------------------------------------------
(* The flag and the lock *)

\* Bringing the clock up to date and removing events post none.
LEMMA NothingPosted ==
    ASSUME posted = <<>>
    PROVE  Rebased(posted) = <<>> /\ \A ids : Without(posted, ids) = <<>>
<1>1. \A i \in DOMAIN posted : FALSE
  OBVIOUS
<1>2. Rebased(posted) = <<>>
  BY <1>1 DEF Rebased
<1>3. ASSUME NEW ids PROVE Without(posted, ids) = <<>>
  <2> DEFINE kept == {i \in DOMAIN posted : posted[i].id \notin ids}
             n == Cardinality(kept)
  <2>1. n = 0
    BY <1>1, FS_EmptySet
  <2>2. Without(posted, ids) = [k \in 1 .. n |-> posted[Ascending(kept)[k]]]
    BY DEF Without, Ascending
  <2> HIDE DEF n, kept
  <2>3. Without(posted, ids) = <<>>
    BY <2>1, <2>2
  <2> QED
    BY <2>3
<1> QED
  BY <1>2, <1>3

\* The program schedules on its own list only.
LEMMA ProgramKeepsFlag ==
    ASSUME FlagCoversPosted, Program
    PROVE  FlagCoversPosted'
<1>1. pc = "run"
  BY DEF Program, KernelIdle, Execute, ForceCheck, ReSchedule, UnscheduleEvent, ScheduleEvent,
         RemoveAllEvents, Runs
<1>2. /\ hasTsEvents' = hasTsEvents /\ posting' = posting
      /\ \/ posted' = posted \/ posted' = Rebased(posted) \/ \E ids : posted' = Without(posted, ids)
  BY DEF Program, KernelIdle, Execute, ForceCheck, ReSchedule, UnscheduleEvent, ScheduleEvent,
         RemoveAllEvents, listVars, lockVars
<1>3. posted' # <<>> => posted # <<>>
  BY <1>2, NothingPosted
<1> QED
  BY <1>1, <1>2, <1>3 DEF FlagCoversPosted

\* Advance() gives up the flag only to move what is posted, and comes back from
\* that only when it has the lock and the list is empty.
LEMMA AdvancingKeepsFlag ==
    ASSUME FlagCoversPosted, Advancing
    PROVE  FlagCoversPosted'
<1>1. CASE Advance
  <2>1. pc # "move" /\ posted' = Rebased(posted) /\ hasTsEvents' = hasTsEvents /\ posting' = posting
    BY <1>1 DEF Advance, lockVars
  <2> QED
    BY <2>1, NothingPosted DEF FlagCoversPosted
<1>2. CASE ClearFlag
  BY <1>2 DEF ClearFlag, FlagCoversPosted
<1>3. CASE MoveEvents
  BY <1>3 DEF MoveEvents, FlagCoversPosted
<1>4. CASE ProcessFifoWaitEvents \/ Callback \/ CallbackReturns \/ SetSlice
  <2>1. pc # "move" /\ posted' = posted /\ hasTsEvents' = hasTsEvents /\ posting' = posting
    BY <1>4 DEF ProcessFifoWaitEvents, Callback, CallbackReturns, SetSlice, listVars, lockVars
  <2> QED
    BY <2>1 DEF FlagCoversPosted
<1> QED
  BY <1>1, <1>2, <1>3, <1>4 DEF Advancing

\* The other thread has the lock from its append to the store of the flag.
LEMMA OtherThreadKeepsFlag ==
    ASSUME FlagCoversPosted, OtherThread
    PROVE  FlagCoversPosted'
<1>1. CASE SetFlag
  BY <1>1 DEF SetFlag, FlagCoversPosted
<1>2. ASSUME NEW id \in Posts, UnscheduleThreadsafeEvent(id) PROVE FlagCoversPosted'
  <2>1. /\ posted' = Without(posted, {id})
        /\ hasTsEvents' = hasTsEvents /\ posting' = posting /\ pc' = pc
    BY <1>2 DEF UnscheduleThreadsafeEvent, lockVars, callVars
  <2> QED
    BY <2>1, NothingPosted DEF FlagCoversPosted
<1>3. ASSUME NEW id, NEW d, NEW skew, ScheduleEvent_Threadsafe(id, d, skew) PROVE FlagCoversPosted'
  BY <1>3 DEF ScheduleEvent_Threadsafe, FlagCoversPosted
<1> QED
  BY <1>1, <1>2, <1>3 DEF OtherThread

\* Whenever Advance() skips MoveEvents(), nothing is waiting to be moved: wherever
\* the two host threads are in their functions, a posted event is covered by the
\* flag, by the lock its poster still holds, or by the move that waits for it.
THEOREM FlagAlwaysCoversPosted == Spec => []FlagCoversPosted
<1>1. Init => FlagCoversPosted
  BY DEF Init, FlagCoversPosted
<1>2. FlagCoversPosted /\ [Next]_vars => FlagCoversPosted'
  <2> SUFFICES ASSUME FlagCoversPosted, [Next]_vars PROVE FlagCoversPosted'
    OBVIOUS
  <2>1. CASE UNCHANGED vars
    BY <2>1 DEF FlagCoversPosted, vars, listVars, lockVars, callVars
  <2> QED
    BY <2>1, ProgramKeepsFlag, AdvancingKeepsFlag, OtherThreadKeepsFlag DEF Next
<1> QED
  BY <1>1, <1>2, PTL DEF Spec
-----------------------------------------------------------------------------
(* Moving several events *)

\* The function that FoldLeft() is defined by, on the subsets of the first n places.
Iterates(g, n, q, l) ==
    g = [s \in SUBSET (1 .. n) |->
            IF s = {} THEN q ELSE AddEventToQueue(g[s \ {Max(s)}], l[Max(s)])]

\* There is one: that of n places extends that of n - 1.
LEMMA IterationExists ==
    ASSUME NEW q, NEW l, NEW n \in Nat
    PROVE  \E g : Iterates(g, n, q, l)
<1> DEFINE Wrong == {m \in Nat : ~\E g : Iterates(g, m, q, l)}
<1> SUFFICES ASSUME Wrong # {} PROVE FALSE
  OBVIOUS
<1> DEFINE m == Min(Wrong)
<1>1. m \in Wrong /\ \A k \in Wrong : m <= k
  BY MinOfNaturals
<1> HIDE DEF m
<1>2. m # 0
  <2> DEFINE g == [s \in SUBSET (1 .. 0) |-> q]
  <2>1. \A s \in SUBSET (1 .. 0) : s = {}
    OBVIOUS
  <2>2. Iterates(g, 0, q, l)
    BY <2>1 DEF Iterates
  <2> QED
    BY <1>1, <2>2
<1>3. m - 1 \in Nat /\ m - 1 \notin Wrong
  BY <1>1, <1>2
<1>4. PICK g : Iterates(g, m - 1, q, l)
  BY <1>3
<1> DEFINE smaller(s) == s \ {Max(s)}
           value(h, s) == IF s = {} THEN q ELSE AddEventToQueue(h[smaller(s)], l[Max(s)])
           h == [s \in SUBSET (1 .. m) |->
                   IF m \notin s THEN g[s] ELSE AddEventToQueue(g[s \ {m}], l[m])]
<1>5. ASSUME NEW s \in SUBSET (1 .. m) PROVE h[s] = value(h, s)
  <2>1. CASE m \notin s
    <3>1. s \in SUBSET (1 .. m - 1)
      BY <1>1, <2>1
    <3>2. h[s] = value(g, s)
      BY <1>4, <2>1, <3>1 DEF Iterates
    <3>3. h[smaller(s)] = g[smaller(s)]
      BY <2>1
    <3> QED
      BY <3>2, <3>3
  <2>2. CASE m \in s
    <3>1. Max(s) = m
      <4>1. Max(s) \in s /\ \A k \in s : k <= Max(s)
        <5>1. s \in SUBSET Nat /\ s # {} /\ \A k \in s : k <= m
          BY <1>1, <2>2
        <5> QED
          BY <1>1, <5>1, MaxOfNaturals
      <4>2. m <= Max(s) /\ Max(s) \in 1 .. m
        BY <2>2, <4>1
      <4> QED
        BY <1>1, <4>2
    <3>2. h[s \ {m}] = g[s \ {m}]
      OBVIOUS
    <3> QED
      BY <2>2, <3>1, <3>2
  <2> QED
    BY <2>1, <2>2
<1>6. Iterates(h, m, q, l)
  <2>1. h = [s \in SUBSET (1 .. m) |-> h[s]]
    OBVIOUS
  <2> HIDE DEF h
  <2>2. h = [s \in SUBSET (1 .. m) |-> value(h, s)]
    BY <1>5, <2>1
  <2> QED
    BY <2>2 DEF Iterates
<1> QED
  BY <1>1, <1>6

\* What the steps of moving the events of l into q leave, one event after the other.
Moves(c, q, l) == c[0] = q /\ \A k \in 1 .. Len(l) : c[k] = AddEventToQueue(c[k - 1], l[k])

\* Moving the events of a list is that.
LEMMA FoldMoves ==
    ASSUME NEW q, NEW S, NEW l \in Seq(S)
    PROVE  \E c : Moves(c, q, l) /\ FoldLeft(AddEventToQueue, q, l) = c[Len(l)]
<1> DEFINE n == Len(l)
           g == CHOOSE f : Iterates(f, n, q, l)
<1>1. n \in Nat /\ DOMAIN l = 1 .. n
  OBVIOUS
<1>2. Iterates(g, n, q, l)
  BY <1>1, IterationExists
<1>3. FoldLeft(AddEventToQueue, q, l) = g[1 .. n]
  BY <1>1 DEF FoldLeft, MapThenFoldSet, Iterates
<1> HIDE DEF g, n
<1> DEFINE c == [k \in 0 .. n |-> g[1 .. k]]
<1>4. c[0] = q
  <2>1. 1 .. 0 = {} /\ 0 \in 0 .. n /\ {} \in SUBSET (1 .. n)
    BY <1>1
  <2> QED
    BY <1>2, <2>1 DEF Iterates
<1>5. ASSUME NEW k \in 1 .. n PROVE c[k] = AddEventToQueue(c[k - 1], l[k])
  <2>1. Max(1 .. k) = k
    <3>0. k \in Nat /\ 1 <= k
      BY <1>1
    <3>1. 1 .. k \in SUBSET Nat /\ 1 .. k # {} /\ k \in 1 .. k /\ \A i \in 1 .. k : i <= k
      BY <3>0
    <3>2. Max(1 .. k) \in 1 .. k /\ \A i \in 1 .. k : i <= Max(1 .. k)
      BY <3>0, <3>1, MaxOfNaturals
    <3> QED
      BY <3>0, <3>1, <3>2
  <2>2. (1 .. k) \ {k} = 1 .. (k - 1) /\ 1 .. k # {} /\ 1 .. k \in SUBSET (1 .. n)
    BY <1>1
  <2>3. g[1 .. k] = AddEventToQueue(g[(1 .. k) \ {k}], l[k])
    BY <1>2, <2>1, <2>2 DEF Iterates
  <2>4. k \in 0 .. n /\ k - 1 \in 0 .. n
    BY <1>1
  <2> QED
    BY <2>2, <2>3, <2>4
<1> QED
  <2>1. Moves(c, q, l)
    BY <1>4, <1>5 DEF Moves, n
  <2>2. c[n] = g[1 .. n]
    BY <1>1
  <2> QED
    BY <1>3, <2>1, <2>2 DEF n
-----------------------------------------------------------------------------
(* What the operations on the list keep *)

Event == [id : Ids, due : Int]
Sorted(q) == \A i, j \in DOMAIN q : i < j => q[i].due <= q[j].due

\* A display event of the list q is not due before low, and an int can hold when.
DisplayFrom(q, low) ==
    \A i \in DOMAIN q : q[i].id \in Display => low <= q[i].due /\ q[i].due < IntLimit

\* The events that carry the display on.
Carries(e) == e.id \in {EnterVblank, LeaveVblank}
NoneCarries(q) == \A i \in DOMAIN q : ~Carries(q[i])
OneCarries(q) == \E i \in DOMAIN q : Carries(q[i]) /\ \A j \in DOMAIN q : Carries(q[j]) => j = i

\* Every event of a list has an id and a time.
LEMMA DueOfEvent ==
    ASSUME NEW q \in Seq(Event)
    PROVE  \A i \in 1 .. Len(q) : q[i] \in Event /\ q[i].id \in Ids /\ q[i].due \in Int
<1>1. \A i \in 1 .. Len(q) : q[i] \in Event
  BY ElementOfSeq
<1> QED
  BY <1>1 DEF Event

\* Place() is there: the first place that is not before an event that is due.
LEMMA PlaceFacts ==
    ASSUME NEW q \in Seq(Event), NEW due \in Int
    PROVE  /\ Place(q, due) \in 1 .. Len(q) + 1
           /\ \A j \in 1 .. Place(q, due) - 1 : q[j].due <= due
           /\ Place(q, due) <= Len(q) => q[Place(q, due)].due > due
<1> DEFINE later == {i \in 1 .. Len(q) + 1 : i <= Len(q) => q[i].due > due}
<1>1. \A i \in 1 .. Len(q) : q[i].due \in Int
  BY DueOfEvent
<1>2. later \in SUBSET Nat /\ Len(q) + 1 \in later
  OBVIOUS
<1> DEFINE m == Min(later)
<1>3. m \in later /\ \A i \in later : m <= i
  BY <1>2, MinOfNaturals
<1> HIDE DEF m
<1>4. ASSUME NEW j \in 1 .. m - 1 PROVE q[j].due <= due
  <2>1. j \in Nat /\ 1 <= j /\ j < m /\ m <= Len(q) + 1 /\ m \in Nat /\ Len(q) \in Nat
    BY <1>3
  <2>2. j \in 1 .. Len(q) /\ j \notin later
    BY <1>3, <2>1
  <2> QED
    BY <1>1, <2>2
<1>5. m \in 1 .. Len(q) + 1 /\ (m <= Len(q) => q[m].due > due)
  BY <1>3
<1> QED
  BY <1>4, <1>5 DEF Place

\* A new event, between those that are not later and those that are.
LEMMA AddFacts ==
    ASSUME NEW q \in Seq(Event), NEW e \in Event, Sorted(q)
    PROVE  LET p == Place(q, e.due)
               r == AddEventToQueue(q, e)
           IN  /\ p \in 1 .. Len(q) + 1
               /\ r \in Seq(Event) /\ Len(r) = Len(q) + 1
               /\ r = [i \in 1 .. Len(q) + 1 |-> IF i < p THEN q[i] ELSE IF i = p THEN e ELSE q[i - 1]]
               /\ Sorted(r)
               /\ \A i \in 1 .. p - 1 : r[i].due <= e.due
               /\ \A i \in p + 1 .. Len(q) + 1 : r[i].due > e.due
<1> DEFINE p == Place(q, e.due)
           r == [i \in 1 .. Len(q) + 1 |-> IF i < p THEN q[i] ELSE IF i = p THEN e ELSE q[i - 1]]
<1>0. e.due \in Int /\ Len(q) \in Nat /\ DOMAIN q = 1 .. Len(q)
  BY DEF Event
<1>1. /\ p \in 1 .. Len(q) + 1
      /\ \A j \in 1 .. p - 1 : q[j].due <= e.due
      /\ p <= Len(q) => q[p].due > e.due
  BY <1>0, PlaceFacts
<1> HIDE DEF p
<1>2. AddEventToQueue(q, e) = r
  BY <1>1, InsertAtIs DEF AddEventToQueue, p
<1>3. r \in Seq(Event) /\ Len(r) = Len(q) + 1 /\ DOMAIN r = 1 .. Len(q) + 1
  BY <1>1
<1>4. \A i \in 1 .. Len(q) : q[i].due \in Int
  BY DueOfEvent
<1>5. \A i, j \in 1 .. Len(q) : i < j => q[i].due <= q[j].due
  BY <1>0 DEF Sorted
<1>6. \A i \in p .. Len(q) : q[i].due > e.due
  <2> SUFFICES ASSUME NEW i \in p .. Len(q) PROVE q[i].due > e.due
    OBVIOUS
  <2>1. i \in 1 .. Len(q) /\ p \in 1 .. Len(q) /\ (p < i \/ p = i)
    BY <1>0, <1>1
  <2>2. q[p].due > e.due /\ q[p].due \in Int /\ q[i].due \in Int /\ q[p].due <= q[i].due
    BY <1>1, <1>4, <1>5, <2>1
  <2> QED
    BY <1>0, <2>2
<1>7. \A i \in 1 .. p - 1 : r[i].due <= e.due
  BY <1>0, <1>1
<1>8. \A i \in p + 1 .. Len(q) + 1 : r[i].due > e.due
  <2> SUFFICES ASSUME NEW i \in p + 1 .. Len(q) + 1 PROVE r[i].due > e.due
    OBVIOUS
  <2>1. i - 1 \in p .. Len(q) /\ r[i] = q[i - 1]
    BY <1>0, <1>1
  <2> QED
    BY <1>6, <2>1
<1>9. Sorted(r)
  <2> SUFFICES ASSUME NEW i \in 1 .. Len(q) + 1, NEW j \in 1 .. Len(q) + 1, i < j
               PROVE  r[i].due <= r[j].due
    BY <1>3 DEF Sorted
  <2>1. CASE j < p
    BY <1>0, <1>1, <1>5, <2>1
  <2>2. CASE i < p /\ j = p
    BY <1>1, <1>7, <2>2
  <2>3. CASE i < p /\ j > p
    <3>1. j - 1 \in p .. Len(q) /\ i \in 1 .. p - 1 /\ i \in 1 .. Len(q) /\ j - 1 \in 1 .. Len(q)
      BY <1>0, <1>1, <2>3
    <3>2. r[i] = q[i] /\ r[j] = q[j - 1]
      BY <1>1, <2>3
    <3>3. i < j - 1
      BY <1>1, <2>3
    <3> QED
      BY <1>5, <3>1, <3>2, <3>3
  <2>4. CASE i = p
    <3>1. j - 1 \in p .. Len(q) /\ j - 1 \in 1 .. Len(q) /\ r[i] = e /\ r[j] = q[j - 1]
      BY <1>0, <1>1, <2>4
    <3> QED
      BY <1>0, <1>4, <1>6, <3>1
  <2>5. CASE i > p
    <3>1. i - 1 \in 1 .. Len(q) /\ j - 1 \in 1 .. Len(q) /\ i - 1 < j - 1
      BY <1>0, <1>1, <2>5
    <3>2. r[i] = q[i - 1] /\ r[j] = q[j - 1]
      BY <1>0, <1>1, <2>5
    <3> QED
      BY <1>5, <3>1, <3>2
  <2>6. j < p \/ (i < p /\ j = p) \/ (i < p /\ j > p) \/ i = p \/ i > p
    BY <1>1
  <2> QED
    BY <2>1, <2>2, <2>3, <2>4, <2>5, <2>6
<1> HIDE DEF r
<1>10. /\ p \in 1 .. Len(q) + 1
       /\ r \in Seq(Event) /\ Len(r) = Len(q) + 1
       /\ Sorted(r)
       /\ \A i \in 1 .. p - 1 : r[i].due <= e.due
       /\ \A i \in p + 1 .. Len(q) + 1 : r[i].due > e.due
  BY <1>1, <1>3, <1>7, <1>8, <1>9
<1> QED
  BY <1>2, <1>10 DEF p, r

\* The new event is there, and the others are where they were or one place on.
LEMMA AddedOnly ==
    ASSUME NEW q \in Seq(Event), NEW e \in Event, Sorted(q)
    PROVE  LET p == Place(q, e.due)
               r == AddEventToQueue(q, e)
               to(i) == IF i < p THEN i ELSE i + 1
           IN  /\ p \in DOMAIN r /\ r[p] = e
               /\ \A i \in DOMAIN q : to(i) \in DOMAIN r /\ r[to(i)] = q[i]
               /\ \A i \in DOMAIN r : i = p \/ \E j \in DOMAIN q : i = to(j)
<1> DEFINE p == Place(q, e.due)
           r == AddEventToQueue(q, e)
           to(i) == IF i < p THEN i ELSE i + 1
<1>1. /\ p \in 1 .. Len(q) + 1 /\ r \in Seq(Event) /\ Len(r) = Len(q) + 1
      /\ r = [i \in 1 .. Len(q) + 1 |-> IF i < p THEN q[i] ELSE IF i = p THEN e ELSE q[i - 1]]
  BY AddFacts
<1> HIDE DEF p, r
<1>2. DOMAIN q = 1 .. Len(q) /\ DOMAIN r = 1 .. Len(q) + 1 /\ Len(q) \in Nat
  BY <1>1
<1>3. p \in DOMAIN r /\ r[p] = e
  BY <1>1, <1>2
<1>4. ASSUME NEW i \in DOMAIN q PROVE to(i) \in DOMAIN r /\ r[to(i)] = q[i]
  BY <1>1, <1>2
<1>5. ASSUME NEW i \in DOMAIN r PROVE i = p \/ \E j \in DOMAIN q : i = to(j)
  <2>1. CASE i < p
    <3>1. i \in DOMAIN q /\ i = to(i)
      BY <1>1, <1>2, <2>1
    <3> QED
      BY <3>1
  <2>2. CASE i > p
    <3>1. i - 1 \in DOMAIN q /\ i = to(i - 1)
      BY <1>1, <1>2, <2>2
    <3> QED
      BY <3>1
  <2> QED
    BY <1>1, <1>2, <2>1, <2>2
<1> QED
  BY <1>3, <1>4, <1>5 DEF p, r

\* A sorted list whose display events are due from low on.
EventList(q, low) == q \in Seq(Event) /\ Sorted(q) /\ DisplayFrom(q, low)

\* A new display event must be due in time and a new carrier the only one.
LEMMA AddKeepsList ==
    ASSUME NEW q, NEW low \in Int, EventList(q, low),
           NEW e \in Event, e.id \in Display => low <= e.due /\ e.due < IntLimit
    PROVE  /\ EventList(AddEventToQueue(q, e), low)
           /\ NoneCarries(q) /\ Carries(e) => OneCarries(AddEventToQueue(q, e))
           /\ NoneCarries(q) /\ ~Carries(e) => NoneCarries(AddEventToQueue(q, e))
           /\ OneCarries(q) /\ ~Carries(e) => OneCarries(AddEventToQueue(q, e))
<1> DEFINE p == Place(q, e.due)
           r == AddEventToQueue(q, e)
           to(i) == IF i < p THEN i ELSE i + 1
<1>1. q \in Seq(Event) /\ Sorted(q) /\ DisplayFrom(q, low)
  BY DEF EventList
<1>2. r \in Seq(Event) /\ Sorted(r)
  BY <1>1, AddFacts
<1>3. /\ p \in DOMAIN r /\ r[p] = e
      /\ \A i \in DOMAIN q : to(i) \in DOMAIN r /\ r[to(i)] = q[i]
      /\ \A i \in DOMAIN r : i = p \/ \E j \in DOMAIN q : i = to(j)
  BY <1>1, AddedOnly
<1> HIDE DEF p, r, to
<1>4. \A i \in DOMAIN r : r[i] = e \/ \E j \in DOMAIN q : r[i] = q[j]
  BY <1>3
<1>5. EventList(r, low)
  BY <1>1, <1>2, <1>4 DEF DisplayFrom, EventList
<1>6. NoneCarries(q) /\ Carries(e) => OneCarries(r)
  <2> SUFFICES ASSUME NoneCarries(q), Carries(e) PROVE OneCarries(r)
    OBVIOUS
  <2>1. \A i \in DOMAIN r : Carries(r[i]) => i = p
    BY <1>3 DEF NoneCarries
  <2> QED
    BY <1>3, <2>1 DEF OneCarries
<1>7. NoneCarries(q) /\ ~Carries(e) => NoneCarries(r)
  BY <1>4 DEF NoneCarries
<1>8. OneCarries(q) /\ ~Carries(e) => OneCarries(r)
  <2> SUFFICES ASSUME OneCarries(q), ~Carries(e) PROVE OneCarries(r)
    OBVIOUS
  <2>1. PICK i \in DOMAIN q : Carries(q[i]) /\ \A j \in DOMAIN q : Carries(q[j]) => j = i
    BY DEF OneCarries
  <2>2. to(i) \in DOMAIN r /\ Carries(r[to(i)])
    BY <1>3, <2>1
  <2>3. \A k \in DOMAIN r : Carries(r[k]) => k = to(i)
    BY <1>3, <2>1
  <2> QED
    BY <2>2, <2>3 DEF OneCarries
<1> QED
  BY <1>5, <1>6, <1>7, <1>8 DEF r

\* r holds some of the events of q in their order, c cycles nearer: r[k] is q[at[k]].
Thinned(q, r, at, c) ==
    /\ at \in [DOMAIN r -> DOMAIN q]
    /\ \A k \in DOMAIN r : r[k].id = q[at[k]].id /\ r[k].due = q[at[k]].due - c
    /\ \A k, l \in DOMAIN r : k < l => at[k] < at[l]

\* Such a list is sorted, and its display events are c cycles nearer.
LEMMA ThinnedList ==
    ASSUME NEW q, NEW low \in Int, EventList(q, low), NEW r \in Seq(Event),
           NEW at, NEW c \in Nat, Thinned(q, r, at, c)
    PROVE  EventList(r, low - c)
<1>1. q \in Seq(Event) /\ Sorted(q) /\ DisplayFrom(q, low)
  BY DEF EventList
<1>2. \A i \in DOMAIN q : i \in Int /\ q[i].due \in Int
  BY <1>1, DueOfEvent
<1>3. /\ \A k \in DOMAIN r : k \in Int /\ at[k] \in DOMAIN q
      /\ \A k \in DOMAIN r : r[k].id = q[at[k]].id /\ r[k].due = q[at[k]].due - c
      /\ \A k, l \in DOMAIN r : k < l => at[k] < at[l]
  BY DEF Thinned
<1>4. Sorted(r)
  <2> SUFFICES ASSUME NEW k \in DOMAIN r, NEW l \in DOMAIN r, k < l PROVE r[k].due <= r[l].due
    BY DEF Sorted
  <2>1. q[at[k]].due <= q[at[l]].due
    BY <1>1, <1>3 DEF Sorted
  <2>2. q[at[k]].due \in Int /\ q[at[l]].due \in Int
    BY <1>2, <1>3
  <2> QED
    BY <1>3, <2>1, <2>2
<1>5. DisplayFrom(r, low - c)
  <2> SUFFICES ASSUME NEW k \in DOMAIN r, r[k].id \in Display
               PROVE  low - c <= r[k].due /\ r[k].due < IntLimit
    BY DEF DisplayFrom
  <2>1. low <= q[at[k]].due /\ q[at[k]].due < IntLimit
    BY <1>1, <1>3 DEF DisplayFrom
  <2>2. q[at[k]].due \in Int /\ IntLimit \in Int
    BY <1>2, <1>3, TimingAssumption
  <2> QED
    BY <1>3, <2>1, <2>2
<1> QED
  BY <1>4, <1>5 DEF EventList

\* It has the carriers it holds, and has the one if that is held.
LEMMA ThinnedCarriers ==
    ASSUME NEW q, NEW r, DOMAIN q \subseteq Int, DOMAIN r \subseteq Int,
           NEW at, NEW c, Thinned(q, r, at, c)
    PROVE  /\ NoneCarries(q) => NoneCarries(r)
           /\ OneCarries(q) /\ (\A i \in DOMAIN q : Carries(q[i]) => \E k \in DOMAIN r : at[k] = i)
                => OneCarries(r)
<1>1. /\ \A k \in DOMAIN r : at[k] \in DOMAIN q
      /\ \A k \in DOMAIN r : Carries(r[k]) <=> Carries(q[at[k]])
  BY DEF Thinned, Carries
<1>2. NoneCarries(q) => NoneCarries(r)
  BY <1>1 DEF NoneCarries
<1>3. ASSUME OneCarries(q), \A i \in DOMAIN q : Carries(q[i]) => \E k \in DOMAIN r : at[k] = i
      PROVE  OneCarries(r)
  <2>1. PICK i \in DOMAIN q : Carries(q[i]) /\ \A j \in DOMAIN q : Carries(q[j]) => j = i
    BY <1>3 DEF OneCarries
  <2>2. PICK k \in DOMAIN r : at[k] = i
    BY <1>3, <2>1
  <2>3. ASSUME NEW l \in DOMAIN r, Carries(r[l]) PROVE l = k
    <3>1. at[l] = at[k]
      BY <1>1, <2>1, <2>2, <2>3
    <3>2. k \in Int /\ l \in Int /\ at[l] \in Int /\ (k < l => at[k] < at[l]) /\ (l < k => at[l] < at[k])
      BY <1>1 DEF Thinned
    <3> QED
      BY <3>1, <3>2
  <2> QED
    BY <1>1, <2>1, <2>2, <2>3 DEF OneCarries
<1> QED
  BY <1>2, <1>3

\* What is due from a time on is due from any earlier time on.
LEMMA LowerList ==
    ASSUME NEW q, NEW low \in Int, EventList(q, low), NEW lowest \in Int, lowest <= low
    PROVE  EventList(q, lowest)
<1>1. q \in Seq(Event) /\ DisplayFrom(q, low)
  BY DEF EventList
<1>2. \A i \in DOMAIN q : q[i].due \in Int
  BY <1>1, DueOfEvent
<1>3. DisplayFrom(q, lowest)
  BY <1>1, <1>2 DEF DisplayFrom
<1> QED
  BY <1>3 DEF EventList

\* The clock is brought up to date.
LEMMA RebasedIs ==
    ASSUME NEW E, NEW q \in Seq([id : E, due : Int]), Ticks \in Int
    PROVE  /\ Rebased(q) \in Seq([id : E, due : Int]) /\ Len(Rebased(q)) = Len(q)
           /\ DOMAIN Rebased(q) = DOMAIN q
           /\ \A i \in DOMAIN q : Rebased(q)[i] = [id |-> q[i].id, due |-> q[i].due - Ticks]
<1> DEFINE t == Ticks
<1>1. \A i \in 1 .. Len(q) : q[i] \in [id : E, due : Int]
  BY ElementOfSeq
<1>2. Rebased(q) = [i \in 1 .. Len(q) |-> [q[i] EXCEPT !.due = @ - t]]
  BY DEF Rebased
<1> HIDE DEF t
<1>3. ASSUME NEW i \in 1 .. Len(q)
      PROVE  /\ [q[i] EXCEPT !.due = @ - t] = [id |-> q[i].id, due |-> q[i].due - t]
             /\ [q[i] EXCEPT !.due = @ - t] \in [id : E, due : Int]
  <2>1. t \in Int /\ q[i] \in [id : E, due : Int]
    BY <1>1 DEF t
  <2> QED
    BY <2>1
<1> DEFINE r == Rebased(q)
<1>4. \A i \in 1 .. Len(q) : r[i] = [id |-> q[i].id, due |-> q[i].due - t]
  BY <1>2, <1>3
<1>5. r = [i \in 1 .. Len(q) |-> r[i]]
  BY <1>2
<1>6. \A i \in 1 .. Len(q) : r[i] \in [id : E, due : Int]
  BY <1>2, <1>3
<1> HIDE DEF r
<1>7. r \in Seq([id : E, due : Int]) /\ Len(r) = Len(q) /\ DOMAIN r = 1 .. Len(q)
  BY <1>5, <1>6
<1> QED
  BY <1>4, <1>7 DEF r, t

\* The list with the clock up to date: every display event is nearer by the ticks.
LEMMA RebasedList ==
    ASSUME NEW q, NEW low \in Int, EventList(q, low), Ticks \in Nat
    PROVE  /\ EventList(Rebased(q), low - Ticks)
           /\ NoneCarries(q) => NoneCarries(Rebased(q))
           /\ OneCarries(q) => OneCarries(Rebased(q))
<1> DEFINE r == Rebased(q)
           at == [i \in DOMAIN q |-> i]
           c == Ticks
<1>1. q \in Seq(Event) /\ DOMAIN q \subseteq Int
  BY DEF EventList
<1>2. /\ r \in Seq(Event) /\ DOMAIN r = DOMAIN q
      /\ \A i \in DOMAIN q : r[i] = [id |-> q[i].id, due |-> q[i].due - c]
  <2>1. q \in Seq([id : Ids, due : Int]) /\ Ticks \in Int
    BY <1>1 DEF Event
  <2> QED
    BY <2>1, RebasedIs DEF Event
<1>3. at \in [DOMAIN r -> DOMAIN q] /\ \A i \in DOMAIN q : at[i] = i
  BY <1>2
<1>4. c \in Nat
  OBVIOUS
<1> HIDE DEF r, at, c
<1>5. Thinned(q, r, at, c)
  BY <1>2, <1>3 DEF Thinned
<1>6. \A i \in DOMAIN q : \E k \in DOMAIN r : at[k] = i
  BY <1>2, <1>3
<1>7. EventList(r, low - c)
  BY <1>2, <1>4, <1>5, ThinnedList
<1>8. (NoneCarries(q) => NoneCarries(r)) /\ (OneCarries(q) => OneCarries(r))
  BY <1>1, <1>2, <1>5, <1>6, ThinnedCarriers
<1> QED
  BY <1>7, <1>8 DEF r, c

\* What is left when events are removed: some of the list, in its order, and
\* all whose ids are not among those removed.
LEMMA WithoutIs ==
    ASSUME NEW S, NEW q \in Seq(S), NEW ids
    PROVE  /\ Without(q, ids) \in Seq(S) /\ Len(Without(q, ids)) <= Len(q)
           /\ \E at \in [DOMAIN Without(q, ids) -> 1 .. Len(q)] :
                /\ \A k \in DOMAIN at : Without(q, ids)[k] = q[at[k]] /\ q[at[k]].id \notin ids
                /\ \A k, l \in DOMAIN at : k < l => at[k] < at[l]
                /\ \A i \in 1 .. Len(q) : q[i].id \notin ids => \E k \in DOMAIN at : at[k] = i
<1> DEFINE kept == {i \in 1 .. Len(q) : q[i].id \notin ids}
           r == Without(q, ids)
           at == Ascending(kept)
           n == Cardinality(kept)
<1>1. DOMAIN q = 1 .. Len(q) /\ Len(q) \in Nat
  OBVIOUS
<1>2. r = [k \in 1 .. n |-> q[at[k]]]
  BY <1>1 DEF Without, Ascending
<1>3. kept \in SUBSET (1 .. Len(q))
  OBVIOUS
<1>a. \A i \in 1 .. Len(q) : i \in kept <=> q[i].id \notin ids
  OBVIOUS
<1> HIDE DEF kept, r
<1>4. /\ n \in 0 .. Len(q) /\ at \in [1 .. n -> kept]
      /\ \A k, l \in 1 .. n : k < l => at[k] < at[l]
      /\ \A i \in kept : \E k \in 1 .. n : at[k] = i
  BY <1>1, <1>3, AscendingFacts
<1> HIDE DEF at, n
<1>5. \A k \in 1 .. n : q[at[k]] \in S
  BY <1>3, <1>4, ElementOfSeq
<1>6. r \in Seq(S) /\ Len(r) = n /\ DOMAIN r = 1 .. n
  BY <1>2, <1>4, <1>5
<1>7. n <= Len(q) /\ n \in Int
  BY <1>1, <1>4
<1>8. /\ at \in [DOMAIN r -> 1 .. Len(q)]
      /\ \A k \in DOMAIN at : r[k] = q[at[k]] /\ q[at[k]].id \notin ids
      /\ \A k, l \in DOMAIN at : k < l => at[k] < at[l]
      /\ \A i \in 1 .. Len(q) : q[i].id \notin ids => \E k \in DOMAIN at : at[k] = i
  BY <1>a, <1>2, <1>3, <1>4, <1>6
<1> QED
  BY <1>6, <1>7, <1>8 DEF r

\* The display goes on without the events of others.
LEMMA WithoutList ==
    ASSUME NEW q, NEW low \in Int, EventList(q, low), NEW ids, ids \intersect Display = {}
    PROVE  EventList(Without(q, ids), low) /\ (OneCarries(q) => OneCarries(Without(q, ids)))
<1> DEFINE r == Without(q, ids)
<1>1. q \in Seq(Event) /\ DOMAIN q = 1 .. Len(q)
  BY DEF EventList
<1>2. \A i \in DOMAIN q : q[i].due \in Int
  BY <1>1, DueOfEvent
<1>3. r \in Seq(Event)
  BY <1>1, WithoutIs
<1>4. PICK at \in [DOMAIN r -> 1 .. Len(q)] :
        /\ \A k \in DOMAIN at : r[k] = q[at[k]]
        /\ \A k, l \in DOMAIN at : k < l => at[k] < at[l]
        /\ \A i \in 1 .. Len(q) : q[i].id \notin ids => \E k \in DOMAIN at : at[k] = i
  BY <1>1, WithoutIs
<1> HIDE DEF r
<1>5. Thinned(q, r, at, 0)
  <2>1. \A k \in DOMAIN r : r[k].id = q[at[k]].id /\ r[k].due = q[at[k]].due - 0
    BY <1>1, <1>2, <1>4
  <2> QED
    BY <1>1, <1>4, <2>1 DEF Thinned
<1>6. \A i \in DOMAIN q : Carries(q[i]) => \E k \in DOMAIN r : at[k] = i
  <2>1. \A i \in DOMAIN q : Carries(q[i]) => q[i].id \notin ids
    BY DEF Carries, Display
  <2> QED
    BY <1>1, <1>4, <2>1
<1>7. EventList(r, low - 0)
  BY <1>3, <1>5, ThinnedList
<1>8. OneCarries(q) => OneCarries(r)
  <2>1. DOMAIN q \subseteq Int /\ DOMAIN r \subseteq Int
    BY <1>1, <1>3
  <2> QED
    BY <1>5, <1>6, <2>1, ThinnedCarriers
<1>9. low - 0 = low
  OBVIOUS
<1> QED
  BY <1>7, <1>8, <1>9 DEF r

\* The first event is taken, and with it the carrier if it is that.
LEMMA TailList ==
    ASSUME NEW q, NEW low \in Int, EventList(q, low), OneCarries(q)
    PROVE  /\ q # <<>> /\ q[1] \in Event /\ (q[1].id \in Display => low <= q[1].due)
           /\ EventList(Tail(q), low)
           /\ IF Carries(q[1]) THEN NoneCarries(Tail(q)) ELSE OneCarries(Tail(q))
<1> DEFINE r == Tail(q)
           at == [k \in DOMAIN r |-> k + 1]
<1>0. PICK carrier \in DOMAIN q :
        Carries(q[carrier]) /\ \A j \in DOMAIN q : Carries(q[j]) => j = carrier
  BY DEF OneCarries
<1>1. q \in Seq(Event) /\ DOMAIN q = 1 .. Len(q) /\ Len(q) \in Nat \ {0} /\ 1 \in DOMAIN q
  BY <1>0 DEF EventList
<1>2. \A i \in DOMAIN q : q[i].due \in Int
  BY <1>1, DueOfEvent
<1>3. /\ r \in Seq(Event) /\ DOMAIN r = 1 .. Len(q) - 1
      /\ \A k \in DOMAIN r : r[k] = q[k + 1]
  BY <1>1
<1>4. q # <<>> /\ q[1] \in Event /\ (q[1].id \in Display => low <= q[1].due)
  BY <1>1, DueOfEvent DEF EventList, DisplayFrom
<1>5. at \in [DOMAIN r -> DOMAIN q] /\ \A k \in DOMAIN r : at[k] = k + 1
  BY <1>1, <1>3
<1> HIDE DEF r, at
<1>6. Thinned(q, r, at, 0)
  <2>1. \A k \in DOMAIN r : r[k].id = q[at[k]].id /\ r[k].due = q[at[k]].due - 0
    BY <1>2, <1>3, <1>5
  <2>2. \A k, l \in DOMAIN r : k < l => at[k] < at[l]
    BY <1>3, <1>5
  <2> QED
    BY <1>5, <2>1, <2>2 DEF Thinned
<1>7. EventList(r, low)
  <2>1. EventList(r, low - 0) /\ low - 0 = low
    BY <1>3, <1>6, ThinnedList
  <2> QED
    BY <2>1
<1>8. CASE ~Carries(q[1])
  <2>1. ASSUME NEW i \in DOMAIN q, Carries(q[i]) PROVE \E k \in DOMAIN r : at[k] = i
    <3>1. i # 1 /\ i \in 1 .. Len(q)
      BY <1>1, <1>8, <2>1
    <3>2. i - 1 \in DOMAIN r /\ at[i - 1] = i
      BY <1>1, <1>3, <1>5, <3>1
    <3> QED
      BY <3>2
  <2>2. DOMAIN q \subseteq Int /\ DOMAIN r \subseteq Int
    BY <1>1, <1>3
  <2>3. OneCarries(r)
    BY <1>6, <2>1, <2>2, ThinnedCarriers
  <2> QED
    BY <1>4, <1>7, <1>8, <2>3 DEF r
<1>9. CASE Carries(q[1])
  <2>1. carrier = 1
    BY <1>0, <1>1, <1>9
  <2>2. ASSUME NEW k \in DOMAIN r, Carries(r[k]) PROVE FALSE
    <3>1. k + 1 \in DOMAIN q /\ r[k] = q[k + 1] /\ k + 1 # 1
      BY <1>1, <1>3
    <3> QED
      BY <1>0, <2>1, <2>2, <3>1
  <2>3. NoneCarries(r)
    BY <2>2 DEF NoneCarries
  <2> QED
    BY <1>4, <1>7, <1>9, <2>3 DEF r
<1> QED
  BY <1>8, <1>9

\* The events of another thread leave the display as it is.
LEMMA MovedList ==
    ASSUME NEW q, NEW low \in Int, EventList(q, low), OneCarries(q),
           NEW l \in Seq([id : Posts, due : Int])
    PROVE  LET r == FoldLeft(AddEventToQueue, q, l) IN EventList(r, low) /\ OneCarries(r)
<1>1. PICK c : Moves(c, q, l) /\ FoldLeft(AddEventToQueue, q, l) = c[Len(l)]
  BY FoldMoves
<1> DEFINE Wrong == {k \in 0 .. Len(l) : ~(EventList(c[k], low) /\ OneCarries(c[k]))}
<1> SUFFICES ASSUME Wrong # {} PROVE FALSE
  <2>1. Len(l) \in 0 .. Len(l)
    OBVIOUS
  <2> QED
    BY <1>1, <2>1
<1> DEFINE k == Min(Wrong)
<1>2. k \in Wrong /\ \A i \in Wrong : k <= i
  <2>1. Wrong \in SUBSET Nat
    OBVIOUS
  <2> QED
    BY <2>1, MinOfNaturals
<1> HIDE DEF k
<1>3. k # 0
  BY <1>1, <1>2 DEF Moves
<1>4. k - 1 \in 0 .. Len(l) /\ k \in 1 .. Len(l) /\ k - 1 \notin Wrong
  BY <1>2, <1>3
<1>5. EventList(c[k - 1], low) /\ OneCarries(c[k - 1])
  BY <1>4
<1>6. l[k] \in Event /\ l[k].id \notin Display /\ ~Carries(l[k])
  <2>1. l[k] \in [id : Posts, due : Int]
    BY <1>4, ElementOfSeq
  <2> QED
    BY <2>1, EventsAssumption DEF Event, Ids, Carries, Display
<1>7. c[k] = AddEventToQueue(c[k - 1], l[k])
  BY <1>1, <1>4 DEF Moves
<1>8. EventList(c[k], low) /\ OneCarries(c[k])
  BY <1>5, <1>6, <1>7, AddKeepsList
<1> QED
  BY <1>2, <1>8

\* What moving no event or one into a list is.
LEMMA FoldShort ==
    ASSUME NEW q, NEW a
    PROVE  /\ FoldLeft(AddEventToQueue, q, <<>>) = q
           /\ FoldLeft(AddEventToQueue, q, <<a>>) = AddEventToQueue(q, a)
<1>1. FoldLeft(AddEventToQueue, q, <<>>) = q
  <2> DEFINE l == <<>>
  <2>1. l \in Seq({a}) /\ Len(l) = 0
    OBVIOUS
  <2> HIDE DEF l
  <2>2. PICK c : Moves(c, q, l) /\ FoldLeft(AddEventToQueue, q, l) = c[Len(l)]
    BY <2>1, FoldMoves
  <2>3. FoldLeft(AddEventToQueue, q, l) = q
    BY <2>1, <2>2 DEF Moves
  <2> QED
    BY <2>3 DEF l
<1>2. FoldLeft(AddEventToQueue, q, <<a>>) = AddEventToQueue(q, a)
  <2> DEFINE l == <<a>>
  <2>1. l \in Seq({a}) /\ Len(l) = 1 /\ l[1] = a
    OBVIOUS
  <2> HIDE DEF l
  <2>2. PICK c : Moves(c, q, l) /\ FoldLeft(AddEventToQueue, q, l) = c[Len(l)]
    BY <2>1, FoldMoves
  <2>3. 1 \in 1 .. 1 /\ 1 - 1 = 0
    OBVIOUS
  <2>4. FoldLeft(AddEventToQueue, q, l) = AddEventToQueue(q, a)
    BY <2>1, <2>2, <2>3 DEF Moves
  <2> QED
    BY <2>4 DEF l
<1> QED
  BY <1>1, <1>2
-----------------------------------------------------------------------------
(* The invariant of the scheduler *)

\* No display event is due before the slice ends while the program runs, and none
\* was due more than one block of code ago at any other time.
Earliest == IF pc = "run" THEN slicelength ELSE Ticks - MaxBlock

QueueInv ==
    /\ EventList(queue, Earliest)
    /\ IF pc = "callback" /\ Carries(called) THEN NoneCarries(queue) ELSE OneCarries(queue)
    /\ pc = "slice" => queue[1].due > 0

SliceInv ==
    /\ slicelength \in 0 .. MaxSlice /\ downcount \in -MaxBlock .. MaxSlice
    /\ downcount <= slicelength
    /\ pc \notin {"run", "begin"} => downcount = slicelength

CalledInv ==
    IF pc = "callback"
    THEN called \in Event /\ called.due <= 0 /\ (called.id \in Display => -MaxBlock <= called.due)
    ELSE called = NoEvent

\* What a callback may keep: one that may flip was called a block of code late at most.
Call == {c \in [flips : BOOLEAN, late : Int] : c.flips => c.late \in 0 .. MaxBlock}

CallbacksInv ==
    /\ callbacks \in Seq(Call)
    /\ Len(callbacks) <= IF pc = "return" THEN MaxNested + 1 ELSE MaxNested
    /\ pc = "return" => callbacks # <<>>
    /\ pc = "run" => callbacks = <<>>

TimingInv ==
    /\ QueueInv /\ SliceInv /\ CalledInv /\ CallbacksInv
    /\ posted \in Seq([id : Posts, due : Int])
    /\ hasTsEvents \in BOOLEAN /\ posting \in BOOLEAN
    /\ pc \in {"run", "begin", "clear", "move", "process", "callback", "return", "slice"}

\* The times of the invariant are numbers.
LEMMA TimesAreNumbers ==
    ASSUME TimingInv
    PROVE  /\ Ticks \in Nat /\ Earliest \in Int /\ Ticks - MaxBlock \in Int
           /\ slicelength \in Int /\ downcount \in Int /\ MaxSlice \in Int /\ MaxBlock \in Int
           /\ MaxBlock > 0 /\ MaxSlice > 0
  BY TimingAssumption DEF TimingInv, SliceInv, Ticks, Earliest

\* Events of the program and of other threads are none of the display.
LEMMA OtherEvent ==
    ASSUME NEW id \in Timers \union Posts, NEW due \in Int
    PROVE  /\ [id |-> id, due |-> due] \in Event
           /\ [id |-> id, due |-> due].id \notin Display
           /\ ~Carries([id |-> id, due |-> due])
  BY EventsAssumption DEF Event, Ids, Carries, Display

\* An int holds the times of a frame.
LEMMA ToIntOfSmall ==
    ASSUME NEW n \in Nat, n < IntLimit
    PROVE  ToInt(n) = n
<1>1. \A x, m \in Nat : x < m => x % m = x
  OBVIOUS
<1>2. n + IntLimit \in Nat /\ 2 * IntLimit \in Nat /\ n + IntLimit < 2 * IntLimit /\ IntLimit \in Int
  BY TimingAssumption
<1>3. (n + IntLimit) % (2 * IntLimit) = n + IntLimit
  BY <1>1, <1>2
<1> QED
  BY <1>2, <1>3 DEF ToInt

\* A step that begins and ends no callback, and gives the CPU back in none.
LEMMA CallbacksStay ==
    ASSUME TimingInv, callbacks' = callbacks, pc # "return", pc' # "return",
           pc' = "run" => callbacks = <<>>
    PROVE  CallbacksInv'
  BY DEF TimingInv, CallbacksInv

\* Once an event that is scheduled or removed leaves the display as it was, what
\* is left of a step of the program is the cycles it costs.
LEMMA ProgramStep ==
    ASSUME TimingInv, Runs, NEW low \in Int, slicelength' \in 0 .. MaxSlice,
           downcount' \in -MaxBlock .. MaxSlice, downcount' <= slicelength',
           EventList(queue', low), OneCarries(queue'),
           pc' \in {"run", "begin"}, slicelength' <= low,
           posted' \in Seq([id : Posts, due : Int]), UNCHANGED <<lockVars, called, callbacks>>
    PROVE  TimingInv'
<1>1. pc = "run" /\ called = NoEvent
  BY DEF Runs, TimingInv, CalledInv
<1>2. SliceInv'
  BY DEF SliceInv
<1>3. CalledInv'
  BY <1>1 DEF CalledInv
<1>4. Earliest' \in Int /\ Earliest' <= low
  <2> DEFINE s == slicelength'
             d == downcount'
  <2>1. s \in Int /\ d \in Int /\ MaxBlock \in Int /\ -MaxBlock <= d /\ s <= low
    BY TimingAssumption
  <2>2. Earliest' = IF pc' = "run" THEN s ELSE s - d - MaxBlock
    BY DEF Earliest, Ticks
  <2> HIDE DEF s, d
  <2>3. s - d - MaxBlock \in Int /\ s - d - MaxBlock <= low
    BY <2>1
  <2> QED
    BY <2>1, <2>2, <2>3
<1>5. QueueInv'
  <2>1. EventList(queue', Earliest')
    BY <1>4, LowerList
  <2> QED
    BY <2>1 DEF QueueInv, EventList, Sorted, DisplayFrom, OneCarries
<1>6. CallbacksInv'
  BY <1>1, CallbacksStay DEF TimingInv, CallbacksInv
<1> QED
  BY <1>2, <1>3, <1>5, <1>6 DEF TimingInv, lockVars

\* What every step of the program starts from.
LEMMA RunningFacts ==
    ASSUME TimingInv, Runs
    PROVE  /\ EventList(queue, slicelength) /\ OneCarries(queue)
           /\ slicelength \in 0 .. MaxSlice /\ downcount \in 0 .. slicelength
           /\ slicelength \in Int /\ Ticks \in Nat
           /\ pc = "run" /\ posted \in Seq([id : Posts, due : Int])
  BY TimesAreNumbers DEF TimingInv, QueueInv, SliceInv, Runs, Earliest

\* A block of code costs at most MaxBlock cycles.
LEMMA CostOfBlock ==
    ASSUME NEW c \in 1 .. MaxBlock, NEW s \in 0 .. MaxSlice, NEW d \in 0 .. s
    PROVE  d - c \in -MaxBlock .. MaxSlice /\ d - c <= s
  BY TimingAssumption

\* Such a step within the slice.
LEMMA StepInSlice ==
    ASSUME TimingInv, Runs, slicelength' = slicelength,
           downcount' \in -MaxBlock .. MaxSlice, downcount' <= slicelength,
           EventList(queue', slicelength), OneCarries(queue'), pc' \in {"run", "begin"},
           posted' \in Seq([id : Posts, due : Int]), lockVars' = lockVars,
           called' = called, callbacks' = callbacks
    PROVE  TimingInv'
<1>1. /\ slicelength \in Int /\ slicelength' \in 0 .. MaxSlice /\ downcount' <= slicelength'
      /\ slicelength' <= slicelength
  BY RunningFacts
<1> QED
  BY <1>1, ProgramStep

\* Every step of the program keeps the invariant: only ForceCheck() moves the
\* times of the events, and then the slice ends.
LEMMA ProgramKeeps ==
    ASSUME TimingInv, Program
    PROVE  TimingInv'
<1>0. Runs
  BY DEF Program, KernelIdle, Execute, ForceCheck, ReSchedule, UnscheduleEvent, ScheduleEvent,
         RemoveAllEvents
<1>1. /\ EventList(queue, slicelength) /\ OneCarries(queue)
      /\ slicelength \in 0 .. MaxSlice /\ downcount \in 0 .. slicelength
      /\ slicelength \in Int /\ Ticks \in Nat
      /\ pc = "run" /\ posted \in Seq([id : Posts, due : Int])
  BY <1>0, RunningFacts
<1>2. CASE KernelIdle
  <2>1. /\ downcount' = IF downcount = IdleCycles THEN -1 ELSE downcount - IdleCycles
        /\ pc' = "begin" /\ UNCHANGED <<listVars, lockVars, slicelength, called, callbacks>>
    BY <1>2 DEF KernelIdle
  <2>2. IdleCycles \in 0 .. downcount
    <3>1. queue \in Seq(Event) /\ (queue # <<>> => queue[1] \in Event)
      BY <1>1 DEF EventList
    <3> DEFINE t == ToInt(queue[1].due)
    <3>2. queue # <<>> => t \in Int
      BY <3>1, TimingAssumption DEF Event, ToInt
    <3> HIDE DEF t
    <3>3. IdleCycles = LET untilEvent == t - Ticks
                       IN  IF queue # <<>> /\ downcount > 0 /\ untilEvent < downcount
                           THEN (IF untilEvent < 0 THEN 0 ELSE untilEvent) ELSE downcount
      BY DEF IdleCycles, t
    <3> QED
      BY <1>1, <3>2, <3>3
  <2>3. downcount' \in -MaxBlock .. MaxSlice /\ downcount' <= slicelength
    BY <1>1, <2>1, <2>2, TimingAssumption
  <2> QED
    BY <1>0, <1>1, <2>1, <2>3, StepInSlice DEF listVars
<1>3. ASSUME NEW c \in 1 .. MaxBlock, Execute(c) \/ ReSchedule(c) PROVE TimingInv'
  <2>1. downcount' \in -MaxBlock .. MaxSlice /\ downcount' <= slicelength
    BY <1>1, <1>3, CostOfBlock DEF Execute, ReSchedule
  <2>2. UNCHANGED <<queue, posted, lockVars, slicelength, called, callbacks>> /\ pc' \in {"run", "begin"}
    BY <1>1, <1>3 DEF Execute, ReSchedule, listVars, callVars
  <2> QED
    BY <1>0, <1>1, <2>1, <2>2, StepInSlice
<1>4. ASSUME NEW c \in 1 .. MaxBlock, ForceCheck(c) PROVE TimingInv'
  <2>1. /\ queue' = Rebased(queue) /\ posted' = Rebased(posted)
        /\ slicelength' = 0 /\ downcount' = -c
        /\ pc' = pc /\ UNCHANGED <<lockVars, called, callbacks>>
    BY <1>4 DEF ForceCheck, callVars
  <2>2. EventList(queue', slicelength - Ticks) /\ OneCarries(queue')
    BY <1>1, <2>1, RebasedList
  <2>3. slicelength - Ticks \in Int /\ 0 <= slicelength - Ticks
    BY <1>1 DEF Ticks
  <2>4. posted' \in Seq([id : Posts, due : Int])
    <3>1. Ticks \in Int
      BY <1>1
    <3> QED
      BY <1>1, <2>1, <3>1, RebasedIs
  <2>5. /\ slicelength' \in 0 .. MaxSlice /\ downcount' \in -MaxBlock .. MaxSlice
        /\ downcount' <= slicelength' /\ slicelength' <= slicelength - Ticks
    BY <2>1, <2>3, TimingAssumption
  <2> QED
    BY <1>0, <1>1, <2>1, <2>2, <2>3, <2>4, <2>5, ProgramStep
<1>5. ASSUME NEW c \in 1 .. MaxBlock, NEW id \in Timers, UnscheduleEvent(id, c) PROVE TimingInv'
  <2>1. /\ queue' = Without(queue, {id}) /\ downcount' = downcount - c
        /\ UNCHANGED <<posted, lockVars, slicelength, pc, called, callbacks>>
    BY <1>5 DEF UnscheduleEvent, callVars
  <2>2. downcount' \in -MaxBlock .. MaxSlice /\ downcount' <= slicelength
    BY <1>1, <2>1, CostOfBlock
  <2>3. {id} \intersect Display = {}
    BY EventsAssumption
  <2>4. EventList(queue', slicelength) /\ OneCarries(queue')
    BY <1>1, <2>1, <2>3, WithoutList
  <2> QED
    BY <1>0, <1>1, <2>1, <2>2, <2>4, StepInSlice
<1>6. ASSUME NEW c \in 1 .. MaxBlock, NEW id \in Timers, NEW d \in Delays, ScheduleEvent(id, d, c)
      PROVE  TimingInv'
  <2> DEFINE e == [id |-> id, due |-> Ticks + d]
  <2>1. /\ queue' = AddEventToQueue(queue, e) /\ downcount' = downcount - c
        /\ UNCHANGED <<posted, lockVars, slicelength, pc, called, callbacks>>
    BY <1>6 DEF ScheduleEvent, callVars
  <2>2. downcount' \in -MaxBlock .. MaxSlice /\ downcount' <= slicelength
    BY <1>1, <2>1, CostOfBlock
  <2>3. e \in Event /\ e.id \notin Display /\ ~Carries(e)
    <3>1. Ticks + d \in Int
      BY <1>1, TimingAssumption
    <3> QED
      BY <3>1, OtherEvent
  <2> HIDE DEF e
  <2>4. EventList(queue', slicelength) /\ OneCarries(queue')
    BY <1>1, <2>1, <2>3, AddKeepsList
  <2> QED
    BY <1>0, <1>1, <2>1, <2>2, <2>4, StepInSlice
<1>7. ASSUME NEW c \in 1 .. MaxBlock, NEW type \in {Timers, Posts}, RemoveAllEvents(type, c)
      PROVE  TimingInv'
  <2>1. /\ queue' = Without(queue, type) /\ posted' = Without(posted, type)
        /\ downcount' = downcount - c
        /\ UNCHANGED <<lockVars, slicelength, pc, called, callbacks>>
    BY <1>7 DEF RemoveAllEvents, callVars
  <2>2. downcount' \in -MaxBlock .. MaxSlice /\ downcount' <= slicelength
    BY <1>1, <2>1, CostOfBlock
  <2>3. type \intersect Display = {}
    BY EventsAssumption
  <2>4. EventList(queue', slicelength) /\ OneCarries(queue')
    BY <1>1, <2>1, <2>3, WithoutList
  <2>5. posted' \in Seq([id : Posts, due : Int])
    BY <1>1, <2>1, WithoutIs
  <2> QED
    BY <1>0, <1>1, <2>1, <2>2, <2>4, <2>5, StepInSlice
<1> QED
  BY <1>2, <1>3, <1>4, <1>5, <1>6, <1>7 DEF Program

\* The functions of the other thread touch what is posted, the flag and the lock.
LEMMA OtherThreadKeeps ==
    ASSUME TimingInv, OtherThread
    PROVE  TimingInv'
<1>1. UNCHANGED <<queue, sliceVars, callVars>>
  BY DEF OtherThread, SetFlag, UnscheduleThreadsafeEvent, ScheduleEvent_Threadsafe, listVars
<1>2. QueueInv' /\ SliceInv' /\ CalledInv' /\ CallbacksInv'
  BY <1>1 DEF TimingInv, QueueInv, SliceInv, CalledInv, CallbacksInv, EventList, Sorted, DisplayFrom,
              OneCarries, NoneCarries, Earliest, Ticks, sliceVars, callVars
<1>3. posted \in Seq([id : Posts, due : Int]) /\ Ticks \in Nat
  BY TimesAreNumbers DEF TimingInv
<1>4. posted' \in Seq([id : Posts, due : Int]) /\ hasTsEvents' \in BOOLEAN /\ posting' \in BOOLEAN
  <2>1. CASE SetFlag
    BY <1>3, <2>1 DEF SetFlag, listVars
  <2>2. ASSUME NEW id \in Posts, UnscheduleThreadsafeEvent(id)
        PROVE  posted' \in Seq([id : Posts, due : Int]) /\ UNCHANGED lockVars
    BY <1>3, <2>2, WithoutIs DEF UnscheduleThreadsafeEvent
  <2>3. ASSUME NEW id \in Posts, NEW d \in Delays, NEW skew \in Skews,
               ScheduleEvent_Threadsafe(id, d, skew)
        PROVE  /\ posted' \in Seq([id : Posts, due : Int])
               /\ posting' = TRUE /\ hasTsEvents' = hasTsEvents
    <3>1. posted' = Append(posted, [id |-> id, due |-> Ticks + d + skew])
          /\ posting' = TRUE /\ hasTsEvents' = hasTsEvents
      BY <2>3 DEF ScheduleEvent_Threadsafe
    <3>2. Ticks + d + skew \in Int
      BY <1>3, TimingAssumption
    <3> QED
      BY <1>3, <3>1, <3>2
  <2> QED
    BY <2>1, <2>2, <2>3 DEF OtherThread, TimingInv, lockVars
<1> QED
  BY <1>1, <1>2, <1>4 DEF TimingInv, callVars

\* Within Advance() the clock stands still.
LEMMA ClockStands ==
    ASSUME TimingInv, pc \notin {"run", "begin"}
    PROVE  Ticks = 0 /\ downcount = slicelength /\ Earliest = -MaxBlock /\ slicelength \in 0 .. MaxSlice
<1>1. /\ downcount = slicelength /\ slicelength \in 0 .. MaxSlice /\ slicelength \in Int
      /\ pc # "run" /\ MaxBlock \in Int
  BY TimesAreNumbers DEF TimingInv, SliceInv
<1> QED
  BY <1>1 DEF Ticks, Earliest

\* An event of a callback that is called late comes so much sooner.
LEMMA PeriodIs ==
    ASSUME TimingInv, pc \in {"callback", "return"}, NEW id \in Ids, NEW cycles \in Int, NEW late \in Int
    PROVE  /\ Period(id, cycles, late) \in Event /\ Period(id, cycles, late).id = id
           /\ Period(id, cycles, late).due = cycles - late
<1>1. Ticks = 0
  BY ClockStands
<1>2. Period(id, cycles, late) = [id |-> id, due |-> 0 + cycles - late]
  BY <1>1 DEF Period
<1>3. 0 + cycles - late = cycles - late /\ cycles - late \in Int
  OBVIOUS
<1> QED
  BY <1>2, <1>3 DEF Event

\* A timer of a callback is not of the display.
LEMMA PeriodOfTimer ==
    ASSUME TimingInv, pc \in {"callback", "return"}, NEW id \in Timers, NEW d \in Delays, NEW late \in Int
    PROVE  /\ Period(id, d, late) \in Event
           /\ Period(id, d, late).id \notin Display /\ ~Carries(Period(id, d, late))
<1>1. id \in Ids /\ id \notin Display /\ d \in Int
  BY TimingAssumption, EventsAssumption DEF Ids
<1>2. Period(id, d, late) \in Event /\ Period(id, d, late).id = id
  BY <1>1, PeriodIs
<1> QED
  BY <1>1, <1>2 DEF Carries, Display

\* A callback is called with a number; that of the display with how late it is.
LEMMA LateIs ==
    ASSUME TimingInv, pc = "callback"
    PROVE  Late \in Int /\ (called.id \in Display => Late \in 0 .. MaxBlock)
<1>1. Ticks = 0
  BY ClockStands
<1> DEFINE d == called.due
<1>2. d \in Int /\ d <= 0 /\ (called.id \in Display => -MaxBlock <= d)
  BY DEF TimingInv, CalledInv, Event
<1>3. MaxBlock \in Int /\ IntLimit \in Int /\ IntLimit > 0 /\ MaxBlock < IntLimit
  BY TimingAssumption, IntAssumption
<1>4. Late = ToInt(0 - d)
  BY <1>1 DEF Late, d
<1> HIDE DEF d
<1>5. Late \in Int
  BY <1>2, <1>3, <1>4 DEF ToInt
<1>6. ASSUME called.id \in Display PROVE Late \in 0 .. MaxBlock
  <2>1. 0 - d \in Nat /\ 0 - d < IntLimit /\ 0 - d \in 0 .. MaxBlock
    BY <1>2, <1>3, <1>6
  <2> QED
    BY <1>4, <2>1, ToIntOfSmall
<1> QED
  BY <1>5, <1>6

\* The next event of the display comes in time.
LEMMA NextDisplayIs ==
    ASSUME TimingInv, pc = "callback", Carries(called)
    PROVE  \E e \in Event : /\ NextDisplay = <<e>>
                            /\ Carries(e) /\ -MaxBlock <= e.due /\ e.due < IntLimit
<1>1. Late \in 0 .. MaxBlock /\ Late \in Int
  BY LateIs DEF Carries, Display
<1>2. /\ VblankCycles \in Nat /\ VblankCycles < IntLimit /\ FrameCycles \in Nat /\ FrameCycles < IntLimit
      /\ MaxBlock \in Int /\ IntLimit \in Int
  BY TimingAssumption, IntAssumption
<1>3. EnterVblank \in Ids /\ LeaveVblank \in Ids /\ EnterVblank # LeaveVblank
  BY DEF Ids, Display, EnterVblank, LeaveVblank
<1> DEFINE leave == Period(LeaveVblank, VblankCycles, Late)
           enter == Period(EnterVblank, FrameCycles, Late)
<1>4. /\ leave \in Event /\ leave.id = LeaveVblank /\ leave.due = VblankCycles - Late
      /\ enter \in Event /\ enter.id = EnterVblank /\ enter.due = FrameCycles - Late
  BY <1>1, <1>2, <1>3, PeriodIs
<1>5. NextDisplay = IF called.id = EnterVblank THEN <<leave>> ELSE <<enter>>
  BY <1>3 DEF NextDisplay, Carries
<1> HIDE DEF leave, enter
<1>6. Carries(leave) /\ -MaxBlock <= leave.due /\ leave.due < IntLimit
  BY <1>1, <1>2, <1>4 DEF Carries
<1>7. Carries(enter) /\ -MaxBlock <= enter.due /\ enter.due < IntLimit
  BY <1>1, <1>2, <1>4 DEF Carries
<1> QED
  BY <1>4, <1>5, <1>6, <1>7

\* What the first part of a callback does to the list: nothing or one event more.
LEMMA CallbackAdds ==
    ASSUME TimingInv, Callback
    PROVE  \/ queue' = queue /\ ~Carries(called)
           \/ \E e \in Event :
                /\ queue' = AddEventToQueue(queue, e)
                /\ IF Carries(called) THEN Carries(e) ELSE e.id \notin Display
                /\ e.id \in Display => -MaxBlock <= e.due /\ e.due < IntLimit
<1>1. pc = "callback" /\ Late \in Int
  BY LateIs DEF Callback
<1>2. CASE queue' = FoldLeft(AddEventToQueue, queue, NextDisplay)
  <2>1. CASE Carries(called)
    BY <1>1, <1>2, <2>1, NextDisplayIs, FoldShort
  <2>2. CASE ~Carries(called)
    <3>1. NextDisplay = <<>>
      BY <2>2 DEF NextDisplay, Carries
    <3> QED
      BY <1>2, <2>2, <3>1, FoldShort
  <2> QED
    BY <2>1, <2>2
<1>3. ASSUME called.id \in Timers, NEW d \in Delays,
             queue' = AddEventToQueue(queue, Period(called.id, d, Late))
      PROVE  \E e \in Event : /\ queue' = AddEventToQueue(queue, e)
                              /\ ~Carries(called) /\ e.id \notin Display
  <2>1. ~Carries(called)
    BY <1>3, EventsAssumption DEF Carries, Display
  <2>2. Period(called.id, d, Late) \in Event /\ Period(called.id, d, Late).id \notin Display
    BY <1>1, <1>3, PeriodOfTimer
  <2> QED
    BY <1>3, <2>1, <2>2
<1> QED
  BY <1>2, <1>3 DEF Callback

\* The list after it: the display goes on with one carrier.
LEMMA CallbackList ==
    ASSUME TimingInv, Callback
    PROVE  EventList(queue', -MaxBlock) /\ OneCarries(queue')
<1>1. pc = "callback"
  BY DEF Callback
<1>2. Earliest = -MaxBlock /\ -MaxBlock \in Int
  BY <1>1, ClockStands, TimesAreNumbers
<1>3. /\ EventList(queue, -MaxBlock)
      /\ IF Carries(called) THEN NoneCarries(queue) ELSE OneCarries(queue)
  BY <1>1, <1>2 DEF TimingInv, QueueInv
<1>4. CASE queue' = queue /\ ~Carries(called)
  BY <1>3, <1>4
<1>5. ASSUME NEW e \in Event, queue' = AddEventToQueue(queue, e),
             IF Carries(called) THEN Carries(e) ELSE e.id \notin Display,
             e.id \in Display => -MaxBlock <= e.due /\ e.due < IntLimit
      PROVE  EventList(queue', -MaxBlock) /\ OneCarries(queue')
  <2>1. e.id \notin Display => ~Carries(e)
    BY DEF Carries, Display
  <2> QED
    BY <1>2, <1>3, <1>5, <2>1, AddKeepsList
<1> QED
  BY <1>4, <1>5, CallbackAdds

\* The rest of a callback adds nothing or one event, which does not carry the display
\* on.  A flip was due when the callback was called: not long ago.
LEMMA AfterCallbackIs ==
    ASSUME TimingInv, pc = "return", NEW e \in AfterCallback
    PROVE  /\ e \in Event /\ ~Carries(e)
           /\ e.id \in Display => -MaxBlock <= e.due /\ e.due < IntLimit
<1>1. callbacks \in Seq(Call) /\ callbacks # <<>> /\ MaxBlock \in Int /\ IntLimit \in Int /\ IntLimit > 0
  BY TimingAssumption DEF TimingInv, CallbacksInv
<1>2. callbacks[1] \in Call
  BY <1>1
<1>3. CASE callbacks[1].flips
  <2> DEFINE late == callbacks[1].late
  <2>1. late \in 0 .. MaxBlock /\ late \in Int
    BY <1>1, <1>2, <1>3 DEF Call
  <2>2. AfterFlip \in Ids /\ 0 \in Int
    BY DEF Ids, Display
  <2> HIDE DEF late
  <2>3. e = Period(AfterFlip, 0, late)
    BY <1>3 DEF AfterCallback, late
  <2>4. e \in Event /\ e.id = AfterFlip /\ e.due = 0 - late
    BY <2>1, <2>2, <2>3, PeriodIs
  <2>5. ~Carries(e)
    BY <2>4 DEF Carries, EnterVblank, LeaveVblank, AfterFlip
  <2> QED
    BY <1>1, <2>1, <2>4, <2>5
<1>4. CASE ~callbacks[1].flips
  <2>1. PICK id \in Timers, d \in Delays : e = Period(id, d, 0)
    BY <1>4 DEF AfterCallback
  <2> QED
    BY <2>1, PeriodOfTimer
<1> QED
  BY <1>3, <1>4

\* The next slice has cycles and does not go past a display event.
LEMMA NextSlice ==
    ASSUME TimingInv, pc = "slice"
    PROVE  /\ queue # <<>> /\ Target \in 1 .. MaxSlice
           /\ EventList(queue, Target) /\ OneCarries(queue)
<1>1. /\ EventList(queue, Earliest) /\ OneCarries(queue) /\ queue[1].due > 0
  BY DEF TimingInv, QueueInv
<1>2. queue \in Seq(Event) /\ Sorted(queue) /\ DisplayFrom(queue, Earliest)
  BY <1>1 DEF EventList
<1>3. PICK i \in DOMAIN queue : Carries(queue[i])
  BY <1>1 DEF OneCarries
<1>4. DOMAIN queue = 1 .. Len(queue) /\ queue # <<>> /\ 1 \in 1 .. Len(queue) /\ i \in Int /\ 1 <= i
  BY <1>2, <1>3
<1>5. \A j \in 1 .. Len(queue) : queue[j].due \in Int
  BY <1>2, DueOfEvent
<1> DEFINE first == queue[1].due
<1>6. \A j \in 1 .. Len(queue) : first <= queue[j].due
  BY <1>2, <1>4, <1>5 DEF Sorted
<1>7. queue[i].due < IntLimit
  BY <1>2, <1>3 DEF DisplayFrom, Carries, Display
<1>8. first \in Nat /\ first > 0 /\ first < IntLimit /\ IntLimit \in Int
  BY <1>1, <1>3, <1>4, <1>5, <1>6, <1>7, TimingAssumption
<1>9. ToInt(first) = first
  BY <1>8, ToIntOfSmall
<1>10. Target = IF first > MaxSlice THEN MaxSlice ELSE first
  BY <1>9 DEF Target
<1> HIDE DEF first
<1>11. Target \in 1 .. MaxSlice /\ Target \in Int /\ Target <= first
  BY <1>8, <1>10, TimingAssumption
<1>12. DisplayFrom(queue, Target)
  <2> SUFFICES ASSUME NEW j \in DOMAIN queue, queue[j].id \in Display
               PROVE  Target <= queue[j].due /\ queue[j].due < IntLimit
    BY DEF DisplayFrom
  <2>1. queue[j].due \in Int /\ first <= queue[j].due /\ queue[j].due < IntLimit
    BY <1>2, <1>4, <1>5, <1>6 DEF DisplayFrom
  <2> QED
    BY <1>8, <1>11, <2>1
<1> QED
  BY <1>1, <1>2, <1>4, <1>11, <1>12 DEF EventList

\* Every step of Advance() and of the callbacks keeps the invariant.
LEMMA AdvancingKeeps ==
    ASSUME TimingInv, Advancing
    PROVE  TimingInv'
<1>0. /\ posted \in Seq([id : Posts, due : Int]) /\ hasTsEvents \in BOOLEAN /\ posting \in BOOLEAN
      /\ CalledInv /\ EventList(queue, Earliest)
  BY DEF TimingInv, QueueInv
<1>1. Ticks \in Nat /\ Earliest \in Int /\ MaxBlock \in Int /\ slicelength \in Int /\ downcount \in Int
  BY TimesAreNumbers
<1>2. SliceInv
  BY DEF TimingInv
<1>3. CASE Advance
  <2>1. /\ pc = "begin" \/ (pc = "run" /\ downcount < 0)
        /\ queue' = Rebased(queue) /\ posted' = Rebased(posted)
        /\ downcount' = slicelength /\ slicelength' = slicelength
        /\ pc' \in {"clear", "process"}
        /\ UNCHANGED <<hasTsEvents, posting, called, callbacks>>
    BY <1>3 DEF Advance, lockVars
  <2>2. OneCarries(queue) /\ called = NoEvent
    BY <2>1 DEF TimingInv, QueueInv, CalledInv
  <2>3. EventList(queue', Earliest - Ticks) /\ OneCarries(queue')
    BY <1>0, <1>1, <2>1, <2>2, RebasedList
  <2>4. -MaxBlock <= Earliest - Ticks
    <3>1. CASE pc = "begin"
      BY <1>1, <3>1 DEF Earliest
    <3>2. CASE pc = "run"
      <4>1. Earliest - Ticks = downcount /\ downcount \in -MaxBlock .. MaxSlice
        BY <1>1, <1>2, <3>2 DEF Earliest, Ticks, SliceInv
      <4> QED
        BY <1>1, <4>1
    <3> QED
      BY <2>1, <3>1, <3>2
  <2>5. Earliest' = -MaxBlock
    <3>1. Earliest' = slicelength - slicelength - MaxBlock
      BY <2>1 DEF Earliest, Ticks
    <3> QED
      BY <1>1, <3>1
  <2>6. EventList(queue', Earliest')
    <3>1. Earliest - Ticks \in Int /\ -MaxBlock \in Int
      BY <1>1
    <3> QED
      BY <2>3, <2>4, <2>5, <3>1, LowerList
  <2>7. QueueInv'
    BY <2>1, <2>3, <2>6 DEF QueueInv, EventList, OneCarries, DisplayFrom, Sorted
  <2>8. SliceInv'
    BY <1>1, <1>2, <2>1, TimingAssumption DEF SliceInv
  <2>9. CalledInv'
    BY <2>1, <2>2 DEF CalledInv
  <2>10. posted' \in Seq([id : Posts, due : Int])
    <3>1. Ticks \in Int
      BY <1>1
    <3> QED
      BY <1>0, <2>1, <3>1, RebasedIs
  <2>11. CallbacksInv'
    BY <2>1, CallbacksStay
  <2> QED
    BY <1>0, <2>1, <2>7, <2>8, <2>9, <2>10, <2>11 DEF TimingInv
<1>4. CASE ~Advance
  <2>0. /\ pc \notin {"run", "begin"}
        /\ ClearFlag \/ MoveEvents \/ ProcessFifoWaitEvents \/ Callback \/ CallbackReturns \/ SetSlice
    BY <1>4 DEF Advancing, ClearFlag, MoveEvents, ProcessFifoWaitEvents, Callback, CallbackReturns,
                SetSlice
  <2>1. /\ Ticks = 0 /\ downcount = slicelength /\ Earliest = -MaxBlock /\ slicelength \in 0 .. MaxSlice
        /\ -MaxBlock \in Int
    BY <1>1, <2>0, ClockStands
  <2>2. ASSUME UNCHANGED sliceVars, pc' # "run" PROVE SliceInv' /\ Earliest' = -MaxBlock
    <3>1. slicelength' = slicelength /\ downcount' = downcount
      BY <2>2 DEF sliceVars
    <3>2. SliceInv'
      BY <1>2, <2>1, <3>1 DEF SliceInv
    <3>3. Earliest' = slicelength - slicelength - MaxBlock
      BY <2>1, <2>2, <3>1 DEF Earliest, Ticks
    <3> QED
      BY <1>1, <3>2, <3>3
  <2>3. ASSUME EventList(queue', -MaxBlock), OneCarries(queue'), Earliest' = -MaxBlock,
               pc' \notin {"callback", "slice"}
        PROVE  QueueInv'
    BY <2>3 DEF QueueInv, EventList, OneCarries, DisplayFrom, Sorted
  <2>4. CASE ClearFlag
    <3>1. /\ pc = "clear" /\ pc' = "move" /\ hasTsEvents' = FALSE
          /\ UNCHANGED <<queue, posted, posting, sliceVars, called, callbacks>>
      BY <2>4 DEF ClearFlag, listVars
    <3>2. OneCarries(queue') /\ EventList(queue', -MaxBlock) /\ called = NoEvent
      BY <1>0, <2>1, <3>1 DEF TimingInv, QueueInv, CalledInv
    <3>3. QueueInv' /\ SliceInv'
      BY <2>2, <2>3, <3>1, <3>2
    <3>4. CalledInv' /\ CallbacksInv'
      BY <3>1, <3>2, CallbacksStay DEF CalledInv
    <3> QED
      BY <1>0, <3>1, <3>3, <3>4 DEF TimingInv
  <2>5. CASE MoveEvents
    <3>1. /\ pc = "move" /\ pc' = "process" /\ posted' = <<>>
          /\ queue' = FoldLeft(AddEventToQueue, queue, posted)
          /\ UNCHANGED <<hasTsEvents, posting, sliceVars, called, callbacks>>
      BY <2>5 DEF MoveEvents, lockVars
    <3>2. OneCarries(queue) /\ EventList(queue, -MaxBlock) /\ called = NoEvent
      BY <1>0, <2>1, <3>1 DEF TimingInv, QueueInv, CalledInv
    <3>3. OneCarries(queue') /\ EventList(queue', -MaxBlock)
      BY <1>0, <2>1, <3>1, <3>2, MovedList
    <3>4. QueueInv' /\ SliceInv'
      BY <2>2, <2>3, <3>1, <3>3
    <3>5. CalledInv' /\ CallbacksInv'
      BY <3>1, <3>2, CallbacksStay DEF CalledInv
    <3>6. posted' \in Seq([id : Posts, due : Int])
      BY <3>1
    <3> QED
      BY <1>0, <3>1, <3>4, <3>5, <3>6 DEF TimingInv
  <2>6. CASE ProcessFifoWaitEvents
    <3>1. /\ pc = "process" /\ UNCHANGED <<posted, hasTsEvents, posting, sliceVars, callbacks>>
      BY <2>6 DEF ProcessFifoWaitEvents, lockVars
    <3>2. OneCarries(queue) /\ EventList(queue, -MaxBlock) /\ called = NoEvent
      BY <1>0, <2>1, <3>1 DEF TimingInv, QueueInv, CalledInv
    <3>3. /\ queue # <<>> /\ queue[1] \in Event /\ (queue[1].id \in Display => -MaxBlock <= queue[1].due)
          /\ EventList(Tail(queue), -MaxBlock)
          /\ IF Carries(queue[1]) THEN NoneCarries(Tail(queue)) ELSE OneCarries(Tail(queue))
      BY <2>1, <3>2, TailList
    <3>4. queue[1].due \in Int
      BY <3>3 DEF Event
    <3>5. CASE queue[1].due <= 0
      <4>1. queue' = Tail(queue) /\ called' = queue[1] /\ pc' = "callback"
        BY <2>1, <2>6, <3>3, <3>5 DEF ProcessFifoWaitEvents
      <4>2. SliceInv' /\ Earliest' = -MaxBlock
        BY <2>2, <3>1, <4>1
      <4>3. CalledInv' /\ CallbacksInv'
        BY <3>1, <3>3, <3>5, <4>1, CallbacksStay DEF CalledInv
      <4>4. QueueInv'
        BY <3>3, <4>1, <4>2 DEF QueueInv, EventList, Sorted, DisplayFrom, OneCarries, NoneCarries, Carries
      <4> QED
        BY <1>0, <3>1, <4>1, <4>2, <4>3, <4>4 DEF TimingInv
    <3>6. CASE ~(queue[1].due <= 0)
      <4>1. pc' = "slice" /\ queue' = queue /\ called' = called
        BY <2>1, <2>6, <3>6 DEF ProcessFifoWaitEvents
      <4>2. SliceInv' /\ Earliest' = -MaxBlock
        BY <2>2, <3>1, <4>1
      <4>3. CalledInv' /\ CallbacksInv'
        BY <3>1, <3>2, <4>1, CallbacksStay DEF CalledInv
      <4>4. queue'[1].due > 0
        BY <3>4, <3>6, <4>1
      <4>5. QueueInv'
        BY <3>2, <4>1, <4>2, <4>4 DEF QueueInv, EventList, Sorted, DisplayFrom, OneCarries, NoneCarries
      <4> QED
        BY <1>0, <3>1, <4>1, <4>2, <4>3, <4>5 DEF TimingInv
    <3> QED
      BY <3>5, <3>6
  <2>7. CASE Callback
    <3>1. /\ pc = "callback" /\ called' = NoEvent /\ pc' \in {"return", "begin"}
          /\ pc' = "begin" => Len(callbacks) < MaxNested
          /\ callbacks' = Cons(Begun, callbacks)
          /\ UNCHANGED <<posted, hasTsEvents, posting, sliceVars>>
      BY <2>7 DEF Callback, lockVars
    <3>2. OneCarries(queue') /\ EventList(queue', -MaxBlock)
      BY <2>7, CallbackList
    <3>3. QueueInv' /\ SliceInv'
      BY <2>2, <2>3, <3>1, <3>2
    <3>4. CalledInv'
      BY <3>1 DEF CalledInv
    <3>5. CallbacksInv'
      <4>1. Begun \in Call
        BY <3>1, LateIs, TimingAssumption DEF Begun, Call, Display
      <4>2. callbacks \in Seq(Call) /\ Len(callbacks) <= MaxNested
        BY <3>1 DEF TimingInv, CallbacksInv
      <4>3. callbacks' \in Seq(Call) /\ Len(callbacks') = Len(callbacks) + 1 /\ callbacks' # <<>>
        BY <3>1, <4>1, <4>2 DEF Cons
      <4> QED
        BY <3>1, <4>2, <4>3, TimingAssumption DEF CallbacksInv
    <3> QED
      BY <1>0, <3>1, <3>3, <3>4, <3>5 DEF TimingInv
  <2>8. CASE CallbackReturns
    <3>1. /\ pc = "return" /\ pc' = "process" /\ callbacks' = Tail(callbacks)
          /\ UNCHANGED <<posted, hasTsEvents, posting, sliceVars, called>>
      BY <2>8 DEF CallbackReturns, lockVars
    <3>2. OneCarries(queue) /\ EventList(queue, -MaxBlock) /\ called = NoEvent
      BY <1>0, <2>1, <3>1 DEF TimingInv, QueueInv, CalledInv
    <3>3. OneCarries(queue') /\ EventList(queue', -MaxBlock)
      <4>1. CASE queue' = queue
        BY <3>2, <4>1
      <4>2. ASSUME NEW e \in AfterCallback, queue' = AddEventToQueue(queue, e)
            PROVE  OneCarries(queue') /\ EventList(queue', -MaxBlock)
        <5>1. e \in Event /\ ~Carries(e) /\ (e.id \in Display => -MaxBlock <= e.due /\ e.due < IntLimit)
          BY <3>1, AfterCallbackIs
        <5> QED
          BY <2>1, <3>2, <4>2, <5>1, AddKeepsList
      <4> QED
        BY <2>8, <4>1, <4>2 DEF CallbackReturns
    <3>4. QueueInv' /\ SliceInv'
      BY <2>2, <2>3, <3>1, <3>3
    <3>5. CalledInv'
      BY <3>1, <3>2 DEF CalledInv
    <3>6. CallbacksInv'
      <4>1. callbacks \in Seq(Call) /\ callbacks # <<>> /\ Len(callbacks) <= MaxNested + 1
        BY <3>1 DEF TimingInv, CallbacksInv
      <4>2. callbacks' \in Seq(Call) /\ Len(callbacks') = Len(callbacks) - 1
        BY <3>1, <4>1
      <4> QED
        BY <3>1, <4>1, <4>2, TimingAssumption DEF CallbacksInv
    <3> QED
      BY <1>0, <3>1, <3>4, <3>5, <3>6 DEF TimingInv
  <2>9. CASE SetSlice
    <3>1. /\ pc = "slice" /\ pc' = IF callbacks # <<>> THEN "return" ELSE "run"
          /\ UNCHANGED <<queue, posted, hasTsEvents, posting, called, callbacks>>
      BY <2>9 DEF SetSlice, listVars, lockVars
    <3>2. /\ queue # <<>> /\ Target \in 1 .. MaxSlice
          /\ EventList(queue, Target) /\ OneCarries(queue)
      BY <3>1, NextSlice
    <3>3. slicelength' = Target /\ downcount' = downcount + Target - slicelength
      BY <2>9, <3>2 DEF SetSlice
    <3>4. Target \in Int /\ 1 <= Target /\ Target <= MaxSlice /\ MaxSlice \in Int
      BY <3>2, TimingAssumption
    <3> HIDE DEF Target
    <3>5. downcount' = Target
      BY <1>1, <2>1, <3>3, <3>4
    <3>6. SliceInv'
      BY <1>1, <3>3, <3>4, <3>5, TimingAssumption DEF SliceInv
    <3>7. Earliest' \in Int /\ Earliest' <= Target
      <4>1. Earliest' = IF pc' = "run" THEN Target ELSE Target - Target - MaxBlock
        BY <3>3, <3>5 DEF Earliest, Ticks
      <4> QED
        BY <1>1, <3>4, <4>1, TimingAssumption
    <3>8. EventList(queue, Earliest')
      BY <3>2, <3>4, <3>7, LowerList
    <3>9. QueueInv'
      BY <3>1, <3>2, <3>8 DEF QueueInv, EventList, OneCarries, Sorted, DisplayFrom
    <3>10. CalledInv'
      BY <3>1 DEF TimingInv, CalledInv
    <3>11. CallbacksInv'
      BY <3>1, TimingAssumption DEF TimingInv, CallbacksInv
    <3> QED
      BY <1>0, <3>1, <3>6, <3>9, <3>10, <3>11 DEF TimingInv
  <2> QED
    BY <2>0, <2>4, <2>5, <2>6, <2>7, <2>8, <2>9
<1> QED
  BY <1>3, <1>4

\* The invariant holds at the start: the first vblank is a frame away.
LEMMA TimingStarts ==
    ASSUME Init
    PROVE  TimingInv
<1> DEFINE e == [id |-> EnterVblank, due |-> FrameCycles]
           q == <<e>>
<1>1. /\ queue = q /\ posted = <<>> /\ hasTsEvents = FALSE /\ posting = FALSE
      /\ slicelength = MaxSlice /\ downcount = MaxSlice
      /\ pc = "begin" /\ called = NoEvent /\ callbacks = <<>>
  BY DEF Init
<1>2. e \in Event /\ e.due = FrameCycles /\ Carries(e)
  BY TimingAssumption DEF Event, Ids, Display, Carries
<1> HIDE DEF e
<1>3. q \in Seq(Event) /\ DOMAIN q = {1} /\ q[1] = e
  BY <1>2
<1> HIDE DEF q
<1>4. Earliest = -MaxBlock
  BY <1>1, TimingAssumption DEF Earliest, Ticks
<1>5. -MaxBlock <= FrameCycles /\ FrameCycles < IntLimit
  BY TimingAssumption, IntAssumption
<1>6. EventList(q, -MaxBlock)
  BY <1>2, <1>3, <1>5 DEF EventList, Sorted, DisplayFrom
<1>7. OneCarries(q)
  BY <1>2, <1>3 DEF OneCarries
<1>8. QueueInv
  BY <1>1, <1>4, <1>6, <1>7 DEF QueueInv
<1>9. SliceInv /\ CalledInv /\ CallbacksInv
  BY <1>1, TimingAssumption DEF SliceInv, CalledInv, CallbacksInv
<1>10. posted \in Seq([id : Posts, due : Int])
  BY <1>1
<1> QED
  BY <1>1, <1>8, <1>9, <1>10 DEF TimingInv

\* What the lists hold is typed.
LEMMA TimingTyped ==
    ASSUME TimingInv
    PROVE  TypeOK
<1>1. queue \in Seq(Event) /\ Sorted(queue)
  BY DEF TimingInv, QueueInv, EventList
<1>2. \A i \in 1 .. Len(posted) : posted[i] \in [id : Posts, due : Int]
  BY ElementOfSeq DEF TimingInv
<1>3. \A i \in DOMAIN queue : queue[i].id \in Ids /\ queue[i].due \in Int
  BY <1>1, DueOfEvent
<1>4. \A i \in DOMAIN posted : posted[i].id \in Ids /\ posted[i].due \in Int
  <2>1. DOMAIN posted = 1 .. Len(posted)
    BY DEF TimingInv
  <2> QED
    BY <1>2, <2>1 DEF Ids
<1>5. called # NoEvent <=> pc = "callback"
  BY EventsAssumption DEF TimingInv, CalledInv, Event
<1>6. /\ Len(callbacks) \in 0 .. MaxNested + 1 /\ (pc = "run" => callbacks = <<>>)
      /\ \A i \in DOMAIN callbacks : callbacks[i].flips \in BOOLEAN /\ callbacks[i].late \in Int
  <2>1. callbacks \in Seq(Call) /\ Len(callbacks) <= MaxNested + 1 /\ (pc = "run" => callbacks = <<>>)
    BY TimingAssumption DEF TimingInv, CallbacksInv
  <2>2. \A i \in DOMAIN callbacks : callbacks[i] \in Call
    BY <2>1
  <2> QED
    BY <2>1, <2>2, TimingAssumption DEF Call
<1> QED
  BY <1>1, <1>3, <1>4, <1>5, <1>6 DEF TimingInv, SliceInv, TypeOK, Sorted

\* A display event was not due before the last block of code.
LEMMA CalledOnTime ==
    ASSUME TimingInv
    PROVE  DisplayOnTime
<1> SUFFICES ASSUME pc = "callback", called.id \in Display PROVE Ticks - called.due <= MaxBlock
  BY DEF DisplayOnTime
<1>1. Ticks = 0
  BY ClockStands
<1>2. called.due \in Int /\ -MaxBlock <= called.due /\ MaxBlock \in Int
  BY TimingAssumption DEF TimingInv, CalledInv, Event
<1> QED
  BY <1>1, <1>2

\* One event carries the display on, if one of the list or the one called does.
LEMMA OneCarrier ==
    ASSUME TimingInv
    PROVE  DisplayGoesOn
<1> DEFINE carriers == {i \in DOMAIN queue : queue[i].id \in {EnterVblank, LeaveVblank}}
<1>1. CASE pc = "callback" /\ Carries(called)
  <2>1. carriers = {}
    BY <1>1 DEF TimingInv, QueueInv, NoneCarries, Carries
  <2>2. Cardinality(carriers) = 0
    BY <2>1, FS_EmptySet
  <2> QED
    BY <1>1, <2>2 DEF DisplayGoesOn, Carries
<1>2. CASE ~(pc = "callback" /\ Carries(called))
  <2>1. OneCarries(queue)
    BY <1>2 DEF TimingInv, QueueInv
  <2>2. PICK i \in DOMAIN queue : carriers = {i}
    BY <2>1 DEF OneCarries, Carries
  <2>3. Cardinality(carriers) = 1
    BY <2>2, FS_Singleton
  <2> QED
    BY <1>2, <2>3 DEF DisplayGoesOn, Carries
<1> QED
  BY <1>1, <1>2

\* Steps that change nothing keep the invariant.
LEMMA StutterKeeps ==
    ASSUME TimingInv, UNCHANGED vars
    PROVE  TimingInv'
  BY DEF TimingInv, QueueInv, SliceInv, CalledInv, CallbacksInv, EventList, Sorted, DisplayFrom,
         OneCarries, NoneCarries, Earliest, Ticks, vars, listVars, lockVars, sliceVars, callVars

\* The invariant of the event scheduler.
THEOREM TimingInvariant == Spec => []TimingInv
<1>1. TimingInv /\ [Next]_vars => TimingInv'
  BY ProgramKeeps, AdvancingKeeps, OtherThreadKeeps, StutterKeeps DEF Next
<1> QED
  BY <1>1, TimingStarts, PTL DEF Spec

\* The list stays sorted, the counters within a slice, and a callback is pending in
\* its step only, whatever is scheduled, posted or removed.
THEOREM TimingTypeCorrect == Spec => []TypeOK
  BY TimingInvariant, TimingTyped, PTL

\* A display event is called at its time or at most one block of code later: no slice
\* goes past it, although the slice is chosen once and a nearer event never shortens it.
\* That holds for a flip too, which is due before it is scheduled, after an inner
\* Advance() has chosen a slice: the outer one looks at the list again.
THEOREM DisplayAlwaysOnTime == Spec => []DisplayOnTime
  BY TimingInvariant, CalledOnTime, PTL

\* Advance() always finds an event: exactly one carries the display on, in the list
\* or in the callback that is about to be called.
THEOREM DisplayAlwaysGoesOn == Spec => []DisplayGoesOn
  BY TimingInvariant, OneCarrier, PTL
-----------------------------------------------------------------------------
(* The refinement *)

\* A list with its times t cycles nearer.
Shift(q, t) == [i \in DOMAIN q |-> [q[i] EXCEPT !.due = @ - t]]

\* What FromNow(), Rebased() and the agenda's Later() do.
LEMMA Shifts ==
    /\ \A q : FromNow(q) = Shift(q, Ticks) /\ Rebased(q) = Shift(q, Ticks)
    /\ FromNow(queue)' = Shift(queue', Ticks') /\ FromNow(posted)' = Shift(posted', Ticks')
    /\ \A q, c : Abstract!Later(q, c) = Shift(q, c)
    /\ \A q, ids : Abstract!Without(q, ids) = Without(q, ids)
    /\ \A q, i : Abstract!RemoveAt(q, i) = RemoveAt(q, i)
    /\ \A q : Abstract!Front(q) = Front(q) /\ Abstract!Last(q) = Last(q)
<1>1. \A q : FromNow(q) = Shift(q, Ticks) /\ Rebased(q) = Shift(q, Ticks)
  BY DEF FromNow, Rebased, Shift
<1>2. FromNow(queue)' = Shift(queue', Ticks') /\ FromNow(posted)' = Shift(posted', Ticks')
  BY DEF FromNow, Shift
<1>3. \A q, c : Abstract!Later(q, c) = Shift(q, c)
  BY DEF Abstract!Later, Shift
<1>5. \A q, ids : Abstract!Without(q, ids) = Without(q, ids)
  <2> SUFFICES ASSUME NEW q, NEW ids PROVE Abstract!Without(q, ids) = Without(q, ids)
    OBVIOUS
  <2> QED
    BY DEF Abstract!Without, Without, Abstract!Cardinality, Cardinality, Abstract!IsFiniteSet, IsFiniteSet
<1>6. \A q, i : Abstract!RemoveAt(q, i) = RemoveAt(q, i)
  BY DEF Abstract!RemoveAt, RemoveAt
<1>7. \A q : Abstract!Front(q) = Front(q) /\ Abstract!Last(q) = Last(q)
  BY DEF Abstract!Front, Abstract!Last, Front, Last
<1> QED
  BY <1>1, <1>2, <1>3, <1>5, <1>6, <1>7

\* The events of such a list.
LEMMA ShiftIs ==
    ASSUME NEW q \in Seq(Event), NEW t \in Int
    PROVE  /\ Shift(q, t) \in Seq(Event) /\ Len(Shift(q, t)) = Len(q)
           /\ DOMAIN Shift(q, t) = 1 .. Len(q)
           /\ \A i \in 1 .. Len(q) :
                Shift(q, t)[i].id = q[i].id /\ Shift(q, t)[i].due = q[i].due - t
<1>1. \A i \in 1 .. Len(q) : q[i] \in [id : Ids, due : Int]
  BY ElementOfSeq DEF Event
<1>2. Shift(q, t) = [i \in 1 .. Len(q) |-> [q[i] EXCEPT !.due = @ - t]]
  BY DEF Shift
<1>3. ASSUME NEW i \in 1 .. Len(q)
      PROVE  /\ [q[i] EXCEPT !.due = @ - t] = [id |-> q[i].id, due |-> q[i].due - t]
             /\ [q[i] EXCEPT !.due = @ - t] \in Event
  <2>1. q[i] \in [id : Ids, due : Int]
    BY <1>1
  <2> QED
    BY <2>1 DEF Event
<1> DEFINE r == Shift(q, t)
<1>4. \A i \in 1 .. Len(q) : r[i].id = q[i].id /\ r[i].due = q[i].due - t
  <2> SUFFICES ASSUME NEW i \in 1 .. Len(q) PROVE r[i].id = q[i].id /\ r[i].due = q[i].due - t
    OBVIOUS
  <2>1. r[i] = [id |-> q[i].id, due |-> q[i].due - t]
    BY <1>2, <1>3
  <2> HIDE DEF r
  <2> QED
    BY <2>1
<1>5. r = [i \in 1 .. Len(q) |-> r[i]]
  BY <1>2
<1>6. \A i \in 1 .. Len(q) : r[i] \in Event
  BY <1>2, <1>3
<1> HIDE DEF r
<1>7. r \in Seq(Event) /\ Len(r) = Len(q) /\ DOMAIN r = 1 .. Len(q)
  BY <1>5, <1>6
<1> QED
  BY <1>4, <1>7 DEF r

\* Lists of one length with the same events are the same.
LEMMA SameList ==
    ASSUME NEW q \in Seq(Event), NEW r \in Seq(Event), Len(q) = Len(r),
           \A i \in 1 .. Len(q) : q[i].id = r[i].id /\ q[i].due = r[i].due
    PROVE  q = r
<1>1. \A i \in 1 .. Len(q) : q[i] \in [id : Ids, due : Int] /\ r[i] \in [id : Ids, due : Int]
  BY ElementOfSeq DEF Event
<1>2. \A i \in 1 .. Len(q) : q[i] = r[i]
  BY <1>1
<1>3. DOMAIN q = 1 .. Len(q) /\ DOMAIN r = 1 .. Len(q)
  OBVIOUS
<1>4. q = [i \in DOMAIN q |-> q[i]] /\ r = [i \in DOMAIN r |-> r[i]]
  OBVIOUS
<1> QED
  BY <1>2, <1>3, <1>4

\* Times add up, and nothing changes in no time.
LEMMA ShiftTwice ==
    ASSUME NEW q \in Seq(Event), NEW a \in Int, NEW b \in Int
    PROVE  /\ Shift(Shift(q, a), b) = Shift(q, a + b)
           /\ Shift(q, 0) = q
<1> DEFINE r == Shift(q, a)
<1>1. /\ r \in Seq(Event) /\ Len(r) = Len(q)
      /\ \A i \in 1 .. Len(q) : r[i].id = q[i].id /\ r[i].due = q[i].due - a
  BY ShiftIs
<1> HIDE DEF r
<1>2. \A i \in 1 .. Len(q) : q[i].due \in Int
  BY DueOfEvent
<1>3. a + b \in Int /\ 0 \in Int
  OBVIOUS
<1>4. Shift(r, b) = Shift(q, a + b)
  <2> DEFINE x == Shift(r, b)
             y == Shift(q, a + b)
             c == a + b
  <2>1. /\ x \in Seq(Event) /\ Len(x) = Len(q)
        /\ \A i \in 1 .. Len(q) : x[i].id = r[i].id /\ x[i].due = r[i].due - b
    BY <1>1, ShiftIs
  <2>2. /\ y \in Seq(Event) /\ Len(y) = Len(q)
        /\ \A i \in 1 .. Len(q) : y[i].id = q[i].id /\ y[i].due = q[i].due - (a + b)
    BY <1>3, ShiftIs
  <2> HIDE DEF x, y
  <2>3. \A i \in 1 .. Len(x) : x[i].id = y[i].id /\ x[i].due = y[i].due
    BY <1>1, <1>2, <2>1, <2>2
  <2>4. x = y
    BY <2>1, <2>2, <2>3, SameList
  <2> QED
    BY <2>4 DEF x, y
<1>5. Shift(q, 0) = q
  <2> DEFINE x == Shift(q, 0)
  <2>1. /\ x \in Seq(Event) /\ Len(x) = Len(q)
        /\ \A i \in 1 .. Len(q) : x[i].id = q[i].id /\ x[i].due = q[i].due - 0
    BY <1>3, ShiftIs
  <2> HIDE DEF x
  <2>2. \A i \in 1 .. Len(x) : x[i].id = q[i].id /\ x[i].due = q[i].due
    BY <1>2, <2>1
  <2>3. x = q
    BY <2>1, <2>2, SameList
  <2> QED
    BY <2>3 DEF x
<1> QED
  BY <1>4, <1>5 DEF r

\* Removing events and moving the time do not disturb each other.
LEMMA ShiftWithout ==
    ASSUME NEW q \in Seq(Event), NEW ids, NEW t \in Int
    PROVE  Shift(Without(q, ids), t) = Without(Shift(q, t), ids)
<1> DEFINE r == Shift(q, t)
           kept == {i \in 1 .. Len(q) : q[i].id \notin ids}
           at == Ascending(kept)
           n == Cardinality(kept)
<1>1. /\ r \in Seq(Event) /\ DOMAIN r = 1 .. Len(q) /\ Len(r) = Len(q)
      /\ \A i \in 1 .. Len(q) : r[i].id = q[i].id /\ r[i].due = q[i].due - t
  BY ShiftIs
<1>2. DOMAIN q = 1 .. Len(q)
  OBVIOUS
<1> HIDE DEF r
<1>3. kept = {i \in DOMAIN r : r[i].id \notin ids}
  BY <1>1
<1>4. Without(q, ids) = [k \in 1 .. n |-> q[at[k]]]
  BY <1>2 DEF Without, Ascending
<1>5. Without(r, ids) = [k \in 1 .. n |-> r[at[k]]]
  <2> DEFINE left == {i \in DOMAIN r : r[i].id \notin ids}
  <2>1. Without(r, ids) = [k \in 1 .. Cardinality(left) |-> r[Ascending(left)[k]]]
    BY DEF Without, Ascending
  <2> HIDE DEF left
  <2>2. left = kept
    BY <1>3 DEF left
  <2> QED
    BY <2>1, <2>2
<1>6. kept \in SUBSET (1 .. Len(q)) /\ Len(q) \in Nat
  OBVIOUS
<1> HIDE DEF kept
<1>7. n \in Nat /\ at \in [1 .. n -> kept]
  BY <1>6, AscendingFacts
<1> HIDE DEF at, n
<1> DEFINE w == Without(q, ids)
           x == Shift(w, t)
           y == Without(r, ids)
<1>8. w \in Seq(Event) /\ y \in Seq(Event)
  BY <1>1, WithoutIs
<1>9. DOMAIN w = 1 .. n /\ DOMAIN y = 1 .. n
  BY <1>4, <1>5
<1>a. Len(w) = n /\ Len(y) = n
  BY <1>7, <1>8, <1>9
<1>b. \A k \in 1 .. n : w[k] = q[at[k]] /\ y[k] = r[at[k]]
  BY <1>4, <1>5
<1> HIDE DEF w, y
<1>c. /\ x \in Seq(Event) /\ Len(x) = n
      /\ \A k \in 1 .. n : x[k].id = w[k].id /\ x[k].due = w[k].due - t
  BY <1>8, <1>a, ShiftIs
<1> HIDE DEF x
<1>d. \A k \in 1 .. Len(x) : x[k].id = y[k].id /\ x[k].due = y[k].due
  <2> SUFFICES ASSUME NEW k \in 1 .. n PROVE x[k].id = y[k].id /\ x[k].due = y[k].due
    BY <1>c
  <2>1. at[k] \in 1 .. Len(q)
    BY <1>6, <1>7
  <2> QED
    BY <1>1, <1>b, <1>c, <2>1
<1> QED
  BY <1>8, <1>a, <1>c, <1>d, SameList DEF x, w, y, r

\* An event that is added is one more event of the agenda, at any later time.
LEMMA OneMoreAdded ==
    ASSUME NEW q \in Seq(Event), Sorted(q), NEW e \in Event, NEW t \in Int
    PROVE  LET new == Shift(AddEventToQueue(q, e), t)
           IN  /\ Place(q, e.due) \in DOMAIN new
               /\ RemoveAt(new, Place(q, e.due)) = Shift(q, t)
               /\ Abstract!OneMore(Shift(q, t), new)
<1> DEFINE p == Place(q, e.due)
           r == AddEventToQueue(q, e)
           new == Shift(r, t)
           old == Shift(q, t)
<1>1. /\ p \in 1 .. Len(q) + 1 /\ r \in Seq(Event) /\ Len(r) = Len(q) + 1
      /\ r = [i \in 1 .. Len(q) + 1 |-> IF i < p THEN q[i] ELSE IF i = p THEN e ELSE q[i - 1]]
      /\ \A i \in 1 .. p - 1 : r[i].due <= e.due
      /\ \A i \in p + 1 .. Len(q) + 1 : r[i].due > e.due
  BY AddFacts
<1>2. e.due \in Int /\ e.id \in Ids /\ Len(q) \in Nat
  BY DEF Event
<1> HIDE DEF p, r
<1>3. \A i \in 1 .. Len(r) : r[i].due \in Int
  BY <1>1, DueOfEvent
<1>4. /\ new \in Seq(Event) /\ Len(new) = Len(r) /\ DOMAIN new = 1 .. Len(r)
      /\ \A i \in 1 .. Len(r) : new[i].id = r[i].id /\ new[i].due = r[i].due - t
  BY <1>1, ShiftIs
<1>5. /\ old \in Seq(Event) /\ Len(old) = Len(q) /\ DOMAIN old = 1 .. Len(q)
      /\ \A i \in 1 .. Len(q) : old[i].id = q[i].id /\ old[i].due = q[i].due - t
  BY ShiftIs
<1> HIDE DEF new, old
<1>6. RemoveAt(new, p) = old
  <2>0. new \in Seq(Event) /\ p \in 1 .. Len(new)
    BY <1>1, <1>4
  <2>1. RemoveAt(new, p) = [i \in 1 .. Len(new) - 1 |-> IF i < p THEN new[i] ELSE new[i + 1]]
    BY <2>0, RemoveAtIs
  <2>2. Len(new) - 1 = Len(q)
    BY <1>1, <1>2, <1>4
  <2>3. ASSUME NEW i \in 1 .. Len(q) PROVE (IF i < p THEN new[i] ELSE new[i + 1]) = old[i]
    <3> DEFINE at == IF i < p THEN i ELSE i + 1
    <3>1. at \in 1 .. Len(r) /\ r[at] = q[i]
      BY <1>1, <1>2
    <3> HIDE DEF at
    <3>2. new[at].id = old[i].id /\ new[at].due = old[i].due
      BY <1>4, <1>5, <3>1
    <3>3. new[at] \in [id : Ids, due : Int] /\ old[i] \in [id : Ids, due : Int]
      BY <1>4, <1>5, <3>1, ElementOfSeq DEF Event
    <3>4. new[at] = old[i]
      BY <3>2, <3>3
    <3> QED
      BY <3>4 DEF at
  <2>4. old = [i \in 1 .. Len(q) |-> old[i]]
    BY <1>5
  <2> QED
    BY <2>1, <2>2, <2>3, <2>4
<1>7. p \in DOMAIN new /\ new[p].id = e.id /\ new[p].due = e.due - t
  BY <1>1, <1>4
<1>8. ASSUME NEW j \in DOMAIN new
      PROVE  (j < p => new[j].due <= new[p].due) /\ (j > p => new[j].due > new[p].due)
  <2>1. r[j].due \in Int /\ new[j].due = r[j].due - t /\ j \in 1 .. Len(q) + 1
    BY <1>1, <1>3, <1>4
  <2>2. (j < p => r[j].due <= e.due) /\ (j > p => r[j].due > e.due)
    <3>1. j < p => j \in 1 .. p - 1
      BY <1>1, <2>1
    <3>2. j > p => j \in p + 1 .. Len(q) + 1
      BY <1>1, <2>1
    <3> QED
      BY <1>1, <3>1, <3>2
  <2>3. new[p].due = e.due - t
    BY <1>7
  <2> QED
    BY <1>2, <2>1, <2>2, <2>3
<1>9. Abstract!OneMore(old, new)
  <2>1. new[p].id \in Ids
    BY <1>2, <1>7
  <2> QED
    BY <1>6, <1>7, <1>8, <2>1, Shifts DEF Abstract!OneMore
<1> QED
  BY <1>6, <1>7, <1>9 DEF new, old, p, r

\* The list after k of the events of l were moved into q: from tells where in
\* q \o l its events come from.
Merged(r, q, l, k) ==
    /\ r \in Seq(Event) /\ Sorted(r) /\ Len(r) = Len(q) + k
    /\ \E from \in [1 .. Len(q) + k -> 1 .. Len(q) + k] :
        /\ \A i \in 1 .. Len(q) + k : r[i] = (q \o l)[from[i]]
        /\ \A i, j \in 1 .. Len(q) + k : i < j =>
              r[i].due < r[j].due \/ (r[i].due = r[j].due /\ from[i] < from[j])

\* The next event comes behind those of its time that were there or came before it.
LEMMA MergeOne ==
    ASSUME NEW q \in Seq(Event), NEW l \in Seq(Event), NEW k \in 1 .. Len(l),
           NEW r, Merged(r, q, l, k - 1)
    PROVE  Merged(AddEventToQueue(r, l[k]), q, l, k)
<1> DEFINE e == l[k]
           p == Place(r, e.due)
           s == AddEventToQueue(r, e)
           n == Len(q) + k
           all == q \o l
<1>1. n \in Nat /\ Len(q) + (k - 1) = n - 1 /\ n - 1 \in Nat /\ Len(q) \in Nat /\ 1 <= n
  OBVIOUS
<1>2. all[n] = e /\ e \in Event /\ e.due \in Int
  <2>1. e \in Event
    BY ElementOfSeq
  <2>2. all[n] = e
    OBVIOUS
  <2> QED
    BY <2>1, <2>2 DEF Event
<1> HIDE DEF e, all, n
<1>3. r \in Seq(Event) /\ Sorted(r) /\ Len(r) = n - 1
  BY <1>1 DEF Merged
<1>4. PICK from \in [1 .. n - 1 -> 1 .. n - 1] :
        /\ \A i \in 1 .. n - 1 : r[i] = all[from[i]]
        /\ \A i, j \in 1 .. n - 1 : i < j =>
              r[i].due < r[j].due \/ (r[i].due = r[j].due /\ from[i] < from[j])
  BY <1>1 DEF Merged, all
<1>5. /\ p \in 1 .. n /\ s \in Seq(Event) /\ Len(s) = n /\ Sorted(s)
      /\ s = [i \in 1 .. n |-> IF i < p THEN r[i] ELSE IF i = p THEN e ELSE r[i - 1]]
      /\ \A i \in 1 .. p - 1 : s[i].due <= e.due
      /\ \A i \in p + 1 .. n : s[i].due > e.due
  <2>1. Len(r) + 1 = n
    BY <1>1, <1>3
  <2> QED
    BY <1>2, <1>3, <2>1, AddFacts
<1>6. \A i \in 1 .. n : s[i].due \in Int
  BY <1>5, DueOfEvent
<1> HIDE DEF p, s
<1> DEFINE to == [i \in 1 .. n |-> IF i < p THEN from[i] ELSE IF i = p THEN n ELSE from[i - 1]]
<1>7. to \in [1 .. n -> 1 .. n]
  <2> SUFFICES ASSUME NEW i \in 1 .. n
               PROVE  (IF i < p THEN from[i] ELSE IF i = p THEN n ELSE from[i - 1]) \in 1 .. n
    OBVIOUS
  <2>1. \A j \in 1 .. n - 1 : from[j] \in 1 .. n
    BY <1>1, <1>4
  <2>2. (i < p => i \in 1 .. n - 1) /\ (~(i < p) /\ i # p => i - 1 \in 1 .. n - 1) /\ n \in 1 .. n
    BY <1>1, <1>5
  <2> QED
    BY <2>1, <2>2
<1>a. ASSUME NEW i \in 1 .. n
      PROVE  /\ i < p => i \in 1 .. n - 1 /\ s[i] = r[i] /\ to[i] = from[i] /\ s[i].due <= e.due
             /\ i = p => s[i] = e /\ to[i] = n
             /\ i > p => /\ i - 1 \in 1 .. n - 1 /\ s[i] = r[i - 1] /\ to[i] = from[i - 1]
                         /\ s[i].due > e.due
  <2>1. i < p => i \in 1 .. n - 1 /\ i \in 1 .. p - 1
    BY <1>1, <1>5
  <2>2. i > p => i - 1 \in 1 .. n - 1 /\ i \in p + 1 .. n /\ ~(i < p) /\ i # p
    BY <1>1, <1>5
  <2>3. s[i] = IF i < p THEN r[i] ELSE IF i = p THEN e ELSE r[i - 1]
    BY <1>5
  <2>4. to[i] = IF i < p THEN from[i] ELSE IF i = p THEN n ELSE from[i - 1]
    OBVIOUS
  <2>5. i = p => ~(i < p)
    BY <1>5
  <2> QED
    BY <1>5, <2>1, <2>2, <2>3, <2>4, <2>5
<1>b. p \in Int /\ \A i \in 1 .. n : i \in Int
  BY <1>5
<1> HIDE DEF to
<1>8. \A i \in 1 .. n : s[i] = all[to[i]]
  BY <1>a, <1>b, <1>2, <1>4
<1>9. ASSUME NEW i \in 1 .. n, NEW j \in 1 .. n, i < j
      PROVE  s[i].due < s[j].due \/ (s[i].due = s[j].due /\ to[i] < to[j])
  <2>1. CASE j < p
    <3>1. i < p
      BY <1>b, <1>9, <2>1
    <3> QED
      BY <1>a, <1>4, <1>9, <2>1, <3>1
  <2>2. CASE j = p
    <3>1. i < p
      BY <1>b, <1>9, <2>2
    <3>2. /\ i \in 1 .. n - 1 /\ s[i].due <= e.due /\ s[j].due = e.due
          /\ to[i] = from[i] /\ to[j] = n
      BY <1>a, <2>2, <3>1
    <3>3. from[i] \in 1 .. n - 1
      BY <1>4, <3>2
    <3>4. to[i] < to[j]
      BY <1>1, <3>2, <3>3
    <3> QED
      BY <1>2, <1>6, <3>2, <3>4
  <2>3. CASE i = p
    <3>1. j > p
      BY <1>b, <1>9, <2>3
    <3>2. s[j].due > e.due /\ s[i].due = e.due
      BY <1>a, <2>3, <3>1
    <3> QED
      BY <1>2, <1>6, <3>2
  <2>4. CASE i < p /\ j > p
    <3>1. /\ i \in 1 .. n - 1 /\ s[i] = r[i] /\ to[i] = from[i]
          /\ j - 1 \in 1 .. n - 1 /\ s[j] = r[j - 1] /\ to[j] = from[j - 1]
      BY <1>a, <2>4
    <3>2. i < j - 1
      BY <1>b, <2>4
    <3> QED
      BY <1>4, <3>1, <3>2
  <2>5. CASE i > p
    <3>1. j > p
      BY <1>b, <1>9, <2>5
    <3>2. /\ i - 1 \in 1 .. n - 1 /\ s[i] = r[i - 1] /\ to[i] = from[i - 1]
          /\ j - 1 \in 1 .. n - 1 /\ s[j] = r[j - 1] /\ to[j] = from[j - 1]
      BY <1>a, <2>5, <3>1
    <3>3. i - 1 < j - 1
      BY <1>b, <1>9
    <3> QED
      BY <1>4, <3>2, <3>3
  <2> QED
    BY <1>b, <2>1, <2>2, <2>3, <2>4, <2>5
<1>10. Merged(s, q, l, k)
  BY <1>1, <1>5, <1>7, <1>8, <1>9 DEF Merged, n, all
<1> QED
  BY <1>10 DEF s, e

\* Moving the events of l leaves the events of both lists by time.
LEMMA MovesByTime ==
    ASSUME NEW q \in Seq(Event), Sorted(q), NEW l \in Seq(Event)
    PROVE  Abstract!ByTime(q \o l, FoldLeft(AddEventToQueue, q, l))
<1>1. PICK c : Moves(c, q, l) /\ FoldLeft(AddEventToQueue, q, l) = c[Len(l)]
  BY FoldMoves
<1>2. Merged(c[0], q, l, 0)
  <2> DEFINE from == [i \in 1 .. Len(q) |-> i]
             all == q \o l
  <2>1. c[0] = q /\ Len(q) \in Nat /\ Len(q) + 0 = Len(q)
    BY <1>1 DEF Moves
  <2>2. from \in [1 .. Len(q) -> 1 .. Len(q)] /\ \A i \in 1 .. Len(q) : from[i] = i
    OBVIOUS
  <2>3. \A i \in 1 .. Len(q) : q[i] = all[i]
    OBVIOUS
  <2>4. \A i \in 1 .. Len(q) : q[i].due \in Int
    BY DueOfEvent
  <2>5. DOMAIN q = 1 .. Len(q)
    OBVIOUS
  <2> HIDE DEF from, all
  <2>6. ASSUME NEW i \in 1 .. Len(q), NEW j \in 1 .. Len(q), i < j
        PROVE  q[i].due < q[j].due \/ (q[i].due = q[j].due /\ from[i] < from[j])
    <3>1. q[i].due <= q[j].due
      BY <2>5, <2>6 DEF Sorted
    <3> QED
      BY <2>2, <2>4, <2>6, <3>1
  <2>7. \A i \in 1 .. Len(q) : q[i] = all[from[i]]
    BY <2>2, <2>3
  <2> QED
    BY <2>1, <2>2, <2>6, <2>7 DEF Merged, all
<1>3. Merged(c[Len(l)], q, l, Len(l))
  <2> DEFINE Wrong == {k \in 0 .. Len(l) : ~Merged(c[k], q, l, k)}
  <2> SUFFICES ASSUME Wrong # {} PROVE FALSE
    <3>1. Len(l) \in 0 .. Len(l)
      OBVIOUS
    <3> QED
      BY <3>1
  <2> DEFINE k == Min(Wrong)
  <2>1. k \in Wrong /\ \A i \in Wrong : k <= i
    <3>1. Wrong \in SUBSET Nat
      OBVIOUS
    <3> QED
      BY <3>1, MinOfNaturals
  <2> HIDE DEF k
  <2>2. k # 0
    BY <1>2, <2>1
  <2>3. k - 1 \in 0 .. Len(l) /\ k \in 1 .. Len(l) /\ k - 1 \notin Wrong
    BY <2>1, <2>2
  <2>4. Merged(c[k - 1], q, l, k - 1)
    BY <2>3
  <2>5. c[k] = AddEventToQueue(c[k - 1], l[k])
    BY <1>1, <2>3 DEF Moves
  <2>6. Merged(c[k], q, l, k)
    BY <2>3, <2>4, <2>5, MergeOne
  <2> QED
    BY <2>1, <2>6
<1> DEFINE r == c[Len(l)]
           n == Len(q) + Len(l)
           all == q \o l
<1>4. Len(r) = n /\ Len(all) = n /\ DOMAIN r = 1 .. n /\ DOMAIN all = 1 .. n
  BY <1>3 DEF Merged
<1>5. \E from \in [1 .. n -> 1 .. n] :
        /\ \A i \in 1 .. n : r[i] = all[from[i]]
        /\ \A i, j \in 1 .. n : i < j =>
              r[i].due < r[j].due \/ (r[i].due = r[j].due /\ from[i] < from[j])
  BY <1>3 DEF Merged
<1> HIDE DEF r, n, all
<1>6. Abstract!ByTime(all, r)
  BY <1>4, <1>5 DEF Abstract!ByTime
<1> QED
  BY <1>1, <1>6 DEF r, all

\* The time of the agenda at any step is a number of cycles.
LEMMA AgendaNow ==
    ASSUME TimingInv
    PROVE  /\ queue \in Seq(Event) /\ Sorted(queue) /\ posted \in Seq(Event)
           /\ Ticks \in Nat /\ Ticks \in Int
           /\ FromNow(queue) = Shift(queue, Ticks) /\ FromNow(posted) = Shift(posted, Ticks)
           /\ Shift(queue, Ticks) \in Seq(Event) /\ Shift(posted, Ticks) \in Seq(Event)
<1>1. queue \in Seq(Event) /\ Sorted(queue)
  BY DEF TimingInv, QueueInv, EventList
<1>2. posted \in Seq(Event)
  <2> DEFINE l == posted
  <2>1. l \in Seq([id : Posts, due : Int])
    BY DEF TimingInv
  <2>0. [id : Posts, due : Int] \subseteq Event
    BY DEF Event, Ids
  <2>2. \A i \in 1 .. Len(l) : l[i] \in Event
    BY <2>0, <2>1, ElementOfSeq
  <2>3. l = [i \in 1 .. Len(l) |-> l[i]] /\ Len(l) \in Nat
    BY <2>1
  <2> HIDE DEF l
  <2>4. l \in Seq(Event)
    BY <2>2, <2>3
  <2> QED
    BY <2>4 DEF l
<1>3. Ticks \in Nat /\ Ticks \in Int
  BY TimesAreNumbers
<1> QED
  BY <1>1, <1>2, <1>3, Shifts, ShiftIs

\* c cycles pass, at most a slice and a block of code.
LEMMA CyclesPass ==
    ASSUME TimingInv, NEW c \in 0 .. MaxSlice + MaxBlock
    PROVE  /\ Shift(queue, Ticks + c) = Abstract!Later(FromNow(queue), c)
           /\ Shift(posted, Ticks + c) = Abstract!Later(FromNow(posted), c)
           /\ Ticks + c \in Int
<1>1. /\ queue \in Seq(Event) /\ posted \in Seq(Event) /\ Ticks \in Int
      /\ FromNow(queue) = Shift(queue, Ticks) /\ FromNow(posted) = Shift(posted, Ticks)
  BY AgendaNow
<1>2. c \in Int
  OBVIOUS
<1>3. Shift(queue, Ticks + c) = Shift(Shift(queue, Ticks), c)
  BY <1>1, <1>2, ShiftTwice
<1>4. Shift(posted, Ticks + c) = Shift(Shift(posted, Ticks), c)
  BY <1>1, <1>2, ShiftTwice
<1>5. Ticks + c \in Int
  BY <1>1, <1>2
<1> QED
  BY <1>1, <1>3, <1>4, <1>5, Shifts

\* A block of code, an idle loop: the agenda's time goes on.
LEMMA ProgramElapses ==
    ASSUME TimingInv, KernelIdle \/ \E c \in 1 .. MaxBlock : Execute(c) \/ ReSchedule(c) \/ ForceCheck(c)
    PROVE  \E c \in 0 .. MaxSlice + MaxBlock : Abstract!Elapse(c)
<1>0. Runs
  BY DEF KernelIdle, Execute, ForceCheck, ReSchedule
<1>1. /\ slicelength \in 0 .. MaxSlice /\ downcount \in 0 .. slicelength
      /\ slicelength \in Int /\ Ticks \in Nat
      /\ queue \in Seq(Event) /\ posted \in Seq(Event)
      /\ MaxBlock \in Nat /\ MaxSlice \in Nat /\ MaxBlock >= 1
  BY <1>0, RunningFacts, AgendaNow, TimingAssumption
<1>2. ASSUME NEW c \in 0 .. MaxSlice + MaxBlock,
             queue' = queue /\ posted' = posted /\ Ticks' = Ticks + c
      PROVE  Abstract!Elapse(c)
  <2>1. FromNow(queue)' = Shift(queue, Ticks + c) /\ FromNow(posted)' = Shift(posted, Ticks + c)
    BY <1>2, Shifts
  <2> QED
    BY <2>1, CyclesPass DEF Abstract!Elapse
<1>3. CASE KernelIdle
  <2>1. queue' = queue /\ posted' = posted /\ slicelength' = slicelength
    BY <1>3 DEF KernelIdle, listVars
  <2>2. TimingInv'
    BY <1>3, ProgramKeeps DEF Program
  <2>3. downcount' \in -MaxBlock .. MaxSlice
    BY <2>2 DEF TimingInv, SliceInv
  <2>4. downcount' <= downcount
    <3>1. queue # <<>> => queue[1].due \in Int
      BY <1>1, DueOfEvent
    <3> DEFINE t == ToInt(queue[1].due)
    <3>2. queue # <<>> => t \in Int
      BY <3>1, TimingAssumption DEF ToInt
    <3> HIDE DEF t
    <3>3. IdleCycles = LET untilEvent == t - Ticks
                       IN  IF queue # <<>> /\ downcount > 0 /\ untilEvent < downcount
                           THEN (IF untilEvent < 0 THEN 0 ELSE untilEvent) ELSE downcount
      BY DEF IdleCycles, t
    <3>4. IdleCycles \in 0 .. downcount
      BY <1>1, <3>2, <3>3
    <3>5. downcount' = IF downcount = IdleCycles THEN -1 ELSE downcount - IdleCycles
      BY <1>3 DEF KernelIdle
    <3> HIDE DEF IdleCycles
    <3> QED
      BY <1>1, <3>4, <3>5
  <2> DEFINE c == downcount - downcount'
  <2>5. c \in 0 .. MaxSlice + MaxBlock
    <3> DEFINE d == downcount'
    <3>1. d \in Int /\ -MaxBlock <= d /\ d <= downcount /\ downcount \in Int /\ downcount <= MaxSlice
      BY <1>1, <2>3, <2>4
    <3>2. c = downcount - d
      OBVIOUS
    <3> HIDE DEF d, c
    <3> QED
      BY <1>1, <3>1, <3>2
  <2>6. Ticks' = Ticks + c
    BY <1>1, <2>1, <2>3 DEF Ticks
  <2> HIDE DEF c
  <2> QED
    BY <1>2, <2>1, <2>5, <2>6
<1>4. ASSUME NEW c \in 1 .. MaxBlock, Execute(c) \/ ReSchedule(c)
      PROVE  \E d \in 0 .. MaxSlice + MaxBlock : Abstract!Elapse(d)
  <2>1. queue' = queue /\ posted' = posted /\ slicelength' = slicelength /\ downcount' = downcount - c
    BY <1>4 DEF Execute, ReSchedule, listVars
  <2>2. c \in 0 .. MaxSlice + MaxBlock /\ Ticks' = Ticks + c
    BY <1>1, <2>1 DEF Ticks
  <2> QED
    BY <1>2, <2>1, <2>2
<1>5. ASSUME NEW c \in 1 .. MaxBlock, ForceCheck(c)
      PROVE  \E d \in 0 .. MaxSlice + MaxBlock : Abstract!Elapse(d)
  <2>1. /\ queue' = Rebased(queue) /\ posted' = Rebased(posted)
        /\ slicelength' = 0 /\ downcount' = -c
    BY <1>5 DEF ForceCheck
  <2>2. c \in 0 .. MaxSlice + MaxBlock /\ Ticks' = c
    BY <1>1, <2>1 DEF Ticks
  <2>3. FromNow(queue)' = Abstract!Later(FromNow(queue), c)
        /\ FromNow(posted)' = Abstract!Later(FromNow(posted), c)
    BY <2>1, <2>2, Shifts
  <2> QED
    BY <2>2, <2>3 DEF Abstract!Elapse
<1> QED
  BY <1>3, <1>4, <1>5

\* A system call that schedules an event.
LEMMA ProgramSchedules ==
    ASSUME TimingInv, NEW id \in Timers, NEW d \in Delays, NEW c \in 1 .. MaxBlock, ScheduleEvent(id, d, c)
    PROVE  \E b \in 0 .. MaxSlice + MaxBlock : Abstract!Schedule(b)
<1> DEFINE e == [id |-> id, due |-> Ticks + d]
<1>1. /\ Runs /\ queue' = AddEventToQueue(queue, e) /\ posted' = posted
      /\ slicelength' = slicelength /\ downcount' = downcount - c
  BY DEF ScheduleEvent
<1>2. /\ slicelength \in Int /\ downcount \in Int /\ queue \in Seq(Event) /\ Sorted(queue)
      /\ Ticks \in Nat /\ MaxBlock \in Nat /\ MaxSlice \in Nat
  BY <1>1, TimesAreNumbers, AgendaNow, TimingAssumption
<1>3. e \in Event
  <2>1. Ticks + d \in Int
    BY <1>2, TimingAssumption
  <2> QED
    BY <2>1, OtherEvent
<1> HIDE DEF e
<1>4. c \in 0 .. MaxSlice + MaxBlock /\ Ticks' = Ticks + c /\ Ticks + c \in Int
  BY <1>1, <1>2 DEF Ticks
<1>5. FromNow(queue)' = Shift(AddEventToQueue(queue, e), Ticks + c)
      /\ FromNow(posted)' = Shift(posted, Ticks + c)
  BY <1>1, <1>4, Shifts
<1>6. Abstract!OneMore(Shift(queue, Ticks + c), Shift(AddEventToQueue(queue, e), Ticks + c))
  BY <1>2, <1>3, <1>4, OneMoreAdded
<1>7. /\ Shift(queue, Ticks + c) = Abstract!Later(FromNow(queue), c)
      /\ Shift(posted, Ticks + c) = Abstract!Later(FromNow(posted), c)
  BY <1>4, CyclesPass
<1>8. Abstract!Schedule(c)
  BY <1>5, <1>6, <1>7 DEF Abstract!Schedule
<1> QED
  BY <1>4, <1>8

\* A system call that removes events.
LEMMA ProgramWithdraws ==
    ASSUME TimingInv, NEW c \in 1 .. MaxBlock, NEW ids \in SUBSET Ids, Runs,
           queue' = Without(queue, ids), posted' \in {posted, Without(posted, ids)},
           slicelength' = slicelength, downcount' = downcount - c
    PROVE  \E b \in 0 .. MaxSlice + MaxBlock : Abstract!Withdraw(ids, b)
<1>1. /\ slicelength \in Int /\ downcount \in Int /\ queue \in Seq(Event) /\ posted \in Seq(Event)
      /\ Ticks \in Nat /\ MaxBlock \in Nat /\ MaxSlice \in Nat
      /\ FromNow(queue) = Shift(queue, Ticks) /\ FromNow(posted) = Shift(posted, Ticks)
  BY TimesAreNumbers, AgendaNow, TimingAssumption
<1>2. c \in 0 .. MaxSlice + MaxBlock /\ Ticks' = Ticks + c /\ Ticks \in Int /\ c \in Int
  BY <1>1 DEF Ticks
<1>3. ASSUME NEW q \in Seq(Event)
      PROVE  Shift(Without(q, ids), Ticks + c) = Shift(Without(Shift(q, Ticks), ids), c)
  <2>1. Without(q, ids) \in Seq(Event)
    BY <1>3, WithoutIs
  <2>2. Shift(Without(q, ids), Ticks + c) = Shift(Shift(Without(q, ids), Ticks), c)
    BY <1>2, <2>1, ShiftTwice
  <2>3. Shift(Without(q, ids), Ticks) = Without(Shift(q, Ticks), ids)
    BY <1>2, ShiftWithout
  <2> QED
    BY <2>2, <2>3
<1>4. FromNow(queue)' = Abstract!Later(Abstract!Without(FromNow(queue), ids), c)
  BY <1>1, <1>2, <1>3, Shifts
<1>5. FromNow(posted)' \in {Abstract!Later(FromNow(posted), c),
                            Abstract!Later(Abstract!Without(FromNow(posted), ids), c)}
  <2>1. CASE posted' = posted
    <3>1. FromNow(posted)' = Shift(posted, Ticks + c)
      BY <1>2, <2>1, Shifts
    <3> QED
      BY <1>2, <3>1, CyclesPass
  <2>2. CASE posted' = Without(posted, ids)
    <3>1. FromNow(posted)' = Abstract!Later(Abstract!Without(FromNow(posted), ids), c)
      BY <1>1, <1>2, <1>3, <2>2, Shifts
    <3> QED
      BY <3>1
  <2> QED
    BY <2>1, <2>2
<1>6. Abstract!Withdraw(ids, c)
  BY <1>4, <1>5 DEF Abstract!Withdraw
<1> QED
  BY <1>2, <1>6

\* Every step of the program is a step of the agenda.
LEMMA ProgramImplements ==
    ASSUME TimingInv, Program
    PROVE  Abstract!Next
<1>1. CASE KernelIdle \/ \E c \in 1 .. MaxBlock : Execute(c) \/ ReSchedule(c) \/ ForceCheck(c)
  BY <1>1, ProgramElapses DEF Abstract!Next
<1>2. CASE \E c \in 1 .. MaxBlock, id \in Timers, d \in Delays : ScheduleEvent(id, d, c)
  BY <1>2, ProgramSchedules DEF Abstract!Next
<1>3. ASSUME NEW c \in 1 .. MaxBlock, NEW id \in Timers, UnscheduleEvent(id, c) PROVE Abstract!Next
  <2>1. /\ Runs /\ queue' = Without(queue, {id}) /\ posted' = posted
        /\ slicelength' = slicelength /\ downcount' = downcount - c
    BY <1>3 DEF UnscheduleEvent
  <2>2. {id} \in SUBSET Ids
    BY DEF Ids
  <2>3. \E b \in 0 .. MaxSlice + MaxBlock : Abstract!Withdraw({id}, b)
    BY <2>1, <2>2, ProgramWithdraws
  <2> QED
    BY <2>2, <2>3 DEF Abstract!Next
<1>4. ASSUME NEW c \in 1 .. MaxBlock, NEW type \in {Timers, Posts}, RemoveAllEvents(type, c)
      PROVE  Abstract!Next
  <2>1. /\ Runs /\ queue' = Without(queue, type) /\ posted' = Without(posted, type)
        /\ slicelength' = slicelength /\ downcount' = downcount - c
    BY <1>4 DEF RemoveAllEvents
  <2>2. type \in SUBSET Ids
    BY DEF Ids
  <2>3. \E b \in 0 .. MaxSlice + MaxBlock : Abstract!Withdraw(type, b)
    BY <2>1, <2>2, ProgramWithdraws
  <2> QED
    BY <2>2, <2>3 DEF Abstract!Next
<1> QED
  BY <1>1, <1>2, <1>3, <1>4 DEF Program

\* Within Advance() the agenda's times are those of the list.
LEMMA AgendaStands ==
    ASSUME TimingInv, pc \notin {"run", "begin"}, UNCHANGED sliceVars
    PROVE  /\ Ticks = 0 /\ Ticks' = 0
           /\ FromNow(queue) = queue /\ FromNow(posted) = posted
           /\ queue \in Seq(Event) /\ Sorted(queue) /\ posted \in Seq(Event)
           /\ \A q \in Seq(Event) : Shift(q, 0) = q
           /\ 0 \in 0 .. MaxSlice + MaxBlock
<1>1. Ticks = 0 /\ Ticks' = 0
  BY ClockStands DEF Ticks, sliceVars
<1>2. queue \in Seq(Event) /\ Sorted(queue) /\ posted \in Seq(Event)
  BY AgendaNow
<1>3. \A q \in Seq(Event) : Shift(q, 0) = q
  <2>1. 0 \in Int
    OBVIOUS
  <2> QED
    BY <2>1, ShiftTwice
<1>4. FromNow(queue) = queue /\ FromNow(posted) = posted
  BY <1>1, <1>2, <1>3, Shifts
<1>5. 0 \in 0 .. MaxSlice + MaxBlock
  BY TimingAssumption
<1> QED
  BY <1>1, <1>2, <1>3, <1>4, <1>5

\* An event that Advance() or a callback adds.
LEMMA AddSchedules ==
    ASSUME TimingInv, pc \notin {"run", "begin"}, UNCHANGED sliceVars, UNCHANGED posted,
           NEW e \in Event, queue' = AddEventToQueue(queue, e)
    PROVE  Abstract!Next
<1>1. /\ Ticks = 0 /\ Ticks' = 0 /\ FromNow(queue) = queue /\ FromNow(posted) = posted
      /\ queue \in Seq(Event) /\ Sorted(queue) /\ posted \in Seq(Event)
      /\ \A q \in Seq(Event) : Shift(q, 0) = q
      /\ 0 \in 0 .. MaxSlice + MaxBlock /\ 0 \in Int
  BY AgendaStands
<1>2. Abstract!OneMore(Shift(queue, 0), Shift(queue', 0))
  BY <1>1, OneMoreAdded
<1>3. /\ Abstract!Later(FromNow(queue), 0) = Shift(queue, 0)
      /\ Abstract!Later(FromNow(posted), 0) = Shift(posted, 0)
      /\ FromNow(queue)' = Shift(queue', 0) /\ FromNow(posted)' = Shift(posted, 0)
  BY <1>1, Shifts
<1>4. Abstract!Schedule(0)
  BY <1>2, <1>3 DEF Abstract!Schedule
<1> QED
  BY <1>1, <1>4 DEF Abstract!Next

\* A callback schedules one event or none.
LEMMA CallbackImplements ==
    ASSUME TimingInv, Callback
    PROVE  Abstract!Next \/ UNCHANGED Abstract!vars
<1>1. pc = "callback" /\ UNCHANGED <<posted, sliceVars>>
  BY DEF Callback
<1>2. CASE queue' = queue
  <2>1. FromNow(queue)' = FromNow(queue) /\ FromNow(posted)' = FromNow(posted)
    BY <1>1, <1>2 DEF FromNow, Ticks, sliceVars
  <2> QED
    BY <2>1 DEF Abstract!vars
<1>3. ASSUME NEW e \in Event, queue' = AddEventToQueue(queue, e) PROVE Abstract!Next
  BY <1>1, <1>3, AddSchedules
<1> QED
  BY <1>2, <1>3, CallbackAdds

\* Every step of Advance() is a step of the agenda or none: bringing the clock up
\* to date, reading and clearing the flag and choosing a slice are its own affair.
LEMMA AdvancingImplements ==
    ASSUME TimingInv, Advancing
    PROVE  Abstract!Next \/ UNCHANGED Abstract!vars
<1>0. /\ queue \in Seq(Event) /\ Sorted(queue) /\ posted \in Seq(Event)
      /\ Ticks \in Nat /\ Ticks \in Int /\ slicelength \in Int /\ downcount \in Int
      /\ FromNow(queue) = Shift(queue, Ticks) /\ FromNow(posted) = Shift(posted, Ticks)
      /\ Shift(queue, Ticks) \in Seq(Event) /\ Shift(posted, Ticks) \in Seq(Event)
  BY AgendaNow, TimesAreNumbers
<1>1. CASE Advance
  <2>1. /\ queue' = Shift(queue, Ticks) /\ posted' = Shift(posted, Ticks)
        /\ downcount' = slicelength /\ slicelength' = slicelength
    BY <1>1, Shifts DEF Advance
  <2>2. Ticks' = 0 /\ 0 \in Int
    BY <1>0, <2>1 DEF Ticks
  <2>3. Shift(queue', 0) = queue' /\ Shift(posted', 0) = posted'
    BY <1>0, <2>1, <2>2, ShiftTwice
  <2>4. FromNow(queue)' = FromNow(queue) /\ FromNow(posted)' = FromNow(posted)
    BY <1>0, <2>1, <2>2, <2>3, Shifts
  <2> QED
    BY <2>4 DEF Abstract!vars
<1>2. CASE ClearFlag
  <2>1. FromNow(queue)' = FromNow(queue) /\ FromNow(posted)' = FromNow(posted)
    BY <1>2 DEF ClearFlag, listVars, sliceVars, FromNow, Ticks
  <2> QED
    BY <2>1 DEF Abstract!vars
<1>3. CASE MoveEvents
  <2>1. /\ pc = "move" /\ queue' = FoldLeft(AddEventToQueue, queue, posted) /\ posted' = <<>>
        /\ UNCHANGED sliceVars
    BY <1>3 DEF MoveEvents
  <2>2. /\ Ticks' = 0 /\ FromNow(queue) = queue /\ FromNow(posted) = posted
        /\ \A q \in Seq(Event) : Shift(q, 0) = q
    BY <2>1, AgendaStands
  <2>3. Abstract!ByTime(queue \o posted, queue')
    BY <1>0, <2>1, MovesByTime
  <2>4. queue' \in Seq(Event) /\ posted' \in Seq(Event)
    <3>1. TimingInv'
      BY <1>3, AdvancingKeeps DEF Advancing
    <3> QED
      BY <2>1, <3>1 DEF TimingInv, QueueInv, EventList
  <2>5. FromNow(queue)' = queue' /\ FromNow(posted)' = <<>>
    BY <2>1, <2>2, <2>4, Shifts
  <2>6. Abstract!Accept
    BY <2>2, <2>3, <2>5 DEF Abstract!Accept
  <2> QED
    BY <2>6 DEF Abstract!Next
<1>4. CASE ProcessFifoWaitEvents
  <2>1. pc = "process" /\ posted' = posted /\ UNCHANGED sliceVars
    BY <1>4 DEF ProcessFifoWaitEvents
  <2>2. /\ Ticks = 0 /\ Ticks' = 0 /\ FromNow(queue) = queue /\ FromNow(posted) = posted
        /\ \A q \in Seq(Event) : Shift(q, 0) = q
    BY <2>1, AgendaStands
  <2>3. FromNow(posted)' = FromNow(posted)
    BY <1>0, <2>1, <2>2, Shifts
  <2>4. CASE queue' = queue
    <3>1. FromNow(queue)' = FromNow(queue)
      BY <1>0, <2>2, <2>4, Shifts
    <3> QED
      BY <2>3, <3>1 DEF Abstract!vars
  <2>5. CASE queue' = Tail(queue) /\ queue # <<>> /\ queue[1].due <= 0
    <3>1. Tail(queue) \in Seq(Event)
      BY <1>0, <2>5
    <3>2. FromNow(queue)' = Tail(queue)
      BY <2>2, <2>5, <3>1, Shifts
    <3>3. Abstract!Fire
      BY <2>2, <2>3, <2>5, <3>2 DEF Abstract!Fire
    <3> QED
      BY <3>3 DEF Abstract!Next
  <2> QED
    BY <1>4, <2>2, <2>4, <2>5 DEF ProcessFifoWaitEvents
<1>5. CASE Callback
  BY <1>5, CallbackImplements
<1>6. CASE CallbackReturns
  <2>1. pc = "return" /\ posted' = posted /\ UNCHANGED sliceVars
    BY <1>6 DEF CallbackReturns
  <2>2. CASE queue' = queue
    <3>1. FromNow(queue)' = FromNow(queue) /\ FromNow(posted)' = FromNow(posted)
      BY <2>1, <2>2 DEF FromNow, Ticks, sliceVars
    <3> QED
      BY <3>1 DEF Abstract!vars
  <2>3. ASSUME NEW e \in AfterCallback, queue' = AddEventToQueue(queue, e) PROVE Abstract!Next
    BY <2>1, <2>3, AfterCallbackIs, AddSchedules
  <2> QED
    BY <1>6, <2>2, <2>3 DEF CallbackReturns
<1>7. CASE SetSlice
  <2>1. pc = "slice" /\ UNCHANGED listVars
    BY <1>7 DEF SetSlice
  <2>2. queue # <<>> /\ Target \in 1 .. MaxSlice
    BY <2>1, NextSlice
  <2>3. slicelength' = Target /\ downcount' = downcount + Target - slicelength
    BY <1>7, <2>2 DEF SetSlice
  <2>4. Target \in Int
    BY <2>2
  <2> HIDE DEF Target
  <2>5. Ticks' = Ticks
    BY <1>0, <2>3, <2>4 DEF Ticks
  <2>6. FromNow(queue)' = FromNow(queue) /\ FromNow(posted)' = FromNow(posted)
    BY <2>1, <2>5 DEF FromNow, listVars
  <2> QED
    BY <2>6 DEF Abstract!vars
<1> QED
  BY <1>1, <1>2, <1>3, <1>4, <1>5, <1>6, <1>7 DEF Advancing

\* What another host thread does to what is posted.
LEMMA OtherThreadImplements ==
    ASSUME TimingInv, OtherThread
    PROVE  Abstract!Next \/ UNCHANGED Abstract!vars
<1>0. /\ posted \in Seq(Event) /\ Ticks \in Nat /\ Ticks \in Int
      /\ FromNow(posted) = Shift(posted, Ticks)
  BY AgendaNow
<1>1. queue' = queue /\ UNCHANGED sliceVars
  BY DEF OtherThread, SetFlag, UnscheduleThreadsafeEvent, ScheduleEvent_Threadsafe, listVars
<1>2. Ticks' = Ticks /\ FromNow(queue)' = FromNow(queue)
  BY <1>1 DEF FromNow, Ticks, sliceVars
<1>3. CASE SetFlag
  <2>1. FromNow(posted)' = FromNow(posted)
    BY <1>2, <1>3 DEF SetFlag, listVars, FromNow
  <2> QED
    BY <1>2, <2>1 DEF Abstract!vars
<1>4. ASSUME NEW id \in Posts, UnscheduleThreadsafeEvent(id) PROVE Abstract!Next
  <2>1. posted' = Without(posted, {id})
    BY <1>4 DEF UnscheduleThreadsafeEvent
  <2>2. FromNow(posted)' = Abstract!Without(FromNow(posted), {id})
    BY <1>0, <1>2, <2>1, Shifts, ShiftWithout
  <2>3. {id} \in SUBSET Ids
    BY DEF Ids
  <2>4. Abstract!WithdrawPosted({id})
    BY <1>2, <2>2 DEF Abstract!WithdrawPosted
  <2> QED
    BY <2>3, <2>4 DEF Abstract!Next
<1>5. ASSUME NEW id \in Posts, NEW d \in Delays, NEW skew \in Skews,
             ScheduleEvent_Threadsafe(id, d, skew)
      PROVE  Abstract!Next
  <2> DEFINE e == [id |-> id, due |-> Ticks + d + skew]
             l == Append(posted, e)
             n == Len(posted) + 1
             new == Shift(l, Ticks)
             old == Shift(posted, Ticks)
  <2>1. posted' = l
    BY <1>5 DEF ScheduleEvent_Threadsafe
  <2>2. e \in Event /\ e.id = id
    <3>1. Ticks + d + skew \in Int
      BY <1>0, TimingAssumption
    <3> QED
      BY <3>1, OtherEvent
  <2> HIDE DEF e
  <2>3. /\ l \in Seq(Event) /\ Len(l) = n /\ n \in Nat /\ n >= 1 /\ l[n] = e
        /\ \A i \in 1 .. n - 1 : l[i] = posted[i]
    BY <1>0, <2>2
  <2> HIDE DEF l
  <2>4. /\ new \in Seq(Event) /\ Len(new) = n
        /\ \A i \in 1 .. n : new[i].id = l[i].id /\ new[i].due = l[i].due - Ticks
    BY <1>0, <2>3, ShiftIs
  <2>5. /\ old \in Seq(Event) /\ Len(old) = n - 1
        /\ \A i \in 1 .. n - 1 : old[i].id = posted[i].id /\ old[i].due = posted[i].due - Ticks
    BY <1>0, <2>3, ShiftIs
  <2> HIDE DEF new, old
  <2>6. Last(new).id \in Ids
    <3>1. Last(new) = new[n] /\ n \in 1 .. n
      BY <2>3, <2>4 DEF Last
    <3> QED
      BY <2>2, <2>3, <2>4, <3>1 DEF Ids
  <2>7. Front(new) = old
    <3>0. Front(new) = SubSeq(new, 1, n - 1)
      BY <2>4 DEF Front
    <3> DEFINE front == SubSeq(new, 1, n - 1)
    <3>1. /\ front \in Seq(Event) /\ Len(front) = n - 1
          /\ \A i \in 1 .. n - 1 : front[i] = new[i]
      BY <2>3, <2>4, SubSeqProperties, ElementOfSeq
    <3> HIDE DEF front
    <3>2. \A i \in 1 .. Len(front) : front[i].id = old[i].id /\ front[i].due = old[i].due
      <4> SUFFICES ASSUME NEW i \in 1 .. n - 1
                   PROVE  front[i].id = old[i].id /\ front[i].due = old[i].due
        BY <3>1
      <4>1. i \in 1 .. n
        BY <2>3
      <4> QED
        BY <2>3, <2>4, <2>5, <3>1, <4>1
    <3>3. front = old
      BY <2>5, <3>1, <3>2, SameList
    <3> QED
      BY <3>0, <3>3 DEF front
  <2>8. FromNow(posted)' = new /\ FromNow(posted) = old
    BY <1>0, <1>2, <2>1, Shifts DEF new, old
  <2>9. Len(new) = Len(old) + 1
    BY <2>3, <2>4, <2>5
  <2>10. Abstract!Post
    BY <1>2, <2>6, <2>7, <2>8, <2>9, Shifts DEF Abstract!Post
  <2> QED
    BY <2>10 DEF Abstract!Next
<1> QED
  BY <1>3, <1>4, <1>5 DEF OtherThread

\* The agenda starts with the first vblank.
LEMMA AgendaStarts ==
    ASSUME Init
    PROVE  Abstract!Init
<1> DEFINE e == [id |-> EnterVblank, due |-> FrameCycles]
<1>1. queue = <<e>> /\ posted = <<>> /\ Ticks = 0
  BY TimingAssumption DEF Init, Ticks
<1>2. queue \in Seq(Event) /\ posted \in Seq(Event)
  BY TimingStarts, AgendaNow
<1>3. FromNow(queue) = queue /\ FromNow(posted) = posted
  <2>1. 0 \in Int
    OBVIOUS
  <2>2. Shift(queue, 0) = queue /\ Shift(posted, 0) = posted
    BY <1>2, <2>1, ShiftTwice
  <2> QED
    BY <1>1, <2>2, Shifts
<1> QED
  BY <1>1, <1>3 DEF Abstract!Init

\* The event scheduler implements the agenda: whatever list an event came by, in
\* whatever pieces the time was accounted for, events run in the order of their times.
THEOREM TimingImplementsAgenda == Spec => ImplementsAgenda
<1>1. Init => Abstract!Init
  BY AgendaStarts
<1>2. TimingInv /\ [Next]_vars => [Abstract!Next]_(Abstract!vars)
  <2> SUFFICES ASSUME TimingInv, [Next]_vars PROVE Abstract!Next \/ UNCHANGED Abstract!vars
    BY DEF Abstract!vars
  <2>1. CASE UNCHANGED vars
    BY <2>1 DEF vars, listVars, sliceVars, Abstract!vars, FromNow, Ticks
  <2> QED
    BY <2>1, ProgramImplements, AdvancingImplements, OtherThreadImplements DEF Next
<1> QED
  BY <1>1, <1>2, TimingInvariant, PTL DEF Spec, ImplementsAgenda, Abstract!Spec
=============================================================================
