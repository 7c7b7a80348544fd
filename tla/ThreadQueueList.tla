--------------------------- MODULE ThreadQueueList ---------------------------
(***************************************************************************)
(* struct ThreadQueueList of Core/HLE/sceKernelThread.cpp: the ready queue *)
(* of the scheduler.  Each priority has an array with its ids somewhere in *)
(* the middle, so that both ends have room; rebalance() recentres the ids, *)
(* or doubles the array, when an end is reached.  The queues that were     *)
(* ever used are chained by ascending priority, and a pop walks the chain. *)
(*                                                                         *)
(* Only the cells first .. end-1 of an array hold something: the other     *)
(* cells are left out of data, so that reading one is an error.            *)
(***************************************************************************)
EXTENDS Integers, FiniteSets, SequencesExt

CONSTANTS NumQueues, Threads, NoThread, MaxLength,
    InitialCapacity     \* INITIAL_CAPACITY

ASSUME NumQueuesAssumption == NumQueues \in Nat \ {0}
ASSUME ThreadsAssumption == NoThread \notin Threads
ASSUME MaxLengthAssumption == MaxLength \in [0 .. NumQueues - 1 -> Nat]
ASSUME CapacityAssumption == InitialCapacity \in Nat /\ InitialCapacity >= 2

Priorities == 0 .. NumQueues - 1

\* invalid() is the pointer (Queue *)-1, above every queue's address: the end
\* of the chain.  Null marks a queue that was never linked.
Invalid == NumQueues
Null == NumQueues + 1

VARIABLES
    queues,     \* the Queue of each priority
    firstQueue, \* first: the head of the chain
    walk,       \* the loop of a pop: its cursor, and where it must stop
    popped      \* what the last pop returned, and the limit it was given

vars == <<queues, firstQueue, walk, popped>>

Size(q) == q.end - q.first

Unlinked == [next |-> Null, first |-> 0, end |-> 0, capacity |-> 0, data |-> <<>>]

IsLinked(p) == queues[p].next # Null

NoWalk == [cursor |-> Null, stop |-> Null]

Walking == walk # NoWalk
-----------------------------------------------------------------------------
(* The helpers of the struct *)

\* Mutant of MovedTo: end is not moved along.
MovedToKeepsEnd(q, newFirst) ==
    [q EXCEPT !.first = newFirst,
              !.data = [i \in newFirst .. newFirst + Size(q) - 1 |->
                            q.data[i - newFirst + q.first]]]

\* The ids of q, moved so that the first is in cell newFirst.
MovedTo(q, newFirst) ==
    [q EXCEPT !.first = newFirst,
              !.end = newFirst + Size(q),
              !.data = [i \in newFirst .. newFirst + Size(q) - 1 |->
                            q.data[i - newFirst + q.first]]]

\* Mutant of Rebalance: it recentres but never grows the array.
RebalanceNeverGrows(q) == MovedTo(q, (q.capacity - Size(q)) \div 2)

\* rebalance(): the realloc() is taken to succeed.
Rebalance(q) ==
    LET capacity == IF Size(q) >= q.capacity - 2 THEN 2 * q.capacity ELSE q.capacity
    IN  [MovedTo(q, (capacity - Size(q)) \div 2) EXCEPT !.capacity = capacity]

AfterPushFront(q, t) ==
    LET pushed == [q EXCEPT !.first = @ - 1,
                            !.data = [i \in q.first - 1 .. q.end - 1 |->
                                        IF i = q.first - 1 THEN t ELSE q.data[i]]]
    IN  IF pushed.first = 0 THEN Rebalance(pushed) ELSE pushed

AfterPushBack(q, t) ==
    LET pushed == [q EXCEPT !.end = @ + 1,
                            !.data = [i \in q.first .. q.end |->
                                        IF i = q.end THEN t ELSE q.data[i]]]
    IN  IF pushed.end = q.capacity THEN Rebalance(pushed) ELSE pushed

AfterPop(q) ==
    [q EXCEPT !.first = @ + 1,
              !.data = [i \in q.first + 1 .. q.end - 1 |-> q.data[i]]]

\* The cells that hold t; the memmove() closes the gap left by the first.
CellsOf(q, t) == {i \in q.first .. q.end - 1 : q.data[i] = t}

AfterRemove(q, t) ==
    IF CellsOf(q, t) = {} THEN q
    ELSE LET gap == Min(CellsOf(q, t)) IN
         [q EXCEPT !.end = @ - 1,
                   !.data = [i \in q.first .. q.end - 2 |->
                                IF i < gap THEN q.data[i] ELSE q.data[i + 1]]]

\* data[end++] = data[first++], which may reach the end of the array.
AfterRotate(q) ==
    IF Size(q) <= 1 THEN q ELSE AfterPushBack(AfterPop(q), q.data[q.first])
-----------------------------------------------------------------------------
Init ==
    /\ queues = [p \in Priorities |-> Unlinked]
    /\ firstQueue = Invalid
    /\ walk = NoWalk
    /\ popped = [id |-> NoThread, limit |-> 0]

NewQueue(next) ==
    [next |-> next, first |-> InitialCapacity \div 2, end |-> InitialCapacity \div 2,
     capacity |-> InitialCapacity, data |-> [i \in {} |-> NoThread]]

LinkedBelow(p) == {i \in 0 .. p - 1 : IsLinked(i)}

\* Mutant of Link: the new queue always becomes the head of the chain.
LinkAtHead(p) ==
    /\ queues' = [queues EXCEPT ![p] = NewQueue(firstQueue)]
    /\ firstQueue' = p

\* link(): the new queue goes into the chain after the closest linked
\* queue of better priority, or to the head when there is none.
Link(p) ==
    IF LinkedBelow(p) # {}
    THEN LET prev == Max(LinkedBelow(p)) IN
         /\ queues' = [queues EXCEPT ![p] = NewQueue(queues[prev].next), ![prev].next = p]
         /\ UNCHANGED firstQueue
    ELSE /\ queues' = [queues EXCEPT ![p] = NewQueue(firstQueue)]
         /\ firstQueue' = p

Prepare(p) ==
    /\ ~Walking
    /\ IF IsLinked(p) THEN UNCHANGED <<queues, firstQueue>> ELSE Link(p)
    /\ UNCHANGED <<walk, popped>>

\* What every operation on one linked queue has in common.
Update(p, q) ==
    /\ ~Walking
    /\ IsLinked(p)
    /\ queues' = [queues EXCEPT ![p] = q]
    /\ UNCHANGED <<firstQueue, walk, popped>>

PushFront(p, t) ==
    /\ Size(queues[p]) < MaxLength[p]
    /\ Update(p, AfterPushFront(queues[p], t))

PushBack(p, t) ==
    /\ Size(queues[p]) < MaxLength[p]
    /\ Update(p, AfterPushBack(queues[p], t))

RemoveId(p, t) == Update(p, AfterRemove(queues[p], t))

Rotate(p) == Update(p, AfterRotate(queues[p]))

\* pop_first() and pop_first_better(): one loop that follows the chain.  With
\* stop = Invalid it is the former, whose assertion on an empty queue is not
\* compiled into a release build: it returns 0 like the latter.
StartPop(stop) ==
    /\ ~Walking
    /\ walk' = [cursor |-> firstQueue, stop |-> stop]
    /\ UNCHANGED <<queues, firstQueue, popped>>

\* Mutant of Inside: the queue of the limit itself is looked at too.
InsideOrAtStop == Walking /\ walk.cursor <= walk.stop /\ walk.cursor < Invalid

Inside == Walking /\ walk.cursor < walk.stop

WalkOn ==
    /\ Inside
    /\ Size(queues[walk.cursor]) <= 0
    /\ walk' = [walk EXCEPT !.cursor = queues[@].next]
    /\ UNCHANGED <<queues, firstQueue, popped>>

FinishPop ==
    /\ Inside
    /\ Size(queues[walk.cursor]) > 0
    /\ LET q == queues[walk.cursor] IN
         /\ popped' = [id |-> q.data[q.first], limit |-> walk.stop]
         /\ queues' = [queues EXCEPT ![walk.cursor] = AfterPop(q)]
    /\ walk' = NoWalk
    /\ UNCHANGED firstQueue

FailPop ==
    /\ Walking
    /\ ~Inside
    /\ popped' = [id |-> NoThread, limit |-> walk.stop]
    /\ walk' = NoWalk
    /\ UNCHANGED <<queues, firstQueue>>

Clear ==
    /\ ~Walking
    /\ queues' = [p \in Priorities |-> Unlinked]
    /\ firstQueue' = Invalid
    /\ UNCHANGED <<walk, popped>>

LinkedFrom(p) == {i \in p .. NumQueues - 1 : IsLinked(i)} \union {Invalid}

\* DoState() in read mode: clear(), then each saved queue is linked again in
\* ascending order, with an array of its saved capacity (a capacity is
\* InitialCapacity doubled some number of times, so link() makes the same one)
\* and with its ids in the middle.
LoadState ==
    /\ ~Walking
    /\ queues' = [p \in Priorities |->
                    IF ~IsLinked(p) THEN Unlinked
                    ELSE [MovedTo(queues[p], (queues[p].capacity - Size(queues[p])) \div 2)
                            EXCEPT !.next = Min(LinkedFrom(p + 1))]]
    /\ firstQueue' = Min(LinkedFrom(0))
    /\ UNCHANGED <<walk, popped>>

Next ==
    \/ \E p \in Priorities : Prepare(p) \/ Rotate(p)
    \/ \E p \in Priorities, t \in Threads :
          PushFront(p, t) \/ PushBack(p, t) \/ RemoveId(p, t)
    \/ \E stop \in 0 .. NumQueues : StartPop(stop)
    \/ WalkOn \/ FinishPop \/ FailPop
    \/ Clear
    \/ LoadState

Spec == Init /\ [][Next]_vars
-----------------------------------------------------------------------------
(* Properties *)

QueueType(q) ==
    /\ q.next \in 0 .. Null
    /\ q.first \in Nat /\ q.end \in Nat /\ q.capacity \in Nat
    /\ q.data \in [q.first .. q.end - 1 -> Threads]
    /\ DOMAIN q = {"next", "first", "end", "capacity", "data"}

\* The variables have the types of the C++ fields.
TypeOK ==
    /\ DOMAIN queues = Priorities
    /\ \A p \in Priorities : QueueType(queues[p])
    /\ firstQueue \in 0 .. Invalid
    /\ walk \in [cursor : 0 .. Null, stop : 0 .. Null]
    /\ popped \in [id : Threads \union {NoThread}, limit : 0 .. NumQueues]

\* Between operations every linked queue has a free cell at both ends, so the
\* next --first or end++ of push_front, push_back and rotate writes inside the
\* array that rebalance() made, however often the ids drifted to one end.
RoomAtBothEnds ==
    \A p \in Priorities :
        IsLinked(p) => /\ 0 < queues[p].first
                       /\ queues[p].first <= queues[p].end
                       /\ queues[p].end < queues[p].capacity

\* The chain that pops follow is sorted by priority and skips no queue that
\* was ever used: link() inserts in the right place whatever the order in which
\* priorities are prepared, and a loaded state rebuilds the same chain.
ChainSorted ==
    /\ \A p \in Priorities : IsLinked(p) => firstQueue <= p
    /\ firstQueue = Invalid \/ IsLinked(firstQueue)
    /\ \A p \in Priorities :
          IsLinked(p) =>
            /\ queues[p].next > p
            /\ queues[p].next = Invalid \/ IsLinked(queues[p].next)
            /\ \A r \in Priorities : r > p /\ IsLinked(r) => queues[p].next <= r
-----------------------------------------------------------------------------
(* The refinement: cells first .. end-1 are the abstract sequence. *)

QueuedIds(q) == [i \in 1 .. Size(q) |-> q.data[q.first + i - 1]]

Abstract == INSTANCE ReadyQueue WITH
    ready <- [p \in Priorities |-> QueuedIds(queues[p])],
    prepared <- {p \in Priorities : IsLinked(p)}

\* The arrays and the chain implement the per-priority sequences: every
\* operation of ThreadQueueList does to them what the scheduler relies on.
ImplementsReadyQueue == Abstract!Spec
=============================================================================
