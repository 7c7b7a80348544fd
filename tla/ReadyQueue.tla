----------------------------- MODULE ReadyQueue -----------------------------
(***************************************************************************)
(* What the scheduler is promised by its ready queue (ThreadQueueList in   *)
(* Core/HLE/sceKernelThread.cpp): one sequence of thread ids per priority, *)
(* smaller priorities first, and two ways to take the best thread off it.  *)
(* ThreadQueueList.tla is the array-and-linked-list code that implements   *)
(* this specification, and states the assumptions on the constants.        *)
(***************************************************************************)
EXTENDS Integers, SequencesExt

CONSTANTS
    NumQueues,      \* NUM_QUEUES: priorities are 0 .. NumQueues-1
    Threads,        \* the thread ids that can be queued
    NoThread,       \* the id 0 that a failed pop returns
    MaxLength       \* bound: how long the sequence of each priority may grow

Priorities == 0 .. NumQueues - 1

VARIABLES
    ready,      \* the ids queued at each priority, next to run first
    prepared,   \* the priorities that prepare() was called for
    popped      \* what the last pop returned, and the limit it was given

vars == <<ready, prepared, popped>>

TypeOK ==
    /\ ready \in [Priorities -> Seq(Threads)]
    /\ prepared \subseteq Priorities
    /\ popped \in [id : Threads \union {NoThread}, limit : 0 .. NumQueues]

Init ==
    /\ ready = [p \in Priorities |-> <<>>]
    /\ prepared = {}
    /\ popped = [id |-> NoThread, limit |-> 0]

Prepare(p) ==
    /\ prepared' = prepared \union {p}
    /\ UNCHANGED <<ready, popped>>

PushFront(p, t) ==
    /\ p \in prepared
    /\ Len(ready[p]) < MaxLength[p]
    /\ ready' = [ready EXCEPT ![p] = <<t>> \o @]
    /\ UNCHANGED <<prepared, popped>>

PushBack(p, t) ==
    /\ p \in prepared
    /\ Len(ready[p]) < MaxLength[p]
    /\ ready' = [ready EXCEPT ![p] = Append(@, t)]
    /\ UNCHANGED <<prepared, popped>>

\* Only the first occurrence goes; an id that is not there is not an error.
RemoveId(p, t) ==
    /\ p \in prepared
    /\ ready' = [ready EXCEPT ![p] = RemoveFirst(@, t)]
    /\ UNCHANGED <<prepared, popped>>

Rotate(p) ==
    /\ p \in prepared
    /\ ready' = [ready EXCEPT ![p] = IF Len(@) > 1 THEN Append(Tail(@), Head(@)) ELSE @]
    /\ UNCHANGED <<prepared, popped>>

\* The priorities better than limit that have somebody to run.
Better(limit) == {p \in Priorities : p < limit /\ ready[p] # <<>>}

\* pop_first_better(limit); with limit = NumQueues it is pop_first().
PopBetter(limit) ==
    IF Better(limit) = {}
    THEN /\ popped' = [id |-> NoThread, limit |-> limit]
         /\ UNCHANGED <<ready, prepared>>
    ELSE LET best == Min(Better(limit)) IN
         /\ popped' = [id |-> Head(ready[best]), limit |-> limit]
         /\ ready' = [ready EXCEPT ![best] = Tail(@)]
         /\ UNCHANGED prepared

Clear ==
    /\ ready' = [p \in Priorities |-> <<>>]
    /\ prepared' = {}
    /\ UNCHANGED popped

Next ==
    \/ \E p \in Priorities : Prepare(p) \/ Rotate(p)
    \/ \E p \in Priorities, t \in Threads :
          PushFront(p, t) \/ PushBack(p, t) \/ RemoveId(p, t)
    \/ \E limit \in 0 .. NumQueues : PopBetter(limit)
    \/ Clear

Spec == Init /\ [][Next]_vars
=============================================================================
