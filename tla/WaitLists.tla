------------------------------ MODULE WaitLists ------------------------------
(***************************************************************************)
(* The lists of waiting threads that kernel objects keep, and the helpers  *)
(* of Core/HLE/KernelWaitHelpers.h on them.                                *)
(***************************************************************************)
EXTENDS Scheduler

\* The threads that come before t in the list w.
Ahead(w, t) == {u \in ToSet(w) : \E i, j \in DOMAIN w : i < j /\ w[i] = u /\ w[j] = t}

\* Mutant of Listed: the list is not searched for the thread.
ListedAgain(w, t) == Append(w, t)

\* A thread that an earlier wait left in the list keeps its place.
Listed(w, t) == IF Contains(w, t) THEN w ELSE Append(w, t)

\* Mutant of CleanedUp: the list is cut, but nothing is moved into the holes.
CleanedUpWithoutSwap(w, valid) ==
    {InOrder(SubSeq(w, 1, Cardinality(ToSet(w) \intersect valid)), valid)}

\* CleanupWaitingThreads(): what is left of w.  Each hole that a thread not in
\* valid leaves is filled from the end of the list.  The only member of the set.
CleanedUp(w, valid) ==
    LET kept == ToSet(w) \intersect valid
        size == Cardinality(kept)
        holes == {i \in 1 .. size : w[i] \notin valid}
    IN  {v \in [1 .. size -> kept] :
            /\ ToSet(v) = kept
            /\ \A i \in 1 .. size \ holes : v[i] = w[i]
            /\ \A i, j \in holes : i < j => v[j] \in Ahead(w, v[i])}
=============================================================================
