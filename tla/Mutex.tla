-------------------------------- MODULE Mutex --------------------------------
(***************************************************************************)
(* What the mutexes of Core/HLE/sceKernelMutex.cpp promise a program: one  *)
(* owner at a time; nobody overtakes a thread that has asked; and a mutex  *)
(* that is given up, by its owner or by the end of its owner, goes to a    *)
(* thread that has asked for it, with the levels it asked for, and is free *)
(* only if there is none.  Who is told that it got a mutex is its owner.   *)
(* KernelMutex.tla is the code that implements this specification.         *)
(***************************************************************************)
EXTENDS Integers, FiniteSets, Functions

CONSTANTS
    Mutexes, Threads,
    Owners,     \* who can own a mutex: threads, and whom handlers lock for
    Nobody

VARIABLES
    owner,      \* of each mutex, or Nobody
    level,      \* how often it has locked the mutex
    request,    \* the levels each thread has asked for and not got; 0: none
    told        \* what each thread has been told since it asked

vars == <<owner, level, request, told>>

Requesters(m) == {t \in Threads : request[m][t] > 0}

OwnedBy(o) == {m \in Mutexes : owner[m] = o}

\* Who is told that it got a mutex.
NewlyGranted == {t \in Threads : told'[t] = "granted" /\ told[t] # "granted"}

Init ==
    /\ owner = [m \in Mutexes |-> Nobody]
    /\ level = [m \in Mutexes |-> 0]
    /\ request = [m \in Mutexes |-> [t \in Threads |-> 0]]
    /\ told = [t \in Threads |-> "nothing"]

\* A free mutex that nobody asks for is locked, or the owner locks it again.
Lock(m, o) ==
    /\ owner[m] = o \/ (owner[m] = Nobody /\ Requesters(m) = {})
    /\ owner' = [owner EXCEPT ![m] = o]
    /\ level'[m] > level[m]
    /\ level' = [level EXCEPT ![m] = level'[m]]
    /\ UNCHANGED <<request, told>>

Ask(m, t) ==
    /\ owner[m] \notin {Nobody, t}
    /\ request[m][t] = 0
    /\ request'[m][t] \in Nat \ {0}
    /\ request' = [request EXCEPT ![m][t] = request'[m][t]]
    /\ told' = [told EXCEPT ![t] = "nothing"]
    /\ UNCHANGED <<owner, level>>

\* The owner unlocks some of its levels.
Unlock(m) ==
    /\ level'[m] \in 1 .. level[m] - 1
    /\ level' = [level EXCEPT ![m] = level'[m]]
    /\ UNCHANGED <<owner, request, told>>

\* The mutexes of given are given up at once, and some requests are withdrawn.  A
\* thread may be told an error or forget what it was told.
GiveUp(given, withdrawn) ==
    \E next \in [given -> Threads \union {Nobody}] :
        /\ \A m \in given :
              IF Requesters(m) \subseteq withdrawn THEN next[m] = Nobody
              ELSE next[m] \in Requesters(m) \ withdrawn
        /\ NewlyGranted = Range(next) \ {Nobody}
        /\ owner' = [m \in Mutexes |-> IF m \in given THEN next[m] ELSE owner[m]]
        /\ level' = [m \in Mutexes |-> IF m \notin given THEN level[m]
                                       ELSE IF next[m] = Nobody THEN 0
                                       ELSE request[m][next[m]]]
        /\ request' = [m \in Mutexes |-> [t \in Threads |->
                          IF t \in withdrawn \/ (m \in given /\ next[m] = t) THEN 0
                          ELSE request[m][t]]]

\* The mutex is created, cancelled or deleted: every request is over, with an error.
Reset(m) ==
    /\ owner'[m] \in Owners \union {Nobody}
    /\ owner' = [owner EXCEPT ![m] = owner'[m]]
    /\ level'[m] \in Nat /\ (level'[m] = 0 <=> owner'[m] = Nobody)
    /\ level' = [level EXCEPT ![m] = level'[m]]
    /\ request' = [request EXCEPT ![m] = [t \in Threads |-> 0]]
    /\ told' = [t \in Threads |-> IF t \in Requesters(m) THEN "error" ELSE told[t]]

Next ==
    \/ \E m \in Mutexes :
        \/ \E o \in Owners : Lock(m, o)
        \/ \E t \in Threads : Ask(m, t)
        \/ Unlock(m) \/ Reset(m)
    \/ \E o \in Owners, withdrawn \in SUBSET Threads :
        \E given \in {{}, OwnedBy(o)} \union {{m} : m \in OwnedBy(o)} : GiveUp(given, withdrawn)

Spec == Init /\ [][Next]_vars
=============================================================================
