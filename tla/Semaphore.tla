------------------------------ MODULE Semaphore ------------------------------
(***************************************************************************)
(* What the semaphores of Core/HLE/sceKernelSemaphore.cpp promise a        *)
(* program: units are handed out at most once.  A thread that has to wait  *)
(* leaves a request; a request is served with exactly the units it asked   *)
(* for, or withdrawn with none; a poll overtakes no request; and after     *)
(* units were supplied no request that could be served is left over.       *)
(* KernelSema.tla is the code that implements this specification.          *)
(***************************************************************************)
EXTENDS Integers, FiniteSetsExt

CONSTANTS
    Semas, Threads,
    Signals     \* the counts that programs signal

VARIABLES
    count,      \* the units that are free, for each semaphore
    request,    \* the units each thread has asked for and not got; 0: none
    told        \* what each thread has been told since it asked

vars == <<count, request, told>>

Requesters(s) == {t \in Threads : request[s][t] > 0}

Units(s, threads) == MapThenSumSet(LAMBDA t : request[s][t], threads)

\* Who is told that it got its units.
NewlyGranted == {t \in Threads : told'[t] = "granted" /\ told[t] # "granted"}

Init ==
    /\ count = [s \in Semas |-> 0]
    /\ request = [s \in Semas |-> [t \in Threads |-> 0]]
    /\ told = [t \in Threads |-> "nothing"]

\* The semaphore is created, deleted or cancelled: every request is over, with an
\* error.
Reset(s) ==
    /\ count'[s] \in Nat
    /\ count' = [count EXCEPT ![s] = count'[s]]
    /\ request' = [request EXCEPT ![s] = [t \in Threads |-> 0]]
    /\ told' = [t \in Threads |-> IF t \in Requesters(s) THEN "error" ELSE told[t]]

Take(s) ==
    /\ Requesters(s) = {}
    /\ count'[s] \in 0 .. count[s] - 1
    /\ count' = [count EXCEPT ![s] = count'[s]]
    /\ UNCHANGED <<request, told>>

Ask(s, t) ==
    /\ request[s][t] = 0
    /\ request'[s][t] \in Nat \ {0}
    /\ request' = [request EXCEPT ![s][t] = request'[s][t]]
    /\ told' = [told EXCEPT ![t] = "nothing"]
    /\ UNCHANGED count

\* Some requests for s are served, some requests for any semaphore are withdrawn,
\* and s may be supplied with the units of a signal.  A thread may be told an error
\* or forget what it was told, but only the served ones are told success.
Serve(s) ==
    \E served \in SUBSET Requesters(s), withdrawn \in SUBSET Threads :
        LET supplied == count'[s] - count[s] + Units(s, served) IN
        /\ NewlyGranted = served
        /\ request' = [r \in Semas |-> [t \in Threads |->
                          IF t \in withdrawn \/ (r = s /\ t \in served) THEN 0
                          ELSE request[r][t]]]
        /\ count'[s] \in Nat
        /\ count' = [count EXCEPT ![s] = count'[s]]
        /\ supplied \in Signals \union {0}
        /\ supplied > 0 => \A t \in Threads : request'[s][t] = 0 \/ request'[s][t] > count'[s]

Next == \E s \in Semas : Reset(s) \/ Take(s) \/ Serve(s) \/ \E t \in Threads : Ask(s, t)

Spec == Init /\ [][Next]_vars
=============================================================================
