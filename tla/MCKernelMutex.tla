---------------------------- MODULE MCKernelMutex ----------------------------
EXTENDS KernelMutex

CONSTANTS a, b, c, mutex1

MCInitialPriority == [t \in Threads |-> IF t = a THEN 1 ELSE 2]

MCCreations == {[fifo |-> FALSE, recursive |-> TRUE, init |-> 2],
                [fifo |-> TRUE, recursive |-> FALSE, init |-> 0]}

\* b and c differ in nothing.
MCSymmetry == Permutations(Threads \ {a})

\* The bounds on what the programs of the run do besides: they wait for mutexes only,
\* never disable dispatching or interrupts, suspend nobody, and keep the priorities of
\* the threads.
MCNext ==
    /\ MutexNext
    /\ dispatch' /\ intrEnabled'
    /\ \A t \in Threads :
          /\ sched'.wait[t].type \in {"NONE", "MUTEX"}
          /\ sched'.prio[t] = InitialPriority[t]
          /\ "SUSPEND" \notin sched'.status[t]

MCSpec == MutexInit /\ [][MCNext]_allVars
=============================================================================
