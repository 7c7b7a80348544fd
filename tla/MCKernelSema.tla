---------------------------- MODULE MCKernelSema ----------------------------
(* Two threads of one priority, and one semaphore of either order. *)
EXTENDS KernelSema

CONSTANTS a, b, sem

MCInitialPriority == [t \in Threads |-> 1]

MCCreations == {[fifo |-> TRUE, init |-> 1, max |-> 2], [fifo |-> FALSE, init |-> 0, max |-> 1]}

\* With equal priorities only Init tells the threads apart, by Root.
MCSymmetry == Permutations(Threads)
=============================================================================
