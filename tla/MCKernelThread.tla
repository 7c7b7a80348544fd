--------------------------- MODULE MCKernelThread ---------------------------
(* Two threads on two priorities; the root thread a starts with the better. *)
EXTENDS KernelThread

CONSTANTS a, b

MCInitialPriority == [t \in Threads |-> IF t = a THEN 1 ELSE 2]

MCEqualPriority == [t \in Threads |-> 1]

\* With equal priorities only Init tells the threads apart, by Root.
MCSymmetry == Permutations(Threads)
=============================================================================
