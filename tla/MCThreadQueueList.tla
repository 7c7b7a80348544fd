-------------------------- MODULE MCThreadQueueList --------------------------
(* ThreadQueueList with arrays so small that they soon move and grow. *)
EXTENDS ThreadQueueList, TLC

\* One queue is long enough to outgrow its array twice.
MCMaxLength == [p \in 0 .. NumQueues - 1 |-> IF p = 1 THEN 3 ELSE 1]

ThreadSymmetry == Permutations(Threads)
=============================================================================
