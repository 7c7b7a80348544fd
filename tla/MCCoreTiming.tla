---------------------------- MODULE MCCoreTiming ----------------------------
(* One timer of the program, one event of another thread, a short frame.   *)
EXTENDS CoreTiming

CONSTANTS timer, post

MCDelays == {1, 4}
MCSkews == {-2, 0}
=============================================================================
