----------------------------- MODULE SavedTiming -----------------------------
(***************************************************************************)
(* Save states of the event scheduler: CoreTiming::DoState().  A state is  *)
(* saved between two slices of the CPU and loaded at any later time.  Both *)
(* lists and the counters are restored; hasTsEvents is not part of a state *)
(* and keeps the value it has when the state is loaded.                    *)
(***************************************************************************)
EXTENDS CoreTiming

VARIABLE saved      \* the save state, or NoEvent

InitSaved == Init /\ saved = NoEvent

SaveState ==
    /\ pc = "run" /\ ~posting /\ saved = NoEvent
    /\ saved' = [queue |-> queue, posted |-> posted, slice |-> slicelength, down |-> downcount]
    /\ UNCHANGED vars

LoadState ==
    /\ pc = "run" /\ ~posting /\ saved # NoEvent
    /\ queue' = saved.queue /\ posted' = saved.posted
    /\ slicelength' = saved.slice /\ downcount' = saved.down
    /\ UNCHANGED <<lockVars, callVars, saved>>

NextSaved == SaveState \/ LoadState \/ (Next /\ UNCHANGED saved)

SavedSpec == InitSaved /\ [][NextSaved]_<<vars, saved>>
=============================================================================
