---------------------------- MODULE MCSavedTiming ----------------------------
(* The instance of MCCoreTiming.tla, with save states. *)
EXTENDS SavedTiming

CONSTANTS timer, post

MCDelays == {1, 4}
MCSkews == {-2, 0}
=============================================================================
