----------------------------- MODULE MCSongAlloc -----------------------------
(* Instances of SongAlloc for TLC. *)
EXTENDS SongAlloc
==============================================================================
