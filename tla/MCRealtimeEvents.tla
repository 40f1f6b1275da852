--------------------------- MODULE MCRealtimeEvents ---------------------------
(***************************************************************************)
(* A run of a few events and one tab that watches it.                       *)
(***************************************************************************)
EXTENDS RealtimeEvents
=============================================================================
