---------------------------- MODULE MCRunStart -----------------------------
(***************************************************************************)
(* RunStart with three requests: two that race and one that comes later.    *)
(***************************************************************************)
EXTENDS RunStart, TLC

Symmetry == Permutations(Requests) \cup Permutations(Keys)
=============================================================================
