---------------------------- MODULE MCSchedules -----------------------------
(***************************************************************************)
(* Schedules with one id that two projects want, and that fires.            *)
(***************************************************************************)
EXTENDS Schedules, TLC

NewestPlan == {Latest}

Symmetric == Permutations(Projects) \cup Permutations(Calls)
=============================================================================
