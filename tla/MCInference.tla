----------------------------- MODULE MCInference -----------------------------
(***************************************************************************)
(* One coroutine that plans, one that judges and one whose question no        *)
(* endpoint serves: in one process that may die and start again, and in two. *)
(* The endpoint they use has one slot; the one registered after it is spare. *)
(***************************************************************************)
EXTENDS Inference

CONSTANTS p1, p2, planner, judge, analyst

OneProcess(c) == p1
TwoProcesses(c) == IF c = judge THEN p2 ELSE p1
TaskOf(c) == CASE c = planner -> "gui_action"
               [] c = judge -> "semantic_verification"
               [] c = analyst -> "root_cause_analysis"

Fast == [capability |-> "fast", slots |-> 1, timeout |-> 1, attempts |-> 2]
Spare == [capability |-> "fast", slots |-> 2, timeout |-> 2, attempts |-> 2]

TwoEndpoints == <<Fast, Spare>>
=============================================================================
