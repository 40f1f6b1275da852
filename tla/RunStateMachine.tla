-------------------------- MODULE RunStateMachine --------------------------
(***************************************************************************)
(* What the durable row of one run promises to everybody who reads it: a    *)
(* run is accepted as queued (start_run.py), and from there its status only *)
(* makes the moves the Run aggregate allows, its verdict following the      *)
(* status in the same step.  RunWorkflow is checked, and proved, to         *)
(* implement this specification.                                            *)
(***************************************************************************)
EXTENDS RunStatus

VARIABLES status, verdict

row == <<status, verdict>>

Init == status = "queued" /\ verdict = "none"

TransitionTo(target, v) ==
  /\ CanTransition(status, target, v)
  /\ status' = target
  /\ verdict' = ResolvedVerdict(target, v)

Next == \E target \in Statuses, v \in VerdictOrNone : TransitionTo(target, v)

Spec == Init /\ [][Next]_row
=============================================================================
