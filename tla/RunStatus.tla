----------------------------- MODULE RunStatus -----------------------------
(***************************************************************************)
(* The lifecycle vocabulary of a run and the rules of its aggregate, from   *)
(* domain/runs/run.py: which status may follow which, and which verdict a   *)
(* status may carry.  Constant-level: every module that holds a run row     *)
(* takes its rules from here, as every use case takes them from Run.        *)
(***************************************************************************)

TerminalStatuses == {"cancelled", "failed", "completed"}

Statuses == TerminalStatuses \cup
  {"created", "queued", "running", "pausing", "paused", "recovering", "cancelling"}

CompletedVerdicts == {"passed", "failed", "blocked", "inconclusive"}

\* "none" stands for Python's None, which is not a member of Verdict.
Verdicts == CompletedVerdicts \cup {"cancelled"}

VerdictOrNone == Verdicts \cup {"none"}

Transitions == [s \in Statuses |->
  CASE s = "created"    -> {"queued", "cancelling"}
    [] s = "queued"     -> {"running", "cancelling"}
    [] s = "running"    -> {"pausing", "recovering", "cancelling", "completed"}
    [] s = "pausing"    -> {"paused", "cancelling"}
    [] s = "paused"     -> {"running", "cancelling"}
    [] s = "recovering" -> {"running", "cancelling"}
    [] s = "cancelling" -> {"cancelled"}
    [] OTHER            -> {}]

\* Infrastructure may die under any status that is not terminal.
AllowedTargets(s) ==
  IF s \in TerminalStatuses THEN Transitions[s] ELSE Transitions[s] \cup {"failed"}

VerdictAccepted(target, v) ==
  /\ target \notin TerminalStatuses => v = "none"
  /\ target = "completed" => v \in CompletedVerdicts
  /\ target = "cancelled" => v \in {"none", "cancelled"}
  /\ target = "failed" => v \in {"none", "inconclusive", "blocked"}

ResolvedVerdict(target, v) ==
  CASE target = "cancelled" -> "cancelled"
    [] target = "failed"    -> IF v = "none" THEN "inconclusive" ELSE v
    [] target = "completed" -> v
    [] OTHER                -> "none"

\* transition_to raises unless all three hold, and then changes nothing.
CanTransition(s, target, v) ==
  /\ s \notin TerminalStatuses
  /\ target \in AllowedTargets(s)
  /\ VerdictAccepted(target, v)
=============================================================================
