SPECIFICATION Spec
CONSTANTS
  q1 = q1
  q2 = q2
  q3 = q3
  None = None
  Projects = {"shop"}
  Policies = {"careful"}
  Stories <- OneStory
  Documents <- Held
  PlanIds = {"checkout"}
  Requests = {q1, q2, q3}
  Pinned <- ByHand
  MaxPlanSteps = 4
  Name <- Digest
  Keys <- ByLength
SYMMETRY Symmetric
INVARIANT AnsweredIsStored
CHECK_DEADLOCK FALSE
\* What a text about the code promises and the code does not keep; TLC finds each
\* of these violated when it is active.
\* INVARIANT ResubmittedIsSame
\* With Documents = {}:
\* INVARIANT NextVersionIsFree
