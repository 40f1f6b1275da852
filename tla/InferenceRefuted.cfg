\* What the code, or a text about it, promises and does not keep.  Activate one
\* property at a time; TLC finds each of them violated.
SPECIFICATION Spec
CONSTANTS
  p1 = p1
  p2 = p2
  planner = planner
  judge = judge
  analyst = analyst
  Processes = {p1, p2}
  Calls = {planner, judge, analyst}
  Process <- OneProcess
  Task <- TaskOf
  Endpoints <- TwoEndpoints
  Answers = {"usable", "illegal", "unusable", "rejected", "garbled"}
  Phases = 1
  MinTTL = 2
  TTLMargin = 2
  SlotWait = 1
  Backoff = 1
  Threshold = 2
  ResetAfter = 1
  MaxFaults = 0
PROPERTY HalfOpenLetsOneThrough
\* PROPERTY NothingIsSentWhileOpen
\* PROPERTY AnsweringIsNoFailure
\* With Process <- TwoProcesses, or with MaxFaults = 1:
\* INVARIANT LeaseOutlastsCall
\* With MaxFaults = 1:
\* PROPERTY NothingIsRaised
