SPECIFICATION FairSpec
CONSTANTS
  p1 = p1
  p2 = p2
  planner = planner
  judge = judge
  analyst = analyst
  Processes = {p1}
  Calls = {planner, judge, analyst}
  Process <- OneProcess
  Task <- TaskOf
  Endpoints <- TwoEndpoints
  Answers = {"usable", "illegal", "unusable", "rejected", "garbled"}
  Phases = 1
  MinTTL = 2
  TTLMargin = 2
  SlotWait = 1
  Backoff = 1
  Threshold = 2
  ResetAfter = 1
  MaxFaults = 2
INVARIANTS
  LeasesMatchCalls
PROPERTIES
  EveryCallReturns
  NoBreakerStaysOpen
