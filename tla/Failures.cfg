SPECIFICATION FailuresSpec
CONSTANTS
  Most = 2
  Runs <- Projects
  Reports <- Mixed
  Before <- ById
  BatchLimit = 10
  MaxClusters = 1
  Analyst = TRUE
  Attempts = {1, 2}
  MaxCrashes = 1
  MaxStalls = 1
  MaxRepeats = 0
INVARIANT AnalysedIsGrouped
PROPERTY ReplayAddsNothing
CHECK_DEADLOCK FALSE
