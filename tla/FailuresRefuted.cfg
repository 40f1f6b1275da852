\* What the code, or a text about it, promises and does not keep.  Activate one
\* property at a time; TLC finds each of them violated.
SPECIFICATION FailuresSpec
CONSTANTS
  Most = 1
  Runs <- Projects
  Reports <- Mixed
  Before <- ById
  BatchLimit = 10
  MaxClusters = 1
  Analyst = TRUE
  Attempts = {1, 2}
  MaxCrashes = 0
  MaxStalls = 0
  MaxRepeats = 0
CHECK_DEADLOCK FALSE
INVARIANT OutageIsOneProblem
\* With Most = 4, Reports <- OneWall:
\* PROPERTY GrownIsAskedAgain
\* With Most = 3, Reports <- OneWall, MaxCrashes = 1:
\* PROPERTY RetryAsksAgain
\* With Most = 2, Reports <- Flaky, MaxRepeats = 1:
\* INVARIANT MembersAreFailures
