\* What the code, or a text about it, promises and does not keep.  Activate one
\* property at a time; TLC finds each of them violated.
SPECIFICATION Spec
CONSTANTS
  Plans <- TwoCriteria
  Hinted <- OneHint
  Pages <- TwoPages
  Shows <- OrderShows
  Writes = TRUE
  MaxActions = 2
  MaxModelCalls = 3
  MaxRecoveries = 1
  MaxFailures = 1
CHECK_DEADLOCK FALSE
PROPERTY FinishedNotRepeated
\* PROPERTY SideEffectNotRepeated
\* PROPERTY StalledIsNotDenied
\* PROPERTY ModelCallsWithinPolicy
\* INVARIANT AccusedOnlyOnServedPage
\* INVARIANT ActionsWithinPolicy
\* INVARIANT EnvironmentIsNavigation
\* Under HeartbeatSpec, with MaxActions = 1, MaxModelCalls = 2:
\* INVARIANT VerdictRederivable
\* Under FairSpec, with Plans <- SameTwice, MaxActions = 1, MaxModelCalls = 2, MaxFailures = 0:
\* PROPERTY EveryEpisodeReturns
