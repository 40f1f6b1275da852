SPECIFICATION FairSpec
CONSTANTS
  Plans <- TwoOrNone
  Hinted <- OneHint
  Pages <- TwoPages
  Shows <- OrderShows
  Writes = TRUE
  MaxActions = 2
  MaxModelCalls = 3
  MaxRecoveries = 1
  MaxFailures = 1
INVARIANTS
  VerdictRederivable
  BlameIsEarned
  WitnessedIsMet
  DenialEndsEpisode
PROPERTIES
  OneDecisionOneWrite
  EpisodeReturns
CHECK_DEADLOCK FALSE
