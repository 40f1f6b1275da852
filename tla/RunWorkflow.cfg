SPECIFICATION FairSpec
CONSTANTS
  MaxAttempts = 5
  MaxLearningAttempts = 2
  EpisodesPerHistory = 2
  MaxEpisodes = 3
  EpisodeVerdicts <- SomeVerdicts
  MaxSignals = 3
  MaxFailures = 6
  MaxLostAcks = 1
  MaxStragglers = 0
INVARIANTS
  RowFollowsWorkflow
  JournalExplainsRow
  CancelledOnlyWhenAsked
  VerdictIsLastReported
PROPERTIES
  RowIsStateMachine
  CancelSettles
  ResumeWakes
  RunSettles
CHECK_DEADLOCK FALSE
