\* A lost acknowledgement.  An outage that outlasts the attempts does the same, with
\* MaxLostAcks = 0 and MaxFailures = 5.
SPECIFICATION FairSpec
CONSTANTS
  MaxAttempts = 5
  MaxLearningAttempts = 2
  EpisodesPerHistory = 2
  MaxEpisodes = 3
  EpisodeVerdicts <- SomeVerdicts
  MaxSignals = 1
  MaxFailures = 0
  MaxLostAcks = 1
  MaxStragglers = 0
PROPERTY EveryRunSettles
CHECK_DEADLOCK FALSE
