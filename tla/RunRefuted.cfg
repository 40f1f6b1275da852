\* What the code, or a text about it, promises and does not keep.  Activate one
\* property at a time; TLC finds each of them violated.
SPECIFICATION Spec
CONSTANTS
  MaxAttempts = 5
  MaxLearningAttempts = 2
  EpisodesPerHistory = 2
  MaxEpisodes = 4
  EpisodeVerdicts <- SomeVerdicts
  MaxSignals = 2
  MaxFailures = 0
  MaxLostAcks = 0
  MaxStragglers = 0
CHECK_DEADLOCK FALSE
INVARIANT CancelNotForgotten
\* With MaxSignals = 3:
\* PROPERTY NoEpisodeAfterCancel
\* Under StragglerSpec, with MaxStragglers = 1:
\* PROPERTY RowIsStateMachine
