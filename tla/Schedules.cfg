SPECIFICATION SchedulesSpec
CONSTANTS
  Requests <- Attempts
  Keys <- Firings
  Ids = {"nightly"}
  Projects = {shop, blog}
  shop = shop
  blog = blog
  Calls = {c1, c2, c3, c4}
  c1 = c1
  c2 = c2
  c3 = c3
  c4 = c4
  Pins <- NewestPlan
  Foreign = {}
  Nobody = Nobody
  MaxTicks = 2
  MaxEvents = 5
  MaxAttempts = 2
  MaxVersion = 2
SYMMETRY Symmetric
INVARIANT OneRunPerFiring
PROPERTY ActsOnWhatItSaw
CHECK_DEADLOCK FALSE
\* What a text about the code promises and the code does not keep; TLC finds each
\* of these violated when it is active.
\* PROPERTY ActsWithinProject
\* INVARIANT CompletedFiringRuns
\* With Foreign = {"nightly"}:
\* INVARIANT ListingIsAnswered
