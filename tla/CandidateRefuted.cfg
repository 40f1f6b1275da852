\* What the code, or a text about it, promises and does not keep.  Activate one
\* property at a time; TLC finds each of them violated.
SPECIFICATION Spec
CONSTANTS
  r1 = r1
  r2 = r2
  r3 = r3
  r4 = r4
  Runs = {r1, r2, r3, r4}
  Policies = {"here"}
  Origins = {"shop", "staging"}
  Histories <- BothHistories
  Reporters = {q}
  Reports <- Reported
  Attempts <- Retried
  MaxFailures = 0
  MinSupportToPromote = 2
  MinSupportToTrust = 3
CHECK_DEADLOCK FALSE
PROPERTY WithdrawnStaysWithdrawn
\* With Reporters = {}:
\* INVARIANT ExactWhenKnownMatches
\* With Reporters = {q1, q2, q3}, Reports <- Failing:
\* INVARIANT OfferedIsReliable
\* With Reporters = {}, Policies = {"here", "there"}, Histories <- Elsewhere:
\* INVARIANT ContradictedInContext
