SPECIFICATION Spec
CONSTANTS
  r1 = r1
  r2 = r2
  r3 = r3
  r4 = r4
  Runs = {r1, r2, r3, r4}
  Policies = {"here"}
  Origins = {"shop", "staging"}
  Histories <- BothHistories
  Reporters = {q}
  Reports <- Reported
  Attempts <- Retried
  MaxFailures = 1
  MinSupportToPromote = 2
  MinSupportToTrust = 3
SYMMETRY Symmetric
INVARIANTS
  CountersHaveEvidence
  TrustIsEarned
  NeverBothBelieved
PROPERTIES
  NoWayBack
CHECK_DEADLOCK FALSE
