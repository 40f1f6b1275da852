\* What the code, or a text about it, promises and does not keep.  Activate one
\* property at a time; TLC finds each of them violated.
SPECIFICATION ExplorationSpec
CONSTANTS
  Sites <- AllSites
  Policies <- AllPolicies
  Baselines <- AllBaselines
  MaxAffordances = 4
  Routes <- AllRoutes
  Labels <- AllLabels
  Digest <- AllDigests
  DefaultDepth = 3
  MaxStates = 5
  MaxRecoveries = 2
  MaxFailures = 1
CHECK_DEADLOCK FALSE
INVARIANT ExhaustedIsWhole
\* INVARIANT ReturnedIsMapped
