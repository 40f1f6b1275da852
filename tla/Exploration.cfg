SPECIFICATION ExplorationSpec
CONSTANTS
  Sites <- AllSites
  Policies <- AllPolicies
  Baselines <- AllBaselines
  MaxAffordances = 4
  Routes <- AllRoutes
  Labels <- AllLabels
  Digest <- AllDigests
  DefaultDepth = 3
  MaxStates = 5
  MaxRecoveries = 2
  MaxFailures = 1
INVARIANTS
  FrontierBalances
  HolesAreExplained
  DeltaAccounts
PROPERTIES
  OfferedOnce
  ExplorationEnds
CHECK_DEADLOCK FALSE
