SPECIFICATION FairSpec
CONSTANTS
  Candidates = {"a", "b"}
  Environments = {"default", "staging"}
  EnvironmentOf <- OneEach
  Contents = {"observed", "trusted"}
  Projected = {"trusted"}
  Unwritable = {"b"}
  Absent = Absent
  Passes = {p1, p2}
  MaxSyncAttempts = 2
  Batch = 2
  MaxChanges = 2
  MaxRebuilds = 1
  MaxFailures = 1
INVARIANTS
  SyncedIsProjected
PROPERTIES
  EntryLeavesBacklog
CHECK_DEADLOCK FALSE
