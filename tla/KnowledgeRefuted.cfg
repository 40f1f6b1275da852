\* What the code, or a text about it, promises and does not keep.  Activate one
\* property at a time; TLC finds each of them violated.
SPECIFICATION Spec
CONSTANTS
  Candidates = {"a", "b"}
  Environments = {"default", "staging"}
  EnvironmentOf <- OneEach
  Contents = {"observed", "trusted"}
  Projected = {"trusted"}
  Unwritable = {"b"}
  Absent = Absent
  Passes = {p1, p2}
  MaxSyncAttempts = 5
  Batch = 2
  MaxChanges = 2
  MaxRebuilds = 0
  MaxFailures = 0
CHECK_DEADLOCK FALSE
INVARIANT QueueNamesWhatIsMissing
\* After a rebuild, with Passes = {p1}, MaxChanges = 1, MaxRebuilds = 1:
\* INVARIANT QueueNamesWhatIsMissing
\* Under FairSpec, with Passes = {p1}, MaxChanges = 1, MaxFailures = 5:
\* PROPERTY QueueDrains
