\* What the code, or a text about it, promises and does not keep.  Activate one
\* property at a time; TLC finds each of them violated.
SPECIFICATION Spec
CONSTANTS
  Requests = {r1, r2, r3}
  Keys = {k1, k2}
  Nobody = Nobody
  MaxVersion = 2
SYMMETRY Symmetry
CHECK_DEADLOCK FALSE
INVARIANT AnsweredRunHasWorkflow
\* INVARIANT RetryIsNoConflict
\* INVARIANT RerunKeepsMode
