SPECIFICATION Spec
CONSTANTS
  Requests = {r1, r2, r3}
  Keys = {k1, k2}
  Nobody = Nobody
  MaxVersion = 2
SYMMETRY Symmetry
INVARIANTS
  OneRunPerKey
  WorkflowHasRow
  SameKeySameRun
  RerunKeepsVersion
CHECK_DEADLOCK FALSE
