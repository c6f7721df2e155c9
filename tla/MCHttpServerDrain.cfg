CONSTANTS
  Request = {r1}
SPECIFICATION ServerSpec
CHECK_DEADLOCK FALSE
INVARIANTS
  CutOnlyAfterDeadline
