SPECIFICATION Spec
CONSTANTS
  Capacity = 5
  Sizes = {2, 3, 5}
  MaxBlobs = 2
  MaxRecords = 4
INVARIANTS
  LiveRunsDisjoint
CHECK_DEADLOCK FALSE
