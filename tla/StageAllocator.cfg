SPECIFICATION FairSpec
CONSTANTS
  Capacity = 5
  Sizes = {1, 2, 3, 5}
  MaxBlobs = 2
  MaxRecords = 4
INVARIANTS
  IInv
  DisjointUnlessNested
  RefusedOnlyByOwnBlobs
PROPERTIES
  AllocationEnds
CHECK_DEADLOCK FALSE
