SPECIFICATION Spec
CONSTANTS
  Capacity = 8
  MaxRecords = 5
INVARIANTS
  RetryNeverRefused
CHECK_DEADLOCK FALSE
