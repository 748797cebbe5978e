SPECIFICATION FairSpec
CONSTANTS
  Capacity = 4
  MaxRecords = 5
INVARIANTS
  IInv
  LiveRecordsIntact
  AppliesWhatWasEmitted
  LentRecordsKept
  OverrunOnlyIfNested
PROPERTIES
  ImplementsRecordStream
  SpaceWaitEnds
  PublishedIsApplied
CHECK_DEADLOCK FALSE
