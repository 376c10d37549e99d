SPECIFICATION FairSpec
CONSTANTS
  TRANSACTION_COUNT = 3
  MaxRows = 6
  MaxMissed = 1
  MaxDepth = 2
INVARIANTS
  TypeOK
  AtRisk
  EveryRowOnceInOrder
  RecordIsKept
PROPERTIES
  ImplementsEventLog
  EndOfRecordEnds
CHECK_DEADLOCK FALSE
