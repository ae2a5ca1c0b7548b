SPECIFICATION FairSpec
CONSTANTS
  MaxWrites = 4
  MaxReads = 2
INVARIANTS
  CallRules
  ReleasedIsDrained
  WritesInOrder
PROPERTIES
  ImplementsContract
  BlockingCallsReturn
  FailureReported
CHECK_DEADLOCK FALSE
