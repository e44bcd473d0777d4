CONSTANTS
  r1 = r1
  r2 = r2
  NoRow = NoRow
  OutboxIds <- MCRows
  BatchLimit = 1
  BackoffSteps = 2
  MaxPuts = 2
  MaxAckLoss = 1
  MaxFaults = 1
SPECIFICATION FairSpec
INVARIANTS CopiesAreExplained OrphansNeedAFault
PROPERTIES ImplementsQueue PendingIsSettled
CHECK_DEADLOCK FALSE
