CONSTANTS
  message = message
  command = command
  stray = stray
  misruled = misruled
  t1 = t1
  t2 = t2
  NoUpdate = NoUpdate
  Updates <- AllKinds
  Commands <- JustCommand
  Unroutable <- JustStray
  Misruled <- JustMisruled
  Threads <- TwoThreads
  MaxUpdates = 1
  MaxRequests = 2
  MaxCopies = 1
  MaxDeliveries = 2
  MaxRedeliveries = 1
  MaxFaults = 1
SPECIFICATION FairSpec
INVARIANTS ProcessedWentSomewhere CompletedHasOutput RepeatsNeedFaults PairsAreComplete
CHECK_DEADLOCK FALSE
PROPERTY AcceptedIsSettled
