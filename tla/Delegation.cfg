SPECIFICATION FairSpec
CONSTANTS
  tick = tick
  pump = pump
  Workers <- TwoWorkers
  MaxAttempts = 2
  MaxTroubles = 2
INVARIANTS
  WaitsForSomebody
  ToldOnce
PROPERTIES
  CancelledStays
  DelegationEnds
CHECK_DEADLOCK FALSE
