SPECIFICATION FairSpec
CONSTANTS
  tick = tick
  pump = pump
  Tick <- tick
  Pumps <- OnePump
  Interval = 2
  MaxTime = 2
  MaxJobs = 2
  MaxTroubles = 1
INVARIANTS
  OneActiveJob
  FiresInItsMode
  CadenceIsKept
PROPERTIES
  UsersWordStands
  DueEnds
CHECK_DEADLOCK FALSE
