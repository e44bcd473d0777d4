CONSTANTS
  Consumer = Consumer
  tick = tick
  pump = pump
  target = target
  Background <- TwoThreads
  Followers <- OneTarget
  EventBusRequired = TRUE
  MaxCopies = 2
  MaxTroubles = 2
SPECIFICATION FairSpec
INVARIANTS TurnsAreExplained EndsAreReported 
PROPERTIES RevivalNeedsAHolder ToldIsFinal QueuedTaskEnds
CHECK_DEADLOCK FALSE
