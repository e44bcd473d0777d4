SPECIFICATION FairSpec
CONSTANTS
  tick = tick
  pump = pump
  Tick <- tick
  Pumps <- OnePump
  Messages = {1}
  Results = {2}
  MaxTroubles = 1
INVARIANTS
  ClaimedHasAHolder
  ProcessedIsAccountedFor
PROPERTIES
  AnsweredOnce
  InboxIsServed
CHECK_DEADLOCK FALSE
