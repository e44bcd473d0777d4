SPECIFICATION Spec
CONSTANTS
  tick = tick
  pump = pump
  Tick <- tick
  Pumps = {}
  Messages = {}
  Results = {2}
  MaxTroubles = 1
PROPERTY CancelIsKept
CHECK_DEADLOCK FALSE
