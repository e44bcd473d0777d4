CONSTANTS
  r1 = r1
  o1 = o1
  o2 = o2
  p1 = p1
  NoOutput = NoOutput
  NoRoute = NoRoute
  Routes <- OneRoute
  Ruled <- OneRoute
  Outputs <- TwoOutputs
  Operators <- OneOperator
  Chunks = 2
  Attempts = 2
  MaxTime = 2
  MaxRoutings = 1
  MaxRequests = 1
  MaxRedeliveries = 1
  MaxLost = 1
  MaxFaults = 1
SPECIFICATION Spec
INVARIANTS RepeatsAreExplained MissesAreExplained RecordsAreTrue
PROPERTY DetachIsFinal
CHECK_DEADLOCK FALSE
SYMMETRY Symmetry
