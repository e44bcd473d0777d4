CONSTANTS
  turn = turn
  a1 = a1
  a2 = a2
  stop = stop
  read = read
  edit = edit
  spawn = spawn
  wait = wait
  NoLoop = NoLoop
  NoTool = NoTool
  NoApproval = NoApproval
  Starter = turn
  Approvers = {}
  Stoppers <- OneStopper
  Tools <- TwoTools
  Spawning = {}
  Reaping = {}
  Policies <- EditPolicies
  Responses <- MixedCalls
  MaxRounds = 1
  MaxNudges = 0
  MaxRetries = 0
  MaxRecoveries = 0
  MaxFaults = 0
  MaxRestarts = 0
SPECIFICATION Spec
PROPERTY StopCancelsTheTurn
CHECK_DEADLOCK FALSE
