CONSTANTS
  turn = turn
  a1 = a1
  a2 = a2
  stop = stop
  read = read
  edit = edit
  spawn = spawn
  wait = wait
  NoLoop = NoLoop
  NoTool = NoTool
  NoApproval = NoApproval
  Starter = turn
  Approvers <- TwoApprovers
  Stoppers = {}
  Tools <- TwoTools
  Spawning = {}
  Reaping = {}
  Policies <- EditPolicies
  Responses <- MixedCalls
  MaxRounds = 1
  MaxNudges = 1
  MaxRetries = 1
  MaxRecoveries = 1
  MaxFaults = 0
  MaxRestarts = 1
SPECIFICATION FairSpec
PROPERTY TurnEnds
CHECK_DEADLOCK FALSE
