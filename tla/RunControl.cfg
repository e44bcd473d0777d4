CONSTANTS
  turn = turn
  a1 = a1
  a2 = a2
  stop = stop
  read = read
  edit = edit
  spawn = spawn
  wait = wait
  NoLoop = NoLoop
  NoTool = NoTool
  NoApproval = NoApproval
  Starter = turn
  Approvers <- TwoApprovers
  Stoppers <- OneStopper
  Tools <- TwoTools
  Spawning = {}
  Reaping = {}
  Policies <- ChangingPolicies
  Responses <- MixedCalls
  MaxRounds = 1
  MaxNudges = 0
  MaxRetries = 1
  MaxRecoveries = 0
  MaxFaults = 1
  MaxRestarts = 1
SPECIFICATION Spec
INVARIANTS WaitingIsResumable PolicyIsKept GrantsAreSpentOnce RunningHasAThread
PROPERTY TerminalIsFinal
CHECK_DEADLOCK FALSE
SYMMETRY ApproverSymmetry
