CONSTANTS
  turn = turn
  a1 = a1
  a2 = a2
  stop = stop
  read = read
  edit = edit
  spawn = spawn
  wait = wait
  NoLoop = NoLoop
  NoTool = NoTool
  NoApproval = NoApproval
  Starter = turn
  Approvers <- TwoApprovers
  Stoppers <- OneStopper
  Tools <- ProcessTools
  Spawning <- Spawner
  Reaping <- Waiter
  Policies <- AskSpawnOnly
  Responses <- SpawnThenWait
  MaxRounds = 2
  MaxNudges = 1
  MaxRetries = 0
  MaxRecoveries = 0
  MaxFaults = 1
  MaxRestarts = 1
SPECIFICATION SerialSpec
INVARIANT ProcessesAreTracked
PROPERTY ImplementsLife
CHECK_DEADLOCK FALSE
SYMMETRY ApproverSymmetry
