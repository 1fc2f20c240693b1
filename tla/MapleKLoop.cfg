SPECIFICATION FairSpec
CONSTANTS
  HalfTurn = 3
  Masks <- MCMasks
  NoMask = NoMask
  Window = 3
  Sensitivity = 0
  QueueBound = 1
  MaxChanges = 1
  MaxRestarts = 1
  Restartable = {"Monitor", "Plan", "Execute", "Legitimate"}
INVARIANTS OneAnomaly RobotFollowsPlan PlanSweepsOcclusions
PROPERTIES LostForGood ImplementsLoop Converges
