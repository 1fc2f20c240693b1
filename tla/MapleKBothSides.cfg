SPECIFICATION Spec
CONSTANTS
  HalfTurn = 2
  Masks <- MCMasksBothSides
  NoMask = NoMask
  Window = 3
  Sensitivity = 0
  QueueBound = 1
  MaxChanges = 1
  MaxRestarts = 0
  Restartable = {}
INVARIANT PlanNeverFails
