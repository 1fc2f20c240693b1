SPECIFICATION TrustSpec
CONSTANTS
  HalfTurn = 2
  Masks <- MCMasks
  NoMask = NoMask
  Window = 1
  Sensitivity = 0
  QueueBound = 1
  MaxChanges = 2
  MaxRestarts = 1
  Restartable = {"Plan", "Execute"}
PROPERTY StagesInOrder
PROPERTY DistrustIsFinal
