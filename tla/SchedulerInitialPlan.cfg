CONSTANTS
  LocationSets <- MCLocationSets
  Central = "central"
  Vars <- MCVars
  ConstraintVars <- MCConstraintVars
  Messages <- MCMessages
  Workers <- MCNoWorkers
  Modes <- MCStaticModes
  ConstraintSets <- MCStaticConstraintSets
  FixedPlan <- MCFixedPlan
  QueueCap = 1
  GraphCap = 1
  VerdictCap = 1
  MaxMessages = 4
  MaxIterations = 3
  MaxRestarts = 1
SPECIFICATION FairSpec
PROPERTY InitialPlan
CHECK_DEADLOCK FALSE
