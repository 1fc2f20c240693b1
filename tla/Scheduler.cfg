CONSTANTS
  LocationSets <- MCLocationSets
  Central = "central"
  Vars <- MCVars
  ConstraintVars <- MCConstraintVars
  Messages <- MCMessages
  Workers <- MCWorkers
  Modes <- MCModes
  ConstraintSets <- MCConstraintSets
  FixedPlan <- MCFixedPlan
  QueueCap = 1
  GraphCap = 1
  VerdictCap = 1
  MaxMessages = 4
  MaxIterations = 3
  MaxRestarts = 1
SPECIFICATION FairSpec
INVARIANTS WorkFitsPlan VerdictsHold StarvedOnlyWithoutPlan PositionsPaired DistancesVanish
PROPERTY EndsAfterLoss
CHECK_DEADLOCK FALSE
