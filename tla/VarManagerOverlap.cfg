\* Callers that overlap subscribe() and tick() as the signatures allow.
CONSTANTS
  Values = 2
  MaxSubs = 2
  Capacity = 1
  Manual = {m1, m2}
  Runner = r
  MaxClock = 2
  Overlap = TRUE
SPECIFICATION Spec
INVARIANTS
  NoGapBeforeCancel
CHECK_DEADLOCK FALSE
