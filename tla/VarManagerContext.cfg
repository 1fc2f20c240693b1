\* A manager used as Context uses it.
CONSTANTS
  Values = 3
  MaxSubs = 3
  Capacity = 1
  Manual = {m}
  Runner = r
  MaxClock = 3
  Overlap = FALSE
SPECIFICATION FairSpec
INVARIANTS
  PermitBarrier
  PanicOnlyIfAbandoned
CHECK_DEADLOCK FALSE
PROPERTY ImplementsBroadcast
PROPERTY Delivery
