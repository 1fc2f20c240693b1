CONSTANTS
  x = x
  y = y
  w = w
  None = None
  InputVars = {x, y}
  NumOutputs = 2
  Uses <- MCChain
  Capacity = 1
  SubCapacity = 1
  MaxMessages = 2
  Faults = {"payload", "closed", "publish"}
SPECIFICATION FairSpec
INVARIANTS OkMeansDrained OnlyFaultsEnd FailureIsContained
PROPERTIES HeadOfLine AllPublished CleansUp
CHECK_DEADLOCK FALSE
