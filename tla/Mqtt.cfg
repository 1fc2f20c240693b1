SPECIFICATION FairSpec
CONSTANTS
  Topics = {"x", "z"}
  Unread = {"z"}
  Garbled <- MCGarbled
  ChannelCap = 1
  StreamCap = 2
  MaxAttempts = 1
  MaxMessages = 2
  MaxTotal = 3
  MaxFaults = 2
INVARIANT NothingMissed
PROPERTIES Delivery ImplementsTransport
CHECK_DEADLOCK FALSE
