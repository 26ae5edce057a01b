SPECIFICATION SessionSpec
CONSTANTS
  MessageRun = {m1}
  GatewayRun = {g1}
  CompactRun = {}
  Sub = {a}
  None = None
  MessageEvents = 1
  GatewayEvents = 2
  MaxLosses = 1
  MaxRestarts = 1
  MaxFinished = 1
  MaxRows = 4
  MaxCalls = 2
  MaxFolds = 2
  MaxGuests = 1
INVARIANTS
  SessionTypeOK
  NoGhostStream
  PromptPairs
  NothingForgotten
PROPERTIES
  FeedSpec
  WatcherIsReleased
CHECK_DEADLOCK FALSE
