SPECIFICATION Spec
CONSTANTS
  MessageRun = {m1}
  GatewayRun = {}
  CompactRun = {c1}
  Sub = {a}
  None = None
  MessageEvents = 1
  GatewayEvents = 0
  MaxLosses = 0
  MaxRestarts = 0
  MaxFinished = 2
INVARIANT ActiveRunHasStream
CHECK_DEADLOCK FALSE
