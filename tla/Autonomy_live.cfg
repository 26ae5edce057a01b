SPECIFICATION WFairSpec
CONSTANTS
  Job = {j1}
  Session = {s1, s2}
  Handler = {s1, s2}
  Maintainer = {p, m1}
  Mortal = {s1, s2}
  Poller = p
  None = None
  LeaseDuration = 1
  MaxFailures = 2
  RetryCooldown = 1
  MaxRetryCooldown = 1
  FailureBound = 3
  HeartbeatInterval = 1
  Limits = {1}
  AgentClaims = FALSE
PROPERTIES
  ClaimIsSettled
