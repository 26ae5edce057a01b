SPECIFICATION WSpec
CONSTANTS
  Job = {j1, j2}
  Session = {s1}
  Handler = {s1}
  Maintainer = {p}
  Mortal = {s1}
  Poller = p
  None = None
  LeaseDuration = 1
  MaxFailures = 2
  RetryCooldown = 1
  MaxRetryCooldown = 1
  FailureBound = 3
  HeartbeatInterval = 1
  Limits = {1}
  AgentClaims = TRUE
INVARIANTS
  LeaseLivesWithTurn
