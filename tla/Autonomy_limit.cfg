SPECIFICATION WSpec
CONSTANTS
  Job = {j1}
  Session = {s1, s2, s3}
  Handler = {s1, s2, s3}
  Maintainer = {p}
  Mortal = {s1, s2, s3}
  Poller = p
  None = None
  LeaseDuration = 1
  MaxFailures = 2
  RetryCooldown = 1
  MaxRetryCooldown = 1
  FailureBound = 3
  HeartbeatInterval = 1
  Limits = {1, 2}
  AgentClaims = FALSE
SYMMETRY SessionSymmetry
INVARIANTS
  WTypeOK
PROPERTIES
  RunsWithinLimit
