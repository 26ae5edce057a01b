SPECIFICATION PartsSpec
CONSTANTS
  ServeRun = {s1}
  GatewayRun = {g1}
  None = None
  StaleAfter = 1
  MaxAborts = 1
  MaxFaults = 1
  NoSession = NoSession
  MaxRetries = 2
  MaxReloads = 1
  MaxReconnects = 1
  MaxDeaths = 1
  Schedule = {d1, d2}
  NoPlan = NoPlan
  MaxTime = 2
  MaxEdits = 3
  MaxSchedFaults = 1
  Message = {x1, x2}
  MaxAttempts = 2
  MaxStops = 2
  Payload = {p, q}
  MaxSubmits = 4
  NoChild = NoChild
  Save = {v1, v2}
  MaxSpawns = 5
  MaxRespawns = 2
  MaxCrashes = 2
INVARIANTS
  PartsTypeOK
  OneActiveRun
  LoserIsTold
  AnnouncedOnceWhenFree
  ConnIsNewest
  StatusIsOwned
  OneOpenJob
  TurnsBounded
  GivenUpIsRecorded
  TurnsInOrder
  NobodyStranded
  DeadIsRespawned
  NoOrphanServe
PROPERTIES
  RowKept
  NoFiringLost
  AbortIsHeard
  SessionComesFree
  NonePassedOver
CHECK_DEADLOCK FALSE
