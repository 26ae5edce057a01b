SPECIFICATION TurnFairSpec
CONSTANTS
  Child = {c1, c2}
  Hanging = {c2}
  MaxPer = 2
  MaxSteps = 2
  MaxCalls = 2
  MaxOutput = 1
  MaxCutTool = 1
  MaxRecovery = 1
  GateBudget = 1
  MaxTurns = 2
  MaxAborts = 1
INVARIANTS
  TurnTypeOK
  ResultsAccounted
  CallsSettled
  StopLeavesNoChild
PROPERTIES
  TurnEnds
  StopEndsTurn
CHECK_DEADLOCK FALSE
