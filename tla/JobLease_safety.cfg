SPECIFICATION Spec
CONSTANTS
  Job = {j1}
  Session = {s1, s2}
  Handler = {h1, h2, h3}
  Maintainer = {m1}
  Mortal = {h1, h2, h3, m1}
  None = None
  LeaseDuration = 2
  MaxFailures = 2
  RetryCooldown = 3
  MaxRetryCooldown = 2
  FailureBound = 2
SYMMETRY Symmetry
INVARIANTS
  TypeOK
  RowCoherent
PROPERTIES
  CooldownServed
  BoardSpec
