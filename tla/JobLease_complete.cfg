SPECIFICATION Spec
CONSTANTS
  Job = {j1}
  Session = {s1, s2}
  Handler = {h1, h2}
  Maintainer = {m1}
  Mortal = {h1, h2, m1}
  None = None
  LeaseDuration = 1
  MaxFailures = 2
  RetryCooldown = 1
  MaxRetryCooldown = 1
  FailureBound = 1
PROPERTIES
  CompletesOwnJob
