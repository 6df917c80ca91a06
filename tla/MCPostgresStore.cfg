CONSTANTS
  p1 = p1  p2 = p2
  r1 = r1  r2 = r2  r3 = r3
  s1 = s1  s2 = s2
  w1 = w1  w2 = w2
  None = None
  Procs = {p1, p2}
  Runs = {r1, r2, r3}
  Steps = {s1, s2}
  Workflows = {w1, w2}
  Setups <- MCSetups
  Versions = 4
  Limit = 1
  FailureLimit = 1
SPECIFICATION Spec
INVARIANTS
  TypeOK
  MigratedBeforeUse
  AttemptsFollowRuns
  ReadersMissNothing
CHECK_DEADLOCK FALSE
