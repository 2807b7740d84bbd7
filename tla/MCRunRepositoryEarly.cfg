SPECIFICATION Spec
CONSTANTS
  RunIds = {r1}
  Workers = {w1, w2}
  Commits = {c1, c2}
  Manifests = {m1, m2}
  Nil = Nil
  TicksPerSecond = 2
  DigitUnits = {1, 2}
  LeaseTicks = 2
  Times <- MCTimes
  AttemptNos <- MCAttemptNos
PROPERTIES ReclaimOnlyExpired
CHECK_DEADLOCK FALSE
