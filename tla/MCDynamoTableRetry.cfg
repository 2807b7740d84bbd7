SPECIFICATION Spec
CONSTANTS
  RunIds = {r1}
  Workers = {w1, w2}
  Commits = {c1}
  Manifests = {m1}
  Nil = Nil
  TicksPerSecond = 1
  DigitUnits = {1}
  LeaseTicks = 1
  RenewTicks = 1
  Clocks <- MCClocks
  Expiries <- MCExpiries
  AttemptNos <- MCAttemptNos
  Calls = {k1, k2}
INVARIANTS ConditionalMeansRaceLost
CHECK_DEADLOCK FALSE
