SPECIFICATION TimedSpec
CONSTANTS
  w1 = w1
  w2 = w2
  r1 = r1
  RunIds = {r1}
  Workers = {w1}
  Commits = {c1}
  Manifests = {}
  Nil = Nil
  TicksPerSecond = 1
  DigitUnits = {1}
  LeaseTicks = 2
  HeartbeatTicks = 1
  WorkTicks = 2
  Presubmitted = {}
  Threads <- LoopAndRequest
  Faults = {}
  MaxFailures = 0
  MaxTime = 20
INVARIANTS HealthyAttemptsAreLeftAlone
CHECK_DEADLOCK FALSE
