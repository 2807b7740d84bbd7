SPECIFICATION Spec
CONSTANTS
  w1 = w1
  w2 = w2
  r1 = r1
  RunIds = {r1}
  Workers = {w1, w2}
  Commits = {c1, c2}
  Manifests = {}
  Nil = Nil
  TicksPerSecond = 1
  DigitUnits = {1}
  LeaseTicks = 2
  HeartbeatTicks = 1
  Presubmitted = {}
  Threads <- LoopsAndRequest
  Faults = {"ack lost", "stage", "crash"}
  MaxFailures = 1
  MaxTime = 2
INVARIANTS OneExecutorPerAttempt EveryAttemptUsesThePinnedCommit ManifestIsAuthentic
PROPERTIES FencedThreadsChangeNothing
SYMMETRY CommitSymmetry
CHECK_DEADLOCK FALSE
