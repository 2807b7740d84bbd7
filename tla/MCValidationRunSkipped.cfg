SPECIFICATION Spec
CONSTANTS
  k1 = k1
  Nil = Nil
  Running = Running
  Resources = {k1}
  Lines <- MCLines
  ExitCodes = {0, 1, 2, 3}
  SkipReasons = {"SKIPPED_UNSUPPORTED", "ERROR"}
  Found = {0, 1}
  MaxTargets = 1
  ResultsPerTarget = 4
INVARIANT UnsupportedShowsInReport
CHECK_DEADLOCK FALSE
