SPECIFICATION Spec
CONSTANTS
  k1 = k1
  Nil = Nil
  Running = Running
  Resources = {k1}
  Lines <- MCLines
  ExitCodes = {0, 1, 2, 3}
  SkipReasons = {}
  Found = {0, 3}
  MaxTargets = 2
  ResultsPerTarget = 4
INVARIANTS
  TypeOK
  OutputIsFinal
  OneResultPerStep
  NoFindingsMeansChecked
  CompleteMeansJudged
  FindingsSurviveFailures
PROPERTIES
  ExecuteReturns
CHECK_DEADLOCK FALSE
