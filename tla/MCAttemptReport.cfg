SPECIFICATION ReportSpec
CONSTANTS
  k1 = k1
  k2 = k2
  Nil = Nil
  Running = Running
  Resources = {k1, k2}
  Lines <- MCLines
  ExitCodes = {0, 1, 2, 3}
  SkipReasons = {}
  Found = {0, 2}
  MaxTargets = 1
  ResultsPerTarget = 5
INVARIANTS
  OutputIsFinal
  OneResultPerStep
  NoFindingsMeansChecked
  CompleteMeansJudged
  FindingsSurviveFailures
  FindingsAreJudgedOnce
  FailuresReachTheReview
  ProvenanceIsOfTheSource
PROPERTIES ExecuteReturns
CHECK_DEADLOCK FALSE
