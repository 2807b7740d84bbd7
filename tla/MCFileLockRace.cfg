SPECIFICATION LockSpec
CONSTANTS
  p1 = p1
  p2 = p2
  p3 = p3
  here = here
  there = there
  Threads <- TwoSurvivors
  Host <- MCHost
  CrashProne = {p1}
  None = None
PROPERTIES LiveOwnersLockIsRetained
