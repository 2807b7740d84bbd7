SPECIFICATION LockSpec
CONSTANTS
  p1 = p1
  p2 = p2
  p3 = p3
  here = here
  there = there
  Threads <- OneEach
  Host <- MCHost
  CrashProne = {p1}
  None = None
INVARIANTS OneHolderUntilACrash
PROPERTIES AcquireReturns DeadOwnersLockIsBroken
