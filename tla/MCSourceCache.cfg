SPECIFICATION Spec
CONSTANTS
  h1 = h1
  h2 = h2
  r1 = r1
  r2 = r2
  n = n
  m = m
  c1 = c1
  c2 = c2
  Hosts = {h1, h2}
  Runs = {r1, r2}
  Names = {n, m}
  Commits = {c1, c2}
  History <- MCHistory
  Requests <- MCRequests
  Places <- MCPlaces
  FirstRemote <- MCRemote
  Faults = {"crash", "remote", "write", "read", "lock"}
  Moves <- MCMoves
  MaxChanges = 2
  Nil = Nil
INVARIANTS WorkspacesShowThePin OnlyFailedRemovalsLeaveWorkspaces WorkspaceStaysWhileInUse LockIsHeldForCommands
PROPERTIES SourceWasAtTheRemote ReplayNeedsNoRemote
CHECK_DEADLOCK FALSE
