CONSTANTS
  Conns = {c1, c2}
  Fds = {f1, f2}
  Loops = {l0}
  Loop0 = l0
  Server = "tcp"
  None = None
SPECIFICATION FairSpec
INVARIANTS WatchedIsRegistered ClosedIsClosed HandlerHasSession
PROPERTIES FinCloses
CHECK_DEADLOCK FALSE
