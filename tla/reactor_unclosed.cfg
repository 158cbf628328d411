CONSTANTS
  Conns = {c1, c2}
  Fds = {f1, f2}
  Loops = {l0, l1}
  Loop0 = l0
  Server = "http"
  None = None
SPECIFICATION Spec
INVARIANTS ClosedIsClosed
CHECK_DEADLOCK FALSE
