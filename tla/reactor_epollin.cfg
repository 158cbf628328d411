CONSTANTS
  Conns = {c1}
  Fds = {f1}
  Loops = {l0}
  Loop0 = l0
  Server = "http"
  None = None
SPECIFICATION FairSpec
PROPERTIES EpollinReachesHandler
CHECK_DEADLOCK FALSE
