CONSTANTS
  Conns = {c1, c2}
  Fds = {f1, f2}
  Loops = {l0, l1, l2}
  Loop0 = l0
  Server = "http"
  None = None
SPECIFICATION Spec
SYMMETRY Symmetry
INVARIANTS OwnFd RefCounted HandledConnIsWhole CloseDestroys WriterHasReply Inv
PROPERTIES ReplyArms
CHECK_DEADLOCK FALSE
