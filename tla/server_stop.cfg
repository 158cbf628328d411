CONSTANTS
  NumLoop = 2
  Conns = {c1, c2}
  MaxFd = 4
  MaxStops = 2
SPECIFICATION FairSpec
INVARIANTS NothingLeaks
PROPERTIES ClosesOwn RunReturns
CHECK_DEADLOCK FALSE
