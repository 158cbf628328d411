CONSTANTS
  Scripts <- MCScripts
  FileSize = 4
  Cap = 2
  None = None
SPECIFICATION FairSpec
INVARIANTS TypeOK EchoIntact ResponsesIntact
PROPERTIES WaitingIsServed
CHECK_DEADLOCK FALSE
