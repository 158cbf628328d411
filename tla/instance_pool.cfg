CONSTANTS
  Threads = {t1, t2, t3}
  FirstSize = 1
  MaxSlots = 4
  Zero = Zero
  None = None
SPECIFICATION Spec
INVARIANTS SlotsAccounted GiveBackHasRoom ObjectsIntact
CHECK_DEADLOCK FALSE
