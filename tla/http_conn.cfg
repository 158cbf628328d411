CONSTANTS
  Plans <- MCPlans
  None = None
SPECIFICATION FairSpec
INVARIANTS TypeOK ResponseIsOwn
PROPERTIES SessionSpec CompleteIsAnswered
CHECK_DEADLOCK FALSE
