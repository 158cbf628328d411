CONSTANTS
  Queues = {x, y}
  Items = {a, b}
  MaxLimit = 3
  Zero = Zero
SPECIFICATION Spec
INVARIANTS TypeOK WindowHoldsItems
PROPERTIES FifoSpec
