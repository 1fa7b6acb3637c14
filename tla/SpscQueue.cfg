SPECIFICATION FairSpec
CONSTANTS
  Coroutines = {a, t}
  Awaiters = {a}
  Capacity = 2
  BatchLimit = 3
  MaxItems = 3
  MaxLag = 2
  None = None
INVARIANTS SlotExclusive HandlerExclusive SuspendedIsReachable
PROPERTIES FifoSpec 
CHECK_DEADLOCK FALSE
