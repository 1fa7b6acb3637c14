SPECIFICATION Spec
CONSTANTS
  Coroutines = {a, b}
  Awaiters = {a, b}
  Capacity = 1
  BatchLimit = 2
  MaxItems = 2
  MaxLag = 0
  None = None
INVARIANT NoCallDestroyed
CHECK_DEADLOCK FALSE
