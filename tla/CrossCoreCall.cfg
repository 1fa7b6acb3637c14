SPECIFICATION FairSpec
CONSTANTS
  Calls = {a, b, c}
  a = a
  b = b
  c = c
  Capacity = 1
  None = None
INVARIANTS OutcomeAgreed ResultNotShared TaskOwnedOnce
PROPERTIES  CompletionWakesCaller
CHECK_DEADLOCK FALSE
