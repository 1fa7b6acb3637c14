SPECIFICATION Spec
CONSTANTS
  Commands = {c1, c2}
  Auths = {a1, a2}
  MaxPending = 3
  Timeouts = TRUE
  Cancels = FALSE
INVARIANT NoUseAfterFree
CHECK_DEADLOCK FALSE
