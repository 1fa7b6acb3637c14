SPECIFICATION Spec
CONSTANTS
  Clients = {"a", "b", "c"}
  Branches = {"x", "y", "z"}
  Shared = FALSE
  Channels = {"build"}
  Trying = FALSE
  MaxCrashes = 0
INVARIANT BuildsExclusive
\* Every request is made once: the system stops when all are through.
CHECK_DEADLOCK FALSE
