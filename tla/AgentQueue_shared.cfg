SPECIFICATION FairSpec
CONSTANTS
  Clients = {"a", "b", "c"}
  Branches = {"x", "y", "z"}
  Shared = TRUE
  Channels = {"merge"}
  Trying = FALSE
  MaxCrashes = 0
PROPERTY AcquireSucceeds
\* Every request is made once: the system stops when all are through.
CHECK_DEADLOCK FALSE
