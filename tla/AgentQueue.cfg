\* The build and the merge channel: kills, cancellations, lost requests, liveness.
SPECIFICATION FairSpec
CONSTANTS
  Clients = {"a", "b", "c"}
  Branches = {"x", "y", "z"}
  Shared = FALSE
  Channels = {"build", "merge"}
  Trying = TRUE
  MaxCrashes = 1
INVARIANTS MergesExclusive BuildsExclusiveUnlessStrayed
PROPERTIES FirstComeFirstServed WaiterServed
\* Every request is made once: the system stops when all are through.
CHECK_DEADLOCK FALSE
