SPECIFICATION SyncFairSpec
CONSTANTS
  NumCores = 3
  Dst = 1
  Capacity = 2
  BatchLimit = 2
  StoreBuffer = FALSE
  Awaiting = TRUE
  MaxRestarts = 1
INVARIANTS NoStrandedMessage DrainCoalesced
PROPERTY NoStarvation
