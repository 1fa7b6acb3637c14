SPECIFICATION FairSpec
CONSTANTS
  NumCores = 2
  Dst = 0
  Capacity = 1
  BatchLimit = 1
  StoreBuffer = TRUE
  Awaiting = FALSE
  MaxRestarts = 0
PROPERTY EveryMessageDrained
