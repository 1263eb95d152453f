SPECIFICATION FairSpec
CONSTANTS
  r1 = r1
  r2 = r2
  r3 = r3
  x = x
  y = y
  z = z
  Request <- Requests
  Token = {x, y, z}
  MaxTokens = 4
  NumBlocks = 5
  MaxWorkers = 2
  Configs <- All
  FairConfigs <- Fair
INVARIANTS
  JobsAccounted
  AttendsToOwnKV
  StoredKVIsRight
PROPERTIES
  EveryRequestIsForgotten
CHECK_DEADLOCK FALSE
