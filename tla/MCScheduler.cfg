SPECIFICATION FairSpec
CONSTANTS
  r1 = r1
  r2 = r2
  r3 = r3
  x = x
  y = y
  Eos = eos
  Request <- Requests
  Priority <- Priorities
  Token = {x, y, eos}
  Sampled = {x, eos}
  MaxModelLen = 6
  NumBlocks = 5
  BlockSize = 2
  Configs <- All
  FairConfigs <- Fair
INVARIANTS
  QueuesMatchStatus
  FCFSKeepsKVValid
  PlaceholdersAreInFlight
  OutputsContinueRequest
  CascadePrefixIsCommon
  EvictionKeepsPrefixes
PROPERTIES
  EveryRequestFinishes
  UsesKVCacheManager
CHECK_DEADLOCK FALSE
