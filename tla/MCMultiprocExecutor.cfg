SPECIFICATION FairSpec
CONSTANTS
  WorldSize = 2
  OutputRank = 1
  MaxCalls = 5
  Configs <- AllConfigs
INVARIANTS
  RepliesMatchCalls
PROPERTIES
  EveryCallReturns
  DeathEndsEngine
CHECK_DEADLOCK FALSE
