SPECIFICATION FairSpec
CONSTANTS
  NReader = 2
  MaxChunks = 2
  Plans <- AllPlans
INVARIANTS
  NoTornRead
PROPERTIES
  RefinesBroadcastQueue
  EveryMessageIsReceived
  ShutdownEndsReader
CHECK_DEADLOCK FALSE
