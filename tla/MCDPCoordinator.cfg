SPECIFICATION FairSpec
CONSTANTS
  NumRequests = 2
  NumEngines = 2
  Client = {c1}
  Plans <- AllPlans
INVARIANTS
  OneWave
  IdleIsKnown
  PauseHolds
PROPERTIES
  PassIsJoinedUnlessIgnored
  PauseCompletes
CHECK_DEADLOCK FALSE
