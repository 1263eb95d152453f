SPECIFICATION FairSpec
CONSTANTS
  NumRequests = 2
  NumEngines = 2
  Client = {c1}
  Plans <- PausePlans
PROPERTY EveryPassIsJoined
CHECK_DEADLOCK FALSE
