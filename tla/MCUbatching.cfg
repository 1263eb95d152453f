CONSTANTS
  NumUbatches = 2
  Plans <- AllPlans
SPECIFICATION FairSpec
INVARIANTS
  OneThreadRuns
  KernelsHaveInputs
  CollectivesInOrder
PROPERTIES
  PassEnds
CHECK_DEADLOCK FALSE
