CONSTANTS
  Plans <- AllPlans
  PlacementsOf <- Placements_
  MaxInFlight = 1
SPECIFICATION FairSpec
INVARIANTS
  TokensFindTheirExpert
PROPERTIES
  MainThreadsGoOn
  RearrangementCompletes
