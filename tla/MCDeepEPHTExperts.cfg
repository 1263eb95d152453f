SPECIFICATION Spec
CONSTANTS
  NumRanks = 2
  NumLocal = 2
  NumTokens = 2
  TopK = 2
  Capacity = 3
  IdSpaces = {"global", "local", "direct"}
  BlockSizes <- SharedOrNot
  Routings <- TwoTokens
  Thresholds = {2, 4}
INVARIANTS InBounds OutputIsRouted
CHECK_DEADLOCK FALSE
