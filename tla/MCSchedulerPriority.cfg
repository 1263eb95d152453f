SPECIFICATION Spec
CONSTANTS
  r1 = r1
  r2 = r2
  r3 = r3
  x = x
  y = y
  Eos = eos
  Request <- Requests
  Priority <- Priorities
  Token = {x, y, eos}
  Sampled = {x, eos}
  MaxModelLen = 7
  NumBlocks = 8
  BlockSize = 1
  Configs <- Preempting
  FairConfigs = {}
INVARIANTS
  ComputedKVIsValid
CHECK_DEADLOCK FALSE
