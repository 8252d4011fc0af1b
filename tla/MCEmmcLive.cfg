SPECIFICATION FairSpec
CONSTANTS
  b1 = b1
  b2 = b2
  v1 = v1
  v2 = v2
  Blocks <- MCBlocks
  Values <- MCValues
  Torn = Torn
  None = None
  Faults <- Answered
INVARIANT
  ResponseIsOwn
PROPERTY
  EveryCallReturns
