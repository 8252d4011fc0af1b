SPECIFICATION Spec
CONSTANTS
  zero = zero
  super = super
  v1 = v1
  v2 = v2
  Torn = Torn
  None = None
  Total = 5
  WordMax = 7
  Slots = 2
  Entries <- MCEntries
  Data <- MCData
  Buffers <- MCBuffers
  Offsets = {0, 1}
  Media <- MCMedia
  BlockCount = 3
  Super = super
  Values = {v1, v2}
  MaxHandles = 1
INVARIANTS
  TableSurvives
  NoAssertion
  Durable
  NoneLeftOpen
PROPERTIES
  Confinement
  ErrorsReported
CHECK_DEADLOCK FALSE
