SPECIFICATION FairSpec
CONSTANTS
  Contexts = {0, 1}
  MaxCalls = 5
  LineLen = 2
  BlockSize = 2
  MaxCount = 6
  InputLens = {1, 3}
  LowMax = 1
  HighMax = 1
  Phases = 2
  Waits = {24}
  Numerator = 12
  TickDen = 1
  Factor = 2
  Divisor = 8
  FifoSize = 3
  BufLens = {0, 2}
  MaxErrors = 1
  Programs <- MCPrograms
INVARIANTS
  Exclusive
  EngineServesOwner
  DigestIsInput
  NowIsTime
  WaitsLongEnough
  FreshWords
  MainMeansReady
PROPERTIES
  OutputWhole
  CallsReturn
CHECK_DEADLOCK FALSE
