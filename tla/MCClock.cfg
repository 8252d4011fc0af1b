SPECIFICATION Spec
CONSTANTS
  Contexts = {0, 1}
  MaxCalls = 5
  LineLen = 2
  BlockSize = 2
  MaxCount = 6
  InputLens = {1, 3}
  LowMax = 1
  HighMax = 1
  Phases = 2
  Waits = {1}
  Numerator = 1953125
  TickDen = 64
  Factor = 512
  Divisor = 512
  FifoSize = 3
  BufLens = {0, 2}
  MaxErrors = 1
  Programs <- MCClockPrograms
INVARIANTS
  DurationIsTicks
CHECK_DEADLOCK FALSE
