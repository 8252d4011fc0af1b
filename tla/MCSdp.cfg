SPECIFICATION Spec
CONSTANTS
  Elfs <- MCElfs
  Dram <- MCDram
  Ocram <- MCOcram
  Padding = 1
  Reserved = 4
  ReportSize = 5
  Addresses = {1, 2}
  MaxSessions = 2
  MaxOutput = 1
INVARIANTS
  RunsWhatWasSent
  ProgramInPlace
PROPERTY
  SessionsEnd
CHECK_DEADLOCK FALSE
