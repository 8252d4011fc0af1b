SPECIFICATION FairSpec
CONSTANTS
  OutSizes <- MCOutSizes
  InSizes <- MCInSizes
  Packets <- MCPackets
  MaxBulk = 1
  Upsets <- MCUpsets
  MaxUpsets = 1
INVARIANTS
  SetupDelivered
  NoPanic
  Survives
  InStep
  EchoIsOwn
PROPERTY
  HostServed
