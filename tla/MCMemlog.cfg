SPECIFICATION FairSpec
CONSTANTS
  Cap = 3
  Wrap = 6
  Lengths = {1, 2}
  After <- MCAfter
INVARIANTS
  SliceIsOldest
PROPERTIES
  ImplementsQueues
  IsrLogLeaves
  MainLogLeaves
