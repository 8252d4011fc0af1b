SPECIFICATION Spec
CONSTANTS
  Cap = 4
  Wrap = 8
  Lengths = {1, 3}
  After <- MCAfter
PROPERTIES
  ImplementsQueues
