CONSTANTS
  BLOCK_SIZE = 2
  Capacity = 2
  Word = 16
  Circuits <- MCCircuits
  Before <- MCBefore
  Broken <- AnyBroken
SPECIFICATION Spec
INVARIANT Whole
