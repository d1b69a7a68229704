CONSTANTS
  BLOCK_SIZE = 2
  Capacity = 2
  Word = 16
  Circuits <- MCCircuits
  Before <- MCBefore
  Broken <- MCBroken
  Plans <- MCPlans
  VecSize = 3
  BlockSize = 2
  Repetitions = 2
SPECIFICATION MCSpec
INVARIANTS
  TypeOK
  Conserved
  NeverStuck
  Whole
  ChunksInOrder
  TriplesKept
PROPERTIES
  ImplementsRounds
  Completes
