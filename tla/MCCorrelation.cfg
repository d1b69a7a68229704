CONSTANTS
  Idx <- MCIdx
  Circuits <- MCCircuits
  VecSize = 2
  MaxReps = 2
SPECIFICATION FairSpec
INVARIANTS
  TypeOK
  Aligned
  PermsKnown
  SharedMask
  NoReuse
  Consumed
  LevelsMatch
PROPERTY Termination
