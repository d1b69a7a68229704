CONSTANTS
  Size = 5
  Nodes = 3
  Bits = 2
  Mod = 16
  Programs <- MCPrograms
  Graphs <- MCGraphs
  Secrets <- MCSecrets
SPECIFICATION Spec
INVARIANTS
  TypeOK
  Correct
  NoUndefined
  HeldUntilRead
  InPlaceExclusive
  LevelsSound
  DealerCanServe
  RevealedOnce
