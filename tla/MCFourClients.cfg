CONSTANTS
  NClients = 4
  Bits = 1
  Word = 16
  Asserts = FALSE
  Slices <- InTurn
SPECIFICATION Spec
INVARIANT NoUndefined
