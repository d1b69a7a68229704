CONSTANTS
  Size = 5
  Nodes = 3
  Bits = 2
  Mod = 16
  Programs <- Deduplicated
  Graphs <- OnlyLoops
  Secrets <- MCSecrets
SPECIFICATION Spec
INVARIANT Correct
