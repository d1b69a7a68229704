CONSTANTS
  Size = 5
  Nodes = 3
  Bits = 2
  Mod = 16
  Programs <- ClipFirst
  Graphs <- OnlyTwin
  Secrets <- MCSecrets
SPECIFICATION Spec
INVARIANT Correct
