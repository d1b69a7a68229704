CONSTANTS
  n = 3
  Ring <- MCRing
  Zero = 0
  One = 1
  Plus <- ModPlus
  Neg <- ModNeg
  Times <- ModTimes
  Vectors <- MCVectors
  GateTypes <- AllGateTypes
  Layers = 2
  Differences <- MCDifferences
  TripleDraws <- MCDraws
  Confs <- MCConfs
SPECIFICATION MCSpec
INVARIANTS Reconstructed Ranked SharedGraph SameOpened
