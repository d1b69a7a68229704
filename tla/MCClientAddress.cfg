CONSTANTS
  N = 4
  Rounds = 0
  Localhost = FALSE
SPECIFICATION Spec
INVARIANT PeersAddressed
