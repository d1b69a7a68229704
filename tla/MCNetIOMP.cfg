SPECIFICATION FairSpec
CONSTANTS
  N = 4
  Rounds = 3
  Localhost = TRUE
INVARIANTS
  TypeOK
  PortsDistinct
  UsesEstablished
  NoStrayByte
PROPERTIES
  BarrierSpec
  Termination
