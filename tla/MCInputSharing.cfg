CONSTANTS
  NClients = 2
  Bits = 2
  Word = 16
  Asserts = FALSE
  Slices <- MCSlices
SPECIFICATION FairSpec
INVARIANTS
  TypeOK
  
  
  OwnResults
  
PROPERTY
  Complete
