SPECIFICATION Spec
CONSTANTS
  ByteBits = 2
  Regs = 3
  MemSize = 16
  Eas <- MCEas
  Values <- MCValues
  Lists <- MCLists
  Contents <- MCContents
  MaxSteps = 1
INVARIANTS
  TypeOK
  PushesArePopped
  InversePairs
  ChainsInMemory
PROPERTIES
  AddressErrorKeepsData
\* The steps are bounded.
CHECK_DEADLOCK FALSE
