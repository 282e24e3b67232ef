SPECIFICATION MCSpec
CONSTANTS
  SignBit = 8
  Source <- MCSource
  Counts <- MCCounts
INVARIANTS
  TypeOK
  CompareDecides
  ChainsAreWide
  ShiftsAreArithmetic
  RotationsAreInverse
  DivisionIsExact
  DecimalsAreExact
\* The host may kill the emulator.
CHECK_DEADLOCK FALSE
