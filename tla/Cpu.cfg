SPECIFICATION Spec
CONSTANTS
  Target <- MCTarget
  Displacement <- MCDisplacement
  Operand <- MCOperand
  InitialSp <- MCInitialSp
  Value = {0}
  InitialMem <- MCInitialMem
  MaxSteps = 3
INVARIANTS
  SrImplemented
  RteUndoesException
  FramesAreUndone
PROPERTIES
  PcEven
  SupervisorByException
  StacksIsolated
\* The bound on the instructions stops the behaviours.
CHECK_DEADLOCK FALSE
