SPECIFICATION Spec
CONSTANTS
  RecordSize = 2
  Byte = {0, 1, 2}
  NUL = 0
  Absent = Absent
  HostContent <- MCHostContent
  CpmContent <- MCCpmContent
  OpenMax = 2
  MaxCopies = 3
INVARIANTS
  TypeOK
  CopyIsComplete
  FailureChangesNothing
  NoWriterForgotten
  RoundTrip
\* The emulator stops when it is ended.
CHECK_DEADLOCK FALSE
