SPECIFICATION MCSpec
CONSTANTS
  Size = 3
  McMax = 2
  MaxWords = 1
  Cpu = {c0, c1}
  ZeroCpu = c0
  Word = {0, 1}
  Fields = {"mnemonic"}
  Text = {"", "t"}
  Base = 8
  MemSize = 16
  Room = 6
  Row = 4
  Span = 5
  Wide = 64
  Bad = Bad
  Files <- MCFiles
  Numbers <- MCNumbers
INVARIANTS
  DumpIsRecent
  LongIsTwoWords
  LoadedIsImage
  DumpShowsRange
PROPERTIES
  DumpEnds
