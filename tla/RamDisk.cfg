SPECIFICATION Spec
CONSTANTS
  DiskMax = 2
  Tracks = 2
  Sectors = 2
  SectorSize = 2
  BlockSectors = 2
  DriveArg = {1, 2, 256}
  Address = {0, 2}
  MemSize = 3
  Filler = 9
  Written <- MCWritten
  MaxTransfers = 2
  MaxSessions = 2
INVARIANT AstrayIsReported
PROPERTIES
  RefinesDisk
  SaveComesBack
