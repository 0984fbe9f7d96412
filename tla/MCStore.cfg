SPECIFICATION Spec
CONSTANTS
  file1 = file1
  file2 = file2
  file3 = file3
  Names = {file1, file2, file3}
  NClusters = 5
  NInodes = 4
  DirEntries = 2
  Sizes = {1, 2}
  OffAt <- MCAnywhere
  MaxCrashes = 1
  FRAME_SIZE = 96
  HDR = 32
  NFrames = 4
  Requests <- MCRequests
  MaxOthers = 2
SYMMETRY MCSymmetry
INVARIANTS FilesReadBack NoSharing BitmapsExact Tiled Coalesced
PROPERTY ImplementsAllocator
