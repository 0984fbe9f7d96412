SPECIFICATION FSSpec
CONSTANTS
  file1 = file1
  file2 = file2
  file3 = file3
  Names = {file1, file2, file3}
  NClusters = 5
  NInodes = 4
  DirEntries = 2
  Sizes = {1, 2}
  OffAt <- MCReboot
  MaxCrashes = 1
INVARIANT Persistence
