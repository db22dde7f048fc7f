CONSTANTS
  f1 = f1
  f2 = f2
  FileNames = {f1, f2}
  NumSectors = 11
  SectorSize = 2
  NumDirEntries = 4
  NumSlots = 5
  NumDirect = 2
  Sizes = {1, 3, 5}
  Texts <- MCTexts
  Offsets = {1}
  MaxIndex = 3
SPECIFICATION Spec
SYMMETRY Symmetric
INVARIANTS
  FreeMapExact
  WrittenIsRead
  StopKeepsFiles
CHECK_DEADLOCK FALSE
