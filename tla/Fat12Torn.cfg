SPECIFICATION Spec
CONSTANTS
  Names = {a, b}
  NoName = NoName
  Values = {v}
  NSlots = 3
  LastDisk = 5
  LastScan = 5
  FatSectors = 2
  SectorOf <- TwoSectors
  MaxLen = 2
  Ops = {"create", "write"}
  MaxFaults = 1
  MaxCrashes = 2
SYMMETRY Symmetry
INVARIANT FirstClusterOnDisk
