SPECIFICATION Spec
CONSTANTS
  Names = {a, b}
  NoName = NoName
  Values = {v}
  NSlots = 2
  LastDisk = 4
  LastScan = 4
  FatSectors = 1
  SectorOf <- OneSector
  MaxLen = 2
  Ops = {"create", "write"}
  MaxFaults = 1
  MaxCrashes = 0
INVARIANT WrittenOnMedium
