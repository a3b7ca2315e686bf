SPECIFICATION Spec
CONSTANTS
  Names = {a, b}
  NoName = NoName
  Values = {v}
  NSlots = 3
  LastDisk = 4
  LastScan = 5
  FatSectors = 1
  SectorOf <- OneSector
  MaxLen = 2
  Ops = {"create", "write"}
  MaxFaults = 0
  MaxCrashes = 2
INVARIANT SharingInv
INVARIANT ReadBack
PROPERTY CallsReturn
