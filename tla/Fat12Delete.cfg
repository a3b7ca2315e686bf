SPECIFICATION Spec
CONSTANTS
  Names = {a, b}
  NoName = NoName
  Values = {v}
  NSlots = 2
  LastDisk = 4
  LastScan = 4
  FatSectors = 2
  SectorOf <- TwoSectors
  MaxLen = 2
  Ops = {"create", "write", "delete"}
  MaxFaults = 1
  MaxCrashes = 0
INVARIANT SoundUntilFault
INVARIANT LeakBounded
