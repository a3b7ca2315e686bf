SPECIFICATION Spec
CONSTANTS
  Names = {a, b}
  NoName = NoName
  Values = {v, w}
  NSlots = 3
  LastDisk = 4
  LastScan = 5
  FatSectors = 2
  SectorOf <- TwoSectors
  MaxLen = 2
  Ops = {"create", "write"}
  MaxFaults = 2
  MaxCrashes = 0
SYMMETRY Symmetry
INVARIANT TypeOK
INVARIANT NoSharedClusters
INVARIANT ReadBack
INVARIANT SizeCovered
INVARIANT LeakBounded
INVARIANT FatCoherent
