SPECIFICATION VSpec
CONSTANTS
  E820Maps <- MCMaps
  OneMB = 2
  Base = 7
  Cap = 8
  Fallback = 8
  AddressRange = 64
  BitsPerPage = 2
  MaxCount = 3
  MaxDepth = 1
  Occupied = {1, 2, 3}
  Fan = 2
  VPages = {1, 2, 3, 4}
  Physical = {20}
  MaxRange = 3
  MaxTlb = 1
INVARIANT CountExact
INVARIANT PagesAccounted
INVARIANT ScanInBitmap
INVARIANT TlbCoherent
INVARIANT TablesAreTree
PROPERTY RangesWhole
