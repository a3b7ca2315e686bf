SPECIFICATION Spec
CONSTANTS
  HeapSize = 25
  SizeRange = 64
  Sizes = {0, 1, 2, 3, 4, 7, 19, 20}
  Counts = {2}
INVARIANT HeapInv
INVARIANT StatsExact
INVARIANT HeldFits
PROPERTY Regions
