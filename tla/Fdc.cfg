SPECIFICATION Spec
CONSTANTS
  SECTORS_PER_TRACK = 2
  HEADS = 1
  TRACKS = 2
  Values = {0, 1}
  Calls <- MCCalls
  NoCall = NoCall
  Failed = Failed
  RESULT_BYTES = 3
  Drives = 2
  MaxHlts = 2
  MaxFaults = 1
INVARIANT FdcInv
PROPERTIES SectorsDone CallsReturn
