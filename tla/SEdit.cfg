SPECIFICATION Spec
CONSTANTS
  a = a
  b = b
  NL = NL
  Chars = {a, b}
  Typed = {a}
  MAX_LINES = 3
  MAX_LINE_LEN = 3
  SCREEN_ROWS = 3
  SCREEN_COLS = 3
  BUF_SIZE = 5
  BYTE = 4
  FirstFiles <- MCFirstFiles
  NoFile = NoFile
INVARIANT SEditInv
INVARIANT UnmodifiedUnlessLost
PROPERTY EditsText
