SPECIFICATION Spec
CONSTANTS
  Chars = {a, b}
  Blank = Blank
  CURSOR_LEFT = CURSOR_LEFT
  BACKSPACE = BACKSPACE
  PromptChar = PromptChar
  MAX_INPUT = 5
  HISTORY_SIZE = 2
  VGA_WIDTH = 4
INVARIANTS ScreenShowsLine HistoryRecalled
