----------------------------- MODULE LineEditor -----------------------------
(***************************************************************************)
(* The line the shell reads at its prompt (the first half of shell_main of  *)
(* src/programs/shell/shell.c): the line and a cursor in it, the ring of    *)
(* earlier lines, and what vga_putchar of src/src/vga.c makes of the        *)
(* characters that shell_main prints.                                       *)
(*                                                                         *)
(* The screen's cursor never goes up, so of the screen only its row is kept *)
(* and what is below is blank.  A prompt is one character.                  *)
(***************************************************************************)
EXTENDS Integers, Sequences, SequencesExt

CONSTANTS
  Chars,          \* what can be typed
  Blank,          \* a space, and an empty cell
  CURSOR_LEFT,    \* the character that moves the screen's cursor to the left
  BACKSPACE,      \* the one that blanks the cell it moves to
  PromptChar,
  MAX_INPUT, HISTORY_SIZE, VGA_WIDTH

ASSUME EditorAssumption ==
  /\ MAX_INPUT \in Nat \ {0, 1} /\ HISTORY_SIZE \in Nat \ {0} /\ VGA_WIDTH \in Nat \ {0, 1}
  /\ {Blank, CURSOR_LEFT, BACKSPACE, PromptChar} \cap Chars = {}
  /\ CURSOR_LEFT # BACKSPACE /\ {CURSOR_LEFT, BACKSPACE} \cap {Blank, PromptChar} = {}

VARIABLES
  input, cursor,
  hist_nav,                  \* -1, or how far back the line shown was
  history, history_count, history_write,
  screen,                    \* the row of the screen's cursor, and its column
  start,                     \* the column behind the prompt
  clean,                     \* the row was blank there when the prompt was printed
  wrapped,                   \* the line has reached the end of the row since then
  entered                    \* the last lines entered, oldest first

line == <<input, cursor, hist_nav>>
ring == <<history, history_count, history_write, entered>>
prompt == <<start, clean>>
vars == <<line, ring, screen, prompt, wrapped>>

-----------------------------------------------------------------------------
(* The screen                                                              *)

BlankRow == [row |-> [i \in 0..(VGA_WIDTH - 1) |-> Blank], x |-> 0]

vga_putchar(scr, c) ==
  IF c \in {CURSOR_LEFT, BACKSPACE}
  THEN IF scr.x = 0 THEN scr
       ELSE [row |-> IF c = BACKSPACE THEN [scr.row EXCEPT ![scr.x - 1] = Blank] ELSE scr.row,
             x |-> scr.x - 1]
  ELSE IF scr.x = VGA_WIDTH - 1 THEN BlankRow
  ELSE [row |-> [scr.row EXCEPT ![scr.x] = c], x |-> scr.x + 1]

\* The screen scr once chars are printed on it, one after the other.
Printed(scr, chars) ==
  LET after[n \in 0..Len(chars)] == IF n = 0 THEN scr ELSE vga_putchar(after[n - 1], chars[n])
  IN  after[Len(chars)]
Shown(chars) == Printed(screen, chars)

Times(n, c) == [i \in 1..n |-> c]
Back(n) == Times(n, CURSOR_LEFT)
From(i, s) == SubSeq(s, i, Len(s))

-----------------------------------------------------------------------------
(* Keys                                                                    *)

Prints(chars) == screen' = Shown(chars)

\* The prompt, on the screen scr.
NewPrompt(scr) ==
  LET prompted == vga_putchar(scr, PromptChar)
  IN  /\ screen' = prompted /\ start' = prompted.x
      /\ clean' = (\A i \in prompted.x..(VGA_WIDTH - 1) : prompted.row[i] = Blank)
      /\ wrapped' = FALSE

EmptyLine == input' = <<>> /\ cursor' = 0 /\ hist_nav' = -1

StaysInRow == wrapped' = (wrapped \/ start + Len(input') >= VGA_WIDTH)

Reprinted(longer) == From(cursor + 1, longer) \o Back(Len(longer) - cursor - 1)

\* A line that gets as long as its buffer ends the loop: it is dropped.
Insert(c) ==
  LET longer == InsertAt(input, cursor + 1, c)
  IN  /\ IF Len(longer) < MAX_INPUT - 1
         THEN /\ input' = longer /\ cursor' = cursor + 1
              /\ Prints(Reprinted(longer)) /\ StaysInRow
              /\ UNCHANGED <<hist_nav, prompt>>
         ELSE EmptyLine /\ NewPrompt(Shown(Reprinted(longer)))
      /\ UNCHANGED ring

\* The mutant of Erased: the last character of the line stays.
ErasedPartly == LET rest == From(cursor + 1, input) IN <<BACKSPACE>> \o rest \o Back(Len(rest))

\* What is behind the cursor is printed one column to the left, and a space
\* over the last character.
Erased ==
  LET rest == From(cursor + 1, input)
  IN  <<BACKSPACE>> \o rest \o <<Blank>> \o Back(Len(rest) + 1)

Backspace ==
  /\ cursor > 0
  /\ input' = RemoveAt(input, cursor) /\ cursor' = cursor - 1
  /\ Prints(Erased) /\ StaysInRow
  /\ UNCHANGED <<hist_nav, ring, prompt>>

MoveLeft ==
  /\ cursor > 0
  /\ cursor' = cursor - 1 /\ Prints(Back(1))
  /\ UNCHANGED <<input, hist_nav, ring, prompt, wrapped>>

MoveRight ==
  /\ cursor < Len(input)
  /\ cursor' = cursor + 1 /\ Prints(<<input[cursor + 1]>>)
  /\ UNCHANGED <<input, hist_nav, ring, prompt, wrapped>>

\* The slot of the line entered nav lines before the last one.
Slot(nav) == (history_write - 1 - nav + HISTORY_SIZE) % HISTORY_SIZE

\* The line on the screen is overwritten with spaces, and another one printed.
Shows(nav, new) ==
  /\ hist_nav' = nav /\ input' = new /\ cursor' = Len(new)
  /\ Prints(Back(cursor) \o Times(Len(input), Blank) \o Back(Len(input)) \o new) /\ StaysInRow
  /\ UNCHANGED <<ring, prompt>>

Up == hist_nav < history_count - 1 /\ Shows(hist_nav + 1, history[Slot(hist_nav + 1)])

Down ==
  /\ hist_nav >= 0
  /\ Shows(hist_nav - 1, IF hist_nav = 0 THEN <<>> ELSE history[Slot(hist_nav - 1)])

\* The mutant of Remember: a full ring is written over from one slot.
RememberOver ==
  /\ history' = [history EXCEPT ![history_count % HISTORY_SIZE] = input]
  /\ history_write' = (history_write + 1) % HISTORY_SIZE
  /\ history_count' = IF history_count < HISTORY_SIZE THEN history_count + 1 ELSE history_count

Remember ==
  /\ history' = [history EXCEPT ![history_write] = input]
  /\ history_write' = (history_write + 1) % HISTORY_SIZE
  /\ history_count' = IF history_count < HISTORY_SIZE THEN history_count + 1 ELSE history_count

LastLines(s) == IF Len(s) > HISTORY_SIZE THEN Tail(s) ELSE s

\* The next prompt comes on a row of its own.
Enter ==
  /\ IF input = <<>> THEN UNCHANGED ring ELSE Remember /\ entered' = LastLines(Append(entered, input))
  /\ EmptyLine
  /\ NewPrompt(BlankRow)

Init ==
  /\ input = <<>> /\ cursor = 0 /\ hist_nav = -1
  /\ history = [i \in 0..(HISTORY_SIZE - 1) |-> <<>>]
  /\ history_count = 0 /\ history_write = 0 /\ entered = <<>>
  /\ screen = vga_putchar(BlankRow, PromptChar) /\ start = screen.x /\ clean = TRUE /\ wrapped = FALSE

Next == (\E c \in Chars : Insert(c)) \/ Backspace \/ MoveLeft \/ MoveRight \/ Up \/ Down \/ Enter

Spec == Init /\ [][Next]_vars

-----------------------------------------------------------------------------
(* Properties                                                              *)

TypeOK ==
  /\ input \in Seq(Chars) /\ Len(input) < MAX_INPUT - 1 /\ cursor \in 0..Len(input)
  /\ history \in [0..(HISTORY_SIZE - 1) -> Seq(Chars)]
  /\ history_count \in 0..HISTORY_SIZE /\ history_write \in 0..(HISTORY_SIZE - 1)
  /\ hist_nav \in -1..(history_count - 1)
  /\ screen \in [row : [0..(VGA_WIDTH - 1) -> Chars \cup {Blank, PromptChar}], x : 0..(VGA_WIDTH - 1)]
  /\ clean \in BOOLEAN /\ wrapped \in BOOLEAN /\ start \in 0..(VGA_WIDTH - 1)

\* Through every edit and every recall of an earlier line, until the line
\* reaches the end of the row (CURSOR_LEFT stops at column 0), the screen shows
\* the line, with its cursor at the cursor, and nothing behind it if the row was
\* clean when the prompt was printed.
ScreenShowsLine ==
  /\ TypeOK
  /\ ~wrapped =>
       /\ screen.x = start + cursor
       /\ \A i \in DOMAIN input : screen.row[start + i - 1] = input[i]
       /\ clean => \A i \in (start + Len(input))..(VGA_WIDTH - 1) : screen.row[i] = Blank

\* The ring gives back the last lines entered, the latest first.
HistoryRecalled ==
  /\ history_count = Len(entered)
  /\ \A nav \in 0..(history_count - 1) : history[Slot(nav)] = entered[history_count - nav]
=============================================================================
