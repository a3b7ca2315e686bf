-------------------------------- MODULE SEdit --------------------------------
(***************************************************************************)
(* The editor (src/programs/sedit/SEdit.c): an array of lines, a cursor and *)
(* a window that follows it, and the file they are loaded from and saved    *)
(* to.  The editor is started on a file, or without a name, any number of   *)
(* times.                                                                  *)
(*                                                                         *)
(* Rows and columns count from 0, as in the code; lines[1] is row 0.        *)
(***************************************************************************)
EXTENDS Integers, Sequences, SequencesExt

CONSTANTS
  Chars, NL,
  Typed,                      \* the characters the user types
  MAX_LINES, MAX_LINE_LEN,    \* a line holds MAX_LINE_LEN - 1 characters
  SCREEN_ROWS, SCREEN_COLS,
  BUF_SIZE,                   \* the buffer a file is read to and written from
  BYTE,                       \* how many values a byte has
  FirstFiles,                 \* what the file may hold at first
  NoFile

ASSUME SEditAssumption ==
  /\ MAX_LINES \in Nat \ {0} /\ MAX_LINE_LEN \in Nat \ {0, 1} /\ BUF_SIZE \in Nat \ {0, 1, 2}
  /\ BYTE \in Nat \ {0} /\ MAX_LINES % BYTE # 0
  /\ SCREEN_ROWS \in Nat \ {0, 1} /\ SCREEN_COLS \in Nat \ {0, 1}
  /\ NL \notin Chars /\ Typed \subseteq Chars
  /\ FirstFiles \subseteq Seq(Chars \cup {NL}) \cup {NoFile}

VARIABLES
  file,                     \* what is on the disk, or NoFile
  running, named,           \* the editor runs; it was given a file name
  lines,
  cursor_row, cursor_col,
  scroll_row, scroll_col,   \* first visible row and column
  modified,
  lost                      \* the last load or save was not of the whole text

cursor == <<cursor_row, cursor_col>>
scroll == <<scroll_row, scroll_col>>
vars == <<file, running, named, lines, cursor, scroll, modified, lost>>

Row == cursor_row + 1
Line == lines[Row]
Before == SubSeq(Line, 1, cursor_col)
After == SubSeq(Line, cursor_col + 1, Len(Line))

-----------------------------------------------------------------------------
(* Files                                                                   *)

\* What a line has no room for is dropped.
ReadByte(ls, b) ==
  IF b = NL THEN Append(ls, <<>>)
  ELSE IF Len(Last(ls)) < MAX_LINE_LEN - 1 THEN ReplaceAt(ls, Len(ls), Append(Last(ls), b))
  ELSE ls

\* The lines ls once bytes are read behind them, and the lines of a file.  A
\* file that ends with NL has an empty line after it.
ReadBehind(ls, bytes) ==
  LET after[n \in 0..Len(bytes)] == IF n = 0 THEN ls ELSE ReadByte(after[n - 1], bytes[n])
  IN  after[Len(bytes)]
Split(bytes) == ReadBehind(<< <<>> >>, bytes)

ReadBytes(f) == IF Len(f) < BUF_SIZE THEN f ELSE SubSeq(f, 1, BUF_SIZE - 1)

\* Every line and an NL, cut when the buffer has room for one more byte.
Joined(ls) ==
  LET upTo[i \in 0..Len(ls)] == IF i = 0 THEN <<>> ELSE upTo[i - 1] \o Append(ls[i], NL)
  IN  upTo[Len(ls)]
SavedBytes ==
  LET bytes == Joined(lines)
      room == BUF_SIZE - 2
  IN  IF Len(bytes) <= room THEN bytes
      ELSE IF bytes[room] = NL THEN SubSeq(bytes, 1, room)
      ELSE Append(SubSeq(bytes, 1, room), NL)

\* load_file stops after MAX_LINES lines.  If the last byte it has read is NL, it
\* ends one line more, by a 0 behind the array.  That is the low byte of
\* line_count, which is counted up after it: of 1000 lines 769 are left.
Loaded(bytes) ==
  LET all == Split(bytes)
      count == IF Last(bytes) = NL THEN (MAX_LINES - (MAX_LINES % BYTE)) + 1 ELSE MAX_LINES
  IN  IF Len(all) <= MAX_LINES THEN all ELSE SubSeq(all, 1, count)

-----------------------------------------------------------------------------
(* Cursor and window                                                       *)

\* cursor_row, cursor_col := row, col; ensure_cursor_visible()
Follow(at, top, size) ==
  LET t == IF at < top THEN at ELSE top
  IN  IF at >= t + size - 1 THEN at - size + 2 ELSE t

ensure_cursor_visible(row, col) ==
  /\ cursor_row' = row /\ cursor_col' = col
  /\ scroll_row' = Follow(row, scroll_row, SCREEN_ROWS)
  /\ scroll_col' = Follow(col, scroll_col, SCREEN_COLS)

clamp_cursor_col(row) ==
  LET len == Len(lines[row + 1])
  IN  IF cursor_col > len THEN len ELSE cursor_col

MovesTo(row, col) ==
  /\ running
  /\ ensure_cursor_visible(row, col)
  /\ UNCHANGED <<file, running, named, lines, modified, lost>>

KeyUp == cursor_row > 0 /\ MovesTo(cursor_row - 1, clamp_cursor_col(cursor_row - 1))
KeyDown == cursor_row < Len(lines) - 1 /\ MovesTo(cursor_row + 1, clamp_cursor_col(cursor_row + 1))
KeyLeft == cursor_col > 0 /\ MovesTo(cursor_row, cursor_col - 1)
KeyLeftWraps == cursor_col = 0 /\ cursor_row > 0 /\ MovesTo(cursor_row - 1, Len(lines[cursor_row]))
KeyRight == cursor_col < Len(Line) /\ MovesTo(cursor_row, cursor_col + 1)
KeyRightWraps == cursor_col = Len(Line) /\ cursor_row < Len(lines) - 1 /\ MovesTo(cursor_row + 1, 0)

-----------------------------------------------------------------------------
(* Editing                                                                 *)

\* The mutant of Edits: modified = 1 is forgotten where the text gets shorter.
EditsUnmarked(newLines, row, col) ==
  /\ running
  /\ lines' = newLines
  /\ modified' = (modified \/ Len(Joined(newLines)) > Len(Joined(lines)))
  /\ ensure_cursor_visible(row, col)
  /\ UNCHANGED <<file, running, named, lost>>

Edits(newLines, row, col) ==
  /\ running
  /\ lines' = newLines
  /\ modified' = TRUE
  /\ ensure_cursor_visible(row, col)
  /\ UNCHANGED <<file, running, named, lost>>

Enter ==
  /\ Len(lines) < MAX_LINES
  /\ Edits(InsertAt(ReplaceAt(lines, Row, Before), Row + 1, After), cursor_row + 1, 0)

Backspace ==
  /\ cursor_col > 0
  /\ Edits(ReplaceAt(lines, Row, Front(Before) \o After), cursor_row, cursor_col - 1)

\* The line is merged with the one before it, if that is long enough.
Merged == lines[cursor_row] \o Line

\* The mutant of Fits: no room is left for the byte that ends the line.
FitsLoose == Len(Merged) <= MAX_LINE_LEN
Fits == Len(Merged) < MAX_LINE_LEN

\* The mutant of MergeColumn: the cursor goes to the end of the merged line.
MergeColumnEnd == Len(Merged)
MergeColumn == Len(lines[cursor_row])

BackspaceMerges ==
  /\ cursor_col = 0 /\ cursor_row > 0 /\ Fits
  /\ Edits(RemoveAt(ReplaceAt(lines, cursor_row, Merged), Row), cursor_row - 1, MergeColumn)

Insert(c) ==
  /\ Len(Line) < MAX_LINE_LEN - 1
  /\ Edits(ReplaceAt(lines, Row, Append(Before, c) \o After), cursor_row, cursor_col + 1)

-----------------------------------------------------------------------------
(* Saving, quitting and starting                                           *)

\* write_file has written all when it reports a number of bytes.
Save ==
  /\ running /\ named
  /\ file' = SavedBytes /\ lost' = (SavedBytes # Joined(lines))
  /\ modified' = FALSE
  /\ UNCHANGED <<running, named, lines, cursor, scroll>>

\* It writes over the sectors of the file, of one byte here, and then sets the
\* length.  When one of these fails it reports 0, and what is written stays.
Overwritten(n) ==
  IF file = NoFile THEN <<>> ELSE [i \in DOMAIN file |-> IF i <= n THEN SavedBytes[i] ELSE file[i]]

SaveFails ==
  /\ running /\ named
  /\ file' \in {file, SavedBytes} \cup {Overwritten(n) : n \in 0..Len(SavedBytes)}
  /\ lost' = TRUE
  /\ UNCHANGED <<running, named, lines, cursor, scroll, modified>>

\* lines, a window on its start and no changes.
Fresh(ls) ==
  /\ lines' = ls
  /\ cursor_row' = 0 /\ cursor_col' = 0 /\ scroll_row' = 0 /\ scroll_col' = 0
  /\ modified' = FALSE
  /\ UNCHANGED file

\* The program's memory is gone, and the file is as it was saved.
Quit ==
  /\ running /\ running' = FALSE
  /\ named' = FALSE /\ lost' = FALSE
  /\ Fresh(<< <<>> >>)

Opens(ls) == ~running /\ running' = TRUE /\ Fresh(ls)

Start ==
  /\ file # NoFile
  /\ Opens(Loaded(ReadBytes(file)))
  /\ named' = TRUE /\ lost' = (Front(Joined(lines')) # file)

\* There is no such file, or it cannot be read: the two are not told apart.
StartEmpty ==
  /\ named' = TRUE /\ lost' = (file # NoFile)
  /\ Opens(<< <<>> >>)

StartUnnamed ==
  /\ named' = FALSE /\ lost' = FALSE
  /\ Opens(<< <<>> >>)

Init ==
  /\ file \in FirstFiles
  /\ running = FALSE /\ named = FALSE
  /\ lines = << <<>> >>
  /\ cursor_row = 0 /\ cursor_col = 0 /\ scroll_row = 0 /\ scroll_col = 0
  /\ modified = FALSE /\ lost = FALSE

Move == KeyUp \/ KeyDown \/ KeyLeft \/ KeyLeftWraps \/ KeyRight \/ KeyRightWraps
Edit == Enter \/ Backspace \/ BackspaceMerges \/ \E c \in Typed : Insert(c)
Next == Move \/ Edit \/ Save \/ SaveFails \/ Quit \/ Start \/ StartEmpty \/ StartUnnamed

Spec == Init /\ [][Next]_vars

-----------------------------------------------------------------------------
(* Properties                                                              *)

TypeOK ==
  /\ file \in Seq(Chars \cup {NL}) \cup {NoFile}
  /\ {running, named, modified, lost} \subseteq BOOLEAN
  /\ Len(lines) \in 1..MAX_LINES
  /\ \A i \in DOMAIN lines : lines[i] \in Seq(Chars) /\ Len(lines[i]) < MAX_LINE_LEN

\* The cursor is in the text, and in the window but for its last row and column.
CursorVisible ==
  /\ cursor_row \in 0..(Len(lines) - 1) /\ cursor_col \in 0..Len(Line)
  /\ cursor_row - scroll_row \in 0..(SCREEN_ROWS - 2)
  /\ cursor_col - scroll_col \in 0..(SCREEN_COLS - 2)

\* After any keys, loads and saves there are 1 to MAX_LINES lines, of which each
\* fits its row of the array, and the cursor is in the window redraw_screen shows.
\* After a load that has written behind the array this is so because line_count
\* is what it hits, and MAX_LINES is no multiple of 256.
SEditInv == TypeOK /\ CursorVisible

\* The array of lines as one text.
Text == Front(Joined(lines))
Buffer == INSTANCE TextBuffer WITH
  text <- Text,
  point <- Len(Joined(SubSeq(lines, 1, cursor_row))) + cursor_col

\* Every key does to the text what it would do to one without lines, or nothing.
EditsText == Buffer!Spec

\* The file, loaded again, gives the lines there are, and perhaps the empty
\* one that an NL at its end stands for.
OnDisk == named /\ file # NoFile => Split(file) \in {lines, Append(lines, <<>>)}

\* Unless a load or a save was not of the whole text, an unmodified text is
\* the one on the disk.
UnmodifiedUnlessLost == running /\ ~modified /\ ~lost => OnDisk
=============================================================================
