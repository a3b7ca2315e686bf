----------------------------- MODULE TextBuffer -----------------------------
(***************************************************************************)
(* What a user takes an editor for: one text, in which lines are separated  *)
(* by NL, and a point between two of its characters.                        *)
(***************************************************************************)
EXTENDS Integers, Sequences, FiniteSetsExt

CONSTANTS Chars, NL

VARIABLES
  text,
  point    \* characters before it

vars == <<text, point>>

\* Where lines start, and the line and the column of a point.
Starts == {0} \cup {i \in 1..Len(text) : text[i] = NL}
LineStart(p) == Max({s \in Starts : s <= p})
Column(p) == p - LineStart(p)
End(start) == Min({s - 1 : s \in {t \in Starts : t > start}} \cup {Len(text)})

Init == text \in Seq(Chars \cup {NL}) /\ point = 0

Insert(c) ==
  /\ text' = SubSeq(text, 1, point) \o <<c>> \o SubSeq(text, point + 1, Len(text))
  /\ point' = point + 1

Erase ==
  /\ point > 0
  /\ text' = SubSeq(text, 1, point - 1) \o SubSeq(text, point + 1, Len(text))
  /\ point' = point - 1

Left == point > 0 /\ point' = point - 1 /\ UNCHANGED text
Right == point < Len(text) /\ point' = point + 1 /\ UNCHANGED text

\* The column is kept, if the other line is long enough.
MoveTo(start) ==
  /\ point' = Min({start + Column(point), End(start)})
  /\ UNCHANGED text

Up == \E s \in Starts : End(s) + 1 = LineStart(point) /\ MoveTo(s)
Down == \E s \in Starts : End(LineStart(point)) + 1 = s /\ MoveTo(s)

\* A file is opened.
Open == point' = 0 /\ text' \in Seq(Chars \cup {NL})

Next == (\E c \in Chars \cup {NL} : Insert(c)) \/ Erase \/ Left \/ Right \/ Up \/ Down \/ Open

Spec == Init /\ [][Next]_vars
=============================================================================
