-------------------------- MODULE LineEditorProofs --------------------------
(***************************************************************************)
(* The shell's line is on the screen as it is edited, and its ring of       *)
(* earlier lines gives them back, for a line, a row and a ring of any       *)
(* length.                                                                  *)
(***************************************************************************)
EXTENDS LineEditor, SequenceTheorems, WellFoundedInduction, TLAPS

-----------------------------------------------------------------------------
(* Printing                                                                 *)

\* A set of numbers has a least one.
LEMMA NatHasLeast ==
  ASSUME NEW S \in SUBSET Nat, S # {}
  PROVE  \E p \in S : \A q \in S : p <= q
<1> DEFINE R == OpToRel(<, Nat)
<1>1. \A p, q \in Nat : q < p => <<q, p>> \in R
  BY DEF OpToRel
<1>2. IsWellFoundedOn(R, Nat)
  BY NatLessThanWellFounded
<1> HIDE DEF R
<1>3. PICK p \in S : \A q \in S : ~(<<q, p>> \in R)
  BY <1>2, WFMin
<1>4. ASSUME NEW q \in S PROVE p <= q
  <2>1. p \in Nat /\ q \in Nat
    OBVIOUS
  <2>2. ~(q < p)
    BY <1>1, <1>3, <2>1
  <2> QED BY <2>1, <2>2
<1> QED BY <1>4

\* w is the screen scr and what becomes of it as the first n of s are printed.
Upto(scr, s, n, w) == w = [k \in 0..n |-> IF k = 0 THEN scr ELSE vga_putchar(w[k - 1], s[k])]

LEMMA UptoExists ==
  ASSUME NEW scr, NEW s, NEW n \in Nat
  PROVE  \E w : Upto(scr, s, n, w)
<1> DEFINE S == {m \in Nat : ~ \E w : Upto(scr, s, m, w)}
<1>1. SUFFICES ASSUME S # {} PROVE FALSE
  OBVIOUS
<1>2. PICK m \in S : \A q \in S : m <= q
  BY <1>1, NatHasLeast
<1>3. CASE m = 0
  <2>1. Upto(scr, s, 0, [k \in 0..0 |-> scr])
    BY DEF Upto
  <2> QED BY <1>3, <2>1
<1>4. CASE m # 0
  <2>1. m - 1 \in Nat /\ m - 1 \notin S /\ m \in Nat
    BY <1>2, <1>4
  <2>2. PICK w : Upto(scr, s, m - 1, w)
    BY <2>1
  <2> DEFINE v == [k \in 0..m |-> IF k = m THEN vga_putchar(w[m - 1], s[m]) ELSE w[k]]
  <2>3. ASSUME NEW k \in 0..m
        PROVE  v[k] = IF k = 0 THEN scr ELSE vga_putchar(v[k - 1], s[k])
    <3>1. CASE k = m
      <4>1. k - 1 \in 0..m /\ k - 1 # m /\ k # 0
        BY <2>1, <3>1, <1>4
      <4>2. v[k - 1] = w[m - 1] /\ v[k] = vga_putchar(w[m - 1], s[m])
        BY <3>1, <4>1
      <4> QED BY <3>1, <4>1, <4>2
    <3>2. CASE k # m
      <4>1. k \in 0..(m-1)
        BY <2>1, <3>2
      <4>2. w[k] = IF k = 0 THEN scr ELSE vga_putchar(w[k - 1], s[k])
        BY <2>2, <4>1 DEF Upto
      <4>3. k # 0 => k - 1 \in 0..m /\ k - 1 # m
        BY <4>1, <2>1
      <4>4. v[k] = w[k] /\ (k # 0 => v[k - 1] = w[k - 1])
        BY <3>2, <4>1, <4>3
      <4> QED BY <4>2, <4>4
    <3> QED BY <3>1, <3>2
  <2>4. v = [k \in 0..m |-> IF k = 0 THEN scr ELSE vga_putchar(v[k - 1], s[k])]
    <3> HIDE DEF v
    <3>1. v = [k \in 0..m |-> v[k]]
      BY DEF v
    <3> QED BY <2>3, <3>1
  <2>5. Upto(scr, s, m, v)
    BY <2>4 DEF Upto
  <2> QED BY <2>5
<1> QED BY <1>3, <1>4

Steps(scr, s, w) == w[0] = scr /\ \A k \in 1..Len(s) : w[k] = vga_putchar(w[k - 1], s[k])

\* The recursive function of Printed is the screen after every character.
LEMMA PrintedTrace ==
  ASSUME NEW scr, NEW s, Len(s) \in Nat
  PROVE  \E w : Steps(scr, s, w) /\ Printed(scr, s) = w[Len(s)]
<1>1. \E w : Upto(scr, s, Len(s), w)
  BY UptoExists
<1> DEFINE v == CHOOSE w : Upto(scr, s, Len(s), w)
<1>2. Printed(scr, s) = v[Len(s)]
  BY Zenon DEF Printed, Upto
<1>3. Upto(scr, s, Len(s), v)
  BY <1>1
<1> HIDE DEF v
<1>4. Steps(scr, s, v)
  BY <1>3 DEF Upto, Steps
<1> QED BY <1>2, <1>4

\* What follows the characters step by step ends where Printed does.
LEMMA PrintedIs ==
  ASSUME NEW scr, NEW s, Len(s) \in Nat, NEW w, Steps(scr, s, w)
  PROVE  Printed(scr, s) = w[Len(s)]
<1>1. PICK v : Steps(scr, s, v) /\ Printed(scr, s) = v[Len(s)]
  BY PrintedTrace
<1> DEFINE S == {k \in 0..Len(s) : v[k] # w[k]}
<1>2. S = {}
  <2> SUFFICES ASSUME S # {} PROVE FALSE
    OBVIOUS
  <2>1. S \in SUBSET Nat
    OBVIOUS
  <2>2. PICK m \in S : \A q \in S : m <= q
    BY <2>1, NatHasLeast
  <2>3. m # 0
    BY <1>1 DEF Steps
  <2>4. m - 1 \in 0..Len(s) /\ m - 1 \notin S /\ m \in 1..Len(s)
    BY <2>2, <2>3
  <2>5. v[m - 1] = w[m - 1]
    BY <2>4
  <2> QED BY <1>1, <2>4, <2>5 DEF Steps
<1> QED BY <1>1, <1>2

LEMMA PrintedConcat ==
  ASSUME NEW scr, NEW S, NEW s \in Seq(S), NEW t \in Seq(S)
  PROVE  Printed(scr, s \o t) = Printed(Printed(scr, s), t)
<1> DEFINE m == Len(s)
           n == Len(t)
           st == s \o t
<1>1. m \in Nat /\ n \in Nat /\ Len(st) = m + n /\ \A i \in 1..(m + n) : st[i] = IF i <= m THEN s[i] ELSE t[i - m]
  BY ConcatProperties
<1>2. PICK v : Steps(scr, s, v) /\ Printed(scr, s) = v[m]
  BY <1>1, PrintedTrace
<1>3. PICK u : Steps(v[m], t, u) /\ Printed(v[m], t) = u[n]
  BY <1>1, PrintedTrace
<1> DEFINE w == [k \in 0..(m + n) |-> IF k <= m THEN v[k] ELSE u[k - m]]
<1> HIDE DEF st
<1>4. Steps(scr, st, w)
  <2>1. w[0] = scr
    BY <1>1, <1>2 DEF Steps
  <2>2. ASSUME NEW k \in 1..(m + n) PROVE w[k] = vga_putchar(w[k - 1], st[k])
    <3>1. CASE k <= m
      <4>1. w[k] = v[k] /\ w[k - 1] = v[k - 1] /\ st[k] = s[k] /\ k \in 1..m
        BY <1>1, <3>1
      <4> QED BY <1>2, <4>1 DEF Steps
    <3>2. CASE ~(k <= m)
      <4>1. w[k] = u[k - m] /\ st[k] = t[k - m] /\ k - m \in 1..n
        BY <1>1, <3>2
      <4>2. u[k - m] = vga_putchar(u[k - m - 1], t[k - m])
        BY <1>3, <4>1 DEF Steps
      <4>3. w[k - 1] = u[k - m - 1]
        <5>1. CASE k = m + 1
          <6>1. w[k - 1] = v[m] /\ k - m - 1 = 0
            BY <1>1, <5>1
          <6> QED BY <1>3, <6>1 DEF Steps
        <5>2. CASE k # m + 1
          <6>1. ~(k - 1 <= m) /\ k - 1 \in 0..(m + n) /\ k - 1 - m = k - m - 1
            BY <1>1, <3>2, <5>2
          <6> QED BY <6>1
        <5> QED BY <5>1, <5>2
      <4> QED BY <4>1, <4>2, <4>3
    <3> QED BY <3>1, <3>2
  <2> HIDE DEF w
  <2> QED BY <1>1, <2>1, <2>2 DEF Steps
<1>5. Printed(scr, st) = w[m + n]
  <2> HIDE DEF w
  <2>1. Len(st) \in Nat
    BY <1>1
  <2>2. Printed(scr, st) = w[Len(st)]
    BY <1>4, <2>1, PrintedIs
  <2> QED BY <1>1, <2>2
<1>6. w[m + n] = u[n]
  <2>1. CASE n = 0
    BY <1>1, <1>3, <2>1 DEF Steps
  <2>2. CASE n # 0
    <3>1. ~(m + n <= m) /\ m + n \in 0..(m + n) /\ m + n - m = n
      BY <1>1, <2>2
    <3> QED BY <3>1
  <2> QED BY <2>1, <2>2
<1> QED BY <1>2, <1>3, <1>5, <1>6 DEF st

Cells == Chars \cup {Blank, PromptChar}
Screens == [row : [0..(VGA_WIDTH - 1) -> Cells], x : 0..(VGA_WIDTH - 1)]
Printable == Cells \cup {CURSOR_LEFT, BACKSPACE}

LEMMA CellFacts ==
  /\ VGA_WIDTH \in Nat \ {0, 1} /\ MAX_INPUT \in Nat \ {0, 1} /\ HISTORY_SIZE \in Nat \ {0}
  /\ Blank \in Cells /\ PromptChar \in Cells /\ Chars \subseteq Cells
  /\ \A c \in Cells : c # CURSOR_LEFT /\ c # BACKSPACE
  /\ CURSOR_LEFT # BACKSPACE
BY EditorAssumption DEF Cells

LEMMA PutType ==
  ASSUME NEW scr \in Screens, NEW c \in Printable
  PROVE  vga_putchar(scr, c) \in Screens
<1>1. VGA_WIDTH \in Nat \ {0, 1} /\ scr.x \in 0..(VGA_WIDTH - 1) /\ scr.row \in [0..(VGA_WIDTH - 1) -> Cells]
  BY CellFacts DEF Screens
<1>2. BlankRow \in Screens
  BY CellFacts DEF BlankRow, Screens
<1>3. CASE c \in {CURSOR_LEFT, BACKSPACE} /\ scr.x # 0
  <2>1. scr.x - 1 \in 0..(VGA_WIDTH - 1) /\ [scr.row EXCEPT ![scr.x - 1] = Blank] \in [0..(VGA_WIDTH - 1) -> Cells]
    BY <1>1, <1>3, CellFacts
  <2> QED BY <1>1, <1>3, <2>1 DEF vga_putchar, Screens
<1>4. CASE c \in {CURSOR_LEFT, BACKSPACE} /\ scr.x = 0
  BY <1>4 DEF vga_putchar
<1>5. CASE c \notin {CURSOR_LEFT, BACKSPACE} /\ scr.x = VGA_WIDTH - 1
  BY <1>2, <1>5 DEF vga_putchar
<1>6. CASE c \notin {CURSOR_LEFT, BACKSPACE} /\ scr.x # VGA_WIDTH - 1
  <2>1. c \in Cells
    BY <1>6 DEF Printable
  <2>2. scr.x + 1 \in 0..(VGA_WIDTH - 1) /\ [scr.row EXCEPT ![scr.x] = c] \in [0..(VGA_WIDTH - 1) -> Cells]
    BY <1>1, <1>6, <2>1
  <2> QED BY <1>6, <2>2 DEF vga_putchar, Screens
<1> QED BY <1>3, <1>4, <1>5, <1>6

LEMMA PrintedType ==
  ASSUME NEW scr \in Screens, NEW s \in Seq(Printable)
  PROVE  Printed(scr, s) \in Screens
<1>0. Len(s) \in Nat /\ \A k \in 1..Len(s) : s[k] \in Printable
  BY ElementOfSeq
<1>1. PICK w : Steps(scr, s, w) /\ Printed(scr, s) = w[Len(s)]
  BY <1>0, PrintedTrace
<1> DEFINE S == {k \in 0..Len(s) : w[k] \notin Screens}
<1>2. S = {}
  <2> SUFFICES ASSUME S # {} PROVE FALSE
    OBVIOUS
  <2>1. S \in SUBSET Nat
    OBVIOUS
  <2>2. PICK m \in S : \A q \in S : m <= q
    BY <2>1, NatHasLeast
  <2>3. m # 0
    BY <1>1 DEF Steps
  <2>4. m - 1 \in 0..Len(s) /\ m - 1 \notin S /\ m \in 1..Len(s)
    BY <2>2, <2>3
  <2>5. w[m - 1] \in Screens /\ s[m] \in Printable /\ w[m] = vga_putchar(w[m - 1], s[m])
    BY <1>0, <1>1, <2>4 DEF Steps
  <2> QED BY <2>4, <2>5, PutType
<1> QED BY <1>0, <1>1, <1>2

\* A text that stays in its row is in the row afterwards.
TextOn(scr, t, k) ==
  [row |-> [i \in 0..(VGA_WIDTH - 1) |-> IF scr.x <= i /\ i < scr.x + k THEN t[i - scr.x + 1] ELSE scr.row[i]],
   x |-> scr.x + k]

LEMMA PrintedText ==
  ASSUME NEW scr \in Screens, NEW t \in Seq(Cells), scr.x + Len(t) < VGA_WIDTH
  PROVE  Printed(scr, t) = TextOn(scr, t, Len(t))
<1> DEFINE W == VGA_WIDTH
           n == Len(t)
           x0 == scr.x
           w == [k \in 0..n |-> TextOn(scr, t, k)]
<1>1. W \in Nat /\ n \in Nat /\ x0 \in 0..(W - 1) /\ scr.row \in [0..(W - 1) -> Cells] /\ x0 + n < W
      /\ scr = [row |-> scr.row, x |-> x0]
  BY CellFacts DEF Screens
<1>2. w[0] = scr
  <2>1. [i \in 0..(W - 1) |-> IF x0 <= i /\ i < x0 + 0 THEN t[i - x0 + 1] ELSE scr.row[i]] = scr.row
    <3>1. \A i \in 0..(W - 1) : ~(x0 <= i /\ i < x0 + 0)
      BY <1>1
    <3> QED BY <1>1, <3>1
  <2>2. w[0] = TextOn(scr, t, 0) /\ x0 + 0 = x0
    BY <1>1
  <2> QED BY <1>1, <2>1, <2>2 DEF TextOn
<1>3. ASSUME NEW k \in 1..n PROVE w[k] = vga_putchar(w[k - 1], t[k])
  <2> DEFINE before == TextOn(scr, t, k - 1)
             at == x0 + (k - 1)
             new == [before.row EXCEPT ![at] = t[k]]
  <2>1. w[k - 1] = before /\ w[k] = TextOn(scr, t, k)
    BY <1>1
  <2>2. before.x = at /\ at \in 0..(W - 1) /\ at # W - 1 /\ at + 1 = x0 + k
    BY <1>1 DEF TextOn
  <2>3. t[k] \notin {CURSOR_LEFT, BACKSPACE}
    <3>1. t[k] \in Cells
      BY ElementOfSeq
    <3> QED BY <3>1, CellFacts
  <2>4. vga_putchar(before, t[k]) = [row |-> new, x |-> at + 1]
    BY <2>2, <2>3 DEF vga_putchar
  <2>5. DOMAIN before.row = 0..(W - 1)
        /\ \A i \in 0..(W - 1) : before.row[i] = IF x0 <= i /\ i < at THEN t[i - x0 + 1] ELSE scr.row[i]
    BY DEF TextOn
  <2>6. ASSUME NEW i \in 0..(W - 1)
        PROVE  new[i] = IF x0 <= i /\ i < x0 + k THEN t[i - x0 + 1] ELSE scr.row[i]
    <3>1. CASE i = at
      <4>1. i - x0 + 1 = k /\ x0 <= i /\ i < x0 + k
        BY <1>1, <2>2, <3>1
      <4> QED BY <2>2, <2>5, <3>1, <4>1
    <3>2. CASE i # at
      <4>1. new[i] = before.row[i]
        BY <2>5, <3>2
      <4>2. (i < at) <=> (i < x0 + k)
        BY <1>1, <2>2, <3>2
      <4> QED BY <2>5, <4>1, <4>2
    <3> QED BY <3>1, <3>2
  <2>7. new = [i \in 0..(W - 1) |-> IF x0 <= i /\ i < x0 + k THEN t[i - x0 + 1] ELSE scr.row[i]]
    <3>1. new = [i \in 0..(W - 1) |-> new[i]]
      BY <2>5
    <3> HIDE DEF new
    <3> QED BY <2>6, <3>1
  <2>8. TextOn(scr, t, k) = [row |-> new, x |-> at + 1]
    <3> HIDE DEF new, at
    <3> QED BY <2>2, <2>7 DEF TextOn
  <2> QED BY <2>1, <2>4, <2>8
<1> HIDE DEF w
<1>4. Steps(scr, t, w)
  BY <1>2, <1>3 DEF Steps
<1>5. Printed(scr, t) = w[n]
  BY <1>1, <1>4, PrintedIs
<1>6. w[n] = TextOn(scr, t, n)
  BY <1>1 DEF w
<1> QED BY <1>5, <1>6

LEMMA PrintedBack ==
  ASSUME NEW scr \in Screens, NEW n \in Nat, n <= scr.x
  PROVE  Printed(scr, Back(n)) = [row |-> scr.row, x |-> scr.x - n]
<1> DEFINE w == [k \in 0..n |-> [row |-> scr.row, x |-> scr.x - k]]
<1>1. scr.x \in Nat /\ scr = [row |-> scr.row, x |-> scr.x]
  BY CellFacts DEF Screens
<1>2. Len(Back(n)) = n /\ \A k \in 1..n : Back(n)[k] = CURSOR_LEFT
  BY DEF Back, Times
<1>3. w[0] = scr
  BY <1>1
<1>4. ASSUME NEW k \in 1..n PROVE w[k] = vga_putchar(w[k - 1], CURSOR_LEFT)
  <2>1. w[k - 1] = [row |-> scr.row, x |-> scr.x - (k - 1)] /\ scr.x - (k - 1) # 0 /\ scr.x - (k - 1) - 1 = scr.x - k
    BY <1>1
  <2>2. vga_putchar(w[k - 1], CURSOR_LEFT) = [row |-> scr.row, x |-> scr.x - (k - 1) - 1]
    BY <2>1, CellFacts DEF vga_putchar
  <2> QED BY <2>1, <2>2
<1> HIDE DEF w
<1>5. Steps(scr, Back(n), w)
  BY <1>2, <1>3, <1>4 DEF Steps
<1>6. Printed(scr, Back(n)) = w[n]
  BY <1>2, <1>5, PrintedIs
<1> QED BY <1>6 DEF w

-----------------------------------------------------------------------------
(* The line                                                                 *)

MaxLine == MAX_INPUT - 1

\* The types, and that what the ring holds fits a line.
LineOK ==
  /\ input \in Seq(Chars) /\ Len(input) < MaxLine /\ cursor \in 0..Len(input)
  /\ history \in [0..(HISTORY_SIZE - 1) -> Seq(Chars)]
  /\ \A i \in 0..(HISTORY_SIZE - 1) : Len(history[i]) < MaxLine
  /\ history_count \in 0..HISTORY_SIZE /\ history_write \in 0..(HISTORY_SIZE - 1)
  /\ hist_nav \in -1..(history_count - 1)

\* The row of scr has s behind the column at, and its cursor at cur.
RowHolds(scr, at, s, cur, cl) ==
  /\ scr.x = at + cur
  /\ \A i \in 1..Len(s) : scr.row[at + i - 1] = s[i]
  /\ cl => \A i \in (at + Len(s))..(VGA_WIDTH - 1) : scr.row[i] = Blank

\* Up to the end of the row, the line is where its characters were printed.
ShownLine == ~wrapped => start + Len(input) < VGA_WIDTH /\ RowHolds(screen, start, input, cursor, clean)

ScreenOK ==
  /\ screen \in Screens /\ clean \in BOOLEAN /\ wrapped \in BOOLEAN /\ start \in 0..(VGA_WIDTH - 1)
  /\ ShownLine

RingOK ==
  /\ entered \in Seq(Seq(Chars)) /\ history_count = Len(entered)
  /\ \A nav \in 0..(history_count - 1) : history[Slot(nav)] = entered[history_count - nav]

EditorInd == LineOK /\ ScreenOK /\ RingOK

LEMMA FromFacts ==
  ASSUME NEW S, NEW s \in Seq(S), NEW i \in 1..(Len(s) + 1)
  PROVE  /\ From(i, s) \in Seq(S) /\ Len(From(i, s)) = Len(s) - i + 1
         /\ \A k \in 1..(Len(s) - i + 1) : From(i, s)[k] = s[i + k - 1]
<1> DEFINE n == Len(s)
<1>1. n \in Nat /\ \A k \in i..n : s[k] \in S
  BY ElementOfSeq
<1>2. i \in Int /\ n \in Int /\ From(i, s) = SubSeq(s, i, n)
  BY <1>1 DEF From
<1> HIDE DEF n
<1>3. SubSeq(s, i, n) \in Seq(S) /\ Len(SubSeq(s, i, n)) = (IF i <= n THEN n - i + 1 ELSE 0)
      /\ \A k \in 1..(n - i + 1) : SubSeq(s, i, n)[k] = s[i + k - 1]
  BY <1>1, <1>2, SubSeqProperties
<1>4. Len(From(i, s)) = n - i + 1
  <2>1. i \in 1..(n + 1)
    BY DEF n
  <2> QED BY <1>1, <1>2, <1>3, <2>1
<1> QED BY <1>2, <1>3, <1>4 DEF n

\* A character is put in, or taken out.
Inserted(longer, s, p, c) ==
  /\ Len(longer) = Len(s) + 1
  /\ \A i \in 1..(Len(s) + 1) : longer[i] = IF i <= p THEN s[i] ELSE IF i = p + 1 THEN c ELSE s[i - 1]

Removed(shorter, s, n) ==
  /\ Len(shorter) = Len(s) - 1
  /\ \A i \in 1..(Len(s) - 1) : shorter[i] = IF i < n THEN s[i] ELSE s[i + 1]

LEMMA InsertFacts ==
  ASSUME NEW S, NEW s \in Seq(S), NEW p \in 0..Len(s), NEW c \in S
  PROVE  InsertAt(s, p + 1, c) \in Seq(S) /\ Inserted(InsertAt(s, p + 1, c), s, p, c)
<1> DEFINE n == Len(s)
           a == SubSeq(s, 1, p)
           b == From(p + 1, s)
<1>1. n \in Nat /\ p \in Nat /\ p <= n /\ (\A i \in 1..p : s[i] \in S) /\ p + 1 \in 1..(n + 1)
  BY ElementOfSeq
<1>2. a \in Seq(S) /\ Len(a) = p /\ \A i \in 1..p : a[i] = s[i]
  <2>1. p \in Int /\ 1 \in Int /\ p - 1 + 1 = p
    BY <1>1
  <2>2. a \in Seq(S) /\ Len(a) = (IF 1 <= p THEN p - 1 + 1 ELSE 0) /\ \A i \in 1..(p - 1 + 1) : a[i] = s[1 + i - 1]
    BY <1>1, <2>1, SubSeqProperties
  <2> QED BY <1>1, <2>1, <2>2
<1>3. b \in Seq(S) /\ Len(b) = n - p /\ \A i \in 1..(n - p) : b[i] = s[p + i]
  <2>1. b \in Seq(S) /\ Len(b) = n - (p + 1) + 1 /\ \A i \in 1..(n - (p + 1) + 1) : b[i] = s[p + 1 + i - 1]
    BY <1>1, FromFacts
  <2>2. n - (p + 1) + 1 = n - p /\ \A i \in 1..(n - p) : p + 1 + i - 1 = p + i
    BY <1>1
  <2> HIDE DEF b, n
  <2> QED BY <2>1, <2>2
<1> HIDE DEF a, b
<1>4. <<c>> \in Seq(S) /\ Len(<<c>>) = 1 /\ <<c>>[1] = c
  OBVIOUS
<1> DEFINE one == <<c>>
<1> HIDE DEF one
<1>5. a \o one \in Seq(S) /\ Len(a \o one) = p + 1 /\ \A i \in 1..(p + 1) : (a \o one)[i] = IF i <= p THEN a[i] ELSE one[i - p]
  <2>1. one \in Seq(S) /\ Len(one) = 1
    BY <1>4 DEF one
  <2>2. a \o one \in Seq(S) /\ Len(a \o one) = Len(a) + Len(one)
        /\ \A i \in 1..(Len(a) + Len(one)) : (a \o one)[i] = IF i <= Len(a) THEN a[i] ELSE one[i - Len(a)]
    BY <1>2, <2>1, ConcatProperties
  <2> QED BY <1>2, <2>1, <2>2
<1> DEFINE front == a \o one
<1> HIDE DEF front
<1>6. front \o b \in Seq(S) /\ Len(front \o b) = n + 1
      /\ \A i \in 1..(n + 1) : (front \o b)[i] = IF i <= p + 1 THEN front[i] ELSE b[i - (p + 1)]
  <2>1. front \in Seq(S) /\ Len(front) = p + 1
    BY <1>5 DEF front
  <2>2. front \o b \in Seq(S) /\ Len(front \o b) = Len(front) + Len(b)
        /\ \A i \in 1..(Len(front) + Len(b)) : (front \o b)[i] = IF i <= Len(front) THEN front[i] ELSE b[i - Len(front)]
    BY <1>3, <2>1, ConcatProperties
  <2>3. Len(front) + Len(b) = n + 1
    BY <1>1, <1>3, <2>1
  <2> QED BY <2>1, <2>2, <2>3
<1> DEFINE all == front \o b
<1>7. InsertAt(s, p + 1, c) = all
  <2> DEFINE r == p + 1
  <2>1. r - 1 = p
    BY <1>1
  <2> HIDE DEF r
  <2>2. \A i : InsertAt(s, i, c) = (SubSeq(s, 1, i - 1) \o <<c>>) \o SubSeq(s, i, Len(s))
    BY DEF InsertAt
  <2>3. InsertAt(s, r, c) = (SubSeq(s, 1, r - 1) \o <<c>>) \o SubSeq(s, r, Len(s))
    BY <2>2
  <2>4. InsertAt(s, r, c) = (SubSeq(s, 1, p) \o <<c>>) \o SubSeq(s, r, Len(s))
    BY <2>1, <2>3
  <2> QED BY <2>4 DEF r, front, a, b, one, From
<1>8. all \in Seq(S) /\ Len(all) = n + 1 /\ \A i \in 1..(n + 1) : all[i] = IF i <= p + 1 THEN front[i] ELSE b[i - (p + 1)]
  BY <1>6
<1> HIDE DEF all
<1>9. ASSUME NEW i \in 1..(n + 1)
      PROVE  all[i] = IF i <= p THEN s[i] ELSE IF i = p + 1 THEN c ELSE s[i - 1]
  <2>1. CASE i <= p
    BY <1>1, <1>2, <1>5, <1>8, <2>1 DEF front
  <2>2. CASE i = p + 1
    <3>1. front[i] = one[i - p] /\ i - p = 1
      BY <1>1, <1>5, <2>2 DEF front
    <3> QED BY <1>1, <1>4, <1>8, <2>2, <3>1 DEF one
  <2>3. CASE i > p + 1
    <3>1. i - (p + 1) \in 1..(n - p) /\ p + (i - (p + 1)) = i - 1 /\ ~(i <= p) /\ i # p + 1 /\ ~(i <= p + 1)
      BY <1>1, <2>3
    <3>2. all[i] = b[i - (p + 1)]
      BY <1>8, <3>1
    <3> QED BY <1>3, <3>1, <3>2
  <2> QED BY <1>1, <2>1, <2>2, <2>3
<1> QED BY <1>7, <1>8, <1>9 DEF n, Inserted

LEMMA RemoveFacts ==
  ASSUME NEW S, NEW s \in Seq(S), NEW n \in 1..Len(s)
  PROVE  RemoveAt(s, n) \in Seq(S) /\ Removed(RemoveAt(s, n), s, n)
<1> DEFINE len == Len(s)
           a == SubSeq(s, 1, n - 1)
           b == SubSeq(s, n + 1, len)
<1>1. len \in Nat /\ n \in Nat \ {0} /\ n <= len /\ \A i \in 1..len : s[i] \in S
  BY ElementOfSeq
<1> HIDE DEF len
<1> DEFINE p == n - 1
           q == n + 1
<1>2. p \in Nat /\ p \in Int /\ 1 \in Int /\ q \in Int /\ len \in Int /\ p - 1 + 1 = p /\ p = n - 1 /\ q = n + 1
      /\ (\A i \in 1..p : i \in 1..len) /\ \A i \in q..len : i \in 1..len
  BY <1>1
<1>3. a = SubSeq(s, 1, p) /\ b = SubSeq(s, q, len)
  BY DEF len
<1> HIDE DEF p, q, a, b
<1>4. a \in Seq(S) /\ Len(a) = (IF 1 <= p THEN p - 1 + 1 ELSE 0) /\ \A i \in 1..(p - 1 + 1) : a[i] = s[1 + i - 1]
  <2>1. \A i \in 1..p : s[i] \in S
    BY <1>1, <1>2
  <2> QED BY SMTT(20), <1>2, <1>3, <2>1, SubSeqProperties
<1>5. b \in Seq(S) /\ Len(b) = (IF q <= len THEN len - q + 1 ELSE 0) /\ \A i \in 1..(len - q + 1) : b[i] = s[q + i - 1]
  <2>1. \A i \in q..len : s[i] \in S
    BY <1>1, <1>2
  <2> QED BY SMTT(20), <1>2, <1>3, <2>1, SubSeqProperties
<1>6. Len(a) = n - 1 /\ (\A i \in 1..(n - 1) : a[i] = s[i])
  BY <1>1, <1>2, <1>4
<1>7. Len(b) = len - n /\ \A i \in 1..(len - n) : b[i] = s[n + i]
  BY <1>1, <1>2, <1>5
<1>8. a \o b \in Seq(S) /\ Len(a \o b) = Len(a) + Len(b)
      /\ \A i \in 1..(Len(a) + Len(b)) : (a \o b)[i] = IF i <= Len(a) THEN a[i] ELSE b[i - Len(a)]
  BY <1>4, <1>5, ConcatProperties
<1>9. RemoveAt(s, n) = a \o b
  BY DEF RemoveAt, a, b, len
<1> DEFINE c == a \o b
<1>10. c \in Seq(S) /\ Len(c) = len - 1 /\ \A i \in 1..(len - 1) : c[i] = IF i < n THEN a[i] ELSE b[i - n + 1]
  <2>1. Len(a) + Len(b) = len - 1
    BY <1>1, <1>6, <1>7
  <2>2. \A i \in 1..(len - 1) : (i <= Len(a) <=> i < n) /\ i - Len(a) = i - n + 1
    BY <1>1, <1>6
  <2> QED BY <1>8, <2>1, <2>2
<1> HIDE DEF c
<1>11. ASSUME NEW i \in 1..(len - 1) PROVE c[i] = IF i < n THEN s[i] ELSE s[i + 1]
  <2>1. CASE i < n
    BY <1>1, <1>6, <1>10, <2>1
  <2>2. CASE ~(i < n)
    <3>1. i - n + 1 \in 1..(len - n) /\ n + (i - n + 1) = i + 1
      BY <1>1, <2>2
    <3>2. b[i - n + 1] = s[n + (i - n + 1)]
      BY <1>7, <3>1
    <3> QED BY <1>10, <2>2, <3>1, <3>2
  <2> QED BY <2>1, <2>2
<1> QED BY <1>9, <1>10, <1>11 DEF c, len, Removed

-----------------------------------------------------------------------------
(* The ring of earlier lines                                                *)

LEMMA RingMod ==
  ASSUME NEW n \in Nat, n < 2 * HISTORY_SIZE
  PROVE  n % HISTORY_SIZE = IF n < HISTORY_SIZE THEN n ELSE n - HISTORY_SIZE
<1>1. HISTORY_SIZE \in Nat \ {0}
  BY CellFacts
<1> QED BY <1>1

SlotAt(w, nav) == (w - 1 - nav + HISTORY_SIZE) % HISTORY_SIZE

LEMMA SlotFacts ==
  ASSUME NEW w \in 0..(HISTORY_SIZE - 1), NEW nav \in 0..(HISTORY_SIZE - 1)
  PROVE  /\ SlotAt(w, nav) \in 0..(HISTORY_SIZE - 1)
         /\ SlotAt(w, nav) = IF nav < w THEN w - 1 - nav ELSE w - 1 - nav + HISTORY_SIZE
<1> DEFINE m == w - 1 - nav + HISTORY_SIZE
<1>1. HISTORY_SIZE \in Nat \ {0}
  BY CellFacts
<1>2. m \in Nat /\ m < 2 * HISTORY_SIZE /\ (m < HISTORY_SIZE <=> ~(nav < w))
  BY <1>1
<1>4. SlotAt(w, nav) = m % HISTORY_SIZE
  BY DEF SlotAt
<1>5. m - HISTORY_SIZE = w - 1 - nav
  BY <1>1
<1> HIDE DEF m
<1>6. SlotAt(w, nav) = IF nav < w THEN m - HISTORY_SIZE ELSE m
  BY <1>2, <1>4, RingMod
<1> QED BY <1>1, <1>5, <1>6 DEF m

\* An entered line takes the place of the oldest one.
LEMMA RememberStep ==
  ASSUME LineOK, RingOK, Remember, entered' = LastLines(Append(entered, input))
  PROVE  /\ history' \in [0..(HISTORY_SIZE - 1) -> Seq(Chars)]
         /\ \A i \in 0..(HISTORY_SIZE - 1) : Len(history'[i]) < MaxLine
         /\ history_count' \in 0..HISTORY_SIZE /\ history_count' >= history_count
         /\ history_write' \in 0..(HISTORY_SIZE - 1)
         /\ RingOK'
<1> DEFINE H == HISTORY_SIZE
           w == history_write
           n == history_count
           longer == Append(entered, input)
<1>1. /\ H \in Nat \ {0} /\ w \in 0..(H - 1) /\ n \in 0..H /\ n = Len(entered) /\ entered \in Seq(Seq(Chars))
      /\ input \in Seq(Chars) /\ Len(input) < MaxLine
      /\ history \in [0..(H - 1) -> Seq(Chars)] /\ \A i \in 0..(H - 1) : Len(history[i]) < MaxLine
  BY CellFacts DEF LineOK, RingOK
<1>2. /\ history' = [history EXCEPT ![w] = input] /\ history_write' = (w + 1) % H
      /\ history_count' = IF n < H THEN n + 1 ELSE n
  BY DEF Remember
<1>3. history' \in [0..(H - 1) -> Seq(Chars)] /\ history'[w] = input
      /\ \A i \in 0..(H - 1) : (i # w => history'[i] = history[i]) /\ Len(history'[i]) < MaxLine
  BY <1>1, <1>2
<1> DEFINE v == IF w + 1 < H THEN w + 1 ELSE 0
<1>4. history_write' = v /\ v \in 0..(H - 1)
  <2> DEFINE k == w + 1
  <2>1. k \in Nat /\ k <= H /\ k < 2 * H
    BY <1>1
  <2>2. history_write' = k % HISTORY_SIZE
    BY <1>2
  <2>3. v = IF k < H THEN k ELSE k - H
    BY <1>1
  <2> HIDE DEF k, v
  <2>4. k % HISTORY_SIZE = v
    BY <2>1, <2>3, RingMod
  <2> QED BY <1>1, <2>1, <2>2, <2>3, <2>4
<1>5. longer \in Seq(Seq(Chars)) /\ Len(longer) = n + 1 /\ longer[n + 1] = input
      /\ \A i \in 1..n : longer[i] = entered[i]
  BY <1>1, AppendProperties
<1> HIDE DEF longer
<1> DEFINE c == IF n < H THEN n + 1 ELSE n
<1>6. entered' \in Seq(Seq(Chars)) /\ Len(entered') = c
      /\ \A nav \in 0..(c - 1) : entered'[c - nav] = longer[n + 1 - nav]
  <2>1. entered' = LastLines(longer)
    BY DEF longer
  <2>2. CASE n < H
    <3>1. entered' = longer
      BY <1>1, <1>5, <2>1, <2>2 DEF LastLines
    <3>2. c = n + 1 /\ \A nav \in 0..(c - 1) : c - nav = n + 1 - nav
      BY <1>1, <2>2
    <3> HIDE DEF c
    <3> QED BY <1>5, <3>1, <3>2
  <2>3. CASE ~(n < H)
    <3>1. entered' = Tail(longer) /\ c = n /\ longer # <<>> /\ n = H
      <4>1. n = H /\ n + 1 > H /\ c = n /\ n + 1 # 0
        BY <1>1, <2>3
      <4>2. longer # <<>>
        BY <1>5, <4>1
      <4>3. entered' = Tail(longer)
        BY <1>5, <2>1, <4>1 DEF LastLines
      <4> QED BY <4>1, <4>2, <4>3
    <3>2. Tail(longer) \in Seq(Seq(Chars)) /\ Len(Tail(longer)) = n
          /\ \A i \in 1..n : Tail(longer)[i] = longer[i + 1]
      BY <1>1, <1>5, <3>1, HeadTailProperties
    <3>3. \A nav \in 0..(n - 1) : n - nav \in 1..n /\ n - nav + 1 = n + 1 - nav
      BY <1>1
    <3> QED BY <3>1, <3>2, <3>3
  <2> QED BY <2>2, <2>3
<1>7. history_count' = c /\ c \in 0..H /\ c >= n
  BY <1>1, <1>2
<1>8. ASSUME NEW nav \in 0..(c - 1)
      PROVE  history'[SlotAt(v, nav)] = longer[n + 1 - nav]
  <2>1. nav \in 0..(H - 1) /\ nav <= n
    BY <1>1, <1>7
  <2>2. CASE nav = 0
    <3>1. SlotAt(v, nav) = IF nav < v THEN v - 1 - nav ELSE v - 1 - nav + H
      BY <1>4, <2>1, SlotFacts
    <3>2. SlotAt(v, nav) = w
      BY <1>1, <2>2, <3>1
    <3>3. n + 1 - nav = n + 1
      BY <1>1, <2>2
    <3> QED BY <1>3, <1>5, <3>2, <3>3
  <2>3. CASE nav # 0
    <3> DEFINE old == nav - 1
    <3>1. old \in 0..(H - 1) /\ old \in 0..(n - 1) /\ nav = old + 1 /\ n - old \in 1..n /\ n + 1 - nav = n - old
      BY <1>1, <2>1, <2>3
    <3>2. SlotAt(v, nav) = IF nav < v THEN v - 1 - nav ELSE v - 1 - nav + H
      BY <1>4, <2>1, SlotFacts
    <3>3. SlotAt(w, old) \in 0..(H - 1) /\ SlotAt(w, old) = IF old < w THEN w - 1 - old ELSE w - 1 - old + H
      BY <1>1, <3>1, SlotFacts
    <3>4. SlotAt(v, nav) = SlotAt(w, old) /\ SlotAt(w, old) # w
      <4>1. CASE old < w
        BY SMTT(20), <1>1, <2>1, <2>3, <3>1, <3>2, <3>3, <4>1
      <4>2. CASE ~(old < w)
        BY SMTT(20), <1>1, <2>1, <2>3, <3>1, <3>2, <3>3, <4>2
      <4> QED BY <4>1, <4>2
    <3>5. history[SlotAt(w, old)] = entered[n - old]
      BY <3>1 DEF RingOK, Slot, SlotAt
    <3> QED BY <1>3, <1>5, <3>1, <3>3, <3>4, <3>5
  <2> QED BY <2>2, <2>3
<1>9. \A nav : Slot(nav)' = SlotAt(v, nav)
  BY <1>4 DEF Slot, SlotAt
<1> HIDE DEF v, c
<1>10. RingOK'
  <2>1. \A nav \in 0..(c - 1) : history'[SlotAt(v, nav)] = entered'[c - nav]
    BY <1>6, <1>8
  <2> QED BY <1>6, <1>7, <1>9, <2>1 DEF RingOK
<1> QED BY <1>3, <1>4, <1>7, <1>10

-----------------------------------------------------------------------------
(* What an edit prints                                                      *)

LEMMA BackSeq ==
  ASSUME NEW n \in Nat
  PROVE  Back(n) \in Seq(Printable) /\ Len(Back(n)) = n
<1>1. Back(n) \in [1..n -> Printable]
  BY DEF Back, Times, Printable
<1> QED BY <1>1

LEMMA TextSeq ==
  ASSUME NEW t \in Seq(Cells)
  PROVE  t \in Seq(Printable) /\ Len(t) \in Nat
<1>1. Len(t) \in Nat /\ t = [i \in 1..Len(t) |-> t[i]] /\ \A i \in 1..Len(t) : t[i] \in Printable
  BY ElementOfSeq DEF Printable
<1>2. t \in [1..Len(t) -> Printable]
  BY <1>1
<1> QED BY <1>1, <1>2

\* A text, and the cursor back over n of its columns.
LEMMA PrintedTextBack ==
  ASSUME NEW scr \in Screens, NEW t \in Seq(Cells), scr.x + Len(t) < VGA_WIDTH,
         NEW n \in Nat, n <= scr.x + Len(t)
  PROVE  /\ Printed(scr, t \o Back(n)) \in Screens
         /\ Printed(scr, t \o Back(n)).x = scr.x + Len(t) - n
         /\ \A i \in 0..(VGA_WIDTH - 1) :
              Printed(scr, t \o Back(n)).row[i] =
                IF scr.x <= i /\ i < scr.x + Len(t) THEN t[i - scr.x + 1] ELSE scr.row[i]
<1> DEFINE b == Back(n)
           mid == TextOn(scr, t, Len(t))
<1>1. t \in Seq(Printable) /\ b \in Seq(Printable) /\ Len(b) = n
  BY BackSeq, TextSeq
<1>2. Printed(scr, t \o b) = Printed(Printed(scr, t), b)
  BY <1>1, PrintedConcat
<1>3. Printed(scr, t) = mid /\ Printed(scr, t) \in Screens
  BY <1>1, PrintedText, PrintedType
<1>4. mid.x = scr.x + Len(t)
      /\ \A i \in 0..(VGA_WIDTH - 1) : mid.row[i] = IF scr.x <= i /\ i < scr.x + Len(t) THEN t[i - scr.x + 1] ELSE scr.row[i]
  BY DEF TextOn
<1> HIDE DEF mid
<1>5. mid \in Screens /\ n <= mid.x
  BY <1>3, <1>4
<1>6. Printed(mid, b) = [row |-> mid.row, x |-> mid.x - n] /\ Printed(mid, b) \in Screens
  BY <1>1, <1>5, PrintedBack, PrintedType
<1>7. Printed(scr, t \o b) = [row |-> mid.row, x |-> mid.x - n] /\ Printed(scr, t \o b) \in Screens
  BY <1>2, <1>3, <1>6
<1> DEFINE res == Printed(scr, t \o b)
<1> HIDE DEF b
<1>8. res = [row |-> mid.row, x |-> mid.x - n] /\ res \in Screens
  BY <1>7
<1> HIDE DEF res
<1>9. res.x = scr.x + Len(t) - n
      /\ \A i \in 0..(VGA_WIDTH - 1) : res.row[i] = IF scr.x <= i /\ i < scr.x + Len(t) THEN t[i - scr.x + 1] ELSE scr.row[i]
  <2>1. res.x = mid.x - n /\ res.row = mid.row
    BY <1>8
  <2>2. res.x = scr.x + Len(t) - n
    <3>1. mid.x = scr.x + Len(t)
      BY <1>4
    <3>2. scr.x \in Nat /\ Len(t) \in Nat
      BY <1>1, CellFacts, TextSeq DEF Screens
    <3> QED BY <2>1, <3>1, <3>2
  <2>3. ASSUME NEW i \in 0..(VGA_WIDTH - 1)
        PROVE  res.row[i] = IF scr.x <= i /\ i < scr.x + Len(t) THEN t[i - scr.x + 1] ELSE scr.row[i]
    <3>1. res.row[i] = mid.row[i]
      BY <2>1
    <3>2. mid.row[i] = IF scr.x <= i /\ i < scr.x + Len(t) THEN t[i - scr.x + 1] ELSE scr.row[i]
      BY <1>4
    <3> QED BY <3>1, <3>2
  <2> QED BY <2>2, <2>3
<1> QED BY <1>8, <1>9 DEF res, b

LEMMA CharsAreCells ==
  ASSUME NEW s \in Seq(Chars)
  PROVE  s \in Seq(Cells) /\ Len(s) \in Nat
<1>1. Len(s) \in Nat /\ s = [i \in 1..Len(s) |-> s[i]] /\ \A i \in 1..Len(s) : s[i] \in Cells
  BY ElementOfSeq DEF Cells
<1>2. s \in [1..Len(s) -> Cells]
  BY <1>1
<1> QED BY <1>1, <1>2

\* A character is typed.
LEMMA InsertShown ==
  ASSUME NEW scr \in Screens, NEW at \in 0..(VGA_WIDTH - 1), NEW s \in Seq(Chars), NEW cur \in 0..Len(s),
         NEW cl, RowHolds(scr, at, s, cur, cl), NEW c \in Chars, at + Len(s) + 1 < VGA_WIDTH,
         NEW longer, longer = InsertAt(s, cur + 1, c)
  PROVE  RowHolds(Printed(scr, From(cur + 1, longer) \o Back(Len(longer) - cur - 1)), at, longer, cur + 1, cl)
<1> DEFINE n == Len(s)
           t == From(cur + 1, longer)
           r == cur + 1
           new == Printed(scr, t \o Back(n - cur))
           W == VGA_WIDTH
<1>1. n \in Nat /\ W \in Nat /\ at \in Nat /\ cur \in Nat /\ cur <= n /\ n - cur \in Nat /\ at + n + 1 < W
  BY CellFacts
<1>2. longer \in Seq(Chars) /\ Len(longer) = n + 1
      /\ \A i \in 1..(n + 1) : longer[i] = IF i <= cur THEN s[i] ELSE IF i = cur + 1 THEN c ELSE s[i - 1]
  <2> DEFINE ins == InsertAt(s, cur + 1, c)
  <2>1. ins \in Seq(Chars) /\ Inserted(ins, s, cur, c)
    BY Zenon, InsertFacts
  <2>2. longer = ins
    OBVIOUS
  <2> HIDE DEF ins
  <2> QED BY <2>1, <2>2 DEF Inserted
<1>3. t \in Seq(Chars) /\ Len(t) = n + 1 - cur /\ \A k \in 1..(n + 1 - cur) : t[k] = longer[cur + k]
  <2>1. r \in 1..(Len(longer) + 1) /\ Len(longer) - r + 1 = n + 1 - cur /\ \A k \in 1..(n + 1 - cur) : r + k - 1 = cur + k
    BY <1>1, <1>2
  <2> HIDE DEF r
  <2>2. From(r, longer) \in Seq(Chars) /\ Len(From(r, longer)) = Len(longer) - r + 1
        /\ \A k \in 1..(Len(longer) - r + 1) : From(r, longer)[k] = longer[r + k - 1]
    BY <1>2, <2>1, FromFacts
  <2>3. t = From(r, longer)
    BY DEF r
  <2> HIDE DEF t
  <2> QED BY <2>1, <2>2, <2>3
<1>4. Len(longer) - cur - 1 = n - cur
  BY <1>1, <1>2
<1>5. t \in Seq(Cells)
  BY <1>3, CharsAreCells
<1> HIDE DEF t, n
<1>6. scr.x = at + cur /\ scr.x + Len(t) = at + n + 1
  <2>1. scr.x = at + cur
    BY DEF RowHolds
  <2> QED BY <1>1, <1>3, <2>1
<1>7. new.x = at + cur + 1
      /\ \A i \in 0..(W - 1) : new.row[i] = IF at + cur <= i /\ i < at + n + 1 THEN t[i - (at + cur) + 1] ELSE scr.row[i]
  <2>1. scr.x + Len(t) < VGA_WIDTH /\ n - cur <= scr.x + Len(t)
    BY <1>1, <1>6
  <2> DEFINE q == n - cur
  <2>2. q \in Nat /\ q <= scr.x + Len(t)
    BY <1>1, <2>1
  <2> HIDE DEF q
  <2>3. Printed(scr, t \o Back(q)).x = scr.x + Len(t) - q
        /\ \A i \in 0..(W - 1) : Printed(scr, t \o Back(q)).row[i] =
             IF scr.x <= i /\ i < scr.x + Len(t) THEN t[i - scr.x + 1] ELSE scr.row[i]
    BY <1>5, <2>1, <2>2, PrintedTextBack
  <2>4. scr.x + Len(t) - q = at + cur + 1
    BY <1>1, <1>6 DEF q
  <2>5. new = Printed(scr, t \o Back(q))
    BY DEF q
  <2> HIDE DEF new
  <2> QED BY <1>6, <2>3, <2>4, <2>5
<1> HIDE DEF new
<1>8. ASSUME NEW i \in 1..(n + 1) PROVE new.row[at + i - 1] = longer[i]
  <2>1. at + i - 1 \in 0..(W - 1)
    BY <1>1
  <2>2. CASE i <= cur
    <3>1. ~(at + cur <= at + i - 1) /\ i \in 1..n
      BY <1>1, <2>2
    <3>2. scr.row[at + i - 1] = s[i]
      BY <3>1 DEF RowHolds, n
    <3> QED BY <1>2, <1>7, <2>1, <2>2, <3>1, <3>2
  <2>3. CASE ~(i <= cur)
    <3>1. at + cur <= at + i - 1 /\ at + i - 1 < at + n + 1 /\ at + i - 1 - (at + cur) + 1 = i - cur
          /\ i - cur \in 1..(n + 1 - cur) /\ cur + (i - cur) = i
      BY <1>1, <2>3
    <3>2. new.row[at + i - 1] = t[i - cur]
      BY <1>7, <2>1, <3>1
    <3> QED BY <1>3, <3>1, <3>2
  <2> QED BY <2>2, <2>3
<1>9. ASSUME cl, NEW i \in (at + (n + 1))..(W - 1) PROVE new.row[i] = Blank
  <2>1. i \in 0..(W - 1) /\ i \in (at + n)..(W - 1) /\ ~(i < at + n + 1)
    BY <1>1
  <2>2. scr.row[i] = Blank
    BY <1>9, <2>1 DEF RowHolds, n
  <2> QED BY <1>7, <2>1, <2>2
<1>10. new.x = at + (cur + 1)
  BY <1>1, <1>7
<1>11. RowHolds(new, at, longer, cur + 1, cl)
  BY <1>2, <1>8, <1>9, <1>10 DEF RowHolds
<1> QED BY <1>4, <1>11 DEF new, t, n

LEMMA PrintedOne ==
  ASSUME NEW scr, NEW c
  PROVE  Printed(scr, <<c>>) = vga_putchar(scr, c)
<1> DEFINE w == [k \in 0..1 |-> IF k = 0 THEN scr ELSE vga_putchar(scr, c)]
           one == <<c>>
<1>1. Len(one) = 1 /\ one[1] = c /\ Len(one) \in Nat
  OBVIOUS
<1>2. w[0] = scr /\ w[1] = vga_putchar(scr, c)
  OBVIOUS
<1> HIDE DEF w, one
<1>3. Steps(scr, one, w)
  <2>1. \A k \in 1..Len(one) : k = 1 /\ k - 1 = 0
    BY <1>1
  <2> QED BY <1>1, <1>2, <2>1 DEF Steps
<1>4. Printed(scr, one) = w[Len(one)]
  BY <1>1, <1>3, PrintedIs
<1> QED BY <1>1, <1>2, <1>4 DEF one

\* The character before the cursor is taken out.
LEMMA BackspaceShown ==
  ASSUME NEW scr \in Screens, NEW at \in 0..(VGA_WIDTH - 1), NEW s \in Seq(Chars), NEW cur \in 1..Len(s),
         NEW cl, RowHolds(scr, at, s, cur, cl), at + Len(s) < VGA_WIDTH,
         NEW rest, rest = From(cur + 1, s), NEW shorter, shorter = RemoveAt(s, cur)
  PROVE  RowHolds(Printed(scr, <<BACKSPACE>> \o rest \o <<Blank>> \o Back(Len(rest) + 1)), at, shorter, cur - 1, cl)
<1> DEFINE n == Len(s)
           W == VGA_WIDTH
           b == <<BACKSPACE>>
           e == <<Blank>>
           one == vga_putchar(scr, BACKSPACE)
<1>1. n \in Nat /\ W \in Nat /\ at \in Nat /\ cur \in Nat /\ 1 <= cur /\ cur <= n /\ at + n < W /\ n - cur \in Nat
  BY CellFacts
<1>2. rest \in Seq(Chars) /\ Len(rest) = n - cur /\ \A k \in 1..(n - cur) : rest[k] = s[cur + k]
  <2> DEFINE r == cur + 1
  <2>1. r \in 1..(n + 1) /\ n - r + 1 = n - cur /\ \A k \in 1..(n - cur) : r + k - 1 = cur + k
    BY <1>1
  <2> HIDE DEF r
  <2>2. From(r, s) \in Seq(Chars) /\ Len(From(r, s)) = n - r + 1 /\ \A k \in 1..(n - r + 1) : From(r, s)[k] = s[r + k - 1]
    BY <2>1, FromFacts
  <2>3. rest = From(r, s)
    BY DEF r
  <2> HIDE DEF n
  <2> QED BY <2>1, <2>2, <2>3
<1>3. shorter \in Seq(Chars) /\ Len(shorter) = n - 1
      /\ \A i \in 1..(n - 1) : shorter[i] = IF i < cur THEN s[i] ELSE s[i + 1]
  <2> DEFINE rem == RemoveAt(s, cur)
  <2>1. rem \in Seq(Chars) /\ Removed(rem, s, cur)
    BY Zenon, RemoveFacts
  <2>2. shorter = rem
    OBVIOUS
  <2> HIDE DEF rem
  <2> QED BY <2>1, <2>2 DEF Removed
<1> HIDE DEF n
<1>4. rest \in Seq(Cells) /\ e \in Seq(Cells) /\ b \in Seq(Printable) /\ e \in Seq(Printable)
      /\ Len(e) = 1 /\ e[1] = Blank
  <2>1. rest \in Seq(Cells)
    BY <1>2, CharsAreCells
  <2>2. Blank \in Cells /\ Blank \in Printable /\ BACKSPACE \in Printable
    BY CellFacts DEF Printable
  <2> QED BY <2>1, <2>2
<1> HIDE DEF b, e
<1> DEFINE t == rest \o e
<1>5. t \in Seq(Cells) /\ Len(t) = n - cur + 1 /\ \A k \in 1..(n - cur + 1) : t[k] = IF k <= n - cur THEN rest[k] ELSE Blank
  <2>1. t \in Seq(Cells) /\ Len(t) = Len(rest) + Len(e)
        /\ \A k \in 1..(Len(rest) + Len(e)) : t[k] = IF k <= Len(rest) THEN rest[k] ELSE e[k - Len(rest)]
    BY <1>4, ConcatProperties
  <2> HIDE DEF t
  <2>2. Len(rest) + Len(e) = n - cur + 1
    BY <1>2, <1>4
  <2>3. ASSUME NEW k \in 1..(n - cur + 1) PROVE t[k] = IF k <= n - cur THEN rest[k] ELSE Blank
    <3>1. CASE k <= n - cur
      BY <1>2, <2>1, <2>2, <3>1
    <3>2. CASE ~(k <= n - cur)
      <4>1. k - Len(rest) = 1 /\ ~(k <= Len(rest))
        BY <1>1, <1>2, <3>2
      <4> QED BY <1>4, <2>1, <2>2, <3>2, <4>1
    <3> QED BY <3>1, <3>2
  <2> QED BY <2>1, <2>2, <2>3
<1> DEFINE m == Len(rest) + 1
           back == Back(m)
<1>6. m \in Nat /\ m = n - cur + 1
  BY <1>1, <1>2
<1>7. back \in Seq(Printable) /\ rest \in Seq(Printable) /\ t \in Seq(Printable)
  <2> HIDE DEF t, m
  <2> QED BY <1>4, <1>5, <1>6, BackSeq, TextSeq
<1>8. Printed(scr, b \o rest \o e \o back) = Printed(one, t \o back)
  <2>1. b \o rest \o e \o back = b \o (t \o back)
    <3>0. ASSUME NEW x \in Seq(Printable), NEW y \in Seq(Printable), NEW z \in Seq(Printable)
          PROVE  (x \o y) \o z = x \o (y \o z)
      BY SMTT(20), ConcatAssociative
    <3>1. (b \o rest) \o e = b \o t
      BY SMTT(20), <1>4, <1>7, <3>0
    <3>2. (b \o t) \o back = b \o (t \o back)
      <4> HIDE DEF back, t
      <4> QED BY <1>4, <1>7, <3>0
    <3> HIDE DEF back, t
    <3> QED BY <3>1, <3>2
  <2>2. t \o back \in Seq(Printable)
    <3> HIDE DEF t, back
    <3> QED BY <1>7, ConcatProperties
  <2> DEFINE tail == t \o back
  <2>5. tail \in Seq(Printable)
    BY <2>2
  <2> HIDE DEF tail
  <2>3. Printed(scr, b \o tail) = Printed(Printed(scr, b), tail)
    BY <1>4, <2>5, PrintedConcat
  <2>4. Printed(scr, b) = one
    BY PrintedOne DEF b
  <2> QED BY <2>1, <2>3, <2>4 DEF tail
<1>9. one \in Screens
  BY PutType DEF Printable
<1>10. scr.x = at + cur
  BY DEF RowHolds
<1> DEFINE k == at + cur - 1
<1>18. k \in Nat /\ k + 1 = at + cur /\ k - at + 1 = cur
  BY <1>1
<1>11. one.x = k /\ \A i \in 0..(W - 1) : one.row[i] = IF i = k THEN Blank ELSE scr.row[i]
  <2>1. scr.x # 0 /\ scr.x - 1 = k /\ k \in 0..(W - 1) /\ scr.row \in [0..(W - 1) -> Cells]
    BY <1>1, <1>10 DEF Screens
  <2> HIDE DEF k
  <2>2. one = [row |-> [scr.row EXCEPT ![k] = Blank], x |-> k]
    BY <2>1 DEF vga_putchar
  <2> HIDE DEF one
  <2> QED BY <2>1, <2>2
<1> HIDE DEF one, t, m, k
<1> DEFINE new == Printed(one, t \o Back(m))
<1>12. one.x + Len(t) = at + n /\ m <= one.x + Len(t) /\ one.x + Len(t) < VGA_WIDTH
  <2>1. k + (n - cur + 1) = at + n /\ n - cur + 1 <= at + n
    BY <1>1, <1>18
  <2>2. one.x = k /\ Len(t) = n - cur + 1
    BY <1>5, <1>11
  <2> QED BY <1>1, <1>6, <2>1, <2>2
<1>13. new.x = k
       /\ \A i \in 0..(W - 1) : new.row[i] = IF k <= i /\ i < at + n THEN t[i - k + 1] ELSE one.row[i]
  <2>1. new.x = one.x + Len(t) - m
        /\ \A i \in 0..(W - 1) : new.row[i] = IF one.x <= i /\ i < one.x + Len(t) THEN t[i - one.x + 1] ELSE one.row[i]
    BY <1>5, <1>6, <1>9, <1>12, PrintedTextBack
  <2> HIDE DEF new
  <2>2. new.x = k
    <3>1. new.x = one.x + Len(t) - m
      BY <2>1
    <3>2. one.x = k /\ Len(t) = m /\ k + m - m = k
      BY <1>5, <1>6, <1>11, <1>18
    <3>3. one.x + Len(t) - m = k
      BY <3>2
    <3> QED BY <3>1, <3>3
  <2>3. ASSUME NEW i \in 0..(W - 1)
        PROVE  new.row[i] = IF k <= i /\ i < at + n THEN t[i - k + 1] ELSE one.row[i]
    <3>1. new.row[i] = IF one.x <= i /\ i < one.x + Len(t) THEN t[i - one.x + 1] ELSE one.row[i]
      BY <2>1
    <3> QED BY <1>11, <1>12, <3>1
  <2> QED BY <2>2, <2>3
<1> HIDE DEF new
<1>14. ASSUME NEW i \in 1..(n - 1) PROVE new.row[at + i - 1] = shorter[i]
  <2>1. at + i - 1 \in 0..(W - 1)
    BY <1>1
  <2>2. CASE i < cur
    <3>1. ~(k <= at + i - 1) /\ i \in 1..n /\ at + i - 1 # k
      BY <1>1, <1>18, <2>2
    <3>2. scr.row[at + i - 1] = s[i]
      BY <3>1 DEF RowHolds, n
    <3> QED BY <1>3, <1>11, <1>13, <2>1, <2>2, <3>1, <3>2
  <2>3. CASE ~(i < cur)
    <3>1. k <= at + i - 1 /\ at + i - 1 < at + n /\ at + i - 1 - k + 1 = i - cur + 1
          /\ i - cur + 1 \in 1..(n - cur) /\ i - cur + 1 \in 1..(n - cur + 1) /\ cur + (i - cur + 1) = i + 1
      BY <1>1, <1>18, <2>3
    <3>2. new.row[at + i - 1] = t[i - cur + 1]
      <4> DEFINE j == at + i - 1
      <4>1. j \in 0..(W - 1) /\ k <= j /\ j < at + n
        BY <2>1, <3>1
      <4>3. j - k + 1 = i - cur + 1
        BY <1>1, <1>18
      <4> HIDE DEF j
      <4>2. new.row[j] = t[j - k + 1]
        BY <1>13, <4>1
      <4> QED BY <4>2, <4>3 DEF j
    <3>3. t[i - cur + 1] = rest[i - cur + 1]
      BY <1>5, <3>1
    <3>4. rest[i - cur + 1] = s[i + 1]
      BY <1>2, <3>1
    <3> QED BY <1>3, <2>3, <3>2, <3>3, <3>4
  <2> QED BY <2>2, <2>3
<1>15. ASSUME cl, NEW i \in (at + (n - 1))..(W - 1) PROVE new.row[i] = Blank
  <2>1. i \in 0..(W - 1)
    BY <1>1
  <2>2. CASE i < at + n
    <3>1. k <= i /\ i - k + 1 = n - cur + 1 /\ ~(n - cur + 1 <= n - cur) /\ n - cur + 1 \in 1..(n - cur + 1)
      BY <1>1, <1>18, <2>1, <2>2
    <3>2. new.row[i] = t[n - cur + 1]
      BY <1>13, <2>1, <2>2, <3>1
    <3> QED BY <1>5, <3>1, <3>2
  <2>3. CASE ~(i < at + n)
    <3>1. i \in (at + n)..(W - 1)
      BY <1>1, <2>1, <2>3
    <3>2. scr.row[i] = Blank
      BY <1>15, <3>1 DEF RowHolds, n
    <3>3. i # k
      BY <1>1, <1>18, <2>3
    <3> QED BY <1>11, <1>13, <2>1, <2>3, <3>2, <3>3
  <2> QED BY <2>2, <2>3
<1>16. new.x = at + (cur - 1)
  BY <1>1, <1>13, <1>18
<1>17. RowHolds(new, at, shorter, cur - 1, cl)
  BY <1>3, <1>14, <1>15, <1>16 DEF RowHolds
<1> QED BY <1>8, <1>17 DEF new, t, m, b, e

\* Another line is shown in the place of s.
LEMMA ShowsShown ==
  ASSUME NEW scr \in Screens, NEW at \in 0..(VGA_WIDTH - 1), NEW s \in Seq(Chars), NEW cur \in 0..Len(s),
         NEW cl, RowHolds(scr, at, s, cur, cl), at + Len(s) < VGA_WIDTH,
         NEW new \in Seq(Chars), at + Len(new) < VGA_WIDTH
  PROVE  RowHolds(Printed(scr, Back(cur) \o Times(Len(s), Blank) \o Back(Len(s)) \o new), at, new, Len(new), cl)
<1> DEFINE n == Len(s)
           m == Len(new)
           W == VGA_WIDTH
           a == Back(cur)
           b == Times(n, Blank)
           c == Back(n)
<1>1. n \in Nat /\ m \in Nat /\ W \in Nat /\ at \in Nat /\ cur \in Nat /\ cur <= n /\ at + n < W /\ at + m < W
  BY CellFacts
<1>2. scr.x = at + cur /\ scr.row \in [0..(W - 1) -> Cells]
  BY DEF RowHolds, Screens
<1>3. b \in Seq(Cells) /\ Len(b) = n /\ \A i \in 1..n : b[i] = Blank
  <2> HIDE DEF n
  <2>1. b \in [1..n -> Cells] /\ \A i \in 1..n : b[i] = Blank
    BY CellFacts DEF Times
  <2> HIDE DEF b
  <2> QED BY <1>1, <2>1
<1>4. new \in Seq(Cells)
  BY CharsAreCells
<1> HIDE DEF n, m, b
<1>5. a \in Seq(Printable) /\ b \in Seq(Printable) /\ c \in Seq(Printable) /\ new \in Seq(Printable)
  BY <1>1, <1>3, <1>4, BackSeq, TextSeq
<1> DEFINE ab == a \o b
           abc == ab \o c
           one == Printed(scr, a)
           two == Printed(one, b)
           three == Printed(two, c)
           four == Printed(three, new)
<1>6. Printed(scr, a \o b \o c \o new) = four
  <2> HIDE DEF a, c
  <2>1. ab \in Seq(Printable) /\ abc \in Seq(Printable)
    BY <1>5, ConcatProperties
  <2>2. Printed(scr, ab) = two
    BY <1>5, PrintedConcat
  <2>3. Printed(scr, abc) = Printed(Printed(scr, ab), c)
    <3> HIDE DEF ab
    <3> QED BY <1>5, <2>1, PrintedConcat
  <2>4. Printed(scr, abc \o new) = Printed(Printed(scr, abc), new)
    <3> HIDE DEF abc
    <3> QED BY <1>5, <2>1, PrintedConcat
  <2> HIDE DEF two
  <2>5. Printed(scr, abc) = three
    BY <2>2, <2>3
  <2> QED BY <2>4, <2>5 DEF two
<1>7. one = [row |-> scr.row, x |-> at] /\ one \in Screens
  <2>1. cur <= scr.x /\ scr.x - cur = at
    BY <1>1, <1>2
  <2>2. one = [row |-> scr.row, x |-> scr.x - cur]
    BY <1>1, <2>1, PrintedBack
  <2>3. one \in Screens
    BY <1>5, PrintedType
  <2> QED BY <2>1, <2>2, <2>3
<1> HIDE DEF one, a
<1>8. one.x = at /\ one.row = scr.row
  BY <1>7
<1>9. two \in Screens /\ two.x = at + n
      /\ \A i \in 0..(W - 1) : two.row[i] = IF at <= i /\ i < at + n THEN Blank ELSE scr.row[i]
  <2>1. one.x + Len(b) < VGA_WIDTH
    BY <1>1, <1>3, <1>8
  <2>2. two = TextOn(one, b, Len(b)) /\ two \in Screens
    BY <1>3, <1>5, <1>7, <2>1, PrintedText, PrintedType
  <2> HIDE DEF two
  <2>3. two.x = one.x + Len(b)
        /\ \A i \in 0..(W - 1) : two.row[i] = IF one.x <= i /\ i < one.x + Len(b) THEN b[i - one.x + 1] ELSE one.row[i]
    BY <2>2 DEF TextOn
  <2>4. ASSUME NEW i \in 0..(W - 1)
        PROVE  two.row[i] = IF at <= i /\ i < at + n THEN Blank ELSE scr.row[i]
    <3>1. two.row[i] = IF at <= i /\ i < at + n THEN b[i - at + 1] ELSE scr.row[i]
      BY <1>3, <1>8, <2>3
    <3>2. at <= i /\ i < at + n => i - at + 1 \in 1..n
      BY <1>1
    <3> QED BY <1>3, <3>1, <3>2
  <2>5. two.x = at + n
    BY <1>3, <1>8, <2>3
  <2> QED BY <2>2, <2>4, <2>5
<1> HIDE DEF two
<1>10. three \in Screens /\ three.x = at /\ three.row = two.row
  <2>1. n <= two.x /\ two.x - n = at
    BY <1>1, <1>9
  <2>2. three = [row |-> two.row, x |-> two.x - n]
    BY <1>1, <1>9, <2>1, PrintedBack
  <2>3. three \in Screens
    <3> HIDE DEF c
    <3> QED BY <1>5, <1>9, PrintedType
  <2> HIDE DEF three
  <2> QED BY <2>1, <2>2, <2>3
<1> HIDE DEF three, c
<1>11. four.x = at + m
       /\ \A i \in 0..(W - 1) : four.row[i] = IF at <= i /\ i < at + m THEN new[i - at + 1] ELSE two.row[i]
  <2>1. three.x + Len(new) < VGA_WIDTH
    BY <1>1, <1>10
  <2>2. four = TextOn(three, new, Len(new))
    BY <1>4, <1>10, <2>1, PrintedText
  <2> HIDE DEF four
  <2>3. four.x = three.x + Len(new)
        /\ \A i \in 0..(W - 1) : four.row[i] = IF three.x <= i /\ i < three.x + Len(new) THEN new[i - three.x + 1] ELSE three.row[i]
    BY <2>2 DEF TextOn
  <2>4. ASSUME NEW i \in 0..(W - 1)
        PROVE  four.row[i] = IF at <= i /\ i < at + m THEN new[i - at + 1] ELSE two.row[i]
    <3>1. four.row[i] = IF three.x <= i /\ i < three.x + Len(new) THEN new[i - three.x + 1] ELSE three.row[i]
      BY <2>3
    <3> QED BY <1>10, <3>1 DEF m
  <2>5. four.x = at + m
    BY <1>10, <2>3 DEF m
  <2> QED BY <2>4, <2>5
<1> HIDE DEF four
<1>12. ASSUME NEW i \in 1..m PROVE four.row[at + i - 1] = new[i]
  <2> DEFINE j == at + i - 1
  <2>1. j \in 0..(W - 1) /\ at <= j /\ j < at + m /\ j - at + 1 = i
    BY <1>1
  <2> HIDE DEF j
  <2>2. four.row[j] = new[j - at + 1]
    BY <1>11, <2>1
  <2> QED BY <2>1, <2>2 DEF j
<1>13. ASSUME cl, NEW i \in (at + m)..(W - 1) PROVE four.row[i] = Blank
  <2>1. i \in 0..(W - 1) /\ ~(i < at + m) /\ at <= i
    BY <1>1
  <2>2. four.row[i] = two.row[i]
    BY <1>11, <2>1
  <2>3. CASE i < at + n
    BY <1>9, <2>1, <2>2, <2>3
  <2>4. CASE ~(i < at + n)
    <3>1. i \in (at + n)..(W - 1)
      BY <1>1, <2>1, <2>4
    <3>2. scr.row[i] = Blank
      BY <1>13, <3>1 DEF RowHolds, n
    <3> QED BY <1>9, <2>1, <2>2, <2>4, <3>2
  <2> QED BY <2>3, <2>4
<1>14. RowHolds(four, at, new, m, cl)
  BY <1>11, <1>12, <1>13 DEF RowHolds, m
<1> QED BY <1>6, <1>14 DEF a, b, c, n, m

-----------------------------------------------------------------------------
(* Keys                                                                     *)

LEMMA IndFacts ==
  ASSUME EditorInd
  PROVE  /\ input \in Seq(Chars) /\ Len(input) \in Nat /\ Len(input) < MaxLine /\ cursor \in 0..Len(input)
         /\ screen \in Screens /\ start \in 0..(VGA_WIDTH - 1)
         /\ VGA_WIDTH \in Nat \ {0, 1} /\ MaxLine \in Nat \ {0}
BY CellFacts DEF EditorInd, LineOK, ScreenOK, MaxLine

\* A prompt on the screen scr.
LEMMA PromptStep ==
  ASSUME NEW scr \in Screens, NewPrompt(scr), EmptyLine
  PROVE  ScreenOK'
<1> DEFINE new == vga_putchar(scr, PromptChar)
<1>1. new \in Screens
  BY PutType, CellFacts DEF Printable
<1>2. screen' = new /\ start' = new.x /\ clean' = (\A i \in new.x..(VGA_WIDTH - 1) : new.row[i] = Blank)
      /\ wrapped' = FALSE /\ input' = <<>> /\ cursor' = 0
  BY DEF NewPrompt, EmptyLine
<1> HIDE DEF new
<1>3. new.x \in 0..(VGA_WIDTH - 1) /\ VGA_WIDTH \in Nat
  BY <1>1, CellFacts DEF Screens
<1>4. clean' \in BOOLEAN
  BY <1>2
<1>5. RowHolds(new, new.x, <<>>, 0, clean')
  <2>1. new.x + 0 = new.x /\ Len(<<>>) = 0 /\ 1..0 = {}
    BY <1>3
  <2> QED BY <1>2, <2>1 DEF RowHolds
<1>6. new.x + Len(<<>>) < VGA_WIDTH
  BY <1>3
<1> QED BY <1>1, <1>2, <1>3, <1>4, <1>5, <1>6 DEF ScreenOK, ShownLine

\* A key after which the line stays in its row, or is no longer followed.
LEMMA StaysStep ==
  ASSUME EditorInd, UNCHANGED prompt, StaysInRow, screen' \in Screens, Len(input') \in Nat,
         /\ ~wrapped
         /\ start + Len(input) < VGA_WIDTH
         /\ start + Len(input') < VGA_WIDTH
         => RowHolds(screen', start, input', cursor', clean)
  PROVE  ScreenOK'
<1>1. /\ clean \in BOOLEAN /\ wrapped \in BOOLEAN /\ start \in 0..(VGA_WIDTH - 1) /\ VGA_WIDTH \in Nat
      /\ (~wrapped => start + Len(input) < VGA_WIDTH)
  BY CellFacts DEF EditorInd, ScreenOK, ShownLine
<1>2. start' = start /\ clean' = clean /\ wrapped' = (wrapped \/ start + Len(input') >= VGA_WIDTH)
  BY DEF prompt, StaysInRow
<1>3. wrapped' \in BOOLEAN
  BY <1>2
<1>4. ASSUME ~wrapped' PROVE start + Len(input') < VGA_WIDTH /\ RowHolds(screen', start, input', cursor', clean)
  <2>1. ~wrapped /\ ~(start + Len(input') >= VGA_WIDTH)
    BY <1>2, <1>4
  <2>2. start + Len(input') < VGA_WIDTH
    BY <1>1, <2>1
  <2> QED BY <1>1, <2>1, <2>2
<1> QED BY <1>1, <1>2, <1>3, <1>4 DEF ScreenOK, ShownLine

LEMMA InsertStep ==
  ASSUME EditorInd, NEW c \in Chars, Insert(c)
  PROVE  LineOK' /\ ScreenOK'
<1> DEFINE longer == InsertAt(input, cursor + 1, c)
           t == From(cursor + 1, longer)
           rest == Len(longer) - cursor - 1
<1>1. longer \in Seq(Chars) /\ Len(longer) = Len(input) + 1
  <2>1. longer \in Seq(Chars) /\ Inserted(longer, input, cursor, c)
    BY Zenon, IndFacts, InsertFacts
  <2> QED BY <2>1 DEF Inserted
<1>2. Reprinted(longer) \in Seq(Printable)
  <2> HIDE DEF longer
  <2>1. cursor + 1 \in 1..(Len(longer) + 1) /\ rest \in Nat
    BY <1>1, IndFacts
  <2> DEFINE p == cursor + 1
  <2>2. p \in 1..(Len(longer) + 1)
    BY <2>1
  <2> HIDE DEF p
  <2>3. From(p, longer) \in Seq(Chars)
    BY <1>1, <2>2, FromFacts
  <2>4. t \in Seq(Printable)
    BY <2>3, CharsAreCells, TextSeq DEF p
  <2>5. Back(rest) \in Seq(Printable)
    BY <2>1, BackSeq
  <2> HIDE DEF t, rest
  <2>6. t \o Back(rest) \in Seq(Printable)
    BY <2>4, <2>5, ConcatProperties
  <2> QED BY <2>6 DEF Reprinted, t, rest
<1>3. Shown(Reprinted(longer)) \in Screens
  <2> HIDE DEF longer
  <2> QED BY <1>2, IndFacts, PrintedType DEF Shown
<1>4. CASE Len(longer) < MAX_INPUT - 1
  <2>1. input' = longer /\ cursor' = cursor + 1 /\ screen' = Shown(Reprinted(longer)) /\ StaysInRow
        /\ UNCHANGED <<hist_nav, prompt, ring>>
    BY <1>4 DEF Insert, Prints
  <2>2. LineOK'
    <3> HIDE DEF longer
    <3>1. cursor' \in 0..Len(input')
      BY <1>1, <2>1, IndFacts
    <3> QED BY <1>1, <1>4, <2>1, <3>1 DEF EditorInd, LineOK, ring, MaxLine
  <2>3. ASSUME ~wrapped, start + Len(input) < VGA_WIDTH, start + Len(input') < VGA_WIDTH
        PROVE  RowHolds(screen', start, input', cursor', clean)
    <3>1. RowHolds(screen, start, input, cursor, clean)
      BY <2>3 DEF EditorInd, ScreenOK, ShownLine
    <3>2. start + Len(input) + 1 < VGA_WIDTH
      BY <1>1, <2>1, <2>3, IndFacts
    <3>3. RowHolds(Printed(screen, From(cursor + 1, longer) \o Back(Len(longer) - cursor - 1)), start, longer, cursor + 1, clean)
      BY <3>1, <3>2, IndFacts, InsertShown
    <3> QED BY <2>1, <3>3 DEF Reprinted, Shown
  <2>4. screen' \in Screens /\ Len(input') \in Nat
    BY <1>1, <1>3, <2>1, IndFacts
  <2>5. ScreenOK'
    BY <2>1, <2>3, <2>4, StaysStep
  <2> QED BY <2>2, <2>5
<1>5. CASE ~(Len(longer) < MAX_INPUT - 1)
  <2>1. EmptyLine /\ NewPrompt(Shown(Reprinted(longer))) /\ UNCHANGED ring
    BY <1>5 DEF Insert
  <2> DEFINE scr == Shown(Reprinted(longer))
  <2>2. scr \in Screens /\ NewPrompt(scr)
    BY <1>3, <2>1
  <2> HIDE DEF scr
  <2>3. ScreenOK'
    BY <2>1, <2>2, PromptStep
  <2>4. LineOK'
    <3>1. input' = <<>> /\ cursor' = 0 /\ hist_nav' = -1 /\ UNCHANGED <<history, history_count, history_write>>
      BY <2>1 DEF EmptyLine, ring
    <3>2. 0 < MaxLine /\ -1 \in -1..(history_count - 1)
      BY IndFacts, CellFacts DEF EditorInd, LineOK
    <3> QED BY <3>1, <3>2 DEF EditorInd, LineOK
  <2> QED BY <2>3, <2>4
<1> QED BY <1>4, <1>5

LEMMA BackspaceStep ==
  ASSUME EditorInd, Backspace
  PROVE  LineOK' /\ ScreenOK'
<1> DEFINE shorter == RemoveAt(input, cursor)
           rest == From(cursor + 1, input)
           m == Len(rest) + 1
<1>1. cursor \in 1..Len(input) /\ input' = shorter /\ cursor' = cursor - 1 /\ screen' = Shown(Erased) /\ StaysInRow
      /\ UNCHANGED <<hist_nav, prompt, ring>>
  BY IndFacts DEF Backspace, Prints
<1>2. shorter \in Seq(Chars) /\ Len(shorter) = Len(input) - 1
  <2>1. shorter \in Seq(Chars) /\ Removed(shorter, input, cursor)
    BY Zenon, <1>1, IndFacts, RemoveFacts
  <2> QED BY <2>1 DEF Removed
<1>3. rest \in Seq(Chars)
  <2> DEFINE p == cursor + 1
  <2>1. p \in 1..(Len(input) + 1)
    BY <1>1, IndFacts
  <2> HIDE DEF p
  <2>2. From(p, input) \in Seq(Chars)
    BY <2>1, IndFacts, FromFacts
  <2> QED BY <2>2 DEF p
<1> HIDE DEF shorter
<1>4. screen' \in Screens
  <2> HIDE DEF rest
  <2>1. rest \in Seq(Printable) /\ m \in Nat
    BY <1>3, CharsAreCells, TextSeq
  <2>2. Back(m) \in Seq(Printable) /\ <<BACKSPACE>> \in Seq(Printable) /\ <<Blank>> \in Seq(Printable)
    <3>1. BACKSPACE \in Printable /\ Blank \in Printable
      BY CellFacts DEF Printable
    <3> HIDE DEF m
    <3> QED BY <2>1, <3>1, BackSeq
  <2> DEFINE a == <<BACKSPACE>>
             b == <<Blank>>
             c == Back(m)
  <2> HIDE DEF a, b, c, m
  <2>3. a \o rest \in Seq(Printable)
    BY <2>1, <2>2, ConcatProperties DEF a
  <2>4. (a \o rest) \o b \in Seq(Printable)
    BY <2>2, <2>3, ConcatProperties DEF b
  <2>5. ((a \o rest) \o b) \o c \in Seq(Printable)
    BY <2>2, <2>4, ConcatProperties DEF c
  <2>6. Erased = ((a \o rest) \o b) \o c
    BY DEF Erased, a, b, c, m, rest
  <2>7. Erased \in Seq(Printable)
    BY <2>5, <2>6
  <2> QED BY <1>1, <2>7, IndFacts, PrintedType DEF Shown
<1>5. LineOK'
  <2>1. cursor' \in 0..Len(input')
    BY <1>1, <1>2, IndFacts
  <2>2. Len(input') < MaxLine
    BY <1>1, <1>2, IndFacts
  <2> QED BY <1>1, <1>2, <2>1, <2>2 DEF EditorInd, LineOK, ring
<1>6. ASSUME ~wrapped, start + Len(input) < VGA_WIDTH, start + Len(input') < VGA_WIDTH
      PROVE  RowHolds(screen', start, input', cursor', clean)
  <2>1. RowHolds(screen, start, input, cursor, clean)
    BY <1>6 DEF EditorInd, ScreenOK, ShownLine
  <2>2. RowHolds(Printed(screen, <<BACKSPACE>> \o rest \o <<Blank>> \o Back(Len(rest) + 1)), start, shorter, cursor - 1, clean)
    BY <1>1, <1>6, <2>1, IndFacts, BackspaceShown DEF shorter
  <2> QED BY <1>1, <2>2 DEF Erased, Shown
<1>7. ScreenOK'
  <2>1. Len(input') \in Nat
    BY <1>1, <1>2, IndFacts
  <2> QED BY <1>1, <1>4, <1>6, <2>1, StaysStep
<1> QED BY <1>5, <1>7

LEMMA ShowsStep ==
  ASSUME EditorInd, NEW nav \in -1..(history_count - 1), NEW new \in Seq(Chars), Len(new) < MaxLine, Shows(nav, new)
  PROVE  LineOK' /\ ScreenOK'
<1> DEFINE a == Back(cursor)
           b == Times(Len(input), Blank)
           c == Back(Len(input))
           chars == a \o b \o c \o new
<1>1. hist_nav' = nav /\ input' = new /\ cursor' = Len(new) /\ screen' = Shown(chars) /\ StaysInRow
      /\ UNCHANGED <<ring, prompt>>
  BY DEF Shows, Prints
<1>2. Len(new) \in Nat
  BY CharsAreCells
<1>3. LineOK'
  <2>1. cursor' \in 0..Len(input')
    BY <1>1, <1>2
  <2> QED BY <1>1, <2>1 DEF EditorInd, LineOK, ring
<1>4. screen' \in Screens
  <2>1. cursor \in Nat /\ Len(input) \in Nat
    BY IndFacts
  <2>2. b \in Seq(Printable)
    <3>1. b \in [1..Len(input) -> Printable]
      BY CellFacts DEF Times, Printable
    <3> HIDE DEF b
    <3> QED BY <2>1, <3>1
  <2>3. a \in Seq(Printable) /\ c \in Seq(Printable) /\ new \in Seq(Printable)
    BY <2>1, BackSeq, CharsAreCells, TextSeq
  <2> HIDE DEF a, b, c
  <2>4. a \o b \in Seq(Printable)
    BY <2>2, <2>3, ConcatProperties
  <2>5. (a \o b) \o c \in Seq(Printable)
    BY <2>3, <2>4, ConcatProperties
  <2>6. chars \in Seq(Printable)
    BY <2>3, <2>5, ConcatProperties
  <2> HIDE DEF chars
  <2> QED BY <1>1, <2>6, IndFacts, PrintedType DEF Shown
<1>5. ASSUME ~wrapped, start + Len(input) < VGA_WIDTH, start + Len(input') < VGA_WIDTH
      PROVE  RowHolds(screen', start, input', cursor', clean)
  <2>1. RowHolds(screen, start, input, cursor, clean)
    BY <1>5 DEF EditorInd, ScreenOK, ShownLine
  <2>2. RowHolds(Printed(screen, Back(cursor) \o Times(Len(input), Blank) \o Back(Len(input)) \o new), start, new, Len(new), clean)
    BY <1>1, <1>5, <2>1, IndFacts, ShowsShown
  <2> QED BY <1>1, <2>2 DEF Shown
<1>6. ScreenOK'
  BY <1>1, <1>2, <1>4, <1>5, StaysStep
<1> QED BY <1>3, <1>6

\* The screen's cursor moves over one character of the line.
LEMMA MoveStep ==
  ASSUME EditorInd, MoveLeft \/ MoveRight
  PROVE  LineOK' /\ ScreenOK'
<1>1. UNCHANGED <<input, hist_nav, ring, prompt, wrapped>>
  BY DEF MoveLeft, MoveRight
<1>2. ScreenOK /\ LineOK
  BY DEF EditorInd
<1>3. CASE MoveLeft
  <2>1. cursor > 0 /\ cursor' = cursor - 1 /\ screen' = Printed(screen, Back(1))
    BY <1>3 DEF MoveLeft, Prints, Shown
  <2>2. LineOK'
    <3>1. cursor' \in 0..Len(input')
      BY <1>1, <2>1, IndFacts
    <3> QED BY <1>1, <1>2, <3>1 DEF LineOK, ring
  <2>3. screen' \in Screens
    BY <2>1, IndFacts, BackSeq, PrintedType
  <2>4. ASSUME ~wrapped PROVE RowHolds(screen', start, input, cursor', clean)
    <3>1. RowHolds(screen, start, input, cursor, clean)
      BY <1>2, <2>4 DEF ScreenOK, ShownLine
    <3>2. screen.x = start + cursor /\ start \in Nat
      BY <3>1, IndFacts DEF RowHolds
    <3>3. 1 <= screen.x /\ screen.x - 1 = start + cursor'
      BY <2>1, <3>2, IndFacts
    <3>4. screen' = [row |-> screen.row, x |-> screen.x - 1]
      BY <2>1, <3>3, IndFacts, PrintedBack
    <3>5. screen'.x = start + cursor' /\ screen'.row = screen.row
      BY <3>3, <3>4
    <3> QED BY <3>1, <3>5 DEF RowHolds
  <2> QED BY <1>1, <1>2, <2>2, <2>3, <2>4 DEF ScreenOK, ShownLine, prompt
<1>4. CASE MoveRight
  <2> DEFINE c == input[cursor + 1]
  <2>1. cursor < Len(input) /\ cursor' = cursor + 1 /\ screen' = vga_putchar(screen, c)
    BY <1>4, PrintedOne DEF MoveRight, Prints, Shown
  <2>2. LineOK'
    <3>1. cursor' \in 0..Len(input')
      BY <1>1, <2>1, IndFacts
    <3> QED BY <1>1, <1>2, <3>1 DEF LineOK, ring
  <2>3. c \in Chars /\ c \in Printable /\ c \notin {CURSOR_LEFT, BACKSPACE}
    <3> DEFINE p == cursor + 1
    <3>1. p \in 1..Len(input)
      BY <2>1, IndFacts
    <3> HIDE DEF p
    <3>2. input[p] \in Chars
      BY <3>1, IndFacts, ElementOfSeq
    <3> QED BY <3>2, CellFacts DEF p, Printable
  <2>4. screen' \in Screens
    BY <2>1, <2>3, IndFacts, PutType
  <2>5. ASSUME ~wrapped PROVE RowHolds(screen', start, input, cursor', clean)
    <3>1. RowHolds(screen, start, input, cursor, clean) /\ start + Len(input) < VGA_WIDTH
      BY <1>2, <2>5 DEF ScreenOK, ShownLine
    <3> DEFINE k == start + cursor
    <3>2. screen.x = k /\ k \in 0..(VGA_WIDTH - 1) /\ k # VGA_WIDTH - 1 /\ k + 1 = start + cursor'
      BY <2>1, <3>1, IndFacts DEF RowHolds
    <3>3. screen.row[k] = c
      <4> DEFINE p == cursor + 1
      <4>1. p \in 1..Len(input) /\ start + p - 1 = k
        BY <2>1, IndFacts
      <4> HIDE DEF p, k
      <4>2. screen.row[start + p - 1] = input[p]
        BY <3>1, <4>1 DEF RowHolds
      <4> QED BY <4>1, <4>2 DEF p
    <3>4. screen.row \in [0..(VGA_WIDTH - 1) -> Cells]
      BY IndFacts DEF Screens
    <3> HIDE DEF k, c
    <3>5. [screen.row EXCEPT ![k] = c] = screen.row
      BY <3>2, <3>3, <3>4
    <3>6. screen' = [row |-> screen.row, x |-> k + 1]
      BY <2>1, <2>3, <3>2, <3>5 DEF vga_putchar
    <3>7. screen'.x = start + cursor' /\ screen'.row = screen.row
      BY <3>2, <3>6
    <3> QED BY <3>1, <3>7 DEF RowHolds
  <2> QED BY <1>1, <1>2, <2>2, <2>4, <2>5 DEF ScreenOK, ShownLine, prompt
<1> QED BY <1>3, <1>4

\* The line n lines back in the ring.
LEMMA RecalledFits ==
  ASSUME LineOK, NEW nav \in 0..(history_count - 1)
  PROVE  history[Slot(nav)] \in Seq(Chars) /\ Len(history[Slot(nav)]) < MaxLine
<1>1. nav \in 0..(HISTORY_SIZE - 1) /\ history_write \in 0..(HISTORY_SIZE - 1)
  BY CellFacts DEF LineOK
<1>2. SlotAt(history_write, nav) \in 0..(HISTORY_SIZE - 1)
  BY <1>1, SlotFacts
<1>3. Slot(nav) \in 0..(HISTORY_SIZE - 1)
  BY <1>2 DEF Slot, SlotAt
<1> QED BY <1>3 DEF LineOK

LEMMA RecallStep ==
  ASSUME EditorInd, Up \/ Down
  PROVE  LineOK' /\ ScreenOK'
<1>1. LineOK /\ history_count \in Nat /\ hist_nav \in -1..(history_count - 1)
  BY CellFacts DEF EditorInd, LineOK
<1>2. CASE Up
  <2> DEFINE nav == hist_nav + 1
             new == history[Slot(nav)]
  <2>1. nav \in 0..(history_count - 1) /\ nav \in -1..(history_count - 1) /\ Shows(nav, new)
    BY <1>1, <1>2 DEF Up
  <2> HIDE DEF nav
  <2>2. new \in Seq(Chars) /\ Len(new) < MaxLine
    BY <1>1, <2>1, RecalledFits
  <2> HIDE DEF new
  <2> QED BY <2>1, <2>2, ShowsStep
<1>3. CASE Down
  <2> DEFINE nav == hist_nav - 1
             new == IF hist_nav = 0 THEN <<>> ELSE history[Slot(nav)]
  <2>1. nav \in -1..(history_count - 1) /\ Shows(nav, new) /\ (hist_nav # 0 => nav \in 0..(history_count - 1))
    BY <1>1, <1>3 DEF Down
  <2> HIDE DEF nav
  <2>2. CASE hist_nav = 0
    <3>1. new = <<>> /\ new \in Seq(Chars) /\ Len(new) < MaxLine
      BY <2>2, IndFacts
    <3> HIDE DEF new
    <3> QED BY <2>1, <3>1, ShowsStep
  <2>3. CASE hist_nav # 0
    <3>1. history[Slot(nav)] \in Seq(Chars) /\ Len(history[Slot(nav)]) < MaxLine
      BY <1>1, <2>1, <2>3, RecalledFits
    <3>2. new \in Seq(Chars) /\ Len(new) < MaxLine
      BY <2>3, <3>1
    <3> HIDE DEF new
    <3> QED BY <2>1, <3>2, ShowsStep
  <2> QED BY <2>2, <2>3
<1> QED BY <1>2, <1>3

LEMMA BlankScreen ==
  BlankRow \in Screens
BY CellFacts DEF BlankRow, Screens

LEMMA EnterStep ==
  ASSUME EditorInd, Enter
  PROVE  EditorInd'
<1>1. EmptyLine /\ NewPrompt(BlankRow) /\ LineOK /\ RingOK
  BY DEF Enter, EditorInd
<1>2. ScreenOK'
  BY <1>1, BlankScreen, PromptStep
<1>3. input' = <<>> /\ cursor' = 0 /\ hist_nav' = -1 /\ 0 < MaxLine /\ history_count \in Nat
  BY <1>1, IndFacts, CellFacts DEF EmptyLine, LineOK
<1>4. CASE input = <<>>
  <2>1. UNCHANGED <<history, history_count, history_write, entered>>
    BY <1>4 DEF Enter, ring
  <2>2. LineOK'
    BY <1>1, <1>3, <2>1 DEF LineOK
  <2>3. RingOK'
    BY <1>1, <2>1 DEF RingOK, Slot
  <2> QED BY <1>2, <2>2, <2>3 DEF EditorInd
<1>5. CASE input # <<>>
  <2>1. Remember /\ entered' = LastLines(Append(entered, input))
    BY <1>5 DEF Enter
  <2>2. /\ history' \in [0..(HISTORY_SIZE - 1) -> Seq(Chars)]
        /\ \A i \in 0..(HISTORY_SIZE - 1) : Len(history'[i]) < MaxLine
        /\ history_count' \in 0..HISTORY_SIZE /\ history_write' \in 0..(HISTORY_SIZE - 1) /\ RingOK'
    BY <1>1, <2>1, RememberStep
  <2>3. hist_nav' \in -1..(history_count' - 1)
    <3>1. HISTORY_SIZE \in Nat
      BY CellFacts
    <3>2. history_count' \in Nat
      BY <2>2, <3>1
    <3>3. ASSUME NEW n \in Nat PROVE -1 \in -1..(n - 1)
      OBVIOUS
    <3>4. hist_nav' = -1
      BY <1>3
    <3> QED BY <3>2, <3>3, <3>4
  <2>5. input' \in Seq(Chars) /\ Len(input') < MaxLine /\ cursor' \in 0..Len(input')
    BY <1>3
  <2>4. LineOK'
    BY <2>2, <2>3, <2>5 DEF LineOK
  <2> QED BY <1>2, <2>2, <2>4 DEF EditorInd
<1> QED BY <1>4, <1>5

LEMMA EditorInit ==
  Init => EditorInd
<1> SUFFICES ASSUME Init PROVE EditorInd
  OBVIOUS
<1>1. LineOK
  BY CellFacts DEF Init, LineOK, MaxLine
<1>2. RingOK
  BY DEF Init, RingOK
<1>3. ScreenOK
  <2> DEFINE new == vga_putchar(BlankRow, PromptChar)
  <2>1. new \in Screens
    BY BlankScreen, PutType, CellFacts DEF Printable
  <2>2. new.x = 1 /\ \A i \in 1..(VGA_WIDTH - 1) : new.row[i] = Blank
    <3>1. PromptChar \notin {CURSOR_LEFT, BACKSPACE} /\ VGA_WIDTH - 1 # 0 /\ VGA_WIDTH \in Nat
      BY CellFacts
    <3>2. BlankRow.x = 0 /\ BlankRow.row = [i \in 0..(VGA_WIDTH - 1) |-> Blank]
      BY DEF BlankRow
    <3>3. new = [row |-> [BlankRow.row EXCEPT ![0] = PromptChar], x |-> 1]
      BY <3>1, <3>2 DEF vga_putchar
    <3> HIDE DEF new
    <3>4. \A i \in 1..(VGA_WIDTH - 1) : i \in 0..(VGA_WIDTH - 1) /\ i # 0
      BY <3>1
    <3> QED BY <3>2, <3>3, <3>4
  <2>3. screen = new /\ start = new.x /\ clean = TRUE /\ wrapped = FALSE /\ input = <<>> /\ cursor = 0
    BY DEF Init
  <2> HIDE DEF new
  <2>4. start = 1 /\ 1 + 0 = 1 /\ 1 < VGA_WIDTH /\ Len(<<>>) = 0 /\ 1 \in 0..(VGA_WIDTH - 1)
    BY <2>2, <2>3, CellFacts
  <2>5. RowHolds(screen, start, input, cursor, clean)
    BY <2>2, <2>3, <2>4 DEF RowHolds
  <2> QED BY <2>1, <2>3, <2>4, <2>5 DEF ScreenOK, ShownLine
<1> QED BY <1>1, <1>2, <1>3 DEF EditorInd

LEMMA EditorStep ==
  EditorInd /\ [Next]_vars => EditorInd'
<1> SUFFICES ASSUME EditorInd, [Next]_vars PROVE EditorInd'
  OBVIOUS
<1>1. LineOK /\ ScreenOK /\ RingOK
  BY DEF EditorInd
<1>2. ASSUME UNCHANGED ring PROVE RingOK'
  BY <1>1, <1>2 DEF RingOK, Slot, ring
<1>3. ASSUME NEW c \in Chars, Insert(c) PROVE EditorInd'
  <2>1. UNCHANGED ring
    BY <1>3 DEF Insert
  <2> QED BY <1>2, <1>3, <2>1, InsertStep DEF EditorInd
<1>4. CASE Backspace
  <2>1. UNCHANGED ring
    BY <1>4 DEF Backspace, ring
  <2> QED BY <1>2, <1>4, <2>1, BackspaceStep DEF EditorInd
<1>5. CASE MoveLeft \/ MoveRight
  <2>1. UNCHANGED ring
    BY <1>5 DEF MoveLeft, MoveRight, ring
  <2> QED BY <1>2, <1>5, <2>1, MoveStep DEF EditorInd
<1>6. CASE Up \/ Down
  <2>1. UNCHANGED ring
    BY <1>6 DEF Up, Down, Shows, ring
  <2> QED BY <1>2, <1>6, <2>1, RecallStep DEF EditorInd
<1>7. CASE Enter
  BY <1>7, EnterStep
<1>8. CASE UNCHANGED vars
  <2>1. UNCHANGED <<input, cursor, hist_nav, history, history_count, history_write, entered, screen, start, clean, wrapped>>
    BY <1>8 DEF vars, line, ring, prompt
  <2>2. LineOK'
    BY <1>1, <2>1 DEF LineOK
  <2>3. ScreenOK'
    BY <1>1, <2>1 DEF ScreenOK, ShownLine
  <2> QED BY <1>2, <2>1, <2>2, <2>3 DEF EditorInd, ring
<1> QED BY <1>3, <1>4, <1>5, <1>6, <1>7, <1>8 DEF Next

-----------------------------------------------------------------------------
(* Results                                                                  *)

\* The line, the screen and the ring stay as EditorInd says, whatever is typed
\* at the shell's prompt.
THEOREM EditorInvariant ==
  Spec => []EditorInd
<1> QED BY EditorInit, EditorStep, PTL DEF Spec

\* Until the line has reached the end of its row, after every edit and every
\* recall the row shows the line, with the screen's cursor at the cursor, and
\* nothing behind it if the row was clean.  Nothing is claimed from then on,
\* when CURSOR_LEFT no longer finds the way back.
THEOREM ShownCorrect ==
  Spec => []ScreenShowsLine
<1>1. EditorInd => ScreenShowsLine
  <2> SUFFICES ASSUME EditorInd PROVE ScreenShowsLine
    OBVIOUS
  <2>1. TypeOK
    BY DEF EditorInd, LineOK, ScreenOK, MaxLine, TypeOK, Screens, Cells
  <2>2. ASSUME ~wrapped
        PROVE  /\ screen.x = start + cursor
               /\ \A i \in DOMAIN input : screen.row[start + i - 1] = input[i]
               /\ clean => \A i \in (start + Len(input))..(VGA_WIDTH - 1) : screen.row[i] = Blank
    <3>1. RowHolds(screen, start, input, cursor, clean)
      BY <2>2 DEF EditorInd, ScreenOK, ShownLine
    <3>2. DOMAIN input = 1..Len(input)
      BY IndFacts
    <3> QED BY <3>1, <3>2 DEF RowHolds
  <2> QED BY <2>1, <2>2 DEF ScreenShowsLine
<1> QED BY <1>1, EditorInvariant, PTL

\* The ring gives back the last lines entered, the latest first, also once it
\* is full and its slots are written over.
THEOREM HistoryCorrect ==
  Spec => []HistoryRecalled
<1>1. EditorInd => HistoryRecalled
  BY DEF EditorInd, RingOK, HistoryRecalled
<1> QED BY <1>1, EditorInvariant, PTL
=============================================================================
