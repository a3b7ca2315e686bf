----------------------------- MODULE SEditProofs -----------------------------
(***************************************************************************)
(* The editor's array of lines and its window hold for texts, lines, files   *)
(* and screens of any size, and a text that is not marked as modified is the *)
(* one on the disk.                                                         *)
(***************************************************************************)
EXTENDS SEdit, SequenceTheorems, WellFoundedInduction, TLAPS

Bytes == Chars \cup {NL}
Texts == {s \in Seq(Chars) : Len(s) < MAX_LINE_LEN}

-----------------------------------------------------------------------------
(* Sequences                                                                *)

\* A set of numbers has a least one.
LEMMA NatHasLeast ==
  ASSUME NEW S \in SUBSET Nat, S # {}
  PROVE  \E p \in S : \A q \in S : p <= q
<1> DEFINE R == OpToRel(<, Nat)
<1>1. \A p, q \in Nat : q < p => <<q, p>> \in R
  BY DEF OpToRel
<1>2. IsWellFoundedOn(R, Nat)
  BY NatLessThanWellFounded
<1> HIDE DEF R
<1>3. PICK p \in S : \A q \in S : ~(<<q, p>> \in R)
  BY <1>2, WFMin
<1>4. ASSUME NEW q \in S PROVE p <= q
  <2>1. p \in Nat /\ q \in Nat
    OBVIOUS
  <2>2. ~(q < p)
    BY <1>1, <1>3, <2>1
  <2> QED BY <2>1, <2>2
<1> QED BY <1>4

From(i, s) == SubSeq(s, i, Len(s))

LEMMA FromFacts ==
  ASSUME NEW S, NEW s \in Seq(S), NEW i \in 1..(Len(s) + 1)
  PROVE  /\ From(i, s) \in Seq(S) /\ Len(From(i, s)) = Len(s) - i + 1
         /\ \A k \in 1..(Len(s) - i + 1) : From(i, s)[k] = s[i + k - 1]
<1> DEFINE n == Len(s)
<1>1. n \in Nat /\ \A k \in i..n : s[k] \in S
  BY ElementOfSeq
<1>2. i \in Int /\ n \in Int /\ From(i, s) = SubSeq(s, i, n)
  BY <1>1 DEF From
<1> HIDE DEF n
<1>3. SubSeq(s, i, n) \in Seq(S) /\ Len(SubSeq(s, i, n)) = (IF i <= n THEN n - i + 1 ELSE 0)
      /\ \A k \in 1..(n - i + 1) : SubSeq(s, i, n)[k] = s[i + k - 1]
  BY <1>1, <1>2, SubSeqProperties
<1>4. Len(From(i, s)) = n - i + 1
  <2>1. i \in 1..(n + 1)
    BY DEF n
  <2> QED BY <1>1, <1>2, <1>3, <2>1
<1> QED BY <1>2, <1>3, <1>4 DEF n

\* An element is put in, or taken out.
Inserted(longer, s, p, c) ==
  /\ Len(longer) = Len(s) + 1
  /\ \A i \in 1..(Len(s) + 1) : longer[i] = IF i <= p THEN s[i] ELSE IF i = p + 1 THEN c ELSE s[i - 1]

Removed(shorter, s, n) ==
  /\ Len(shorter) = Len(s) - 1
  /\ \A i \in 1..(Len(s) - 1) : shorter[i] = IF i < n THEN s[i] ELSE s[i + 1]

LEMMA InsertFacts ==
  ASSUME NEW S, NEW s \in Seq(S), NEW p \in 0..Len(s), NEW c \in S
  PROVE  InsertAt(s, p + 1, c) \in Seq(S) /\ Inserted(InsertAt(s, p + 1, c), s, p, c)
<1> DEFINE n == Len(s)
           a == SubSeq(s, 1, p)
           b == From(p + 1, s)
<1>1. n \in Nat /\ p \in Nat /\ p <= n /\ (\A i \in 1..p : s[i] \in S) /\ p + 1 \in 1..(n + 1)
  BY ElementOfSeq
<1>2. a \in Seq(S) /\ Len(a) = p /\ \A i \in 1..p : a[i] = s[i]
  <2>1. p \in Int /\ 1 \in Int /\ p - 1 + 1 = p
    BY <1>1
  <2>2. a \in Seq(S) /\ Len(a) = (IF 1 <= p THEN p - 1 + 1 ELSE 0) /\ \A i \in 1..(p - 1 + 1) : a[i] = s[1 + i - 1]
    BY <1>1, <2>1, SubSeqProperties
  <2> QED BY <1>1, <2>1, <2>2
<1>3. b \in Seq(S) /\ Len(b) = n - p /\ \A i \in 1..(n - p) : b[i] = s[p + i]
  <2>1. b \in Seq(S) /\ Len(b) = n - (p + 1) + 1 /\ \A i \in 1..(n - (p + 1) + 1) : b[i] = s[p + 1 + i - 1]
    BY <1>1, FromFacts
  <2>2. n - (p + 1) + 1 = n - p /\ \A i \in 1..(n - p) : p + 1 + i - 1 = p + i
    BY <1>1
  <2> HIDE DEF b, n
  <2> QED BY <2>1, <2>2
<1> HIDE DEF a, b
<1>4. <<c>> \in Seq(S) /\ Len(<<c>>) = 1 /\ <<c>>[1] = c
  OBVIOUS
<1> DEFINE one == <<c>>
<1> HIDE DEF one
<1>5. a \o one \in Seq(S) /\ Len(a \o one) = p + 1 /\ \A i \in 1..(p + 1) : (a \o one)[i] = IF i <= p THEN a[i] ELSE one[i - p]
  <2>1. one \in Seq(S) /\ Len(one) = 1
    BY <1>4 DEF one
  <2>2. a \o one \in Seq(S) /\ Len(a \o one) = Len(a) + Len(one)
        /\ \A i \in 1..(Len(a) + Len(one)) : (a \o one)[i] = IF i <= Len(a) THEN a[i] ELSE one[i - Len(a)]
    BY <1>2, <2>1, ConcatProperties
  <2> QED BY <1>2, <2>1, <2>2
<1> DEFINE front == a \o one
<1> HIDE DEF front
<1>6. front \o b \in Seq(S) /\ Len(front \o b) = n + 1
      /\ \A i \in 1..(n + 1) : (front \o b)[i] = IF i <= p + 1 THEN front[i] ELSE b[i - (p + 1)]
  <2>1. front \in Seq(S) /\ Len(front) = p + 1
    BY <1>5 DEF front
  <2>2. front \o b \in Seq(S) /\ Len(front \o b) = Len(front) + Len(b)
        /\ \A i \in 1..(Len(front) + Len(b)) : (front \o b)[i] = IF i <= Len(front) THEN front[i] ELSE b[i - Len(front)]
    BY <1>3, <2>1, ConcatProperties
  <2>3. Len(front) + Len(b) = n + 1
    BY <1>1, <1>3, <2>1
  <2> QED BY <2>1, <2>2, <2>3
<1> DEFINE all == front \o b
<1>7. InsertAt(s, p + 1, c) = all
  <2> DEFINE r == p + 1
  <2>1. r - 1 = p
    BY <1>1
  <2> HIDE DEF r
  <2>2. \A i : InsertAt(s, i, c) = (SubSeq(s, 1, i - 1) \o <<c>>) \o SubSeq(s, i, Len(s))
    BY DEF InsertAt
  <2>3. InsertAt(s, r, c) = (SubSeq(s, 1, r - 1) \o <<c>>) \o SubSeq(s, r, Len(s))
    BY <2>2
  <2>4. InsertAt(s, r, c) = (SubSeq(s, 1, p) \o <<c>>) \o SubSeq(s, r, Len(s))
    BY <2>1, <2>3
  <2> QED BY <2>4 DEF r, front, a, b, one, From
<1>8. all \in Seq(S) /\ Len(all) = n + 1 /\ \A i \in 1..(n + 1) : all[i] = IF i <= p + 1 THEN front[i] ELSE b[i - (p + 1)]
  BY <1>6
<1> HIDE DEF all
<1>9. ASSUME NEW i \in 1..(n + 1)
      PROVE  all[i] = IF i <= p THEN s[i] ELSE IF i = p + 1 THEN c ELSE s[i - 1]
  <2>1. CASE i <= p
    BY <1>1, <1>2, <1>5, <1>8, <2>1 DEF front
  <2>2. CASE i = p + 1
    <3>1. front[i] = one[i - p] /\ i - p = 1
      BY <1>1, <1>5, <2>2 DEF front
    <3> QED BY <1>1, <1>4, <1>8, <2>2, <3>1 DEF one
  <2>3. CASE i > p + 1
    <3>1. i - (p + 1) \in 1..(n - p) /\ p + (i - (p + 1)) = i - 1 /\ ~(i <= p) /\ i # p + 1 /\ ~(i <= p + 1)
      BY <1>1, <2>3
    <3>2. all[i] = b[i - (p + 1)]
      BY <1>8, <3>1
    <3> QED BY <1>3, <3>1, <3>2
  <2> QED BY <1>1, <2>1, <2>2, <2>3
<1> QED BY <1>7, <1>8, <1>9 DEF n, Inserted

LEMMA RemoveFacts ==
  ASSUME NEW S, NEW s \in Seq(S), NEW n \in 1..Len(s)
  PROVE  RemoveAt(s, n) \in Seq(S) /\ Removed(RemoveAt(s, n), s, n)
<1> DEFINE len == Len(s)
           a == SubSeq(s, 1, n - 1)
           b == SubSeq(s, n + 1, len)
<1>1. len \in Nat /\ n \in Nat \ {0} /\ n <= len /\ \A i \in 1..len : s[i] \in S
  BY ElementOfSeq
<1> HIDE DEF len
<1> DEFINE p == n - 1
           q == n + 1
<1>2. p \in Nat /\ p \in Int /\ 1 \in Int /\ q \in Int /\ len \in Int /\ p - 1 + 1 = p /\ p = n - 1 /\ q = n + 1
      /\ (\A i \in 1..p : i \in 1..len) /\ \A i \in q..len : i \in 1..len
  BY <1>1
<1>3. a = SubSeq(s, 1, p) /\ b = SubSeq(s, q, len)
  BY DEF len
<1> HIDE DEF p, q, a, b
<1>4. a \in Seq(S) /\ Len(a) = (IF 1 <= p THEN p - 1 + 1 ELSE 0) /\ \A i \in 1..(p - 1 + 1) : a[i] = s[1 + i - 1]
  <2>1. \A i \in 1..p : s[i] \in S
    BY <1>1, <1>2
  <2> QED BY SMTT(20), <1>2, <1>3, <2>1, SubSeqProperties
<1>5. b \in Seq(S) /\ Len(b) = (IF q <= len THEN len - q + 1 ELSE 0) /\ \A i \in 1..(len - q + 1) : b[i] = s[q + i - 1]
  <2>1. \A i \in q..len : s[i] \in S
    BY <1>1, <1>2
  <2> QED BY SMTT(20), <1>2, <1>3, <2>1, SubSeqProperties
<1>6. Len(a) = n - 1 /\ (\A i \in 1..(n - 1) : a[i] = s[i])
  BY <1>1, <1>2, <1>4
<1>7. Len(b) = len - n /\ \A i \in 1..(len - n) : b[i] = s[n + i]
  BY <1>1, <1>2, <1>5
<1>8. a \o b \in Seq(S) /\ Len(a \o b) = Len(a) + Len(b)
      /\ \A i \in 1..(Len(a) + Len(b)) : (a \o b)[i] = IF i <= Len(a) THEN a[i] ELSE b[i - Len(a)]
  BY <1>4, <1>5, ConcatProperties
<1>9. RemoveAt(s, n) = a \o b
  BY DEF RemoveAt, a, b, len
<1> DEFINE c == a \o b
<1>10. c \in Seq(S) /\ Len(c) = len - 1 /\ \A i \in 1..(len - 1) : c[i] = IF i < n THEN a[i] ELSE b[i - n + 1]
  <2>1. Len(a) + Len(b) = len - 1
    BY <1>1, <1>6, <1>7
  <2>2. \A i \in 1..(len - 1) : (i <= Len(a) <=> i < n) /\ i - Len(a) = i - n + 1
    BY <1>1, <1>6
  <2> QED BY <1>8, <2>1, <2>2
<1> HIDE DEF c
<1>11. ASSUME NEW i \in 1..(len - 1) PROVE c[i] = IF i < n THEN s[i] ELSE s[i + 1]
  <2>1. CASE i < n
    BY <1>1, <1>6, <1>10, <2>1
  <2>2. CASE ~(i < n)
    <3>1. i - n + 1 \in 1..(len - n) /\ n + (i - n + 1) = i + 1
      BY <1>1, <2>2
    <3>2. b[i - n + 1] = s[n + (i - n + 1)]
      BY <1>7, <3>1
    <3> QED BY <1>10, <2>2, <3>1, <3>2
  <2> QED BY <2>1, <2>2
<1> QED BY <1>9, <1>10, <1>11 DEF c, len, Removed

LEMMA ReplaceFacts ==
  ASSUME NEW S, NEW s \in Seq(S), NEW n \in 1..Len(s), NEW e \in S
  PROVE  /\ ReplaceAt(s, n, e) \in Seq(S) /\ Len(ReplaceAt(s, n, e)) = Len(s)
         /\ ReplaceAt(s, n, e)[n] = e
         /\ \A i \in 1..Len(s) : i # n => ReplaceAt(s, n, e)[i] = s[i]
<1>1. ReplaceAt(s, n, e) = [s EXCEPT ![n] = e]
  BY DEF ReplaceAt
<1>2. s \in [1..Len(s) -> S] /\ Len(s) \in Nat
  OBVIOUS
<1>3. [s EXCEPT ![n] = e] \in [1..Len(s) -> S]
  BY <1>2
<1> QED BY <1>1, <1>2, <1>3

-----------------------------------------------------------------------------
(* Reading a file                                                           *)

\* w is the lines ls and what becomes of them as the first n of s are read.
Upto(ls, s, n, w) == w = [k \in 0..n |-> IF k = 0 THEN ls ELSE ReadByte(w[k - 1], s[k])]

LEMMA UptoExists ==
  ASSUME NEW ls, NEW s, NEW n \in Nat
  PROVE  \E w : Upto(ls, s, n, w)
<1> DEFINE S == {m \in Nat : ~ \E w : Upto(ls, s, m, w)}
<1>1. SUFFICES ASSUME S # {} PROVE FALSE
  OBVIOUS
<1>2. PICK m \in S : \A q \in S : m <= q
  BY <1>1, NatHasLeast
<1>3. CASE m = 0
  <2>1. Upto(ls, s, 0, [k \in 0..0 |-> ls])
    BY DEF Upto
  <2> QED BY <1>3, <2>1
<1>4. CASE m # 0
  <2>1. m - 1 \in Nat /\ m - 1 \notin S /\ m \in Nat
    BY <1>2, <1>4
  <2>2. PICK w : Upto(ls, s, m - 1, w)
    BY <2>1
  <2> DEFINE v == [k \in 0..m |-> IF k = m THEN ReadByte(w[m - 1], s[m]) ELSE w[k]]
  <2>3. ASSUME NEW k \in 0..m
        PROVE  v[k] = IF k = 0 THEN ls ELSE ReadByte(v[k - 1], s[k])
    <3>1. CASE k = m
      <4>1. k - 1 \in 0..m /\ k - 1 # m /\ k # 0
        BY <2>1, <3>1, <1>4
      <4>2. v[k - 1] = w[m - 1] /\ v[k] = ReadByte(w[m - 1], s[m])
        BY <3>1, <4>1
      <4> QED BY <3>1, <4>1, <4>2
    <3>2. CASE k # m
      <4>1. k \in 0..(m-1)
        BY <2>1, <3>2
      <4>2. w[k] = IF k = 0 THEN ls ELSE ReadByte(w[k - 1], s[k])
        BY <2>2, <4>1 DEF Upto
      <4>3. k # 0 => k - 1 \in 0..m /\ k - 1 # m
        BY <4>1, <2>1
      <4>4. v[k] = w[k] /\ (k # 0 => v[k - 1] = w[k - 1])
        BY <3>2, <4>1, <4>3
      <4> QED BY <4>2, <4>4
    <3> QED BY <3>1, <3>2
  <2>4. v = [k \in 0..m |-> IF k = 0 THEN ls ELSE ReadByte(v[k - 1], s[k])]
    <3> HIDE DEF v
    <3>1. v = [k \in 0..m |-> v[k]]
      BY DEF v
    <3> QED BY <2>3, <3>1
  <2>5. Upto(ls, s, m, v)
    BY <2>4 DEF Upto
  <2> QED BY <2>5
<1> QED BY <1>3, <1>4

Steps(ls, s, w) == w[0] = ls /\ \A k \in 1..Len(s) : w[k] = ReadByte(w[k - 1], s[k])

\* The recursive function of ReadBehind is the lines after every byte.
LEMMA ReadTrace ==
  ASSUME NEW ls, NEW s, Len(s) \in Nat
  PROVE  \E w : Steps(ls, s, w) /\ ReadBehind(ls, s) = w[Len(s)]
<1>1. \E w : Upto(ls, s, Len(s), w)
  BY UptoExists
<1> DEFINE v == CHOOSE w : Upto(ls, s, Len(s), w)
<1>2. ReadBehind(ls, s) = v[Len(s)]
  BY Zenon DEF ReadBehind, Upto
<1>3. Upto(ls, s, Len(s), v)
  BY <1>1
<1> HIDE DEF v
<1>4. Steps(ls, s, v)
  BY <1>3 DEF Upto, Steps
<1> QED BY <1>2, <1>4

\* What follows the bytes one by one ends where ReadBehind does.
LEMMA ReadIs ==
  ASSUME NEW ls, NEW s, Len(s) \in Nat, NEW w, Steps(ls, s, w)
  PROVE  ReadBehind(ls, s) = w[Len(s)]
<1>1. PICK v : Steps(ls, s, v) /\ ReadBehind(ls, s) = v[Len(s)]
  BY ReadTrace
<1> DEFINE S == {k \in 0..Len(s) : v[k] # w[k]}
<1>2. S = {}
  <2> SUFFICES ASSUME S # {} PROVE FALSE
    OBVIOUS
  <2>1. S \in SUBSET Nat
    OBVIOUS
  <2>2. PICK m \in S : \A q \in S : m <= q
    BY <2>1, NatHasLeast
  <2>3. m # 0
    BY <1>1 DEF Steps
  <2>4. m - 1 \in 0..Len(s) /\ m - 1 \notin S /\ m \in 1..Len(s)
    BY <2>2, <2>3
  <2>5. v[m - 1] = w[m - 1]
    BY <2>4
  <2> QED BY <1>1, <2>4, <2>5 DEF Steps
<1> QED BY <1>1, <1>2

LEMMA ReadConcat ==
  ASSUME NEW ls, NEW S, NEW s \in Seq(S), NEW t \in Seq(S)
  PROVE  ReadBehind(ls, s \o t) = ReadBehind(ReadBehind(ls, s), t)
<1> DEFINE m == Len(s)
           n == Len(t)
           st == s \o t
<1>1. m \in Nat /\ n \in Nat /\ Len(st) = m + n /\ \A i \in 1..(m + n) : st[i] = IF i <= m THEN s[i] ELSE t[i - m]
  BY ConcatProperties
<1>2. PICK v : Steps(ls, s, v) /\ ReadBehind(ls, s) = v[m]
  BY <1>1, ReadTrace
<1>3. PICK u : Steps(v[m], t, u) /\ ReadBehind(v[m], t) = u[n]
  BY <1>1, ReadTrace
<1> DEFINE w == [k \in 0..(m + n) |-> IF k <= m THEN v[k] ELSE u[k - m]]
<1> HIDE DEF st
<1>4. Steps(ls, st, w)
  <2>1. w[0] = ls
    BY <1>1, <1>2 DEF Steps
  <2>2. ASSUME NEW k \in 1..(m + n) PROVE w[k] = ReadByte(w[k - 1], st[k])
    <3>1. CASE k <= m
      <4>1. w[k] = v[k] /\ w[k - 1] = v[k - 1] /\ st[k] = s[k] /\ k \in 1..m
        BY <1>1, <3>1
      <4> QED BY <1>2, <4>1 DEF Steps
    <3>2. CASE ~(k <= m)
      <4>1. w[k] = u[k - m] /\ st[k] = t[k - m] /\ k - m \in 1..n
        BY <1>1, <3>2
      <4>2. u[k - m] = ReadByte(u[k - m - 1], t[k - m])
        BY <1>3, <4>1 DEF Steps
      <4>3. w[k - 1] = u[k - m - 1]
        <5>1. CASE k = m + 1
          <6>1. w[k - 1] = v[m] /\ k - m - 1 = 0
            BY <1>1, <5>1
          <6> QED BY <1>3, <6>1 DEF Steps
        <5>2. CASE k # m + 1
          <6>1. ~(k - 1 <= m) /\ k - 1 \in 0..(m + n) /\ k - 1 - m = k - m - 1
            BY <1>1, <3>2, <5>2
          <6> QED BY <6>1
        <5> QED BY <5>1, <5>2
      <4> QED BY <4>1, <4>2, <4>3
    <3> QED BY <3>1, <3>2
  <2> HIDE DEF w
  <2> QED BY <1>1, <2>1, <2>2 DEF Steps
<1>5. ReadBehind(ls, st) = w[m + n]
  <2> HIDE DEF w
  <2>1. Len(st) \in Nat
    BY <1>1
  <2>2. ReadBehind(ls, st) = w[Len(st)]
    BY <1>4, <2>1, ReadIs
  <2> QED BY <1>1, <2>2
<1>6. w[m + n] = u[n]
  <2>1. CASE n = 0
    BY <1>1, <1>3, <2>1 DEF Steps
  <2>2. CASE n # 0
    <3>1. ~(m + n <= m) /\ m + n \in 0..(m + n) /\ m + n - m = n
      BY <1>1, <2>2
    <3> QED BY <3>1
  <2> QED BY <2>1, <2>2
<1> QED BY <1>2, <1>3, <1>5, <1>6 DEF st

LEMMA Sizes ==
  /\ MAX_LINES \in Nat \ {0} /\ MAX_LINE_LEN \in Nat \ {0, 1} /\ BUF_SIZE \in Nat \ {0, 1, 2}
  /\ SCREEN_ROWS \in Nat \ {0, 1} /\ SCREEN_COLS \in Nat \ {0, 1}
  /\ NL \in Bytes /\ Chars \subseteq Bytes /\ NL \notin Chars /\ Typed \subseteq Chars
BY SEditAssumption DEF Bytes

LEMMA TextFacts ==
  /\ <<>> \in Texts
  /\ \A s \in Texts : s \in Seq(Chars) /\ Len(s) \in Nat /\ Len(s) < MAX_LINE_LEN
BY Sizes DEF Texts

LEMMA LastFacts ==
  ASSUME NEW ls \in Seq(Texts), Len(ls) > 0
  PROVE  Last(ls) \in Texts /\ Len(ls) \in 1..Len(ls)
<1> DEFINE n == Len(ls)
<1>1. n \in Nat /\ n \in 1..n
  OBVIOUS
<1>2. ls[n] \in Texts
  BY <1>1, ElementOfSeq
<1> QED BY <1>1, <1>2 DEF Last

\* There is always a line, and it has room for its end.
LEMMA ReadByteType ==
  ASSUME NEW ls \in Seq(Texts), Len(ls) > 0, NEW b \in Bytes
  PROVE  ReadByte(ls, b) \in Seq(Texts) /\ Len(ReadByte(ls, b)) > 0
<1>1. CASE b = NL
  <2>1. Append(ls, <<>>) \in Seq(Texts) /\ Len(Append(ls, <<>>)) = Len(ls) + 1
    BY TextFacts, AppendProperties
  <2> QED BY <1>1, <2>1 DEF ReadByte
<1>2. CASE b # NL /\ Len(Last(ls)) < MAX_LINE_LEN - 1
  <2> DEFINE new == Append(Last(ls), b)
  <2>1. b \in Chars
    BY <1>2 DEF Bytes
  <2>2. new \in Seq(Chars) /\ Len(new) = Len(Last(ls)) + 1
    BY <2>1, LastFacts, TextFacts, AppendProperties
  <2>3. new \in Texts
    BY <1>2, <2>2, LastFacts, TextFacts, Sizes DEF Texts
  <2> HIDE DEF new
  <2> DEFINE n == Len(ls)
  <2>4. n \in 1..Len(ls)
    BY LastFacts
  <2> HIDE DEF n
  <2>5. ReplaceAt(ls, n, new) \in Seq(Texts) /\ Len(ReplaceAt(ls, n, new)) = Len(ls)
    BY <2>3, <2>4, ReplaceFacts
  <2>6. ReadByte(ls, b) = ReplaceAt(ls, n, new)
    BY <1>2 DEF ReadByte, n, new
  <2> QED BY <2>5, <2>6
<1>3. CASE b # NL /\ ~(Len(Last(ls)) < MAX_LINE_LEN - 1)
  BY <1>3 DEF ReadByte
<1> QED BY <1>1, <1>2, <1>3

LEMMA ReadType ==
  ASSUME NEW ls \in Seq(Texts), Len(ls) > 0, NEW s \in Seq(Bytes)
  PROVE  ReadBehind(ls, s) \in Seq(Texts) /\ Len(ReadBehind(ls, s)) > 0
<1>0. Len(s) \in Nat /\ \A k \in 1..Len(s) : s[k] \in Bytes
  BY ElementOfSeq
<1>1. PICK w : Steps(ls, s, w) /\ ReadBehind(ls, s) = w[Len(s)]
  BY <1>0, ReadTrace
<1> DEFINE S == {k \in 0..Len(s) : ~(w[k] \in Seq(Texts) /\ Len(w[k]) > 0)}
<1>2. S = {}
  <2> SUFFICES ASSUME S # {} PROVE FALSE
    OBVIOUS
  <2>1. S \in SUBSET Nat
    OBVIOUS
  <2>2. PICK m \in S : \A q \in S : m <= q
    BY <2>1, NatHasLeast
  <2>3. m # 0
    BY <1>1 DEF Steps
  <2>4. m - 1 \in 0..Len(s) /\ m - 1 \notin S /\ m \in 1..Len(s)
    BY <2>2, <2>3
  <2>5. w[m - 1] \in Seq(Texts) /\ Len(w[m - 1]) > 0 /\ s[m] \in Bytes /\ w[m] = ReadByte(w[m - 1], s[m])
    BY <1>0, <1>1, <2>4 DEF Steps
  <2>6. w[m] \in Seq(Texts) /\ Len(w[m]) > 0
    BY <2>5, ReadByteType
  <2> QED BY <2>4, <2>6
<1> QED BY <1>0, <1>1, <1>2

\* A line that is read behind an empty one takes its place.
LEMMA LineRead ==
  ASSUME NEW ls \in Seq(Texts), NEW t \in Texts
  PROVE  ReadBehind(Append(ls, <<>>), t) = Append(ls, t)
<1> DEFINE n == Len(t)
           w == [k \in 0..n |-> Append(ls, SubSeq(t, 1, k))]
<1>1. n \in Nat /\ n < MAX_LINE_LEN /\ t \in Seq(Chars) /\ \A k \in 1..n : t[k] \in Chars
  <2>1. t \in Seq(Chars) /\ n \in Nat /\ n < MAX_LINE_LEN
    BY TextFacts
  <2> QED BY <2>1, ElementOfSeq
<1>2. \A k \in 0..n : SubSeq(t, 1, k) \in Seq(Chars) /\ Len(SubSeq(t, 1, k)) = k
  <2> TAKE k \in 0..n
  <2>1. k \in Int /\ 1 \in Int /\ k - 1 + 1 = k /\ \A i \in 1..k : t[i] \in Chars
    BY <1>1
  <2>2. SubSeq(t, 1, k) \in Seq(Chars) /\ Len(SubSeq(t, 1, k)) = IF 1 <= k THEN k - 1 + 1 ELSE 0
    BY <2>1, SubSeqProperties
  <2> QED BY <2>1, <2>2
<1>3. w[0] = Append(ls, <<>>)
  <2>1. 0 \in 0..n /\ SubSeq(t, 1, 0) = <<>>
    BY <1>1
  <2> QED BY <2>1
<1>4. w[n] = Append(ls, t)
  <2>1. n \in 0..n /\ SubSeq(t, 1, n) = t
    BY <1>1
  <2> QED BY <2>1
<1>5. ASSUME NEW k \in 1..n PROVE w[k] = ReadByte(w[k - 1], t[k])
  <2> DEFINE x == SubSeq(t, 1, k - 1)
             y == SubSeq(t, 1, k)
             m == Len(ls) + 1
  <2>1. k - 1 \in 0..n /\ k \in 0..n /\ k - 1 < MAX_LINE_LEN - 1 /\ t[k] \in Chars /\ t[k] # NL
    BY <1>1, Sizes
  <2>2. w[k - 1] = Append(ls, x) /\ w[k] = Append(ls, y)
    BY <2>1
  <2>3. x \in Seq(Chars) /\ Len(x) = k - 1 /\ x \in Texts /\ y \in Seq(Chars)
    BY <1>1, <1>2, <2>1, Sizes DEF Texts
  <2>4. y = Append(x, t[k])
    BY <1>1
  <2> HIDE DEF x, y, w
  <2>5. Append(ls, x) \in Seq(Texts) /\ Len(Append(ls, x)) = m /\ Append(ls, x)[m] = x /\ m \in 1..m
    BY <2>3, AppendProperties
  <2>6. Last(Append(ls, x)) = x
    BY <2>5 DEF Last
  <2>7. ReadByte(Append(ls, x), t[k]) = [Append(ls, x) EXCEPT ![m] = y]
    BY <2>1, <2>3, <2>4, <2>5, <2>6 DEF ReadByte, ReplaceAt
  <2>8. [Append(ls, x) EXCEPT ![m] = y] = Append(ls, y)
    <3> DEFINE S == Seq(Chars)
               a == Append(ls, x)
               b == Append(ls, y)
               e == [a EXCEPT ![m] = y]
    <3>1. ls \in Seq(S) /\ x \in S /\ y \in S /\ Len(ls) \in Nat
      <4>1. ls \in [1..Len(ls) -> S] /\ Len(ls) \in Nat
        BY TextFacts, ElementOfSeq
      <4> QED BY <2>3, <4>1
    <3> HIDE DEF S
    <3>2. a \in Seq(S) /\ Len(a) = m /\ a[m] = x /\ \A i \in 1..Len(ls) : a[i] = ls[i]
      BY <3>1, AppendProperties
    <3>3. b \in Seq(S) /\ Len(b) = m /\ b[m] = y /\ \A i \in 1..Len(ls) : b[i] = ls[i]
      BY <3>1, AppendProperties
    <3> HIDE DEF a, b
    <3>4. a \in [1..m -> S] /\ b \in [1..m -> S]
      BY <3>2, <3>3
    <3>5. e \in [1..m -> S] /\ \A i \in 1..m : e[i] = b[i]
      <4>1. \A i \in 1..m : i = m \/ i \in 1..Len(ls)
        BY <3>1
      <4> QED BY <3>1, <3>2, <3>3, <3>4, <4>1
    <3> HIDE DEF e
    <3>6. e = b
      BY <3>4, <3>5
    <3> QED BY <3>6 DEF e, a, b
  <2> QED BY <2>2, <2>7, <2>8
<1> HIDE DEF w
<1>6. Steps(Append(ls, <<>>), t, w)
  BY <1>3, <1>5 DEF Steps
<1>7. ReadBehind(Append(ls, <<>>), t) = w[n]
  BY <1>1, <1>6, ReadIs
<1> QED BY <1>4, <1>7

-----------------------------------------------------------------------------
(* Writing a file                                                           *)

\* w is the text of the first n lines of ls.
JoinedUpto(ls, n, w) == w = [k \in 0..n |-> IF k = 0 THEN <<>> ELSE w[k - 1] \o Append(ls[k], NL)]

LEMMA JoinedExists ==
  ASSUME NEW ls, NEW n \in Nat
  PROVE  \E w : JoinedUpto(ls, n, w)
<1> DEFINE S == {m \in Nat : ~ \E w : JoinedUpto(ls, m, w)}
<1>1. SUFFICES ASSUME S # {} PROVE FALSE
  OBVIOUS
<1>2. PICK m \in S : \A q \in S : m <= q
  BY <1>1, NatHasLeast
<1>3. CASE m = 0
  <2>1. JoinedUpto(ls, 0, [k \in 0..0 |-> <<>>])
    BY DEF JoinedUpto
  <2> QED BY <1>3, <2>1
<1>4. CASE m # 0
  <2>1. m - 1 \in Nat /\ m - 1 \notin S /\ m \in Nat
    BY <1>2, <1>4
  <2>2. PICK w : JoinedUpto(ls, m - 1, w)
    BY <2>1
  <2> DEFINE v == [k \in 0..m |-> IF k = m THEN w[m - 1] \o Append(ls[m], NL) ELSE w[k]]
  <2>3. ASSUME NEW k \in 0..m
        PROVE  v[k] = IF k = 0 THEN <<>> ELSE v[k - 1] \o Append(ls[k], NL)
    <3>1. CASE k = m
      <4>1. k - 1 \in 0..m /\ k - 1 # m /\ k # 0
        BY <2>1, <3>1, <1>4
      <4>2. v[k - 1] = w[m - 1] /\ v[k] = w[m - 1] \o Append(ls[m], NL)
        BY <3>1, <4>1
      <4> QED BY <3>1, <4>1, <4>2
    <3>2. CASE k # m
      <4>1. k \in 0..(m-1)
        BY <2>1, <3>2
      <4>2. w[k] = IF k = 0 THEN <<>> ELSE w[k - 1] \o Append(ls[k], NL)
        BY <2>2, <4>1 DEF JoinedUpto
      <4>3. k # 0 => k - 1 \in 0..m /\ k - 1 # m
        BY <4>1, <2>1
      <4>4. v[k] = w[k] /\ (k # 0 => v[k - 1] = w[k - 1])
        BY <3>2, <4>1, <4>3
      <4> QED BY <4>2, <4>4
    <3> QED BY <3>1, <3>2
  <2>4. v = [k \in 0..m |-> IF k = 0 THEN <<>> ELSE v[k - 1] \o Append(ls[k], NL)]
    <3> HIDE DEF v
    <3>1. v = [k \in 0..m |-> v[k]]
      BY DEF v
    <3> QED BY <2>3, <3>1
  <2>5. JoinedUpto(ls, m, v)
    BY <2>4 DEF JoinedUpto
  <2> QED BY <2>5
<1> QED BY <1>3, <1>4

JoinedSteps(ls, w) == w[0] = <<>> /\ \A k \in 1..Len(ls) : w[k] = w[k - 1] \o Append(ls[k], NL)

LEMMA JoinedTrace ==
  ASSUME NEW ls, Len(ls) \in Nat
  PROVE  \E w : JoinedSteps(ls, w) /\ Joined(ls) = w[Len(ls)]
<1>1. \E w : JoinedUpto(ls, Len(ls), w)
  BY JoinedExists
<1> DEFINE v == CHOOSE w : JoinedUpto(ls, Len(ls), w)
<1>2. Joined(ls) = v[Len(ls)]
  BY Zenon DEF Joined, JoinedUpto
<1>3. JoinedUpto(ls, Len(ls), v)
  BY <1>1
<1> HIDE DEF v
<1>4. ASSUME NEW k \in 0..Len(ls)
      PROVE  v[k] = IF k = 0 THEN <<>> ELSE v[k - 1] \o Append(ls[k], NL)
  BY <1>3, Zenon DEF JoinedUpto
<1>5. v[0] = <<>>
  <2>1. 0 \in 0..Len(ls)
    OBVIOUS
  <2> QED BY <1>4, <2>1
<1>6. ASSUME NEW k \in 1..Len(ls) PROVE v[k] = v[k - 1] \o Append(ls[k], NL)
  <2>1. k \in 0..Len(ls) /\ k # 0
    OBVIOUS
  <2> QED BY <1>4, <2>1
<1>7. JoinedSteps(ls, v)
  BY <1>5, <1>6, Zenon DEF JoinedSteps
<1> QED BY <1>2, <1>7

LEMMA EndedType ==
  ASSUME NEW t \in Texts
  PROVE  Append(t, NL) \in Seq(Bytes) /\ t \in Seq(Bytes) /\ Append(t, NL) = t \o <<NL>>
<1>1. t \in Seq(Chars) /\ Len(t) \in Nat /\ \A i \in 1..Len(t) : t[i] \in Bytes
  BY TextFacts, Sizes, ElementOfSeq
<1>2. t \in [1..Len(t) -> Bytes]
  BY <1>1
<1>3. t \in Seq(Bytes)
  BY <1>1, <1>2
<1>4. Append(t, NL) \in Seq(Bytes)
  BY <1>3, Sizes, AppendProperties
<1>5. Append(t, NL) = t \o <<NL>>
  BY <1>3
<1> QED BY <1>3, <1>4, <1>5

\* What was written is read again as the same lines, and an empty one.
LEMMA SplitOfJoined ==
  ASSUME NEW ls \in Seq(Texts)
  PROVE  Joined(ls) \in Seq(Bytes) /\ Split(Joined(ls)) = Append(ls, <<>>)
<1> DEFINE n == Len(ls)
           one == << <<>> >>
<1>1. n \in Nat /\ \A k \in 1..n : ls[k] \in Texts
  BY ElementOfSeq
<1>2. PICK w : JoinedSteps(ls, w) /\ Joined(ls) = w[n]
  BY <1>1, JoinedTrace
<1> DEFINE Good(k) == w[k] \in Seq(Bytes) /\ ReadBehind(one, w[k]) = Append(SubSeq(ls, 1, k), <<>>)
           S == {k \in 0..n : ~Good(k)}
<1>3. S = {}
  <2> SUFFICES ASSUME S # {} PROVE FALSE
    OBVIOUS
  <2>1. S \in SUBSET Nat
    OBVIOUS
  <2>2. PICK m \in S : \A q \in S : m <= q
    BY <2>1, NatHasLeast
  <2>3. m # 0
    <3>1. w[0] = <<>> /\ w[0] \in Seq(Bytes)
      BY <1>2 DEF JoinedSteps
    <3>2. SubSeq(ls, 1, 0) = <<>> /\ Append(<<>>, <<>>) = one
      OBVIOUS
    <3>3. ReadBehind(one, <<>>) = one
      <4> DEFINE e == <<>>
                 v == [k \in 0..0 |-> one]
      <4>1. Len(e) = 0 /\ Len(e) \in Nat /\ 1..0 = {} /\ v[0] = one
        OBVIOUS
      <4> HIDE DEF e, v
      <4>2. Steps(one, e, v)
        BY <4>1 DEF Steps
      <4>3. ReadBehind(one, e) = v[Len(e)]
        BY <4>1, <4>2, ReadIs
      <4> QED BY <4>1, <4>3 DEF e
    <3>4. Good(0)
      BY <3>1, <3>2, <3>3
    <3> QED BY <3>4
  <2>4. m - 1 \in 0..n /\ m - 1 \notin S /\ m \in 1..n
    BY <2>2, <2>3
  <2> DEFINE p == m - 1
             front == SubSeq(ls, 1, p)
             line == ls[m]
             old == w[p]
             end == <<NL>>
  <2>5. old \in Seq(Bytes) /\ ReadBehind(one, old) = Append(front, <<>>)
    BY <2>4
  <2>6. w[m] = old \o Append(line, NL)
    BY <1>2, <2>4 DEF JoinedSteps
  <2>7. line \in Texts /\ Append(line, NL) \in Seq(Bytes) /\ line \in Seq(Bytes) /\ Append(line, NL) = line \o end /\ end \in Seq(Bytes)
    <3>1. line \in Texts
      BY <1>1, <2>4
    <3> HIDE DEF line
    <3> QED BY SMTT(20), <3>1, EndedType, Sizes
  <2>8. front \in Seq(Texts)
    <3>1. p \in Int /\ 1 \in Int /\ \A i \in 1..p : ls[i] \in Texts
      BY <1>1, <2>4
    <3> HIDE DEF p
    <3> QED BY <3>1, SubSeqProperties
  <2>9. SubSeq(ls, 1, m) = Append(front, line)
    BY <1>1, <2>4
  <2> DEFINE now == w[m]
             ended == Append(line, NL)
  <2>10. now \in Seq(Bytes) /\ ReadBehind(one, now) = ReadBehind(Append(front, <<>>), ended)
    <3>1. old \in Seq(Bytes) /\ ended \in Seq(Bytes) /\ now = old \o ended
      BY <2>5, <2>6, <2>7
    <3> HIDE DEF old, ended, front, now, one
    <3>2. old \o ended \in Seq(Bytes)
      BY <3>1, ConcatProperties
    <3>3. ReadBehind(one, old \o ended) = ReadBehind(ReadBehind(one, old), ended)
      BY <3>1, ReadConcat
    <3> QED BY <2>5, <3>1, <3>2, <3>3
  <2>11. ReadBehind(Append(front, <<>>), ended) = Append(Append(front, line), <<>>)
    <3> DEFINE start == Append(front, <<>>)
    <3> HIDE DEF line, end, front, start
    <3>1. ReadBehind(start, line \o end) = ReadBehind(ReadBehind(start, line), end)
      BY <2>7, ReadConcat
    <3>2. ReadBehind(start, line) = Append(front, line)
      BY <2>7, <2>8, LineRead DEF start
    <3>3. \A x : ReadBehind(x, end) = ReadByte(x, NL)
      <4> TAKE x
      <4> DEFINE v == [k \in 0..1 |-> IF k = 0 THEN x ELSE ReadByte(x, NL)]
      <4>1. Len(end) = 1 /\ end[1] = NL /\ Len(end) \in Nat
        BY DEF end
      <4>2. v[0] = x /\ v[1] = ReadByte(x, NL)
        OBVIOUS
      <4> HIDE DEF v
      <4>3. Steps(x, end, v)
        <5>1. \A k \in 1..Len(end) : k = 1 /\ k - 1 = 0
          BY <4>1
        <5> QED BY <4>1, <4>2, <5>1 DEF Steps
      <4>4. ReadBehind(x, end) = v[Len(end)]
        BY <4>1, <4>3, ReadIs
      <4> QED BY <4>1, <4>2, <4>4
    <3>4. ReadByte(Append(front, line), NL) = Append(Append(front, line), <<>>)
      BY DEF ReadByte
    <3>5. ended = line \o end
      BY <2>7
    <3> QED BY <3>1, <3>2, <3>3, <3>4, <3>5 DEF start
  <2>12. Good(m)
    BY <2>9, <2>10, <2>11
  <2> QED BY <2>4, <2>12
<1>4. Good(n)
  BY <1>1, <1>3
<1>5. SubSeq(ls, 1, n) = ls
  BY <1>1
<1> QED BY <1>2, <1>4, <1>5 DEF Split

\* The last byte of a text is the end of its last line.
LEMMA JoinedEnds ==
  ASSUME NEW ls \in Seq(Texts), Len(ls) > 0
  PROVE  Front(Joined(ls)) \in Seq(Bytes) /\ Joined(ls) = Front(Joined(ls)) \o <<NL>>
<1> DEFINE n == Len(ls)
           all == Joined(ls)
           m == Len(all)
           front == SubSeq(all, 1, m - 1)
<1>1. n \in Nat /\ n \in 1..n /\ ls[n] \in Texts
  BY ElementOfSeq
<1>2. PICK w : JoinedSteps(ls, w) /\ all = w[n]
  BY <1>1, JoinedTrace
<1>3. all \in Seq(Bytes) /\ m \in Nat
  BY SplitOfJoined
<1> HIDE DEF all
<1>4. m > 0 /\ all[m] = NL
  <2> DEFINE old == w[n - 1]
             ended == Append(ls[n], NL)
             k == Len(ended)
  <2>1. all = old \o ended
    BY <1>1, <1>2 DEF JoinedSteps
  <2>2. ended \in Seq(Bytes) /\ k \in Nat /\ k > 0 /\ ended[k] = NL
    <3> DEFINE t == ls[n]
    <3>1. t \in Texts
      BY <1>1
    <3> HIDE DEF t
    <3>2. t \in Seq(Bytes)
      BY <3>1, EndedType
    <3>3. Append(t, NL) \in Seq(Bytes) /\ Len(Append(t, NL)) = Len(t) + 1 /\ Append(t, NL)[Len(t) + 1] = NL /\ Len(t) \in Nat
      BY <3>2, Sizes, AppendProperties
    <3> QED BY <3>3 DEF t
  <2>3. old \in Seq(Bytes)
    <3> DEFINE short == SubSeq(ls, 1, n - 1)
    <3>1. short \in Seq(Texts) /\ Len(short) = n - 1 /\ \A i \in 1..(n - 1) : short[i] = ls[i]
      <4> DEFINE p == n - 1
      <4>1. p \in Nat /\ p \in Int /\ 1 \in Int /\ p - 1 + 1 = p /\ \A i \in 1..p : i \in 1..n
        BY <1>1
      <4>2. \A i \in 1..p : ls[i] \in Texts
        BY <4>1, ElementOfSeq
      <4> HIDE DEF p
      <4>3. SubSeq(ls, 1, p) \in Seq(Texts) /\ Len(SubSeq(ls, 1, p)) = (IF 1 <= p THEN p - 1 + 1 ELSE 0)
            /\ \A i \in 1..(p - 1 + 1) : SubSeq(ls, 1, p)[i] = ls[1 + i - 1]
        BY <4>1, <4>2, SubSeqProperties
      <4> QED BY <4>1, <4>3 DEF p
    <3> HIDE DEF short
    <3>2. PICK v : JoinedSteps(short, v) /\ Joined(short) = v[n - 1]
      BY <1>1, <3>1, JoinedTrace
    <3> DEFINE S == {j \in 0..(n - 1) : v[j] # w[j]}
    <3>3. S = {}
      <4> SUFFICES ASSUME S # {} PROVE FALSE
        OBVIOUS
      <4>1. S \in SUBSET Nat
        BY <1>1
      <4>2. PICK j \in S : \A q \in S : j <= q
        BY <4>1, NatHasLeast
      <4>3. j # 0
        BY <1>2, <3>2 DEF JoinedSteps
      <4>4. j - 1 \in 0..(n - 1) /\ j - 1 \notin S /\ j \in 1..(n - 1) /\ j \in 1..n
        BY <1>1, <4>2, <4>3
      <4>5. v[j - 1] = w[j - 1] /\ short[j] = ls[j]
        BY <3>1, <4>4
      <4>6. v[j] = v[j - 1] \o Append(short[j], NL) /\ w[j] = w[j - 1] \o Append(ls[j], NL)
        BY <1>2, <3>1, <3>2, <4>4 DEF JoinedSteps
      <4> QED BY <4>2, <4>5, <4>6
    <3>4. v[n - 1] = w[n - 1]
      BY <1>1, <3>3
    <3>5. Joined(short) \in Seq(Bytes)
      BY <3>1, SplitOfJoined
    <3> QED BY <3>2, <3>4, <3>5
  <2> HIDE DEF old, ended
  <2>4. Len(all) = Len(old) + k /\ \A i \in 1..(Len(old) + k) : all[i] = IF i <= Len(old) THEN old[i] ELSE ended[i - Len(old)]
    BY <2>1, <2>2, <2>3, ConcatProperties
  <2>5. Len(old) \in Nat /\ m = Len(old) + k /\ m \in 1..(Len(old) + k) /\ ~(m <= Len(old)) /\ m - Len(old) = k
    BY <2>2, <2>3, <2>4
  <2> QED BY <2>2, <2>4, <2>5
<1>5. front \in Seq(Bytes) /\ all = front \o <<NL>>
  <2> DEFINE p == m - 1
             end == <<NL>>
  <2>1. p \in Nat /\ p \in Int /\ 1 \in Int /\ p - 1 + 1 = p /\ m = p + 1 /\ \A i \in 1..p : i \in 1..m
    BY <1>3, <1>4
  <2>2. \A i \in 1..m : all[i] \in Bytes
    BY <1>3, ElementOfSeq
  <2> HIDE DEF p
  <2>3. SubSeq(all, 1, p) \in Seq(Bytes) /\ Len(SubSeq(all, 1, p)) = (IF 1 <= p THEN p - 1 + 1 ELSE 0)
        /\ \A i \in 1..(p - 1 + 1) : SubSeq(all, 1, p)[i] = all[1 + i - 1]
    BY <2>1, <2>2, SubSeqProperties
  <2>4. front \in Seq(Bytes) /\ Len(front) = p /\ \A i \in 1..p : front[i] = all[i]
    BY <2>1, <2>3 DEF p
  <2> HIDE DEF front, m
  <2>5. end \in Seq(Bytes) /\ Len(end) = 1 /\ end[1] = NL
    BY Sizes
  <2> HIDE DEF end
  <2> DEFINE both == front \o end
  <2>6. both \in Seq(Bytes) /\ Len(both) = Len(front) + Len(end)
        /\ \A i \in 1..(Len(front) + Len(end)) : both[i] = IF i <= Len(front) THEN front[i] ELSE end[i - Len(front)]
    BY <2>4, <2>5, ConcatProperties
  <2> HIDE DEF both
  <2>7. Len(both) = m
    BY <2>1, <2>4, <2>5, <2>6
  <2>8. ASSUME NEW i \in 1..m PROVE both[i] = all[i]
    <3>1. CASE i <= p
      BY <2>1, <2>4, <2>5, <2>6, <3>1
    <3>2. CASE ~(i <= p)
      <4>1. i = m /\ i - Len(front) = 1 /\ ~(i <= Len(front)) /\ i \in 1..(Len(front) + Len(end))
        BY <2>1, <2>4, <2>5, <3>2
      <4> QED BY <1>4, <2>5, <2>6, <4>1 DEF m
    <3> QED BY <3>1, <3>2
  <2>9. both = all
    <3>1. Len(both) = Len(all) /\ \A i \in 1..Len(both) : both[i] = all[i]
      BY <2>7, <2>8 DEF m
    <3> QED BY <1>3, <2>6, <3>1, SeqEqual
  <2> QED BY <2>4, <2>9 DEF both, end
<1> QED BY <1>5 DEF Front, all

\* A text that a file is, but for the end of its last line, is read from it.
LEMMA SplitOfText ==
  ASSUME NEW ls \in Seq(Texts), Len(ls) > 0
  PROVE  Split(Front(Joined(ls))) = ls
<1> DEFINE front == Front(Joined(ls))
           one == << <<>> >>
           end == <<NL>>
           read == Split(front)
<1>1. front \in Seq(Bytes) /\ end \in Seq(Bytes) /\ Joined(ls) = front \o end
  <2>1. front \in Seq(Bytes) /\ Joined(ls) = front \o end
    BY JoinedEnds
  <2> HIDE DEF front
  <2>2. end \in Seq(Bytes)
    BY Sizes
  <2> QED BY <2>1, <2>2
<1> HIDE DEF front, one
<1>2. read = ReadBehind(one, front) /\ one \in Seq(Texts) /\ Len(one) = 1
  BY TextFacts DEF Split, one
<1>3. read \in Seq(Texts)
  <2>1. ReadBehind(one, front) \in Seq(Texts)
    <3>1. one \in Seq(Texts) /\ Len(one) > 0
      BY <1>2
    <3> QED BY <1>1, <3>1, ReadType
  <2> QED BY <1>2, <2>1
<1>4. Split(Joined(ls)) = ReadBehind(read, end)
  <2> HIDE DEF end, read
  <2>1. ReadBehind(one, front \o end) = ReadBehind(ReadBehind(one, front), end)
    BY <1>1, ReadConcat
  <2> QED BY <1>1, <1>2, <2>1 DEF Split, one
<1> HIDE DEF read
<1>5. ReadBehind(read, end) = ReadByte(read, NL)
  <2> DEFINE v == [k \in 0..1 |-> IF k = 0 THEN read ELSE ReadByte(read, NL)]
  <2>1. Len(end) = 1 /\ end[1] = NL /\ Len(end) \in Nat
    OBVIOUS
  <2>2. v[0] = read /\ v[1] = ReadByte(read, NL)
    OBVIOUS
  <2> HIDE DEF v, end
  <2>3. Steps(read, end, v)
    <3>1. \A k \in 1..Len(end) : k = 1 /\ k - 1 = 0
      BY <2>1
    <3> QED BY <2>1, <2>2, <3>1 DEF Steps
  <2>4. ReadBehind(read, end) = v[Len(end)]
    BY <2>1, <2>3, ReadIs
  <2> QED BY <2>1, <2>2, <2>4
<1>6. Append(read, <<>>) = Append(ls, <<>>)
  BY <1>4, <1>5, SplitOfJoined DEF ReadByte
<1>7. read = ls
  <2> DEFINE a == Append(read, <<>>)
  <2>1. Len(a) = Len(read) + 1 /\ \A i \in 1..Len(read) : a[i] = read[i]
    BY <1>3, TextFacts, AppendProperties
  <2>2. Len(a) = Len(ls) + 1 /\ \A i \in 1..Len(ls) : a[i] = ls[i]
    BY SMTT(20), <1>6, TextFacts, AppendProperties
  <2> HIDE DEF a
  <2>3. Len(read) \in Nat /\ Len(ls) \in Nat
    BY <1>3
  <2>4. Len(read) = Len(ls)
    BY <2>1, <2>2, <2>3
  <2>5. read \in [1..Len(ls) -> Texts] /\ ls \in [1..Len(ls) -> Texts]
    BY <1>3, <2>4
  <2> QED BY <2>1, <2>2, <2>4, <2>5
<1> QED BY <1>7 DEF read, front

-----------------------------------------------------------------------------
(* The editor                                                               *)

TextOK ==
  /\ lines \in Seq(Texts) /\ Len(lines) \in 1..MAX_LINES
  /\ file \in Seq(Bytes) \cup {NoFile}
  /\ running \in BOOLEAN /\ named \in BOOLEAN /\ modified \in BOOLEAN /\ lost \in BOOLEAN

\* The window starts in the text, so that it can be told where the cursor is in it.
WindowOK == CursorVisible /\ scroll_row \in Nat /\ scroll_col \in Nat

EditorInv == TextOK /\ WindowOK /\ UnmodifiedUnlessLost

LEMMA FollowFacts ==
  ASSUME NEW at \in Nat, NEW top \in Nat, NEW size \in Nat \ {0, 1}
  PROVE  Follow(at, top, size) \in Nat /\ at - Follow(at, top, size) \in 0..(size - 2)
<1> DEFINE t == IF at < top THEN at ELSE top
<1>1. Follow(at, top, size) = IF at >= t + size - 1 THEN at - size + 2 ELSE t
  BY DEF Follow
<1>2. t \in Nat /\ t <= at
  OBVIOUS
<1> HIDE DEF t
<1>3. CASE at >= t + size - 1
  BY <1>1, <1>2, <1>3
<1>4. CASE ~(at >= t + size - 1)
  BY <1>1, <1>2, <1>4
<1> QED BY <1>3, <1>4

\* The window follows a cursor that goes into the text.
LEMMA WindowStep ==
  ASSUME WindowOK, lines' \in Seq(Texts), NEW row \in 0..(Len(lines') - 1), NEW col \in 0..Len(lines'[row + 1]),
         ensure_cursor_visible(row, col)
  PROVE  WindowOK'
<1>1. row \in Nat /\ col \in Nat /\ scroll_row \in Nat /\ scroll_col \in Nat
  BY DEF WindowOK
<1>2. SCREEN_ROWS \in Nat \ {0, 1} /\ SCREEN_COLS \in Nat \ {0, 1}
  BY Sizes
<1> DEFINE r == Follow(row, scroll_row, SCREEN_ROWS)
           c == Follow(col, scroll_col, SCREEN_COLS)
<1>3. r \in Nat /\ row - r \in 0..(SCREEN_ROWS - 2)
  BY <1>1, <1>2, FollowFacts
<1>4. c \in Nat /\ col - c \in 0..(SCREEN_COLS - 2)
  BY <1>1, <1>2, FollowFacts
<1>5. cursor_row' = row /\ cursor_col' = col /\ scroll_row' = r /\ scroll_col' = c
  BY DEF ensure_cursor_visible
<1> HIDE DEF r, c
<1> QED BY <1>3, <1>4, <1>5 DEF WindowOK, CursorVisible, Line, Row

LEMMA MoveStep ==
  ASSUME EditorInv, NEW row \in 0..(Len(lines) - 1), NEW col \in 0..Len(lines[row + 1]), MovesTo(row, col)
  PROVE  EditorInv'
<1>1. UNCHANGED <<file, running, named, lines, modified, lost>> /\ ensure_cursor_visible(row, col)
  BY DEF MovesTo
<1>2. TextOK /\ WindowOK /\ UnmodifiedUnlessLost
  BY DEF EditorInv
<1>3. WindowOK'
  BY <1>1, <1>2, WindowStep DEF TextOK
<1>4. TextOK'
  BY <1>1, <1>2 DEF TextOK
<1>5. UnmodifiedUnlessLost'
  BY <1>1, <1>2 DEF UnmodifiedUnlessLost, OnDisk
<1> QED BY <1>3, <1>4, <1>5 DEF EditorInv

LEMMA EditStep ==
  ASSUME EditorInv, NEW ls \in Seq(Texts), Len(ls) \in 1..MAX_LINES,
         NEW row \in 0..(Len(ls) - 1), NEW col \in 0..Len(ls[row + 1]), Edits(ls, row, col)
  PROVE  EditorInv'
<1>1. UNCHANGED <<file, running, named, lost>> /\ lines' = ls /\ modified' = TRUE /\ ensure_cursor_visible(row, col)
  BY DEF Edits
<1>2. TextOK /\ WindowOK
  BY DEF EditorInv
<1>3. WindowOK'
  BY <1>1, <1>2, WindowStep
<1>4. TextOK'
  BY <1>1, <1>2 DEF TextOK
<1>5. UnmodifiedUnlessLost'
  BY <1>1 DEF UnmodifiedUnlessLost
<1> QED BY <1>3, <1>4, <1>5 DEF EditorInv

LEMMA TextAt ==
  ASSUME NEW ls \in Seq(Texts), NEW i \in 1..Len(ls)
  PROVE  ls[i] \in Texts /\ ls[i] \in Seq(Chars) /\ Len(ls[i]) \in Nat /\ Len(ls[i]) < MAX_LINE_LEN
<1>1. ls[i] \in Texts
  BY ElementOfSeq
<1> QED BY <1>1, TextFacts

\* The cursor, its line, and what is before and after it there.
LEMMA CursorFacts ==
  ASSUME EditorInv
  PROVE  /\ lines \in Seq(Texts) /\ Len(lines) \in Nat /\ Len(lines) >= 1 /\ Len(lines) <= MAX_LINES
         /\ Row \in 1..Len(lines) /\ Row = cursor_row + 1 /\ cursor_row \in Nat /\ cursor_row < Len(lines)
         /\ Line \in Texts /\ Line \in Seq(Chars) /\ Len(Line) \in Nat /\ Len(Line) < MAX_LINE_LEN
         /\ cursor_col \in Nat /\ cursor_col <= Len(Line)
<1>1. lines \in Seq(Texts) /\ Len(lines) \in 1..MAX_LINES /\ cursor_row \in 0..(Len(lines) - 1) /\ cursor_col \in 0..Len(Line)
  BY DEF EditorInv, TextOK, WindowOK, CursorVisible
<1>2. Len(lines) \in Nat /\ Len(lines) >= 1 /\ Len(lines) <= MAX_LINES /\ Row \in 1..Len(lines) /\ Row = cursor_row + 1
      /\ cursor_row \in Nat /\ cursor_row < Len(lines)
  BY <1>1, Sizes DEF Row
<1>3. Line \in Texts /\ Line \in Seq(Chars) /\ Len(Line) \in Nat /\ Len(Line) < MAX_LINE_LEN
  BY <1>1, <1>2, TextAt DEF Line
<1> QED BY <1>1, <1>2, <1>3

LEMMA SidesFacts ==
  ASSUME EditorInv
  PROVE  /\ Before \in Texts /\ Before \in Seq(Chars) /\ Len(Before) = cursor_col
         /\ After \in Texts /\ After \in Seq(Chars) /\ Len(After) = Len(Line) - cursor_col
<1> DEFINE l == Line
           n == Len(l)
           p == cursor_col
           q == cursor_col + 1
<1>1. l \in Seq(Chars) /\ n \in Nat /\ p \in Nat /\ p <= n /\ n < MAX_LINE_LEN /\ q \in 1..(n + 1) /\ n - q + 1 = n - p
  BY CursorFacts
<1>2. p \in Int /\ 1 \in Int /\ p - 1 + 1 = p /\ \A i \in 1..p : l[i] \in Chars
  BY <1>1, ElementOfSeq
<1>3. Before = SubSeq(l, 1, p) /\ After = From(q, l)
  BY DEF Before, After, From
<1> HIDE DEF l, p, q
<1>4. SubSeq(l, 1, p) \in Seq(Chars) /\ Len(SubSeq(l, 1, p)) = IF 1 <= p THEN p - 1 + 1 ELSE 0
  BY <1>2, SubSeqProperties
<1>5. Before \in Seq(Chars) /\ Len(Before) = p
  BY <1>1, <1>2, <1>3, <1>4
<1>6. From(q, l) \in Seq(Chars) /\ Len(From(q, l)) = Len(l) - q + 1
  BY <1>1, FromFacts
<1>7. After \in Seq(Chars) /\ Len(After) = n - p
  BY <1>1, <1>3, <1>6
<1>8. Len(Before) < MAX_LINE_LEN /\ Len(After) < MAX_LINE_LEN
  BY <1>1, <1>5, <1>7, Sizes
<1> QED BY <1>5, <1>7, <1>8 DEF Texts, l, p

LEMMA MovesInv ==
  ASSUME EditorInv, Move
  PROVE  EditorInv'
<1>1. CursorVisible /\ \A i \in 1..Len(lines) : Len(lines[i]) \in Nat
  <2>1. \A i \in 1..Len(lines) : Len(lines[i]) \in Nat
    BY CursorFacts, TextAt
  <2> QED BY <2>1 DEF EditorInv, WindowOK
<1> DEFINE n == Len(lines)
           cr == cursor_row
           cc == cursor_col
<1>2. n \in Nat /\ cr \in Nat /\ cr < n /\ cc \in Nat /\ Line = lines[cr + 1] /\ cc <= Len(lines[cr + 1])
  BY CursorFacts DEF Line, Row
<1>3. ASSUME NEW row \in Nat, row < n, NEW col \in Nat, col <= Len(lines[row + 1]), MovesTo(row, col)
      PROVE  EditorInv'
  <2>1. row \in 0..(n - 1)
    BY <1>2, <1>3
  <2>2. row + 1 \in 1..n
    BY <1>2, <1>3
  <2>3. Len(lines[row + 1]) \in Nat
    BY <1>1, <2>2
  <2>4. col \in 0..Len(lines[row + 1])
    BY <1>3, <2>3
  <2> QED BY <1>3, <2>1, <2>4, MoveStep
<1>4. ASSUME NEW row \in Nat, row < n, MovesTo(row, clamp_cursor_col(row)) PROVE EditorInv'
  <2>1. row + 1 \in 1..n
    BY <1>2, <1>4
  <2> DEFINE len == Len(lines[row + 1])
             col == clamp_cursor_col(row)
  <2>2. len \in Nat
    BY <1>1, <2>1
  <2>3. col = IF cc > len THEN len ELSE cc
    BY DEF clamp_cursor_col
  <2>4. col \in Nat /\ col <= len
    BY <1>2, <2>2, <2>3
  <2> HIDE DEF col
  <2> QED BY <1>3, <1>4, <2>4 DEF col
<1>5. CASE KeyUp
  <2> DEFINE row == cr - 1
  <2>1. row \in Nat /\ row < n /\ MovesTo(row, clamp_cursor_col(row))
    BY <1>2, <1>5 DEF KeyUp
  <2> HIDE DEF row
  <2> QED BY <1>4, <2>1
<1>6. CASE KeyDown
  <2> DEFINE row == cr + 1
  <2>1. row \in Nat /\ row < n /\ MovesTo(row, clamp_cursor_col(row))
    BY <1>2, <1>6 DEF KeyDown
  <2> HIDE DEF row
  <2> QED BY <1>4, <2>1
<1>7. CASE KeyLeft
  <2> DEFINE col == cc - 1
  <2>1. col \in Nat /\ col <= Len(lines[cr + 1]) /\ MovesTo(cr, col)
    <3>1. cr + 1 \in 1..n
      BY <1>2
    <3>2. Len(lines[cr + 1]) \in Nat
      BY <1>1, <3>1
    <3>3. cc > 0 /\ MovesTo(cr, col)
      BY <1>7 DEF KeyLeft
    <3> QED BY <1>2, <3>2, <3>3
  <2> HIDE DEF col
  <2> QED BY <1>2, <1>3, <2>1
<1>8. CASE KeyLeftWraps
  <2> DEFINE row == cr - 1
             col == Len(lines[cr])
  <2>1. row \in Nat /\ row < n /\ row + 1 = cr /\ cr \in 1..n /\ MovesTo(row, col)
    BY <1>2, <1>8 DEF KeyLeftWraps
  <2>2. col \in Nat /\ col <= col
    BY <1>1, <2>1
  <2>3. col <= Len(lines[row + 1])
    BY <2>1, <2>2
  <2> HIDE DEF row, col
  <2> QED BY <1>3, <2>1, <2>2, <2>3
<1>9. CASE KeyRight
  <2> DEFINE col == cc + 1
  <2>1. cr + 1 \in 1..n
    BY <1>2
  <2>2. Len(lines[cr + 1]) \in Nat
    BY <1>1, <2>1
  <2>3. cc < Len(lines[cr + 1]) /\ MovesTo(cr, col)
    BY <1>2, <1>9 DEF KeyRight
  <2>4. col \in Nat /\ col <= Len(lines[cr + 1])
    BY <1>2, <2>2, <2>3
  <2> HIDE DEF col
  <2> QED BY <1>2, <1>3, <2>3, <2>4
<1>10. CASE KeyRightWraps
  <2> DEFINE row == cr + 1
  <2>1. row \in Nat /\ row < n /\ row + 1 \in 1..n /\ MovesTo(row, 0)
    BY <1>2, <1>10 DEF KeyRightWraps
  <2>2. 0 <= Len(lines[row + 1])
    BY <1>1, <2>1
  <2> HIDE DEF row
  <2> QED BY <1>3, <2>1, <2>2
<1> QED BY <1>5, <1>6, <1>7, <1>8, <1>9, <1>10 DEF Move

LEMMA EnterInv ==
  ASSUME EditorInv, Enter
  PROVE  EditorInv'
<1> DEFINE r == Row
           cut == ReplaceAt(lines, r, Before)
           ls == InsertAt(cut, r + 1, After)
           n == Len(lines)
<1>1. Edits(ls, cursor_row + 1, 0) /\ n < MAX_LINES
  BY DEF Enter
<1>2. r \in 1..n /\ n \in Nat /\ r = cursor_row + 1 /\ cursor_row \in Nat /\ lines \in Seq(Texts) /\ MAX_LINES \in Nat
  BY CursorFacts, Sizes
<1> HIDE DEF r
<1>3. cut \in Seq(Texts) /\ Len(cut) = n
  BY <1>2, SidesFacts, ReplaceFacts
<1> HIDE DEF cut
<1>4. ls \in Seq(Texts) /\ Inserted(ls, cut, r, After)
  <2>1. r \in 0..Len(cut)
    BY <1>2, <1>3
  <2> QED BY Zenon, <1>3, <2>1, SidesFacts, InsertFacts
<1> HIDE DEF ls
<1>5. Len(ls) = n + 1
  BY <1>3, <1>4 DEF Inserted
<1> DEFINE row == cursor_row + 1
<1>6. Len(ls) \in 1..MAX_LINES /\ row \in 0..(Len(ls) - 1) /\ row + 1 \in 1..Len(ls)
  BY <1>1, <1>2, <1>5
<1>7. 0 \in 0..Len(ls[row + 1])
  <2>1. Len(ls[row + 1]) \in Nat
    BY <1>4, <1>6, TextAt
  <2> QED BY <2>1
<1> HIDE DEF row
<1>8. Edits(ls, row, 0)
  BY <1>1 DEF row
<1> QED BY <1>4, <1>6, <1>7, <1>8, EditStep

\* The cursor's line becomes new, with the cursor in it.
LEMMA LineEdit ==
  ASSUME EditorInv, NEW new \in Texts, NEW col \in 0..Len(new), Edits(ReplaceAt(lines, Row, new), cursor_row, col)
  PROVE  EditorInv'
<1> DEFINE r == Row
           ls == ReplaceAt(lines, r, new)
<1>1. r \in 1..Len(lines) /\ r = cursor_row + 1 /\ cursor_row \in Nat /\ cursor_row < Len(lines) /\ lines \in Seq(Texts)
      /\ Len(lines) \in 1..MAX_LINES
  BY CursorFacts, Sizes
<1> HIDE DEF r
<1>2. ls \in Seq(Texts) /\ Len(ls) = Len(lines) /\ ls[r] = new
  BY <1>1, ReplaceFacts
<1>3. Edits(ls, cursor_row, col)
  BY DEF r
<1> HIDE DEF ls
<1>4. cursor_row \in 0..(Len(ls) - 1) /\ col \in 0..Len(ls[cursor_row + 1]) /\ Len(ls) \in 1..MAX_LINES
  BY <1>1, <1>2
<1> QED BY <1>2, <1>3, <1>4, EditStep

LEMMA InsertInv ==
  ASSUME EditorInv, NEW c \in Typed, Insert(c)
  PROVE  EditorInv'
<1> DEFINE front == Append(Before, c)
           new == front \o After
           p == cursor_col
<1>2. Edits(ReplaceAt(lines, Row, new), cursor_row, p + 1) /\ Len(Line) < MAX_LINE_LEN - 1
  BY DEF Insert
<1>3. front \in Seq(Chars) /\ Len(front) = p + 1
  BY SidesFacts, Sizes, AppendProperties
<1> HIDE DEF front
<1>4. new \in Seq(Chars) /\ Len(new) = Len(Line) + 1
  <2>1. new \in Seq(Chars) /\ Len(new) = Len(front) + Len(After)
    BY <1>3, SidesFacts, ConcatProperties
  <2> QED BY <1>3, <2>1, SidesFacts, CursorFacts
<1> HIDE DEF new
<1>5. new \in Texts
  BY <1>2, <1>4, CursorFacts, Sizes DEF Texts
<1> DEFINE col == p + 1
<1>6. col \in 0..Len(new)
  BY <1>4, CursorFacts
<1> HIDE DEF col
<1>7. Edits(ReplaceAt(lines, Row, new), cursor_row, col)
  BY <1>2 DEF col
<1> QED BY <1>5, <1>6, <1>7, LineEdit

LEMMA BackspaceInv ==
  ASSUME EditorInv, Backspace
  PROVE  EditorInv'
<1> DEFINE front == Front(Before)
           new == front \o After
           p == cursor_col
           b == Before
<1>1. Edits(ReplaceAt(lines, Row, new), cursor_row, p - 1) /\ p > 0
  BY DEF Backspace
<1>2. b \in Seq(Chars) /\ Len(b) = p /\ p \in Nat /\ p - 1 \in Nat
  BY <1>1, SidesFacts, CursorFacts
<1>3. front \in Seq(Chars) /\ Len(front) = p - 1
  <2> DEFINE q == p - 1
  <2>1. q \in Int /\ 1 \in Int /\ q - 1 + 1 = q /\ q \in Nat /\ \A i \in 1..q : i \in 1..Len(b)
    BY <1>2
  <2>2. \A i \in 1..q : b[i] \in Chars
    BY <1>2, <2>1, ElementOfSeq
  <2>3. front = SubSeq(b, 1, q)
    BY <1>2 DEF Front
  <2> HIDE DEF q, b
  <2>4. SubSeq(b, 1, q) \in Seq(Chars) /\ Len(SubSeq(b, 1, q)) = IF 1 <= q THEN q - 1 + 1 ELSE 0
    BY <2>1, <2>2, SubSeqProperties
  <2>5. Len(front) = q /\ front \in Seq(Chars)
    BY <2>1, <2>3, <2>4
  <2> QED BY <2>5 DEF q
<1> HIDE DEF front
<1>4. new \in Seq(Chars) /\ Len(new) = Len(Line) - 1
  <2>1. new \in Seq(Chars) /\ Len(new) = Len(front) + Len(After)
    BY <1>3, SidesFacts, ConcatProperties
  <2> QED BY <1>3, <2>1, SidesFacts, CursorFacts
<1> HIDE DEF new
<1>5. new \in Texts
  BY <1>1, <1>2, <1>4, CursorFacts, Sizes DEF Texts
<1> DEFINE col == p - 1
<1>6. col \in 0..Len(new)
  BY <1>1, <1>4, CursorFacts
<1> HIDE DEF col
<1>7. Edits(ReplaceAt(lines, Row, new), cursor_row, col)
  BY <1>1 DEF col
<1> QED BY <1>5, <1>6, <1>7, LineEdit

LEMMA MergesInv ==
  ASSUME EditorInv, BackspaceMerges
  PROVE  EditorInv'
<1> DEFINE r == cursor_row
           above == lines[r]
           new == Merged
           joined == ReplaceAt(lines, r, new)
           s == Row
           ls == RemoveAt(joined, s)
           n == Len(lines)
<1>1. Edits(ls, r - 1, Len(above)) /\ r > 0 /\ Len(new) < MAX_LINE_LEN
  BY DEF BackspaceMerges, MergeColumn, Fits
<1>2. r \in 1..n /\ s \in 1..n /\ s = r + 1 /\ n \in Nat /\ lines \in Seq(Texts) /\ n <= MAX_LINES /\ MAX_LINES \in Nat
      /\ Line \in Seq(Chars) /\ Len(Line) \in Nat
  BY <1>1, CursorFacts, Sizes
<1>3. above \in Seq(Chars) /\ Len(above) \in Nat
  BY <1>2, TextAt
<1>4. new \in Texts /\ Len(new) = Len(above) + Len(Line)
  <2>1. new = above \o Line
    BY DEF Merged
  <2> HIDE DEF new, above
  <2>2. above \o Line \in Seq(Chars) /\ Len(above \o Line) = Len(above) + Len(Line)
    BY <1>2, <1>3, ConcatProperties
  <2> QED BY <1>1, <2>1, <2>2 DEF Texts
<1> HIDE DEF new, s
<1>5. joined \in Seq(Texts) /\ Len(joined) = n /\ joined[r] = new
  BY <1>2, <1>4, ReplaceFacts
<1> HIDE DEF joined
<1>6. ls \in Seq(Texts) /\ Removed(ls, joined, s)
  <2>1. s \in 1..Len(joined)
    BY <1>2, <1>5
  <2> QED BY Zenon, <1>5, <2>1, RemoveFacts
<1> HIDE DEF ls
<1>7. Len(ls) = n - 1 /\ ls[r] = new
  <2>1. Len(ls) = n - 1 /\ \A i \in 1..(n - 1) : ls[i] = IF i < s THEN joined[i] ELSE joined[i + 1]
    BY <1>5, <1>6 DEF Removed
  <2>2. r \in 1..(n - 1) /\ r < s
    BY <1>2
  <2> QED BY <1>5, <2>1, <2>2
<1> DEFINE row == r - 1
           col == Len(above)
<1>8. Len(ls) \in 1..MAX_LINES /\ row \in 0..(Len(ls) - 1) /\ row + 1 = r
  BY <1>2, <1>7
<1>9. col \in 0..Len(ls[row + 1])
  BY <1>2, <1>3, <1>4, <1>7, <1>8
<1>10. Edits(ls, row, col)
  BY <1>1
<1> HIDE DEF row, col
<1> QED BY <1>6, <1>8, <1>9, <1>10, EditStep

LEMMA CutType ==
  ASSUME NEW s \in Seq(Bytes), NEW m \in Nat, m <= Len(s)
  PROVE  SubSeq(s, 1, m) \in Seq(Bytes)
<1>1. m \in Int /\ 1 \in Int /\ \A i \in 1..m : i \in 1..Len(s)
  OBVIOUS
<1>2. \A i \in 1..m : s[i] \in Bytes
  BY <1>1, ElementOfSeq
<1> QED BY <1>1, <1>2, SubSeqProperties

LEMMA SavedType ==
  ASSUME EditorInv
  PROVE  SavedBytes \in Seq(Bytes) /\ Joined(lines) \in Seq(Bytes)
<1> DEFINE bytes == Joined(lines)
           room == BUF_SIZE - 2
<1>1. bytes \in Seq(Bytes) /\ room \in Nat
  BY CursorFacts, SplitOfJoined, Sizes
<1> HIDE DEF bytes, room
<1>2. SavedBytes = IF Len(bytes) <= room THEN bytes
                   ELSE IF bytes[room] = NL THEN SubSeq(bytes, 1, room) ELSE Append(SubSeq(bytes, 1, room), NL)
  BY DEF SavedBytes, bytes, room
<1>3. CASE Len(bytes) <= room
  BY <1>1, <1>2, <1>3 DEF bytes
<1>4. CASE ~(Len(bytes) <= room)
  <2> DEFINE cut == SubSeq(bytes, 1, room)
  <2>1. cut \in Seq(Bytes)
    BY <1>1, <1>4, CutType
  <2>2. Append(cut, NL) \in Seq(Bytes)
    BY <2>1, Sizes, AppendProperties
  <2>3. SavedBytes \in {cut, Append(cut, NL)}
    BY <1>2, <1>4
  <2> HIDE DEF cut
  <2> QED BY <1>1, <2>1, <2>2, <2>3 DEF bytes
<1> QED BY <1>3, <1>4

LEMMA SaveInv ==
  ASSUME EditorInv, Save
  PROVE  EditorInv'
<1>1. /\ file' = SavedBytes /\ lost' = (SavedBytes # Joined(lines)) /\ modified' = FALSE
      /\ UNCHANGED <<running, named, lines, cursor_row, cursor_col, scroll_row, scroll_col>>
  BY DEF Save, cursor, scroll
<1>2. TextOK /\ WindowOK
  BY DEF EditorInv
<1>3. TextOK'
  <2>1. lost' \in BOOLEAN
    BY <1>1
  <2> QED BY <1>1, <1>2, <2>1, SavedType DEF TextOK
<1>4. WindowOK'
  BY <1>1, <1>2 DEF WindowOK, CursorVisible, Line, Row
<1>5. ASSUME ~lost' PROVE Split(file') = Append(lines, <<>>)
  <2>1. file' = Joined(lines)
    BY <1>1, <1>5
  <2> QED BY <2>1, CursorFacts, SplitOfJoined
<1>6. UnmodifiedUnlessLost'
  BY <1>1, <1>5 DEF UnmodifiedUnlessLost, OnDisk
<1> QED BY <1>3, <1>4, <1>6 DEF EditorInv

LEMMA SaveFailsInv ==
  ASSUME EditorInv, SaveFails
  PROVE  EditorInv'
<1>1. /\ lost' = TRUE
      /\ UNCHANGED <<running, named, lines, cursor_row, cursor_col, scroll_row, scroll_col, modified>>
  BY DEF SaveFails, cursor, scroll
<1>2. TextOK /\ WindowOK
  BY DEF EditorInv
<1>3. file' \in Seq(Bytes) \cup {NoFile}
  <2>1. file' \in {file, SavedBytes} \/ \E n \in 0..Len(SavedBytes) : file' = Overwritten(n)
    BY DEF SaveFails
  <2>2. ASSUME NEW n \in 0..Len(SavedBytes) PROVE Overwritten(n) \in Seq(Bytes)
    <3>1. CASE file = NoFile
      BY <3>1 DEF Overwritten
    <3>2. CASE file # NoFile
      <4>1. file \in Seq(Bytes) /\ Len(file) \in Nat /\ DOMAIN file = 1..Len(file) /\ \A i \in 1..Len(file) : file[i] \in Bytes
        BY <1>2, <3>2, ElementOfSeq DEF TextOK
      <4>2. \A i \in 1..Len(SavedBytes) : SavedBytes[i] \in Bytes
        BY SavedType, ElementOfSeq
      <4>3. \A i \in 1..Len(file) : i <= n => i \in 1..Len(SavedBytes)
        BY <2>2, <4>1, SavedType
      <4>4. Overwritten(n) = [i \in 1..Len(file) |-> IF i <= n THEN SavedBytes[i] ELSE file[i]]
        BY <3>2, <4>1 DEF Overwritten
      <4> DEFINE v == [i \in 1..Len(file) |-> IF i <= n THEN SavedBytes[i] ELSE file[i]]
      <4>5. v \in [1..Len(file) -> Bytes]
        BY <4>1, <4>2, <4>3
      <4> HIDE DEF v
      <4>6. v \in Seq(Bytes)
        BY <4>1, <4>5
      <4> QED BY <4>4, <4>6 DEF v
    <3> QED BY <3>1, <3>2
  <2> QED BY <1>2, <2>1, <2>2, SavedType DEF TextOK
<1>4. TextOK'
  BY <1>1, <1>2, <1>3 DEF TextOK
<1>5. WindowOK'
  BY <1>1, <1>2 DEF WindowOK, CursorVisible, Line, Row
<1>6. UnmodifiedUnlessLost'
  BY <1>1 DEF UnmodifiedUnlessLost
<1> QED BY <1>4, <1>5, <1>6 DEF EditorInv

\* What is left of a file with too many lines is in the array.
LEMMA LoadedType ==
  ASSUME NEW bytes \in Seq(Bytes)
  PROVE  Loaded(bytes) \in Seq(Texts) /\ Len(Loaded(bytes)) \in 1..MAX_LINES
<1> DEFINE all == Split(bytes)
           one == << <<>> >>
           n == (MAX_LINES - (MAX_LINES % BYTE)) + 1
<1>1. all \in Seq(Texts) /\ Len(all) > 0 /\ Len(all) \in Nat
  <2>1. one \in Seq(Texts) /\ Len(one) > 0
    BY TextFacts
  <2> HIDE DEF one
  <2>2. ReadBehind(one, bytes) \in Seq(Texts) /\ Len(ReadBehind(one, bytes)) > 0
    BY <2>1, ReadType
  <2>3. all = ReadBehind(one, bytes)
    BY DEF Split, one
  <2> HIDE DEF all
  <2> QED BY <2>2, <2>3
<1>2. n \in 1..MAX_LINES
  <2>1. MAX_LINES \in Nat /\ BYTE \in Nat \ {0} /\ MAX_LINES % BYTE # 0
    BY SEditAssumption
  <2>2. MAX_LINES % BYTE \in 1..MAX_LINES
    BY <2>1
  <2> QED BY <2>1, <2>2
<1> HIDE DEF all, n
<1>3. ASSUME NEW m \in 1..MAX_LINES, m <= Len(all)
      PROVE  SubSeq(all, 1, m) \in Seq(Texts) /\ Len(SubSeq(all, 1, m)) = m
  <2>1. m \in Int /\ 1 \in Int /\ m >= 1 /\ \A i \in 1..m : i \in 1..Len(all)
    BY <1>1, <1>3
  <2>2. \A i \in 1..m : all[i] \in Texts
    BY <1>1, <2>1, ElementOfSeq
  <2> QED BY <2>1, <2>2, SubSeqProperties
<1>4. \/ Len(all) <= MAX_LINES /\ Loaded(bytes) = all
      \/ Len(all) > MAX_LINES /\ Loaded(bytes) = SubSeq(all, 1, MAX_LINES)
      \/ Len(all) > MAX_LINES /\ Loaded(bytes) = SubSeq(all, 1, n)
  <2>1. Loaded(bytes) = IF Len(all) <= MAX_LINES THEN all
                        ELSE SubSeq(all, 1, IF Last(bytes) = NL THEN n ELSE MAX_LINES)
    BY Zenon DEF Loaded, all, n
  <2>2. Len(all) <= MAX_LINES \/ Len(all) > MAX_LINES
    BY <1>1, Sizes
  <2> QED BY <2>1, <2>2
<1>5. CASE Len(all) <= MAX_LINES /\ Loaded(bytes) = all
  BY <1>1, <1>5, Sizes
<1>6. CASE Len(all) > MAX_LINES /\ Loaded(bytes) = SubSeq(all, 1, MAX_LINES)
  <2>1. MAX_LINES \in 1..MAX_LINES /\ MAX_LINES <= Len(all)
    BY <1>1, <1>6, Sizes
  <2> QED BY <1>3, <1>6, <2>1
<1>7. CASE Len(all) > MAX_LINES /\ Loaded(bytes) = SubSeq(all, 1, n)
  <2>1. n <= Len(all)
    BY <1>1, <1>2, <1>7, Sizes
  <2> QED BY <1>2, <1>3, <1>7, <2>1
<1> QED BY <1>4, <1>5, <1>6, <1>7

\* The window is on the start of a text.
LEMMA FreshInv ==
  ASSUME TextOK, NEW ls \in Seq(Texts), Len(ls) \in 1..MAX_LINES, Fresh(ls),
         running' \in BOOLEAN, named' \in BOOLEAN, lost' \in BOOLEAN
  PROVE  TextOK' /\ WindowOK'
<1>1. lines' = ls /\ cursor_row' = 0 /\ cursor_col' = 0 /\ scroll_row' = 0 /\ scroll_col' = 0 /\ modified' = FALSE /\ file' = file
  BY DEF Fresh
<1>2. TextOK'
  BY <1>1 DEF TextOK
<1>3. 1 \in 1..Len(ls) /\ 0 \in 0..(Len(ls) - 1) /\ 0 + 1 = 1
  BY Sizes
<1>4. 0 \in 0..Len(ls[1])
  <2>1. Len(ls[1]) \in Nat
    BY <1>3, TextAt
  <2> QED BY <2>1
<1>5. 0 - 0 \in 0..(SCREEN_ROWS - 2) /\ 0 - 0 \in 0..(SCREEN_COLS - 2)
  BY Sizes
<1>6. WindowOK'
  BY <1>1, <1>3, <1>4, <1>5 DEF WindowOK, CursorVisible, Line, Row
<1> QED BY <1>2, <1>6

LEMMA OneEmptyLine ==
  << <<>> >> \in Seq(Texts) /\ Len(<< <<>> >>) \in 1..MAX_LINES
BY TextFacts, Sizes

LEMMA StartInv ==
  ASSUME EditorInv, Start
  PROVE  EditorInv'
<1> DEFINE bytes == ReadBytes(file)
           ls == Loaded(bytes)
<1>1. /\ file # NoFile /\ Fresh(ls) /\ running' = TRUE /\ named' = TRUE
      /\ lost' = (Front(Joined(lines')) # file)
  BY DEF Start, Opens
<1>2. TextOK
  BY DEF EditorInv
<1>3. bytes \in Seq(Bytes)
  <2> DEFINE m == BUF_SIZE - 1
  <2>1. file \in Seq(Bytes) /\ Len(file) \in Nat /\ m \in Nat /\ BUF_SIZE \in Nat
    BY <1>1, <1>2, Sizes DEF TextOK
  <2>2. CASE Len(file) < BUF_SIZE
    BY <2>1, <2>2 DEF ReadBytes
  <2>3. CASE ~(Len(file) < BUF_SIZE)
    <3>1. m <= Len(file)
      BY <2>1, <2>3
    <3>2. bytes = SubSeq(file, 1, m)
      BY <2>3 DEF ReadBytes
    <3> HIDE DEF m, bytes
    <3> QED BY <2>1, <3>1, <3>2, CutType
  <2> QED BY <2>2, <2>3
<1> HIDE DEF bytes
<1>4. ls \in Seq(Texts) /\ Len(ls) \in 1..MAX_LINES
  BY <1>3, LoadedType
<1> HIDE DEF ls
<1>5. lines' = ls /\ file' = file
  BY <1>1 DEF Fresh
<1>6. TextOK' /\ WindowOK'
  <2>1. running' \in BOOLEAN /\ named' \in BOOLEAN /\ lost' \in BOOLEAN
    BY <1>1
  <2> QED BY <1>1, <1>2, <1>4, <2>1, FreshInv
<1>7. ASSUME ~lost' PROVE Split(file') = lines'
  <2>1. file = Front(Joined(ls))
    BY <1>1, <1>5, <1>7
  <2>2. Split(Front(Joined(ls))) = ls
    BY <1>4, SplitOfText
  <2> QED BY <1>5, <2>1, <2>2
<1>8. UnmodifiedUnlessLost'
  BY <1>7 DEF UnmodifiedUnlessLost, OnDisk
<1> QED BY <1>6, <1>8 DEF EditorInv

\* Without a file that is read there is one empty line.
LEMMA EmptyInv ==
  ASSUME EditorInv, Quit \/ StartEmpty \/ StartUnnamed
  PROVE  EditorInv'
<1> DEFINE one == << <<>> >>
<1>1. Fresh(one) /\ file' = file
  BY DEF Quit, StartEmpty, StartUnnamed, Opens, Fresh
<1>2. one \in Seq(Texts) /\ Len(one) \in 1..MAX_LINES
  BY OneEmptyLine
<1> HIDE DEF one
<1>3. running' \in BOOLEAN /\ named' \in BOOLEAN /\ lost' \in BOOLEAN
  BY DEF Quit, StartEmpty, StartUnnamed, Opens
<1>4. TextOK' /\ WindowOK'
  BY <1>1, <1>2, <1>3, FreshInv DEF EditorInv
<1>5. ~running' \/ ~named' \/ lost' = (file # NoFile)
  BY DEF Quit, StartEmpty, StartUnnamed
<1>6. UnmodifiedUnlessLost'
  BY <1>1, <1>5 DEF UnmodifiedUnlessLost, OnDisk
<1> QED BY <1>4, <1>6 DEF EditorInv

LEMMA EditorInit ==
  Init => EditorInv
<1> SUFFICES ASSUME Init PROVE EditorInv
  OBVIOUS
<1> DEFINE one == << <<>> >>
<1>1. /\ file \in FirstFiles /\ running = FALSE /\ named = FALSE /\ modified = FALSE /\ lost = FALSE
      /\ lines = one /\ cursor_row = 0 /\ cursor_col = 0 /\ scroll_row = 0 /\ scroll_col = 0
  BY DEF Init
<1>2. one \in Seq(Texts) /\ Len(one) \in 1..MAX_LINES
  BY OneEmptyLine
<1>3. Len(one) = 1 /\ one[1] = <<>> /\ Len(<<>>) = 0
  OBVIOUS
<1> HIDE DEF one
<1>4. file \in Seq(Bytes) \cup {NoFile}
  BY <1>1, SEditAssumption DEF Bytes
<1>5. TextOK
  BY <1>1, <1>2, <1>4 DEF TextOK
<1>6. 0 \in 0..(1 - 1) /\ 0 + 1 = 1 /\ 0 \in 0..0
  OBVIOUS
<1>7. 0 - 0 \in 0..(SCREEN_ROWS - 2) /\ 0 - 0 \in 0..(SCREEN_COLS - 2)
  BY Sizes
<1>8. WindowOK
  BY <1>1, <1>3, <1>6, <1>7 DEF WindowOK, CursorVisible, Line, Row
<1>9. UnmodifiedUnlessLost
  BY <1>1 DEF UnmodifiedUnlessLost
<1> QED BY <1>5, <1>8, <1>9 DEF EditorInv

LEMMA EditorStep ==
  EditorInv /\ [Next]_vars => EditorInv'
<1> SUFFICES ASSUME EditorInv, [Next]_vars PROVE EditorInv'
  OBVIOUS
<1>1. CASE Move
  BY <1>1, MovesInv
<1>2. CASE Enter \/ Backspace \/ BackspaceMerges
  BY <1>2, EnterInv, BackspaceInv, MergesInv
<1>3. ASSUME NEW c \in Typed, Insert(c) PROVE EditorInv'
  BY <1>3, InsertInv
<1>4. CASE Save \/ SaveFails
  BY <1>4, SaveInv, SaveFailsInv
<1>5. CASE Start
  BY <1>5, StartInv
<1>6. CASE Quit \/ StartEmpty \/ StartUnnamed
  BY <1>6, EmptyInv
<1>7. CASE UNCHANGED vars
  <2>1. UNCHANGED <<file, running, named, lines, cursor_row, cursor_col, scroll_row, scroll_col, modified, lost>>
    BY <1>7 DEF vars, cursor, scroll
  <2> QED BY <2>1 DEF EditorInv, TextOK, WindowOK, CursorVisible, Line, Row, UnmodifiedUnlessLost, OnDisk
<1> QED BY <1>1, <1>2, <1>3, <1>4, <1>5, <1>6, <1>7 DEF Next, Edit

-----------------------------------------------------------------------------
(* Results                                                                  *)

\* The lines, the window and the file stay as EditorInv says, whatever keys
\* are pressed and however saving fails.
THEOREM EditorInvariant ==
  Spec => []EditorInv
<1> QED BY EditorInit, EditorStep, PTL DEF Spec

\* After any keys, loads and saves there are no more lines than the array holds, and
\* the cursor is in the text and the window.  A load of too many lines, which writes
\* behind the array, is no exception: it changes the count of the lines.
THEOREM WindowCorrect ==
  Spec => []SEditInv
<1>1. EditorInv => SEditInv
  <2> SUFFICES ASSUME EditorInv PROVE SEditInv
    OBVIOUS
  <2>1. TextOK /\ CursorVisible
    BY DEF EditorInv, WindowOK
  <2>2. \A i \in DOMAIN lines : lines[i] \in Seq(Chars) /\ Len(lines[i]) < MAX_LINE_LEN
    <3>1. DOMAIN lines = 1..Len(lines)
      BY CursorFacts
    <3> QED BY <3>1, CursorFacts, TextAt
  <2>3. TypeOK
    BY <2>1, <2>2 DEF TextOK, TypeOK, Bytes
  <2> QED BY <2>1, <2>3 DEF SEditInv
<1> QED BY <1>1, EditorInvariant, PTL

\* Unless a load or a save was not of the whole text, a text that is not
\* marked as modified is read again from the file as it is.
THEOREM UnmodifiedCorrect ==
  Spec => []UnmodifiedUnlessLost
<1>1. EditorInv => UnmodifiedUnlessLost
  BY DEF EditorInv
<1> QED BY <1>1, EditorInvariant, PTL

-----------------------------------------------------------------------------
(* The text the lines stand for                                             *)

LEMMA JoinedTyped ==
  ASSUME NEW ls \in Seq(Texts), NEW w, JoinedSteps(ls, w)
  PROVE  \A k \in 0..Len(ls) : w[k] \in Seq(Bytes)
<1> DEFINE n == Len(ls)
           S == {k \in 0..n : w[k] \notin Seq(Bytes)}
<1>1. n \in Nat /\ \A k \in 1..n : ls[k] \in Texts
  BY ElementOfSeq
<1>2. S = {}
  <2> SUFFICES ASSUME S # {} PROVE FALSE
    OBVIOUS
  <2>1. S \in SUBSET Nat
    BY <1>1
  <2>2. PICK m \in S : \A q \in S : m <= q
    BY <2>1, NatHasLeast
  <2>3. m # 0
    <3>1. w[0] = <<>> /\ w[m] \notin Seq(Bytes)
      BY <2>2 DEF JoinedSteps
    <3>2. <<>> \in Seq(Bytes)
      OBVIOUS
    <3> QED BY <3>1, <3>2
  <2>4. m - 1 \in 0..n /\ m - 1 \notin S /\ m \in 1..n
    BY <1>1, <2>2, <2>3
  <2> DEFINE old == w[m - 1]
             ended == Append(ls[m], NL)
  <2>5. old \in Seq(Bytes) /\ w[m] = old \o ended
    BY <2>4 DEF JoinedSteps
  <2>6. ended \in Seq(Bytes)
    BY <1>1, <2>4, EndedType
  <2> HIDE DEF old, ended
  <2>7. w[m] \in Seq(Bytes)
    BY <2>5, <2>6, ConcatProperties
  <2> QED BY <2>4, <2>7
<1> QED BY <1>2

LEMMA JoinedIs ==
  ASSUME NEW ls, Len(ls) \in Nat, NEW w, JoinedSteps(ls, w)
  PROVE  Joined(ls) = w[Len(ls)]
<1>1. PICK v : JoinedSteps(ls, v) /\ Joined(ls) = v[Len(ls)]
  BY JoinedTrace
<1> DEFINE S == {k \in 0..Len(ls) : v[k] # w[k]}
<1>2. S = {}
  <2> SUFFICES ASSUME S # {} PROVE FALSE
    OBVIOUS
  <2>1. S \in SUBSET Nat
    OBVIOUS
  <2>2. PICK m \in S : \A q \in S : m <= q
    BY <2>1, NatHasLeast
  <2>3. m # 0
    BY <1>1 DEF JoinedSteps
  <2>4. m - 1 \in 0..Len(ls) /\ m - 1 \notin S /\ m \in 1..Len(ls)
    BY <2>2, <2>3
  <2>5. v[m - 1] = w[m - 1]
    BY <2>4
  <2>6. v[m] = v[m - 1] \o Append(ls[m], NL) /\ w[m] = w[m - 1] \o Append(ls[m], NL)
    BY <1>1, <2>4 DEF JoinedSteps
  <2> QED BY <2>4, <2>5, <2>6
<1> QED BY <1>1, <1>2

LEMMA JoinedConcat ==
  ASSUME NEW a \in Seq(Texts), NEW b \in Seq(Texts)
  PROVE  Joined(a \o b) = Joined(a) \o Joined(b)
<1> DEFINE m == Len(a)
           n == Len(b)
           ab == a \o b
<1>1. m \in Nat /\ n \in Nat /\ Len(ab) = m + n /\ \A i \in 1..(m + n) : ab[i] = IF i <= m THEN a[i] ELSE b[i - m]
  BY ConcatProperties
<1>2. PICK v : JoinedSteps(a, v) /\ Joined(a) = v[m]
  BY <1>1, JoinedTrace
<1>3. PICK u : JoinedSteps(b, u) /\ Joined(b) = u[n]
  BY <1>1, JoinedTrace
<1>4. (\A k \in 0..m : v[k] \in Seq(Bytes)) /\ \A k \in 0..n : u[k] \in Seq(Bytes)
  BY <1>2, <1>3, JoinedTyped
<1> DEFINE w == [k \in 0..(m + n) |-> IF k <= m THEN v[k] ELSE v[m] \o u[k - m]]
<1>5. v[0] = <<>> /\ u[0] = <<>> /\ v[m] \in Seq(Bytes)
  BY <1>1, <1>2, <1>3, <1>4 DEF JoinedSteps
<1> HIDE DEF ab
<1>6. JoinedSteps(ab, w)
  <2>1. w[0] = <<>>
    BY <1>1, <1>5
  <2>2. ASSUME NEW k \in 1..(m + n) PROVE w[k] = w[k - 1] \o Append(ab[k], NL)
    <3>1. CASE k <= m
      <4>1. w[k] = v[k] /\ w[k - 1] = v[k - 1] /\ ab[k] = a[k] /\ k \in 1..m
        BY <1>1, <3>1
      <4> QED BY <1>2, <4>1 DEF JoinedSteps
    <3>2. CASE ~(k <= m)
      <4> DEFINE j == k - m
                 x == Append(b[j], NL)
                 p == v[m]
                 q == u[j - 1]
      <4>1. j \in 1..n /\ j - 1 \in 0..n /\ ab[k] = b[j] /\ w[k] = p \o u[j]
        <5>1. j \in 1..n /\ j - 1 \in 0..n
          BY <1>1, <3>2
        <5>2. ab[k] = b[j]
          BY <1>1, <3>2
        <5>3. k \in 0..(m + n)
          BY <1>1
        <5>4. w[k] = p \o u[j]
          BY <3>2, <5>3
        <5> QED BY <5>1, <5>2, <5>4
      <4>2. u[j] = q \o x
        BY <1>3, <4>1 DEF JoinedSteps
      <4>3. p \in Seq(Bytes) /\ q \in Seq(Bytes) /\ x \in Seq(Bytes)
        <5>1. b[j] \in Texts
          BY <4>1, ElementOfSeq
        <5>2. x \in Seq(Bytes)
          BY <5>1, EndedType
        <5> QED BY <1>4, <1>5, <4>1, <5>2
      <4>4. w[k - 1] = p \o q
        <5>1. CASE j = 1
          <6>1. w[k - 1] = p /\ q = <<>>
            BY <1>1, <1>5, <3>2, <5>1
          <6> HIDE DEF p, q, w
          <6> QED BY <4>3, <6>1, ConcatEmptySeq
        <5>2. CASE j # 1
          <6>1. ~(k - 1 <= m) /\ k - 1 \in 0..(m + n) /\ k - 1 - m = j - 1
            BY <1>1, <3>2, <5>2
          <6> QED BY <6>1
        <5> QED BY <5>1, <5>2
      <4> HIDE DEF p, q, x, w
      <4>5. p \o (q \o x) = (p \o q) \o x
        BY <4>3, ConcatAssociative, SMTT(30)
      <4> QED BY <4>1, <4>2, <4>4, <4>5 DEF x
    <3> QED BY <3>1, <3>2
  <2> HIDE DEF w
  <2> QED BY <1>1, <2>1, <2>2 DEF JoinedSteps
<1>7. w[m + n] = v[m] \o u[n]
  <2>1. CASE n = 0
    <3>1. w[m + n] = v[m] /\ u[n] = <<>>
      BY <1>1, <1>5, <2>1
    <3> HIDE DEF w
    <3> DEFINE p == v[m]
    <3>2. p \in Seq(Bytes)
      BY <1>5
    <3> HIDE DEF p
    <3>3. p \o <<>> = p
      BY <3>2, ConcatEmptySeq
    <3> QED BY <3>1, <3>3 DEF p
  <2>2. CASE n # 0
    <3> DEFINE l == m + n
    <3>1. ~(l <= m) /\ l \in 0..(m + n) /\ l - m = n
      BY <1>1, <2>2
    <3> HIDE DEF l
    <3>2. w[l] = v[m] \o u[l - m]
      BY <3>1
    <3> QED BY <3>1, <3>2 DEF l
  <2> QED BY <2>1, <2>2
<1> HIDE DEF w
<1>8. Joined(ab) = w[Len(ab)]
  BY <1>1, <1>6, JoinedIs
<1> QED BY <1>1, <1>2, <1>3, <1>7, <1>8 DEF ab

LEMMA JoinedOne ==
  ASSUME NEW t \in Texts
  PROVE  Joined(<<t>>) = t \o <<NL>>
<1> DEFINE one == <<t>>
           x == Append(t, NL)
           w == [k \in 0..1 |-> IF k = 0 THEN <<>> ELSE x]
<1>1. Len(one) = 1 /\ one[1] = t /\ Len(one) \in Nat
  OBVIOUS
<1>2. w[0] = <<>> /\ w[1] = x
  OBVIOUS
<1>3. x \in Seq(Bytes) /\ x = t \o <<NL>>
  BY EndedType
<1>4. <<>> \o x = x
  <2> HIDE DEF x
  <2> QED BY <1>3, ConcatEmptySeq
<1> HIDE DEF w, one
<1>5. JoinedSteps(one, w)
  <2>1. \A k \in 1..Len(one) : k = 1 /\ k - 1 = 0
    BY <1>1
  <2> QED BY <1>1, <1>2, <1>4, <2>1 DEF JoinedSteps
<1>6. Joined(one) = w[Len(one)]
  BY <1>1, <1>5, JoinedIs
<1> QED BY <1>1, <1>2, <1>3, <1>6 DEF one

LEMMA JoinedEmpty ==
  Joined(<<>>) = <<>>
<1> DEFINE none == <<>>
           w == [k \in 0..0 |-> <<>>]
<1>1. Len(none) = 0 /\ Len(none) \in Nat /\ w[0] = <<>>
  OBVIOUS
<1> HIDE DEF w, none
<1>2. JoinedSteps(none, w)
  BY <1>1 DEF JoinedSteps
<1>3. Joined(none) = w[Len(none)]
  BY <1>1, <1>2, JoinedIs
<1> QED BY <1>1, <1>3 DEF none

LEMMA JoinedType ==
  ASSUME NEW ls \in Seq(Texts)
  PROVE  Joined(ls) \in Seq(Bytes) /\ Len(Joined(ls)) \in Nat
BY SplitOfJoined

\* A text's lines before and behind one of them.
LEMMA Parts ==
  ASSUME NEW ls \in Seq(Texts), NEW k \in 1..Len(ls)
  PROVE  /\ SubSeq(ls, 1, k - 1) \in Seq(Texts) /\ Len(SubSeq(ls, 1, k - 1)) = k - 1
         /\ SubSeq(ls, k + 1, Len(ls)) \in Seq(Texts) /\ Len(SubSeq(ls, k + 1, Len(ls))) = Len(ls) - k
         /\ ls = SubSeq(ls, 1, k - 1) \o (<<ls[k]>> \o SubSeq(ls, k + 1, Len(ls)))
<1> DEFINE n == Len(ls)
           h == k - 1
           i == k + 1
<1>1. n \in Nat /\ \A x \in 1..n : ls[x] \in Texts
  BY ElementOfSeq
<1> HIDE DEF n
<1>2. k \in 1..n
  BY DEF n
<1>3. h \in Int /\ i \in Int /\ 1 \in Int /\ n \in Int /\ h = k - 1 /\ i = k + 1 /\ h \in 0..n /\ h + 1 = k
  BY <1>1, <1>2
<1>4. (\A x \in 1..h : x \in 1..n) /\ \A x \in i..n : x \in 1..n
  BY <1>1, <1>2
<1> HIDE DEF h, i
<1>5. SubSeq(ls, 1, h) \in Seq(Texts) /\ Len(SubSeq(ls, 1, h)) = (IF 1 <= h THEN h - 1 + 1 ELSE 0)
  <2>1. \A x \in 1..h : ls[x] \in Texts
    BY <1>1, <1>4
  <2> QED BY SMTT(20), <1>3, <2>1, SubSeqProperties
<1>6. SubSeq(ls, i, n) \in Seq(Texts) /\ Len(SubSeq(ls, i, n)) = (IF i <= n THEN n - i + 1 ELSE 0)
  <2>1. \A x \in i..n : ls[x] \in Texts
    BY <1>1, <1>4
  <2> QED BY SMTT(20), <1>3, <2>1, SubSeqProperties
<1>7. Len(SubSeq(ls, 1, h)) = k - 1 /\ Len(SubSeq(ls, i, n)) = n - k
  BY <1>1, <1>2, <1>3, <1>5, <1>6
<1>8. SubSeq(ls, 1, h) \o SubSeq(ls, h + 1, n) = SubSeq(ls, 1, n)
  <2>1. 1 \in 1..(n + 1) /\ h \in (1 - 1)..n /\ n \in h..n
    BY <1>1, <1>3
  <2> QED BY <2>1, ConcatAdjacentSubSeq DEF n
<1>9. SubSeq(ls, k, n) = <<ls[k]>> \o SubSeq(ls, k + 1, n)
  <2>1. n \in k..n
    BY <1>1, <1>2
  <2> QED BY <1>2, <2>1, SubSeqRecursiveFirst DEF n
<1>10. SubSeq(ls, 1, n) = ls
  BY SubSeqFull DEF n
<1>11. ls = SubSeq(ls, 1, h) \o (<<ls[k]>> \o SubSeq(ls, i, n))
  BY <1>3, <1>8, <1>9, <1>10
<1> QED BY <1>5, <1>6, <1>7, <1>11 DEF n, h, i

LEMMA JoinedParts ==
  ASSUME NEW a \in Seq(Texts), NEW b \in Seq(Texts), NEW t \in Texts
  PROVE  Joined(a \o (<<t>> \o b)) = Joined(a) \o ((t \o <<NL>>) \o Joined(b))
<1> DEFINE one == <<t>>
           x == one \o b
<1>1. one \in Seq(Texts) /\ Joined(one) = t \o <<NL>>
  <2>1. one \in Seq(Texts)
    OBVIOUS
  <2>2. Joined(<<t>>) = t \o <<NL>>
    BY Zenon, JoinedOne
  <2> QED BY <2>1, <2>2, Zenon
<1> HIDE DEF one
<1>2. x \in Seq(Texts) /\ Joined(x) = Joined(one) \o Joined(b)
  BY <1>1, ConcatProperties, JoinedConcat
<1> HIDE DEF x
<1>3. Joined(a \o x) = Joined(a) \o Joined(x)
  BY <1>2, JoinedConcat
<1> QED BY <1>1, <1>2, <1>3 DEF x, one

-----------------------------------------------------------------------------
(* Where lines start                                                        *)

Off(ls, k) == Len(Joined(SubSeq(ls, 1, k)))

LEMMA OffStep ==
  ASSUME NEW ls \in Seq(Texts), NEW k \in 1..Len(ls)
  PROVE  Off(ls, k) = Off(ls, k - 1) + Len(ls[k]) + 1 /\ Off(ls, k - 1) \in Nat /\ Off(ls, k) \in Nat
<1> DEFINE a == SubSeq(ls, 1, k - 1)
           t == ls[k]
           one == <<t>>
           e == t \o <<NL>>
<1>1. a \in Seq(Texts) /\ t \in Texts
  BY Parts, TextAt
<1>2. SubSeq(ls, 1, k) = a \o one
  <2>1. 1 \in 1..Len(ls) /\ k \in 1..Len(ls)
    <3>1. Len(ls) \in Nat
      OBVIOUS
    <3> QED BY <3>1
  <2> QED BY <2>1, SubSeqRecursiveSecond
<1> HIDE DEF a, t
<1>3. one \in Seq(Texts) /\ Joined(one) = e /\ e \in Seq(Bytes) /\ Len(e) = Len(t) + 1 /\ Len(t) \in Nat
  <2>1. one \in Seq(Texts)
    BY <1>1
  <2>2. e = Append(t, NL) /\ t \in Seq(Bytes) /\ Append(t, NL) \in Seq(Bytes)
    BY <1>1, EndedType
  <2>3. Len(Append(t, NL)) = Len(t) + 1 /\ Len(t) \in Nat
    BY <2>2
  <2> QED BY <1>1, <2>1, <2>2, <2>3, JoinedOne
<1> HIDE DEF one, e
<1>4. Joined(a \o one) = Joined(a) \o e
  BY <1>1, <1>3, JoinedConcat
<1> DEFINE p == Joined(a)
<1>5. p \in Seq(Bytes) /\ Len(p) \in Nat
  BY <1>1, JoinedType
<1> HIDE DEF p
<1>6. Len(p \o e) = Len(p) + Len(e)
  BY <1>3, <1>5, ConcatProperties
<1>7. Off(ls, k) = Len(p) + Len(t) + 1
  <2>1. Off(ls, k) = Len(p \o e)
    BY <1>2, <1>4 DEF Off, p
  <2> QED BY <1>3, <1>5, <1>6, <2>1
<1>8. Off(ls, k - 1) = Len(p)
  BY DEF Off, p, a
<1> QED BY <1>3, <1>5, <1>7, <1>8, SMTT(30) DEF t

LEMMA OffFacts ==
  ASSUME NEW ls \in Seq(Texts)
  PROVE  /\ Off(ls, 0) = 0 /\ Off(ls, Len(ls)) = Len(Joined(ls))
         /\ \A k \in 0..Len(ls) : Off(ls, k) \in Nat
         /\ \A i, k \in 0..Len(ls) : i <= k => Off(ls, i) <= Off(ls, k)
<1> DEFINE n == Len(ls)
<1>1. n \in Nat /\ \A x \in 1..n : ls[x] \in Texts
  BY ElementOfSeq
<1> HIDE DEF n
<1>2. Off(ls, 0) = 0
  <2>1. SubSeq(ls, 1, 0) = <<>>
    BY SubSeqEmpty
  <2>2. Off(ls, 0) = Len(<<>>)
    BY <2>1, JoinedEmpty DEF Off
  <2> QED BY <2>2
<1>3. Off(ls, n) = Len(Joined(ls))
  BY SubSeqFull DEF Off, n
<1>4. ASSUME NEW k \in 0..n PROVE Off(ls, k) \in Nat
  <2>1. CASE k = 0
    BY <1>2, <2>1
  <2>2. CASE k # 0
    <3>1. k \in 1..n
      BY <1>1, <2>2
    <3> QED BY <3>1, OffStep DEF n
  <2> QED BY <2>1, <2>2
<1>5. ASSUME NEW i \in 0..n, NEW k \in 0..n, i <= k PROVE Off(ls, i) <= Off(ls, k)
  <2> DEFINE a == SubSeq(ls, 1, i)
             j == i + 1
             b == SubSeq(ls, j, k)
  <2>1. 1 \in 1..(n + 1) /\ i \in (1 - 1)..n /\ k \in i..n /\ i \in Int /\ j \in Int /\ k \in Int /\ 1 \in Int
    BY <1>1, <1>5
  <2>2. a \o SubSeq(ls, i + 1, k) = SubSeq(ls, 1, k)
    BY <2>1, ConcatAdjacentSubSeq DEF n
  <2>3. (\A x \in 1..i : ls[x] \in Texts) /\ \A x \in j..k : ls[x] \in Texts
    BY <1>1, <2>1
  <2> HIDE DEF j
  <2>4. a \in Seq(Texts) /\ b \in Seq(Texts)
    BY <2>1, <2>3, SubSeqProperties
  <2>5. SubSeq(ls, 1, k) = a \o b
    BY <2>2 DEF j
  <2> HIDE DEF a, b
  <2> DEFINE p == Joined(a)
             q == Joined(b)
  <2>6. p \in Seq(Bytes) /\ q \in Seq(Bytes) /\ Joined(a \o b) = p \o q
    BY <2>4, JoinedType, JoinedConcat
  <2> HIDE DEF p, q
  <2>7. Len(p \o q) = Len(p) + Len(q) /\ Len(p) \in Nat /\ Len(q) \in Nat
    BY <2>6, ConcatProperties
  <2>8. Off(ls, i) = Len(p) /\ Off(ls, k) = Len(p \o q)
    BY <2>5, <2>6 DEF Off, p, a
  <2> QED BY <2>7, <2>8
<1> QED BY <1>2, <1>3, <1>4, <1>5 DEF n

\* A line's characters are where they should be in the text, and an NL after them.
LEMMA Places ==
  ASSUME NEW ls \in Seq(Texts), NEW k \in 1..Len(ls), NEW j \in 1..(Len(ls[k]) + 1)
  PROVE  Joined(ls)[Off(ls, k - 1) + j] = IF j <= Len(ls[k]) THEN ls[k][j] ELSE NL
<1> DEFINE a == SubSeq(ls, 1, k - 1)
           b == SubSeq(ls, k + 1, Len(ls))
           t == ls[k]
           nl == <<NL>>
           e == t \o nl
           p == Joined(a)
           q == Joined(b)
<1>1. a \in Seq(Texts) /\ b \in Seq(Texts) /\ t \in Texts /\ ls = a \o (<<t>> \o b)
  <2>1. t \in Texts
    BY TextAt
  <2>2. a \in Seq(Texts) /\ b \in Seq(Texts) /\ ls = a \o (<<t>> \o b)
    BY Parts
  <2> QED BY <2>1, <2>2
<1>2. Off(ls, k - 1) = Len(p)
  BY DEF Off
<1> HIDE DEF a, b, t
<1>3. Joined(ls) = p \o (e \o q) /\ p \in Seq(Bytes) /\ q \in Seq(Bytes)
  <2>1. Joined(a \o (<<t>> \o b)) = p \o (e \o q)
    BY <1>1, JoinedParts
  <2>2. p \in Seq(Bytes) /\ q \in Seq(Bytes)
    BY <1>1, JoinedType
  <2> HIDE DEF p, q, e
  <2> QED BY <1>1, <2>1, <2>2
<1>4. t \in Seq(Bytes) /\ nl \in Seq(Bytes) /\ Len(nl) = 1 /\ nl[1] = NL
  BY <1>1, EndedType, Sizes
<1> HIDE DEF p, q, nl
<1>5. /\ e \in Seq(Bytes) /\ Len(e) = Len(t) + Len(nl)
      /\ \A i \in 1..(Len(t) + Len(nl)) : e[i] = IF i <= Len(t) THEN t[i] ELSE nl[i - Len(t)]
  BY <1>4, ConcatProperties
<1> HIDE DEF e
<1> DEFINE x == e \o q
<1>6. /\ x \in Seq(Bytes) /\ Len(x) = Len(e) + Len(q)
      /\ \A i \in 1..(Len(e) + Len(q)) : x[i] = IF i <= Len(e) THEN e[i] ELSE q[i - Len(e)]
  BY <1>3, <1>5, ConcatProperties
<1> HIDE DEF x
<1> DEFINE y == p \o x
<1>7. \A i \in 1..(Len(p) + Len(x)) : y[i] = IF i <= Len(p) THEN p[i] ELSE x[i - Len(p)]
  BY <1>3, <1>6, ConcatProperties
<1>8. Joined(ls) = y
  BY <1>3 DEF x
<1> HIDE DEF y
<1>9. Len(p) \in Nat /\ Len(q) \in Nat /\ Len(t) \in Nat
  BY <1>3, <1>4
<1>10. j \in 1..(Len(t) + 1)
  BY DEF t
<1> DEFINE i == Len(p) + j
<1>11. i \in 1..(Len(p) + Len(x)) /\ ~(i <= Len(p)) /\ i - Len(p) = j /\ j <= Len(e) /\ j \in 1..(Len(e) + Len(q))
  BY <1>4, <1>5, <1>6, <1>9, <1>10
<1> HIDE DEF i
<1>12. y[i] = x[j] /\ x[j] = e[j]
  BY <1>6, <1>7, <1>11
<1>13. e[j] = IF j <= Len(t) THEN t[j] ELSE NL
  <2>1. CASE j <= Len(t)
    BY <1>4, <1>5, <1>9, <1>10, <2>1
  <2>2. CASE ~(j <= Len(t))
    <3>1. j - Len(t) = 1 /\ j \in 1..(Len(t) + Len(nl))
      BY <1>4, <1>9, <1>10, <2>2
    <3> QED BY <1>4, <1>5, <2>2, <3>1
  <2> QED BY <2>1, <2>2
<1> QED BY <1>2, <1>8, <1>12, <1>13 DEF i, t

LEMMA Located ==
  ASSUME NEW ls \in Seq(Texts), NEW p \in 1..Len(Joined(ls))
  PROVE  \E k \in 1..Len(ls) : Off(ls, k - 1) < p /\ p <= Off(ls, k)
<1> DEFINE n == Len(ls)
           S == {k \in 0..n : p <= Off(ls, k)}
<1>1. n \in Nat /\ Off(ls, 0) = 0 /\ Off(ls, n) = Len(Joined(ls)) /\ Len(Joined(ls)) \in Nat
      /\ \A k \in 0..n : Off(ls, k) \in Nat
  BY OffFacts, JoinedType
<1> HIDE DEF n
<1>2. n \in S
  BY <1>1
<1>3. PICK k \in S : \A q \in S : k <= q
  <2>1. S \in SUBSET Nat /\ S # {}
    BY <1>1, <1>2
  <2> HIDE DEF S
  <2> QED BY <2>1, NatHasLeast
<1>4. k # 0
  BY <1>1, <1>3
<1>5. k \in 1..n /\ k - 1 \in 0..n /\ k - 1 \notin S
  BY <1>1, <1>3, <1>4
<1>6. Off(ls, k - 1) < p
  BY <1>1, <1>5
<1> QED BY <1>3, <1>5, <1>6 DEF n

StartsOf(t) == {0} \cup {i \in 1..Len(t) : t[i] = NL}

\* The text is the lines with an NL between two of them.
LEMMA FrontOfJoined ==
  ASSUME NEW ls \in Seq(Texts), Len(ls) > 0
  PROVE  /\ Front(Joined(ls)) \in Seq(Bytes) /\ Len(Front(Joined(ls))) = Off(ls, Len(ls)) - 1
         /\ Off(ls, Len(ls)) \in Nat \ {0}
         /\ \A i \in 1..(Off(ls, Len(ls)) - 1) : Front(Joined(ls))[i] = Joined(ls)[i]
<1> DEFINE j == Joined(ls)
           t == Front(j)
           nl == <<NL>>
<1>1. t \in Seq(Bytes) /\ j = t \o nl /\ nl \in Seq(Bytes) /\ Len(nl) = 1
  <2>1. t \in Seq(Bytes) /\ j = t \o nl
    BY Zenon, JoinedEnds
  <2> HIDE DEF t, j
  <2>2. nl \in Seq(Bytes) /\ Len(nl) = 1
    BY Sizes
  <2> QED BY <2>1, <2>2
<1>2. Off(ls, Len(ls)) = Len(j)
  BY OffFacts
<1> HIDE DEF t, nl, j
<1>3. Len(t \o nl) = Len(t) + Len(nl) /\ Len(t) \in Nat
      /\ \A i \in 1..(Len(t) + Len(nl)) : (t \o nl)[i] = IF i <= Len(t) THEN t[i] ELSE nl[i - Len(t)]
  <2>1. Len(t) \in Nat
    BY <1>1
  <2> QED BY <1>1, <2>1, ConcatProperties, Zenon
<1>4. Len(j) = Len(t) + 1 /\ \A i \in 1..Len(t) : j[i] = t[i]
  BY <1>1, <1>3
<1> QED BY <1>1, <1>2, <1>3, <1>4 DEF t, j

LEMMA StartsAre ==
  ASSUME NEW ls \in Seq(Texts), Len(ls) > 0
  PROVE  StartsOf(Front(Joined(ls))) = {Off(ls, k) : k \in 0..(Len(ls) - 1)}
<1> DEFINE n == Len(ls)
           j == Joined(ls)
           t == Front(j)
<1>1. n \in Nat /\ n > 0 /\ Off(ls, 0) = 0 /\ (\A k \in 0..n : Off(ls, k) \in Nat)
      /\ \A i, k \in 0..n : i <= k => Off(ls, i) <= Off(ls, k)
  BY OffFacts
<1>2. Len(t) = Off(ls, n) - 1 /\ (\A i \in 1..(Off(ls, n) - 1) : t[i] = j[i]) /\ Off(ls, n) = Len(j)
  BY FrontOfJoined, OffFacts
<1>3. \A k \in 1..n : Off(ls, k) = Off(ls, k - 1) + Len(ls[k]) + 1 /\ Len(ls[k]) \in Nat /\ ls[k] \in Seq(Chars)
  BY OffStep, TextAt
<1>4. \A k \in 1..n : \A x \in 1..(Len(ls[k]) + 1) : j[Off(ls, k - 1) + x] = IF x <= Len(ls[k]) THEN ls[k][x] ELSE NL
  BY Places
<1>5. \A p \in 1..Len(j) : \E k \in 1..n : Off(ls, k - 1) < p /\ p <= Off(ls, k)
  BY Located
<1> HIDE DEF n, j, t
<1>6. ASSUME NEW k \in 0..(n - 1) PROVE Off(ls, k) \in StartsOf(t)
  <2>1. CASE k = 0
    BY <1>1, <2>1 DEF StartsOf
  <2>2. CASE k # 0
    <3> DEFINE h == k - 1
               l == Len(ls[k])
               x == l + 1
               i == Off(ls, k)
    <3>1. k \in 1..n /\ h \in 0..n /\ k \in 0..n /\ k + 1 \in 1..n /\ k + 1 - 1 = k /\ k + 1 <= n /\ n \in 0..n /\ k + 1 \in 0..n
      BY <1>1, <2>2
    <3>2. l \in Nat /\ x \in 1..(l + 1) /\ ~(x <= l) /\ Off(ls, h) \in Nat
      BY <1>1, <1>3, <3>1
    <3>3. i = Off(ls, h) + l + 1 /\ i \in Nat
      BY <1>1, <1>3, <3>1
    <3>4. i = Off(ls, h) + x
      BY <3>2, <3>3
    <3>5. j[i] = NL
      BY <1>4, <3>1, <3>2, <3>4
    <3>6. Off(ls, k + 1) = i + Len(ls[k + 1]) + 1 /\ Len(ls[k + 1]) \in Nat
      BY <1>3, <3>1
    <3>7. Off(ls, k + 1) <= Off(ls, n) /\ Off(ls, k + 1) \in Nat /\ Off(ls, n) \in Nat
      BY <1>1, <3>1
    <3> HIDE DEF i, h, l, x
    <3>8. i \in 1..(Off(ls, n) - 1)
      <4>1. i >= 1
        BY <3>2, <3>3
      <4> DEFINE y == Off(ls, k + 1)
                 z == Off(ls, n)
                 w == Len(ls[k + 1])
      <4>2. y = i + w + 1 /\ w \in Nat /\ y <= z /\ y \in Nat /\ z \in Nat
        BY <3>6, <3>7
      <4> HIDE DEF y, z, w
      <4>3. i <= z - 1 /\ z - 1 \in Nat
        BY <3>3, <4>2
      <4>4. i \in 1..(z - 1)
        BY <3>3, <4>1, <4>3
      <4> QED BY <4>4 DEF z
    <3>9. t[i] = NL /\ i \in 1..Len(t)
      BY <1>2, <3>5, <3>8
    <3> QED BY <3>9 DEF StartsOf, i
  <2> QED BY <2>1, <2>2
<1>7. ASSUME NEW i \in StartsOf(t) PROVE \E k \in 0..(n - 1) : i = Off(ls, k)
  <2>1. CASE i = 0
    BY <1>1, <2>1
  <2>2. CASE i # 0
    <3>1. i \in 1..Len(t) /\ t[i] = NL
      BY <2>2 DEF StartsOf
    <3>2. Off(ls, n) \in Nat
      BY <1>1
    <3>3. i \in 1..(Off(ls, n) - 1) /\ i \in 1..Len(j) /\ i < Off(ls, n) /\ i \in Nat
      BY <1>2, <3>1, <3>2
    <3>4. j[i] = NL
      BY <1>2, <3>1, <3>3
    <3>5. PICK k \in 1..n : Off(ls, k - 1) < i /\ i <= Off(ls, k)
      BY <1>5, <3>3
    <3> DEFINE o == Off(ls, k - 1)
               l == Len(ls[k])
               x == i - o
    <3>6. o \in Nat /\ l \in Nat /\ Off(ls, k) = o + l + 1
      <4>1. k - 1 \in 0..n
        BY <1>1
      <4> QED BY <1>1, <1>3, <4>1
    <3>7. o < i /\ i <= o + l + 1
      BY <3>5, <3>6
    <3> HIDE DEF o
    <3>8. x \in 1..(l + 1) /\ o + x = i
      BY <3>3, <3>6, <3>7
    <3> HIDE DEF x
    <3>9. j[o + x] = IF x <= l THEN ls[k][x] ELSE NL
      BY <1>4, <3>8 DEF o
    <3>10. ~(x <= l)
      <4> SUFFICES ASSUME x <= l PROVE FALSE
        OBVIOUS
      <4>1. ls[k] \in Seq(Chars) /\ x \in 1..Len(ls[k])
        BY <1>3, <3>6, <3>8
      <4>2. ls[k][x] \in Chars
        BY <4>1, ElementOfSeq
      <4> QED BY <3>4, <3>8, <3>9, <4>2, Sizes
    <3>11. i = Off(ls, k)
      BY <3>3, <3>6, <3>8, <3>10
    <3>12. k # n
      BY <3>3, <3>11
    <3>13. k \in 0..(n - 1)
      BY <1>1, <3>12
    <3> QED BY <3>11, <3>13
  <2> QED BY <2>1, <2>2
<1> QED BY <1>6, <1>7 DEF t, j, n

LEMMA MaxIs ==
  ASSUME NEW S \in SUBSET Int, NEW m \in S, \A y \in S : y <= m
  PROVE  Max(S) = m
<1>1. m \in S /\ \A y \in S : m >= y
  OBVIOUS
<1>2. Max(S) \in S /\ \A y \in S : Max(S) >= y
  BY <1>1 DEF Max
<1>3. Max(S) >= m /\ Max(S) <= m /\ Max(S) \in Int /\ m \in Int
  BY <1>1, <1>2
<1> QED BY <1>3

LEMMA MinIs ==
  ASSUME NEW S \in SUBSET Int, NEW m \in S, \A y \in S : m <= y
  PROVE  Min(S) = m
<1>1. m \in S /\ \A y \in S : m <= y
  OBVIOUS
<1>2. Min(S) \in S /\ \A y \in S : Min(S) <= y
  BY <1>1 DEF Min
<1>3. Min(S) <= m /\ m <= Min(S) /\ Min(S) \in Int /\ m \in Int
  BY <1>1, <1>2
<1> QED BY <1>3

LineStartOf(t, p) == Max({s \in StartsOf(t) : s <= p})
EndOf(t, start) == Min({s - 1 : s \in {x \in StartsOf(t) : x > start}} \cup {Len(t)})

LEMMA LineStartIs ==
  ASSUME NEW ls \in Seq(Texts), NEW row \in 0..(Len(ls) - 1), NEW col \in 0..Len(ls[row + 1])
  PROVE  LineStartOf(Front(Joined(ls)), Off(ls, row) + col) = Off(ls, row)
<1> DEFINE n == Len(ls)
           t == Front(Joined(ls))
           o == Off(ls, row)
           l == Len(ls[row + 1])
           S == {s \in StartsOf(t) : s <= o + col}
<1>1. n \in Nat /\ n > 0 /\ row \in 0..n /\ row + 1 \in 1..n /\ row + 1 \in 0..n /\ row + 1 - 1 = row
  <2>1. n \in Nat
    OBVIOUS
  <2> HIDE DEF n
  <2> QED BY <2>1 DEF n
<1>2. /\ \A k \in 0..n : Off(ls, k) \in Nat
      /\ \A i, k \in 0..n : i <= k => Off(ls, i) <= Off(ls, k)
  BY OffFacts
<1>3. Off(ls, row + 1) = o + l + 1 /\ o \in Nat /\ l \in Nat
  <2>1. Off(ls, row + 1) = Off(ls, row + 1 - 1) + Len(ls[row + 1]) + 1
    BY <1>1, OffStep
  <2>2. l \in Nat
    BY <1>1, TextAt
  <2> QED BY <1>1, <1>2, <2>1, <2>2
<1>4. StartsOf(t) = {Off(ls, k) : k \in 0..(n - 1)}
  BY <1>1, StartsAre
<1>5. col \in Nat /\ col <= l
  BY <1>3
<1> HIDE DEF n, t, o, l
<1>6. row \in 0..(n - 1)
  BY DEF n
<1>7. o \in S
  BY <1>3, <1>4, <1>5, <1>6 DEF o
<1>8. ASSUME NEW y \in S PROVE y \in Int /\ y <= o
  <2>1. PICK k \in 0..(n - 1) : y = Off(ls, k)
    BY <1>4
  <2>2. k \in 0..n /\ k \in Int /\ y \in Nat /\ y <= o + col
    BY <1>1, <1>2, <2>1
  <2>3. ~(row + 1 <= k)
    <3> SUFFICES ASSUME row + 1 <= k PROVE FALSE
      OBVIOUS
    <3>1. Off(ls, row + 1) <= Off(ls, k)
      BY <1>1, <1>2, <2>2
    <3> QED BY <1>3, <1>5, <2>1, <2>2, <3>1
  <2>4. k <= row
    BY <2>2, <2>3
  <2>5. Off(ls, k) <= Off(ls, row)
    BY <1>1, <1>2, <2>2, <2>4
  <2> QED BY <2>1, <2>2, <2>5 DEF o
<1> HIDE DEF S
<1>9. S \in SUBSET Int /\ \A y \in S : y <= o
  BY <1>8
<1>10. Max(S) = o
  BY <1>7, <1>9, MaxIs
<1> QED BY <1>10 DEF LineStartOf, S, o, t

LEMMA EndIs ==
  ASSUME NEW ls \in Seq(Texts), NEW row \in 0..(Len(ls) - 1)
  PROVE  EndOf(Front(Joined(ls)), Off(ls, row)) = Off(ls, row) + Len(ls[row + 1])
<1> DEFINE n == Len(ls)
           t == Front(Joined(ls))
           o == Off(ls, row)
           l == Len(ls[row + 1])
           S == {s - 1 : s \in {x \in StartsOf(t) : x > o}} \cup {Len(t)}
           m == o + l
<1>1. n \in Nat /\ n > 0 /\ row \in 0..n /\ row + 1 \in 1..n /\ row + 1 \in 0..n /\ row + 1 - 1 = row
  <2>1. n \in Nat
    OBVIOUS
  <2> HIDE DEF n
  <2> QED BY <2>1 DEF n
<1>2. /\ \A k \in 0..n : Off(ls, k) \in Nat
      /\ \A i, k \in 0..n : i <= k => Off(ls, i) <= Off(ls, k)
  BY OffFacts
<1>3. Off(ls, row + 1) = o + l + 1 /\ o \in Nat /\ l \in Nat
  <2>1. Off(ls, row + 1) = Off(ls, row + 1 - 1) + Len(ls[row + 1]) + 1
    BY <1>1, OffStep
  <2>2. l \in Nat
    BY <1>1, TextAt
  <2> QED BY <1>1, <1>2, <2>1, <2>2
<1>4. StartsOf(t) = {Off(ls, k) : k \in 0..(n - 1)} /\ Len(t) = Off(ls, n) - 1
  BY <1>1, StartsAre, FrontOfJoined
<1> HIDE DEF n, t, o, l
<1>5. row \in 0..(n - 1)
  BY DEF n
<1>6. m \in S
  <2>1. CASE row + 1 = n
    BY <1>3, <1>4, <2>1
  <2>2. CASE row + 1 # n
    <3> DEFINE s == Off(ls, row + 1)
    <3>1. row + 1 \in 0..(n - 1)
      BY <1>1, <2>2
    <3>2. s \in StartsOf(t)
      BY <1>4, <3>1
    <3>3. s > o /\ s - 1 = m
      BY <1>3
    <3> HIDE DEF s, m
    <3> QED BY <3>2, <3>3
  <2> QED BY <2>1, <2>2
<1>7. ASSUME NEW y \in S PROVE y \in Int /\ m <= y
  <2>1. CASE y = Len(t)
    <3>1. Off(ls, row + 1) <= Off(ls, n) /\ Off(ls, n) \in Nat
      BY <1>1, <1>2
    <3> QED BY <1>3, <1>4, <2>1, <3>1
  <2>2. CASE y # Len(t)
    <3>1. PICK s \in StartsOf(t) : s > o /\ y = s - 1
      BY <2>2
    <3>2. PICK k \in 0..(n - 1) : s = Off(ls, k)
      BY <1>4
    <3>3. k \in 0..n /\ k \in Int /\ s \in Nat
      BY <1>1, <1>2, <3>2
    <3>4. ~(k <= row)
      <4> SUFFICES ASSUME k <= row PROVE FALSE
        OBVIOUS
      <4>1. Off(ls, k) <= Off(ls, row)
        BY <1>1, <1>2, <3>3
      <4> QED BY <1>3, <3>1, <3>2, <3>3, <4>1 DEF o
    <3>5. row + 1 <= k
      BY <3>3, <3>4
    <3>6. Off(ls, row + 1) <= Off(ls, k)
      BY <1>1, <1>2, <3>3, <3>5
    <3> QED BY <1>3, <3>1, <3>2, <3>3, <3>6
  <2> QED BY <2>1, <2>2
<1> HIDE DEF S, m
<1>8. S \in SUBSET Int /\ \A y \in S : m <= y
  BY <1>7
<1>9. Min(S) = m
  BY <1>6, <1>8, MinIs
<1> QED BY <1>9 DEF EndOf, S, o, t, m, l

-----------------------------------------------------------------------------
(* Texts in two parts                                                       *)

LEMMA FrontFacts ==
  ASSUME NEW S, NEW q \in Seq(S), q # <<>>
  PROVE  /\ Front(q) \in Seq(S) /\ Len(Front(q)) = Len(q) - 1 /\ Len(q) \in Nat \ {0}
         /\ \A i \in 1..(Len(q) - 1) : Front(q)[i] = q[i]
<1> DEFINE n == Len(q)
           h == n - 1
<1>1. n \in Nat \ {0} /\ \A i \in 1..n : q[i] \in S
  BY ElementOfSeq
<1> HIDE DEF n
<1>2. h \in Nat /\ h \in Int /\ 1 \in Int /\ h = n - 1 /\ \A i \in 1..h : i \in 1..n
  BY <1>1
<1>3. Front(q) = SubSeq(q, 1, h)
  BY DEF Front, n
<1> HIDE DEF h
<1>4. SubSeq(q, 1, h) \in Seq(S) /\ Len(SubSeq(q, 1, h)) = (IF 1 <= h THEN h - 1 + 1 ELSE 0)
      /\ \A i \in 1..(h - 1 + 1) : SubSeq(q, 1, h)[i] = q[1 + i - 1]
  <2>1. \A i \in 1..h : q[i] \in S
    BY <1>1, <1>2
  <2> QED BY SMTT(20), <1>2, <2>1, SubSeqProperties
<1>5. Len(Front(q)) = h /\ \A i \in 1..h : Front(q)[i] = q[i]
  BY <1>2, <1>3, <1>4
<1> QED BY <1>1, <1>2, <1>3, <1>4, <1>5 DEF n

LEMMA FrontConcat ==
  ASSUME NEW S, NEW p \in Seq(S), NEW q \in Seq(S), q # <<>>
  PROVE  Front(p \o q) = p \o Front(q) /\ Front(q) \in Seq(S)
<1> DEFINE f == Front(q)
           a == p \o q
           b == p \o f
<1>1. f \in Seq(S) /\ Len(f) = Len(q) - 1 /\ Len(q) \in Nat \ {0} /\ Len(p) \in Nat
      /\ \A i \in 1..(Len(q) - 1) : f[i] = q[i]
  BY FrontFacts
<1> HIDE DEF f
<1>2. a \in Seq(S) /\ Len(a) = Len(p) + Len(q)
      /\ \A i \in 1..(Len(p) + Len(q)) : a[i] = IF i <= Len(p) THEN p[i] ELSE q[i - Len(p)]
  BY ConcatProperties
<1>3. b \in Seq(S) /\ Len(b) = Len(p) + Len(f)
      /\ \A i \in 1..(Len(p) + Len(f)) : b[i] = IF i <= Len(p) THEN p[i] ELSE f[i - Len(p)]
  BY <1>1, ConcatProperties
<1> HIDE DEF a, b
<1>4. a # <<>>
  BY <1>1, <1>2
<1> DEFINE g == Front(a)
<1>5. g \in Seq(S) /\ Len(g) = Len(a) - 1 /\ \A i \in 1..(Len(a) - 1) : g[i] = a[i]
  BY <1>2, <1>4, FrontFacts
<1> HIDE DEF g
<1>6. Len(g) = Len(b) /\ Len(b) \in Nat
  BY <1>1, <1>2, <1>3, <1>5
<1>7. ASSUME NEW i \in 1..Len(g) PROVE g[i] = b[i]
  <2>1. i \in 1..(Len(a) - 1) /\ i \in 1..(Len(p) + Len(q)) /\ i \in 1..(Len(p) + Len(f)) /\ i \in Nat
    BY <1>1, <1>2, <1>3, <1>5
  <2>2. CASE i <= Len(p)
    BY <1>2, <1>3, <1>5, <2>1, <2>2
  <2>3. CASE ~(i <= Len(p))
    <3>1. i - Len(p) \in 1..(Len(q) - 1)
      BY <1>1, <2>1, <2>3
    <3> QED BY <1>1, <1>2, <1>3, <1>5, <2>1, <2>3, <3>1
  <2> QED BY <2>2, <2>3
<1>8. g = b
  BY <1>3, <1>5, <1>6, <1>7, SeqEqual
<1> QED BY <1>1, <1>8 DEF g, b, f, a

LEMMA CutConcat ==
  ASSUME NEW S, NEW p \in Seq(S), NEW f \in Seq(S)
  PROVE  SubSeq(p \o f, 1, Len(p)) = p /\ SubSeq(p \o f, Len(p) + 1, Len(p \o f)) = f
<1> DEFINE a == p \o f
           m == Len(p)
           n == Len(a)
           i == m + 1
           x == SubSeq(a, 1, m)
           y == SubSeq(a, i, n)
<1>1. a \in Seq(S) /\ n = m + Len(f)
      /\ \A k \in 1..(m + Len(f)) : a[k] = IF k <= m THEN p[k] ELSE f[k - m]
  BY ConcatProperties
<1>2. m \in Nat /\ Len(f) \in Nat
  OBVIOUS
<1> HIDE DEF a, m
<1>3. \A k \in 1..n : a[k] \in S
  BY <1>1, ElementOfSeq
<1> HIDE DEF n
<1>4. m \in Int /\ n \in Int /\ i \in Int /\ 1 \in Int /\ i = m + 1 /\ m <= n
      /\ (\A k \in 1..m : k \in 1..n) /\ \A k \in i..n : k \in 1..n
  BY <1>1, <1>2
<1> HIDE DEF i
<1>5. x \in Seq(S) /\ Len(x) = (IF 1 <= m THEN m - 1 + 1 ELSE 0) /\ \A k \in 1..(m - 1 + 1) : x[k] = a[1 + k - 1]
  <2>1. \A k \in 1..m : a[k] \in S
    BY <1>3, <1>4
  <2> QED BY SMTT(20), <1>4, <2>1, SubSeqProperties
<1>6. y \in Seq(S) /\ Len(y) = (IF i <= n THEN n - i + 1 ELSE 0) /\ \A k \in 1..(n - i + 1) : y[k] = a[i + k - 1]
  <2>1. \A k \in i..n : a[k] \in S
    BY <1>3, <1>4
  <2> QED BY SMTT(20), <1>4, <2>1, SubSeqProperties
<1> HIDE DEF x, y
<1>7. Len(x) = m /\ \A k \in 1..m : x[k] = p[k]
  <2>1. Len(x) = m
    BY <1>2, <1>5
  <2>2. ASSUME NEW k \in 1..m PROVE x[k] = p[k]
    <3>1. k \in 1..(m - 1 + 1) /\ 1 + k - 1 = k /\ k <= m /\ k \in 1..(m + Len(f))
      BY <1>2
    <3> QED BY <1>1, <1>5, <3>1
  <2> QED BY <2>1, <2>2
<1>8. Len(y) = Len(f) /\ \A k \in 1..Len(f) : y[k] = f[k]
  <2>1. Len(y) = Len(f)
    BY <1>1, <1>2, <1>4, <1>6
  <2>2. ASSUME NEW k \in 1..Len(f) PROVE y[k] = f[k]
    <3> DEFINE z == i + k - 1
    <3>1. k \in 1..(n - i + 1) /\ z \in 1..(m + Len(f)) /\ ~(z <= m) /\ z - m = k
      BY <1>1, <1>2, <1>4
    <3>2. y[k] = a[z]
      BY <1>6, <3>1
    <3> HIDE DEF z
    <3>3. a[z] = f[z - m]
      BY <1>1, <3>1
    <3> QED BY <3>1, <3>2, <3>3
  <2> QED BY <2>1, <2>2
<1>9. x = p
  BY <1>5, <1>7, SeqEqual DEF m
<1>10. y = f
  BY <1>6, <1>8, SeqEqual
<1> QED BY <1>9, <1>10 DEF x, y, a, m, n, i

\* What Insert and Erase of TextBuffer make of a text.
InsertText(t, at, c) == SubSeq(t, 1, at) \o <<c>> \o SubSeq(t, at + 1, Len(t))
EraseText(t, at) == SubSeq(t, 1, at - 1) \o SubSeq(t, at + 1, Len(t))

LEMMA InsertMiddle ==
  ASSUME NEW S, NEW p \in Seq(S), NEW q \in Seq(S), NEW c \in S, q # <<>>
  PROVE  Front(p \o (<<c>> \o q)) = InsertText(Front(p \o q), Len(p), c)
<1> DEFINE one == <<c>>
           f == Front(q)
           cq == one \o q
           of == one \o f
           t == p \o f
<1>1. one \in Seq(S) /\ Front(p \o q) = t /\ f \in Seq(S)
  <2>1. one \in Seq(S)
    OBVIOUS
  <2> QED BY <2>1, FrontConcat
<1> HIDE DEF one, f
<1>2. cq \in Seq(S) /\ cq # <<>>
  <2>1. cq \in Seq(S) /\ Len(cq) = Len(one) + Len(q) /\ Len(one) \in Nat
    BY <1>1, ConcatProperties
  <2>2. Len(q) \in Nat \ {0}
    BY FrontFacts
  <2> HIDE DEF cq
  <2> QED BY <2>1, <2>2
<1>3. Front(cq) = of
  BY <1>1, FrontConcat DEF f
<1> HIDE DEF cq, of
<1>4. Front(p \o cq) = p \o of
  <2>1. Front(p \o cq) = p \o Front(cq)
    BY <1>2, FrontConcat
  <2> QED BY <1>3, <2>1
<1>5. p \o of = (p \o one) \o f
  BY <1>1, ConcatAssociative, SMTT(30) DEF of
<1>6. SubSeq(t, 1, Len(p)) = p /\ SubSeq(t, Len(p) + 1, Len(t)) = f
  BY <1>1, CutConcat
<1> HIDE DEF t
<1>7. InsertText(t, Len(p), c) = (p \o one) \o f
  BY <1>6 DEF InsertText, one
<1> QED BY <1>1, <1>4, <1>5, <1>7 DEF cq, one

LEMMA EraseMiddle ==
  ASSUME NEW S, NEW p \in Seq(S), NEW q \in Seq(S), p # <<>>, q # <<>>
  PROVE  Front(Front(p) \o q) = EraseText(Front(p \o q), Len(p))
<1> DEFINE g == Front(p)
           f == Front(q)
           t == p \o f
           h == Len(p) - 1
           last == <<p[Len(p)]>>
           lf == last \o f
<1>1. Front(p \o q) = t /\ f \in Seq(S) /\ g \in Seq(S) /\ Len(g) = h /\ Len(p) \in Nat \ {0}
  BY FrontConcat, FrontFacts
<1>2. p = g \o last /\ last \in Seq(S)
  <2> DEFINE l == Len(p)
  <2>1. l \in 1..l /\ 1 \in 1..l /\ l \in 1..Len(p)
    BY <1>1
  <2>2. SubSeq(p, 1, l) = SubSeq(p, 1, l - 1) \o <<p[l]>>
    BY <2>1, SubSeqRecursiveSecond
  <2>3. SubSeq(p, 1, l) = p
    BY SubSeqFull
  <2>4. p[l] \in S
    BY <2>1, ElementOfSeq
  <2>5. last \in Seq(S)
    BY <2>4
  <2> QED BY <2>2, <2>3, <2>5 DEF Front
<1> HIDE DEF g, f, last
<1>3. Front(g \o q) = g \o f
  BY <1>1, FrontConcat DEF f
<1>4. t = g \o lf
  <2>1. t = (g \o last) \o f
    BY <1>2, Zenon
  <2>2. (g \o last) \o f = g \o (last \o f)
    BY <1>1, <1>2, ConcatAssociative
  <2> QED BY <2>1, <2>2
<1>5. lf \in Seq(S)
  BY <1>1, <1>2, ConcatProperties
<1>6. SubSeq(t, Len(p) + 1, Len(t)) = f
  BY <1>1, CutConcat
<1> HIDE DEF t, lf
<1>7. SubSeq(t, 1, h) = g
  <2>1. SubSeq(g \o lf, 1, Len(g)) = g
    BY <1>1, <1>5, CutConcat
  <2> QED BY <1>1, <1>4, <2>1
<1>8. EraseText(t, Len(p)) = g \o f
  BY <1>6, <1>7 DEF EraseText
<1> QED BY <1>1, <1>3, <1>8 DEF g

-----------------------------------------------------------------------------
(* The text around the cursor                                               *)

TextOf(ls) == Front(Joined(ls))

\* The text before a cursor behind s in the line after the lines a, and the
\* text from a cursor before t on, if b are the lines after that.
Ahead(a, s) == Joined(a) \o s
Behind(t, b) == (t \o <<NL>>) \o Joined(b)

LEMMA SidesType ==
  ASSUME NEW a \in Seq(Texts), NEW s \in Texts
  PROVE  /\ Ahead(a, s) \in Seq(Bytes) /\ Len(Ahead(a, s)) = Len(Joined(a)) + Len(s)
         /\ Len(Joined(a)) \in Nat /\ Len(s) \in Nat
         /\ Behind(s, a) \in Seq(Bytes) /\ Behind(s, a) # <<>>
<1> DEFINE p == Joined(a)
           nl == <<NL>>
           e == s \o nl
<1>1. p \in Seq(Bytes) /\ s \in Seq(Bytes) /\ nl \in Seq(Bytes) /\ Len(nl) = 1
  <2>1. p \in Seq(Bytes) /\ s \in Seq(Bytes)
    BY JoinedType, EndedType
  <2>2. nl \in Seq(Bytes) /\ Len(nl) = 1
    BY Sizes
  <2> QED BY <2>1, <2>2
<1> HIDE DEF p, nl
<1>2. Len(p) \in Nat /\ Len(s) \in Nat
  BY <1>1
<1>3. e \in Seq(Bytes) /\ Len(e) = Len(s) + Len(nl)
  BY <1>1, ConcatProperties
<1> HIDE DEF e
<1>4. p \o s \in Seq(Bytes) /\ Len(p \o s) = Len(p) + Len(s)
  BY <1>1, ConcatProperties
<1> DEFINE b == e \o p
<1>5. b \in Seq(Bytes) /\ Len(b) = Len(e) + Len(p)
  BY <1>1, <1>3, ConcatProperties
<1> HIDE DEF b
<1>6. b # <<>>
  BY <1>1, <1>2, <1>3, <1>5
<1> QED BY <1>2, <1>4, <1>5, <1>6 DEF Ahead, Behind, p, b, e, nl

LEMMA Regrouped ==
  ASSUME NEW x \in Seq(Bytes), NEW y \in Seq(Bytes), NEW z \in Seq(Bytes)
  PROVE  (x \o y) \o z = x \o (y \o z)
BY ConcatAssociative

LEMMA TwoParts ==
  ASSUME NEW a \in Seq(Texts), NEW b \in Seq(Texts), NEW s \in Texts, NEW t \in Texts, s \o t \in Texts
  PROVE  Joined(a \o (<<s \o t>> \o b)) = Ahead(a, s) \o Behind(t, b)
<1> DEFINE p == Joined(a)
           q == Joined(b)
           nl == <<NL>>
           st == s \o t
           e == t \o nl
           x == e \o q
<1>1. Joined(a \o (<<st>> \o b)) = p \o ((st \o nl) \o q)
  BY JoinedParts
<1>2. p \in Seq(Bytes) /\ q \in Seq(Bytes) /\ s \in Seq(Bytes) /\ t \in Seq(Bytes) /\ nl \in Seq(Bytes)
  <2>1. p \in Seq(Bytes) /\ q \in Seq(Bytes)
    BY JoinedType
  <2>2. s \in Seq(Bytes) /\ t \in Seq(Bytes)
    BY EndedType
  <2>3. nl \in Seq(Bytes)
    BY Sizes
  <2> QED BY <2>1, <2>2, <2>3
<1> HIDE DEF p, q, nl
<1>3. st \o nl = s \o e
  BY <1>2, Regrouped, Zenon
<1>4. e \in Seq(Bytes)
  BY <1>2, ConcatProperties
<1> HIDE DEF st, e
<1>5. (s \o e) \o q = s \o x
  BY <1>2, <1>4, Regrouped, Zenon
<1>6. x \in Seq(Bytes)
  BY <1>2, <1>4, ConcatProperties
<1> HIDE DEF x
<1>7. p \o (s \o x) = (p \o s) \o x
  BY <1>2, <1>6, Regrouped, ZenonT(40)
<1>8. Joined(a \o (<<st>> \o b)) = (p \o s) \o x
  BY <1>1, <1>3, <1>5, <1>7
<1> QED BY <1>8 DEF Ahead, Behind, p, q, nl, st, e, x

\* The lines before a place, when there are as many of them.
LEMMA OffOfConcat ==
  ASSUME NEW a \in Seq(Texts), NEW b \in Seq(Texts)
  PROVE  Off(a \o b, Len(a)) = Len(Joined(a))
<1>1. SubSeq(a \o b, 1, Len(a)) = a
  BY CutConcat
<1> QED BY <1>1 DEF Off

LEMMA ReplaceParts ==
  ASSUME NEW ls \in Seq(Texts), NEW k \in 1..Len(ls), NEW x \in Texts
  PROVE  ReplaceAt(ls, k, x) = SubSeq(ls, 1, k - 1) \o (<<x>> \o SubSeq(ls, k + 1, Len(ls)))
<1> DEFINE r == ReplaceAt(ls, k, x)
           n == Len(ls)
           h == k - 1
           j == k + 1
           a == SubSeq(ls, 1, h)
           b == SubSeq(ls, j, n)
           c == SubSeq(r, 1, h)
           d == SubSeq(r, j, n)
<1>1. r \in Seq(Texts) /\ Len(r) = n /\ r[k] = x /\ \A i \in 1..n : i # k => r[i] = ls[i]
  BY ReplaceFacts
<1>2. n \in Nat /\ k \in 1..n /\ \A i \in 1..n : ls[i] \in Texts
  BY ElementOfSeq
<1> HIDE DEF r
<1>3. \A i \in 1..n : r[i] \in Texts
  BY <1>1, ElementOfSeq
<1>4. r = c \o (<<x>> \o d)
  <2>1. k \in 1..Len(r)
    BY <1>1
  <2>2. r = SubSeq(r, 1, k - 1) \o (<<r[k]>> \o SubSeq(r, k + 1, Len(r)))
    BY <1>1, <2>1, Parts, Zenon
  <2> QED BY <1>1, <2>2
<1> HIDE DEF n
<1>5. h \in Int /\ j \in Int /\ 1 \in Int /\ n \in Int /\ (\A i \in 1..h : i \in 1..n /\ i # k) /\ (\A i \in j..n : i \in 1..n /\ i # k)
  BY <1>2
<1> HIDE DEF h, j
<1>6. a \in Seq(Texts) /\ Len(a) = (IF 1 <= h THEN h - 1 + 1 ELSE 0) /\ \A i \in 1..(h - 1 + 1) : a[i] = ls[1 + i - 1]
  <2>1. \A i \in 1..h : ls[i] \in Texts
    BY <1>2, <1>5
  <2> QED BY SMTT(20), <1>5, <2>1, SubSeqProperties
<1>7. c \in Seq(Texts) /\ Len(c) = (IF 1 <= h THEN h - 1 + 1 ELSE 0) /\ \A i \in 1..(h - 1 + 1) : c[i] = r[1 + i - 1]
  <2>1. \A i \in 1..h : r[i] \in Texts
    BY <1>3, <1>5
  <2> QED BY SMTT(20), <1>5, <2>1, SubSeqProperties
<1>8. b \in Seq(Texts) /\ Len(b) = (IF j <= n THEN n - j + 1 ELSE 0) /\ \A i \in 1..(n - j + 1) : b[i] = ls[j + i - 1]
  <2>1. \A i \in j..n : ls[i] \in Texts
    BY <1>2, <1>5
  <2> QED BY SMTT(20), <1>5, <2>1, SubSeqProperties
<1>9. d \in Seq(Texts) /\ Len(d) = (IF j <= n THEN n - j + 1 ELSE 0) /\ \A i \in 1..(n - j + 1) : d[i] = r[j + i - 1]
  <2>1. \A i \in j..n : r[i] \in Texts
    BY <1>3, <1>5
  <2> QED BY SMTT(20), <1>5, <2>1, SubSeqProperties
<1> HIDE DEF a, b, c, d
<1>10. a = c
  <2>1. Len(a) = Len(c)
    BY <1>6, <1>7
  <2>2. ASSUME NEW i \in 1..Len(a) PROVE a[i] = c[i]
    <3>1. i \in 1..h /\ i \in 1..(h - 1 + 1) /\ 1 + i - 1 = i
      BY <1>5, <1>6
    <3>2. r[i] = ls[i]
      BY <1>1, <1>5, <3>1
    <3> QED BY <1>6, <1>7, <3>1, <3>2
  <2> QED BY <1>6, <1>7, <2>1, <2>2, SeqEqual
<1>11. b = d
  <2>1. Len(b) = Len(d)
    BY <1>8, <1>9
  <2>2. ASSUME NEW i \in 1..Len(b) PROVE b[i] = d[i]
    <3> DEFINE y == j + i - 1
    <3>1. i \in 1..(n - j + 1) /\ y \in j..n
      BY <1>5, <1>8
    <3>2. b[i] = ls[y] /\ d[i] = r[y]
      BY <1>8, <1>9, <3>1
    <3> HIDE DEF y
    <3>3. r[y] = ls[y]
      BY <1>1, <1>5, <3>1
    <3> QED BY <3>2, <3>3
  <2> QED BY <1>8, <1>9, <2>1, <2>2, SeqEqual
<1> QED BY <1>4, <1>10, <1>11 DEF a, b, c, d, r, h, j, n

LEMMA AheadOfMore ==
  ASSUME NEW a \in Seq(Texts), NEW s \in Texts, NEW c \in Bytes
  PROVE  /\ Joined(a) \o (s \o <<c>>) = Ahead(a, s) \o <<c>>
         /\ \A q \in Seq(Bytes) : (Ahead(a, s) \o <<c>>) \o q = Ahead(a, s) \o (<<c>> \o q)
         /\ <<c>> \in Seq(Bytes) /\ Len(<<c>>) = 1 /\ s \o <<c>> = Append(s, c)
<1> DEFINE p == Joined(a)
           one == <<c>>
           x == Ahead(a, s)
<1>1. p \in Seq(Bytes) /\ s \in Seq(Bytes) /\ x \in Seq(Bytes)
  BY JoinedType, EndedType, SidesType
<1>2. one \in Seq(Bytes) /\ Len(one) = 1
  OBVIOUS
<1>3. s \o one = Append(s, c)
  BY <1>1
<1>4. x = p \o s
  BY DEF Ahead
<1> HIDE DEF p, one, x
<1>5. p \o (s \o one) = x \o one
  BY <1>1, <1>2, <1>4, Regrouped, Zenon
<1>6. \A q \in Seq(Bytes) : (x \o one) \o q = x \o (one \o q)
  BY <1>1, <1>2, Regrouped, Zenon
<1> QED BY <1>2, <1>3, <1>5, <1>6 DEF p, one, x

LEMMA OneMoreLine ==
  ASSUME NEW b \in Seq(Texts), NEW t \in Texts
  PROVE  <<t>> \o b \in Seq(Texts) /\ Joined(<<t>> \o b) = Behind(t, b)
<1> DEFINE one == <<t>>
<1>1. one \in Seq(Texts)
  OBVIOUS
<1>2. Joined(one) = t \o <<NL>>
  BY JoinedOne, Zenon
<1> HIDE DEF one
<1>3. one \o b \in Seq(Texts) /\ Joined(one \o b) = Joined(one) \o Joined(b)
  BY <1>1, ConcatProperties, JoinedConcat
<1> QED BY <1>2, <1>3 DEF one, Behind

InsertsIn(ls, k, s, t, c, new) ==
  /\ ls \in Seq(Texts) /\ k \in 1..Len(ls) /\ s \in Texts /\ t \in Texts /\ ls[k] = s \o t
  /\ c \in Chars /\ Append(s, c) \in Texts /\ Append(s, c) \o t \in Texts
  /\ new = ReplaceAt(ls, k, Append(s, c) \o t)

LEMMA InsertInLine ==
  ASSUME NEW ls, NEW k, NEW s, NEW t, NEW c, NEW new, InsertsIn(ls, k, s, t, c, new)
  PROVE  /\ TextOf(new) = InsertText(TextOf(ls), Off(ls, k - 1) + Len(s), c)
         /\ Off(new, k - 1) = Off(ls, k - 1)
<1>0. /\ ls \in Seq(Texts) /\ k \in 1..Len(ls) /\ s \in Texts /\ t \in Texts /\ ls[k] = s \o t
      /\ c \in Chars /\ Append(s, c) \in Texts /\ Append(s, c) \o t \in Texts
      /\ new = ReplaceAt(ls, k, Append(s, c) \o t)
  BY DEF InsertsIn
<1> DEFINE a == SubSeq(ls, 1, k - 1)
           b == SubSeq(ls, k + 1, Len(ls))
           p == Ahead(a, s)
           q == Behind(t, b)
           sc == Append(s, c)
           x == sc \o t
<1>1. a \in Seq(Texts) /\ b \in Seq(Texts) /\ Len(a) = k - 1 /\ ls = a \o (<<ls[k]>> \o b) /\ ls[k] \in Texts
  BY <1>0, Parts, TextAt, Zenon
<1>2. new = a \o (<<x>> \o b)
  BY <1>0, ReplaceParts
<1>3. Off(ls, k - 1) = Len(Joined(a))
  BY DEF Off
<1> HIDE DEF a, b, x
<1>4. /\ p \in Seq(Bytes) /\ q \in Seq(Bytes) /\ q # <<>>
      /\ Len(p) = Len(Joined(a)) + Len(s)
  BY <1>0, <1>1, SidesType
<1>5. Joined(ls) = p \o q
  <2>1. s \o t \in Texts
    BY <1>0, <1>1
  <2>2. Joined(a \o (<<s \o t>> \o b)) = p \o q
    BY <1>0, <1>1, <2>1, TwoParts, ZenonT(40)
  <2> HIDE DEF p, q
  <2> QED BY <1>0, <1>1, <2>2
<1>6. c \in Bytes
  BY <1>0, Sizes
<1>7. Joined(new) = p \o (<<c>> \o q)
  <2>1. Joined(a \o (<<sc \o t>> \o b)) = Ahead(a, sc) \o q
    BY <1>0, <1>1, TwoParts, ZenonT(40)
  <2>2. Ahead(a, sc) = p \o <<c>>
    <3>1. Joined(a) \o (s \o <<c>>) = p \o <<c>> /\ s \o <<c>> = sc
      BY <1>0, <1>1, <1>6, AheadOfMore, Zenon
    <3>2. Ahead(a, sc) = Joined(a) \o sc
      BY DEF Ahead
    <3> HIDE DEF p, sc
    <3> QED BY <3>1, <3>2
  <2>3. (p \o <<c>>) \o q = p \o (<<c>> \o q)
    BY <1>0, <1>1, <1>4, <1>6, AheadOfMore
  <2> HIDE DEF p, q
  <2> QED BY <1>2, <2>1, <2>2, <2>3 DEF x
<1> HIDE DEF p, q
<1>8. Front(p \o (<<c>> \o q)) = InsertText(Front(p \o q), Len(p), c)
  BY <1>0, <1>4, <1>6, InsertMiddle
<1>9. Off(new, k - 1) = Len(Joined(a))
  <2>1. <<x>> \o b \in Seq(Texts)
    BY <1>0, <1>1, OneMoreLine DEF x
  <2>2. Off(a \o (<<x>> \o b), Len(a)) = Len(Joined(a))
    BY <1>0, <1>1, <2>1, OffOfConcat
  <2> QED BY <1>1, <1>2, <2>2
<1> QED BY <1>3, <1>4, <1>5, <1>7, <1>8, <1>9 DEF TextOf

LEMMA EraseInLine ==
  ASSUME NEW ls \in Seq(Texts), NEW k \in 1..Len(ls), NEW s \in Texts, NEW t \in Texts, ls[k] = s \o t,
         s # <<>>, Front(s) \in Texts, Front(s) \o t \in Texts,
         NEW new, new = ReplaceAt(ls, k, Front(s) \o t)
  PROVE  /\ TextOf(new) = EraseText(TextOf(ls), Off(ls, k - 1) + Len(s))
         /\ Off(new, k - 1) = Off(ls, k - 1)
<1> DEFINE a == SubSeq(ls, 1, k - 1)
           b == SubSeq(ls, k + 1, Len(ls))
           p == Ahead(a, s)
           q == Behind(t, b)
           f == Front(s)
           x == f \o t
<1>1. a \in Seq(Texts) /\ b \in Seq(Texts) /\ Len(a) = k - 1 /\ ls = a \o (<<ls[k]>> \o b) /\ ls[k] \in Texts
  BY Parts, TextAt, Zenon
<1>2. new = a \o (<<x>> \o b)
  BY ReplaceParts
<1>3. Off(ls, k - 1) = Len(Joined(a))
  BY DEF Off
<1> HIDE DEF a, b, x
<1>4. /\ p \in Seq(Bytes) /\ q \in Seq(Bytes) /\ q # <<>>
      /\ Len(p) = Len(Joined(a)) + Len(s) /\ Len(Joined(a)) \in Nat
  BY <1>1, SidesType
<1>5. Joined(ls) = p \o q
  <2>1. s \o t \in Texts
    BY <1>1
  <2>2. Joined(a \o (<<s \o t>> \o b)) = p \o q
    BY <1>1, <2>1, TwoParts, ZenonT(40)
  <2> HIDE DEF p, q
  <2> QED BY <1>1, <2>2
<1>6. Joined(a) \in Seq(Bytes) /\ s \in Seq(Bytes) /\ Len(s) \in Nat \ {0}
  <2>1. Joined(a) \in Seq(Bytes) /\ s \in Seq(Bytes)
    BY <1>1, JoinedType, EndedType
  <2> QED BY <2>1, FrontFacts
<1>7. Front(p) = Ahead(a, f)
  BY <1>6, FrontConcat DEF Ahead
<1>8. Joined(new) = Front(p) \o q
  <2>1. Joined(a \o (<<f \o t>> \o b)) = Ahead(a, f) \o q
    BY <1>1, TwoParts, ZenonT(40)
  <2> HIDE DEF p, q
  <2> QED BY <1>2, <1>7, <2>1 DEF x
<1> HIDE DEF p, q
<1>9. p # <<>>
  BY <1>4, <1>6
<1>10. Front(Front(p) \o q) = EraseText(Front(p \o q), Len(p))
  BY <1>4, <1>9, EraseMiddle
<1>11. Off(new, k - 1) = Len(Joined(a))
  <2>1. <<x>> \o b \in Seq(Texts)
    BY <1>1, OneMoreLine DEF x
  <2>2. Off(a \o (<<x>> \o b), Len(a)) = Len(Joined(a))
    BY <1>1, <2>1, OffOfConcat
  <2> QED BY <1>1, <1>2, <2>2
<1> QED BY <1>3, <1>4, <1>5, <1>8, <1>10, <1>11 DEF TextOf

LEMMA RegroupedLines ==
  ASSUME NEW x \in Seq(Texts), NEW y \in Seq(Texts), NEW z \in Seq(Texts)
  PROVE  (x \o y) \o z = x \o (y \o z)
BY ConcatAssociative

\* The lines a, one more, and those after it.
LEMMA LinesEnded ==
  ASSUME NEW a \in Seq(Texts), NEW s \in Texts
  PROVE  /\ a \o <<s>> \in Seq(Texts) /\ Len(a \o <<s>>) = Len(a) + 1
         /\ \A b \in Seq(Texts) : a \o (<<s>> \o b) = (a \o <<s>>) \o b
         /\ Joined(a \o <<s>>) = Ahead(a, s) \o <<NL>>
         /\ Len(Joined(a \o <<s>>)) = Len(Ahead(a, s)) + 1
<1> DEFINE one == <<s>>
           nl == <<NL>>
           x == Ahead(a, s)
           as == a \o one
<1>1. one \in Seq(Texts) /\ Len(one) = 1 /\ nl \in Seq(Bytes) /\ Len(nl) = 1 /\ NL \in Bytes
  BY Sizes
<1>2. x \in Seq(Bytes)
  BY SidesType
<1>3. Joined(one) = s \o nl
  BY JoinedOne, Zenon
<1>4. Joined(a) \o (s \o nl) = x \o nl
  BY <1>1, AheadOfMore, Zenon
<1> HIDE DEF one, nl, x
<1>5. as \in Seq(Texts) /\ Len(as) = Len(a) + Len(one)
  BY <1>1, ConcatProperties
<1>6. Joined(as) = Joined(a) \o Joined(one)
  BY <1>1, JoinedConcat
<1>7. \A b \in Seq(Texts) : a \o (one \o b) = as \o b
  BY <1>1, RegroupedLines
<1>8. Len(x \o nl) = Len(x) + Len(nl)
  BY <1>1, <1>2, ConcatProperties
<1> HIDE DEF as
<1>9. Joined(as) = x \o nl /\ Len(Joined(as)) = Len(x) + 1 /\ Len(as) = Len(a) + 1
  BY <1>1, <1>3, <1>4, <1>5, <1>6, <1>8
<1> QED BY <1>5, <1>7, <1>9 DEF as, one, nl, x

LEMMA SplitInLine ==
  ASSUME NEW ls \in Seq(Texts), NEW k \in 1..Len(ls), NEW s \in Texts, NEW t \in Texts, ls[k] = s \o t,
         NEW new, new = InsertAt(ReplaceAt(ls, k, s), k + 1, t)
  PROVE  /\ TextOf(new) = InsertText(TextOf(ls), Off(ls, k - 1) + Len(s), NL)
         /\ Off(new, k) = Off(ls, k - 1) + Len(s) + 1
<1> DEFINE a == SubSeq(ls, 1, k - 1)
           b == SubSeq(ls, k + 1, Len(ls))
           p == Ahead(a, s)
           q == Behind(t, b)
           as == a \o <<s>>
           tb == <<t>> \o b
           r == ReplaceAt(ls, k, s)
           i == k + 1
<1>1. a \in Seq(Texts) /\ b \in Seq(Texts) /\ Len(a) = k - 1 /\ ls = a \o (<<ls[k]>> \o b) /\ ls[k] \in Texts
  BY Parts, TextAt, Zenon
<1>2. r = a \o (<<s>> \o b)
  BY ReplaceParts
<1>3. Off(ls, k - 1) = Len(Joined(a))
  BY DEF Off
<1> HIDE DEF a, b
<1>4. /\ p \in Seq(Bytes) /\ q \in Seq(Bytes) /\ q # <<>>
      /\ Len(p) = Len(Joined(a)) + Len(s)
  BY <1>1, SidesType
<1>5. Joined(ls) = p \o q
  <2>1. s \o t \in Texts
    BY <1>1
  <2>2. Joined(a \o (<<s \o t>> \o b)) = p \o q
    BY <1>1, <2>1, TwoParts, Zenon
  <2> HIDE DEF p, q
  <2> QED BY <1>1, <2>2
<1>6. as \in Seq(Texts) /\ Len(as) = Len(a) + 1 /\ a \o (<<s>> \o b) = as \o b
      /\ Joined(as) = p \o <<NL>> /\ Len(Joined(as)) = Len(p) + 1
  BY <1>1, LinesEnded, Zenon
<1>7. tb \in Seq(Texts) /\ Joined(tb) = q
  BY <1>1, OneMoreLine, Zenon
<1>8. new = (as \o <<t>>) \o b
  <2>1. new = (SubSeq(r, 1, i - 1) \o <<t>>) \o SubSeq(r, i, Len(r))
    BY DEF InsertAt
  <2>2. i - 1 = Len(as) /\ i = Len(as) + 1
    <3>1. k \in Nat
      OBVIOUS
    <3> HIDE DEF as
    <3> QED BY <1>1, <1>6, <3>1
  <2> HIDE DEF r, i, as
  <2>3. r = as \o b
    BY <1>2, <1>6
  <2>4. SubSeq(as \o b, 1, Len(as)) = as /\ SubSeq(as \o b, Len(as) + 1, Len(as \o b)) = b
    BY <1>1, <1>6, CutConcat
  <2> QED BY <2>1, <2>2, <2>3, <2>4
<1>9. new = as \o tb
  <2>1. as \o (<<t>> \o b) = (as \o <<t>>) \o b
    BY <1>1, <1>6, LinesEnded, Zenon
  <2> QED BY <1>8, <2>1
<1>10. (p \o <<NL>>) \o q = p \o (<<NL>> \o q)
  <2>1. NL \in Bytes
    BY Sizes
  <2> QED BY <1>1, <1>4, <2>1, AheadOfMore
<1> HIDE DEF p, q, as, tb
<1>11. Joined(new) = p \o (<<NL>> \o q)
  <2>1. Joined(as \o tb) = Joined(as) \o Joined(tb)
    BY <1>6, <1>7, JoinedConcat
  <2> QED BY <1>6, <1>7, <1>9, <1>10, <2>1
<1>12. Front(p \o (<<NL>> \o q)) = InsertText(Front(p \o q), Len(p), NL)
  <2>1. NL \in Bytes
    BY Sizes
  <2> QED BY <1>4, <2>1, InsertMiddle, ZenonT(30)
<1>13. Off(new, k) = Len(p) + 1
  <2>1. Off(as \o tb, Len(as)) = Len(Joined(as))
    BY <1>6, <1>7, OffOfConcat
  <2>2. Len(as) = k
    BY <1>1, <1>6
  <2> QED BY <1>6, <1>9, <2>1, <2>2
<1> QED BY <1>3, <1>4, <1>5, <1>11, <1>12, <1>13 DEF TextOf

LEMMA TwoPartsOf ==
  ASSUME NEW a \in Seq(Texts), NEW b \in Seq(Texts), NEW s \in Texts, NEW t \in Texts, NEW m \in Texts, m = s \o t
  PROVE  Joined(a \o (<<m>> \o b)) = Ahead(a, s) \o Behind(t, b)
BY TwoParts, Zenon

LEMMA MergeLines ==
  ASSUME NEW ls \in Seq(Texts), NEW k \in 1..Len(ls), k + 1 \in 1..Len(ls), NEW m, m \in Texts, m = ls[k] \o ls[k + 1],
         NEW new, new = RemoveAt(ReplaceAt(ls, k, m), k + 1)
  PROVE  /\ TextOf(new) = EraseText(TextOf(ls), Off(ls, k))
         /\ Off(new, k - 1) + Len(ls[k]) + 1 = Off(ls, k)
<1> DEFINE i == k + 1
           a == SubSeq(ls, 1, k - 1)
           c == SubSeq(ls, k + 1, Len(ls))
           b == SubSeq(ls, i + 1, Len(ls))
           s == ls[k]
           t == ls[i]
           p == Ahead(a, s)
           q == Behind(t, b)
           as == a \o <<s>>
           am == a \o <<m>>
           tb == <<t>> \o b
           mb == <<m>> \o b
           r == ReplaceAt(ls, k, m)
<1>1. a \in Seq(Texts) /\ Len(a) = k - 1 /\ ls = a \o (<<s>> \o c) /\ s \in Texts
  BY Parts, TextAt, Zenon
<1>2. b \in Seq(Texts) /\ t \in Texts /\ c = tb
  <2>1. i \in 1..Len(ls) /\ Len(ls) \in i..Len(ls) /\ k + 1 = i
    <3>1. Len(ls) \in Nat
      OBVIOUS
    <3> QED BY <3>1
  <2> HIDE DEF i
  <2>2. b \in Seq(Texts) /\ t \in Texts
    BY <2>1, Parts, TextAt, Zenon
  <2>3. SubSeq(ls, i, Len(ls)) = <<ls[i]>> \o SubSeq(ls, i + 1, Len(ls))
    BY <2>1, SubSeqRecursiveFirst
  <2> QED BY <2>1, <2>2, <2>3
<1>3. r = a \o (<<m>> \o c)
  BY ReplaceParts
<1>4. k \in Nat /\ i = k + 1
  OBVIOUS
<1>5. m = s \o t
  OBVIOUS
<1> HIDE DEF a, b, c, s, t
<1>6. p \in Seq(Bytes) /\ q \in Seq(Bytes) /\ q # <<>> /\ Len(p) = Len(Joined(a)) + Len(s)
      /\ Len(Joined(a)) \in Nat /\ Len(s) \in Nat
  BY <1>1, <1>2, SidesType
<1>7. tb \in Seq(Texts) /\ Joined(tb) = q /\ mb \in Seq(Texts)
  BY <1>2, OneMoreLine, Zenon
<1>8. /\ as \in Seq(Texts) /\ Len(as) = Len(a) + 1 /\ a \o (<<s>> \o tb) = as \o tb
      /\ Joined(as) = p \o <<NL>> /\ Len(Joined(as)) = Len(p) + 1
  <2>1. \A x \in Seq(Texts) : a \o (<<s>> \o x) = as \o x
    BY <1>1, LinesEnded, Zenon
  <2>2. /\ as \in Seq(Texts) /\ Len(as) = Len(a) + 1
        /\ Joined(as) = p \o <<NL>> /\ Len(Joined(as)) = Len(p) + 1
    BY <1>1, LinesEnded, Zenon
  <2> HIDE DEF as, p, tb
  <2> QED BY <1>7, <2>1, <2>2
<1>9. /\ am \in Seq(Texts) /\ Len(am) = Len(a) + 1 /\ a \o (<<m>> \o tb) = am \o tb
      /\ a \o mb = am \o b
  <2>1. \A x \in Seq(Texts) : a \o (<<m>> \o x) = am \o x
    BY <1>1, LinesEnded, Zenon
  <2>2. am \in Seq(Texts) /\ Len(am) = Len(a) + 1
    BY <1>1, LinesEnded, Zenon
  <2>3. a \o mb = am \o b
    BY <1>2, <2>1, Zenon
  <2> HIDE DEF am, tb, mb
  <2> QED BY <1>7, <2>1, <2>2, <2>3
<1>10. ls = as \o tb /\ r = am \o tb
  BY <1>1, <1>2, <1>3, <1>8, <1>9, Zenon
<1>11. new = a \o mb
  <2> DEFINE amt == am \o <<t>>
  <2>1. new = SubSeq(r, 1, i - 1) \o SubSeq(r, i + 1, Len(r))
    BY DEF RemoveAt
  <2>2. amt \in Seq(Texts) /\ Len(amt) = Len(am) + 1 /\ am \o tb = amt \o b
    BY <1>2, <1>9, LinesEnded, Zenon
  <2>3. i - 1 = Len(am) /\ i + 1 = Len(amt) + 1
    <3>1. Len(a) = k - 1 /\ Len(am) = Len(a) + 1 /\ Len(amt) = Len(am) + 1
      BY <1>1, <1>9, <2>2
    <3> HIDE DEF i, am, amt
    <3>2. Len(am) = k /\ Len(amt) = k + 1
      BY <1>4, <3>1
    <3> QED BY <1>4, <3>2
  <2> HIDE DEF r, i, am, tb, amt
  <2>4. SubSeq(am \o tb, 1, Len(am)) = am
    BY <1>7, <1>9, CutConcat
  <2>5. SubSeq(amt \o b, Len(amt) + 1, Len(amt \o b)) = b
    BY <1>2, <2>2, CutConcat
  <2> QED BY <1>9, <1>10, <2>1, <2>2, <2>3, <2>4, <2>5
<1>12. Joined(new) = p \o q
  <2>1. m \in Texts /\ s \in Texts /\ t \in Texts /\ a \in Seq(Texts) /\ b \in Seq(Texts)
    BY <1>1, <1>2
  <2>3. \A x, y \in Seq(Texts) : \A u, v, w \in Texts : w = u \o v => Joined(x \o (<<w>> \o y)) = Ahead(x, u) \o Behind(v, y)
    BY TwoPartsOf, Zenon
  <2>4. m = s \o t
    BY <1>5
  <2>2. Joined(a \o (<<m>> \o b)) = Ahead(a, s) \o Behind(t, b)
    <3>1. \A y \in Seq(Texts) : \A u, v, w \in Texts : w = u \o v => Joined(a \o (<<w>> \o y)) = Ahead(a, u) \o Behind(v, y)
      BY <2>1, <2>3, Zenon
    <3>2. \A u, v, w \in Texts : w = u \o v => Joined(a \o (<<w>> \o b)) = Ahead(a, u) \o Behind(v, b)
      BY <2>1, <3>1, Zenon
    <3>3. \A w \in Texts : w = s \o t => Joined(a \o (<<w>> \o b)) = Ahead(a, s) \o Behind(t, b)
      BY <2>1, <3>2, Zenon
    <3> QED BY <2>1, <2>4, <3>3, Zenon
  <2> QED BY <1>11, <2>2, Zenon
<1> DEFINE pn == p \o <<NL>>
<1>13. pn \in Seq(Bytes) /\ Len(pn) = Len(p) + 1 /\ Front(pn) = p
  <2> DEFINE nl == <<NL>>
  <2>1. nl \in Seq(Bytes) /\ Len(nl) = 1
    BY Sizes
  <2> HIDE DEF nl, p
  <2>2. p \o nl \in Seq(Bytes) /\ Len(p \o nl) = Len(p) + Len(nl) /\ SubSeq(p \o nl, 1, Len(p)) = p
    <3>1. p \o nl \in Seq(Bytes) /\ Len(p \o nl) = Len(p) + Len(nl)
      BY <1>6, <2>1, ConcatProperties
    <3>2. SubSeq(p \o nl, 1, Len(p)) = p
      BY <1>6, <2>1, CutConcat, ZenonT(30)
    <3> QED BY <3>1, <3>2
  <2>3. Len(p \o nl) - 1 = Len(p)
    BY <1>6, <2>1, <2>2
  <2> QED BY <2>1, <2>2, <2>3 DEF Front, nl
<1> HIDE DEF p, q, as, tb, am, mb, pn
<1>14. Joined(ls) = pn \o q /\ Joined(as) = pn
  <2>1. Joined(as \o tb) = Joined(as) \o Joined(tb)
    BY <1>7, <1>8, JoinedConcat
  <2> QED BY <1>7, <1>8, <1>10, <2>1 DEF pn
<1>15. Front(Front(pn) \o q) = EraseText(Front(pn \o q), Len(pn))
  <2>1. pn # <<>>
    BY <1>6, <1>13
  <2> QED BY <1>6, <1>13, <2>1, EraseMiddle
<1>16. Off(ls, k) = Len(pn)
  <2>1. Off(as \o tb, Len(as)) = Len(Joined(as))
    BY <1>7, <1>8, OffOfConcat
  <2>2. Len(as) = k
    BY <1>1, <1>4, <1>8
  <2> QED BY <1>10, <1>14, <2>1, <2>2
<1>17. Off(new, k - 1) = Len(Joined(a))
  <2>1. Off(a \o mb, Len(a)) = Len(Joined(a))
    BY <1>1, <1>7, OffOfConcat
  <2> QED BY <1>1, <1>11, <2>1
<1>18. TextOf(new) = EraseText(TextOf(ls), Off(ls, k))
  BY <1>12, <1>13, <1>14, <1>15, <1>16 DEF TextOf
<1>19. Off(new, k - 1) + Len(s) + 1 = Off(ls, k)
  BY <1>6, <1>13, <1>16, <1>17
<1> QED BY <1>18, <1>19 DEF s

-----------------------------------------------------------------------------
(* Moves of the cursor in the text                                          *)

LEMMA RowFacts ==
  ASSUME NEW ls \in Seq(Texts), NEW row \in 0..(Len(ls) - 1)
  PROVE  /\ Off(ls, row) \in Nat /\ Len(ls[row + 1]) \in Nat /\ Off(ls, row + 1) \in Nat
         /\ Off(ls, row + 1) = Off(ls, row) + Len(ls[row + 1]) + 1
         /\ Len(TextOf(ls)) \in Nat /\ Off(ls, row + 1) <= Len(TextOf(ls)) + 1
         /\ row + 1 < Len(ls) => Off(ls, row + 1) <= Len(TextOf(ls))
<1> DEFINE n == Len(ls)
<1>1. n \in Nat
  OBVIOUS
<1>2. row \in 0..(n - 1)
  OBVIOUS
<1> HIDE DEF n
<1>3. n > 0 /\ row \in 0..n /\ row + 1 \in 1..n /\ row + 1 \in 0..n /\ row + 1 - 1 = row /\ n \in 0..n
      /\ (row + 1 < n => row + 1 + 1 \in 1..n /\ row + 1 + 1 \in 0..n /\ row + 1 + 1 - 1 = row + 1)
      /\ (\A x \in 0..n : x <= n)
  BY <1>1, <1>2
<1>4. /\ \A k \in 0..n : Off(ls, k) \in Nat
      /\ \A i, k \in 0..n : i <= k => Off(ls, i) <= Off(ls, k)
  BY OffFacts DEF n
<1>5. Len(TextOf(ls)) = Off(ls, n) - 1 /\ Off(ls, n) \in Nat \ {0}
  BY <1>3, FrontOfJoined DEF n, TextOf
<1>6. \A k \in 1..n : Off(ls, k) = Off(ls, k - 1) + Len(ls[k]) + 1 /\ Len(ls[k]) \in Nat
  BY OffStep, TextAt DEF n
<1>7. Off(ls, row + 1) = Off(ls, row + 1 - 1) + Len(ls[row + 1]) + 1 /\ Len(ls[row + 1]) \in Nat
  BY <1>3, <1>6
<1>8. Off(ls, row + 1) <= Off(ls, n) /\ Off(ls, row) \in Nat /\ Off(ls, row + 1) \in Nat
  BY <1>3, <1>4
<1>9. row + 1 < n => Off(ls, row + 1) < Off(ls, n)
  <2> HAVE row + 1 < n
  <2> DEFINE j == row + 1
             i == j + 1
  <2>1. i \in 1..n /\ i \in 0..n /\ i - 1 = j /\ i <= n
    BY <1>3
  <2>2. Off(ls, i) = Off(ls, i - 1) + Len(ls[i]) + 1 /\ Len(ls[i]) \in Nat /\ Off(ls, i) <= Off(ls, n)
    BY <1>3, <1>4, <1>6, <2>1
  <2> HIDE DEF i
  <2> QED BY <1>5, <1>8, <2>1, <2>2
<1>10. Len(TextOf(ls)) \in Nat /\ Off(ls, row + 1) <= Len(TextOf(ls)) + 1
  BY <1>5, <1>8
<1>11. row + 1 < n => Off(ls, row + 1) <= Len(TextOf(ls))
  BY <1>5, <1>8, <1>9
<1> QED BY <1>3, <1>7, <1>8, <1>10, <1>11 DEF n

LEMMA MinOfTwo ==
  ASSUME NEW x \in Int, NEW y \in Int
  PROVE  Min({x, y}) = IF x > y THEN y ELSE x
<1> DEFINE m == IF x > y THEN y ELSE x
<1>1. m \in {x, y} /\ \A z \in {x, y} : m <= z
  OBVIOUS
<1>2. {x, y} \in SUBSET Int
  OBVIOUS
<1> HIDE DEF m
<1> QED BY <1>1, <1>2, MinIs DEF m

\* The cursor goes to another line, and keeps its column if it can.
LEMMA OtherLine ==
  ASSUME NEW ls \in Seq(Texts), NEW row \in 0..(Len(ls) - 1), NEW col \in 0..Len(ls[row + 1]),
         NEW other \in 0..(Len(ls) - 1)
  PROVE  /\ Off(ls, other) \in StartsOf(TextOf(ls))
         /\ LineStartOf(TextOf(ls), Off(ls, row) + col) = Off(ls, row)
         /\ EndOf(TextOf(ls), Off(ls, other)) = Off(ls, other + 1) - 1
         /\ EndOf(TextOf(ls), Off(ls, row)) = Off(ls, row + 1) - 1
         /\ Off(ls, other) + (IF col > Len(ls[other + 1]) THEN Len(ls[other + 1]) ELSE col)
            = Min({Off(ls, other) + (Off(ls, row) + col - Off(ls, row)), EndOf(TextOf(ls), Off(ls, other))})
<1> DEFINE n == Len(ls)
           o == Off(ls, other)
           r == Off(ls, row)
           l == Len(ls[other + 1])
           t == TextOf(ls)
<1>1. o \in Nat /\ r \in Nat /\ l \in Nat /\ Off(ls, other + 1) = o + l + 1
  BY RowFacts
<1>2. Off(ls, row + 1) = r + Len(ls[row + 1]) + 1 /\ Len(ls[row + 1]) \in Nat
  BY RowFacts
<1>3. n > 0
  <2>1. n \in Nat
    OBVIOUS
  <2> QED BY <2>1
<1>4. o \in StartsOf(t)
  BY <1>3, StartsAre DEF TextOf
<1>5. LineStartOf(t, r + col) = r
  BY LineStartIs DEF TextOf
<1>6. EndOf(t, o) = o + l /\ EndOf(t, r) = r + Len(ls[row + 1])
  BY EndIs DEF TextOf
<1>7. col \in Nat
  BY <1>2
<1> HIDE DEF o, r, l, t, n
<1> DEFINE x == o + (r + col - r)
           y == o + l
<1>8. x \in Int /\ y \in Int /\ x = o + col /\ (x > y <=> col > l)
  BY <1>1, <1>7
<1> HIDE DEF x, y
<1>9. Min({x, y}) = IF x > y THEN y ELSE x
  BY <1>8, MinOfTwo
<1>10. o + (IF col > l THEN l ELSE col) = IF x > y THEN y ELSE x
  BY <1>8 DEF y
<1>11. EndOf(t, o) = Off(ls, other + 1) - 1 /\ EndOf(t, r) = Off(ls, row + 1) - 1
  BY <1>1, <1>2, <1>6
<1>12. o + (IF col > l THEN l ELSE col) = Min({x, EndOf(t, o)})
  BY <1>6, <1>9, <1>10 DEF y
<1> QED BY <1>4, <1>5, <1>11, <1>12 DEF o, r, l, t, x

-----------------------------------------------------------------------------
(* Every key's step in the text                                             *)

Point == Off(lines, cursor_row) + cursor_col

LEMMA BufferInserts ==
  ASSUME NEW c \in Bytes, Text' = InsertText(Text, Point, c), Point' = Point + 1
  PROVE  Buffer!Next
<1>1. Buffer!Insert(c)
  BY DEF Buffer!Insert, Point, Off, InsertText
<1> QED BY <1>1 DEF Buffer!Next, Bytes

LEMMA BufferErases ==
  ASSUME Point > 0, Text' = EraseText(Text, Point), Point' = Point - 1
  PROVE  Buffer!Next
<1>1. Buffer!Erase
  BY DEF Buffer!Erase, Point, Off, EraseText
<1> QED BY <1>1 DEF Buffer!Next

LEMMA BufferLeft ==
  ASSUME Point > 0, Text' = Text, Point' = Point - 1
  PROVE  Buffer!Next
<1>1. Buffer!Left
  BY DEF Buffer!Left, Point, Off
<1> QED BY <1>1 DEF Buffer!Next

LEMMA BufferRight ==
  ASSUME Point < Len(Text), Text' = Text, Point' = Point + 1
  PROVE  Buffer!Next
<1>1. Buffer!Right
  BY DEF Buffer!Right, Point, Off
<1> QED BY <1>1 DEF Buffer!Next

LEMMA BufferLines ==
  /\ Buffer!Starts = StartsOf(Text)
  /\ \A p : Buffer!LineStart(p) = LineStartOf(Text, p)
  /\ \A s : Buffer!End(s) = EndOf(Text, s)
<1>1. Buffer!Starts = StartsOf(Text)
  BY DEF Buffer!Starts, StartsOf
<1>2. ASSUME NEW p PROVE Buffer!LineStart(p) = LineStartOf(Text, p)
  BY <1>1, Zenon DEF Buffer!LineStart, LineStartOf, Buffer!Max, Max
<1>3. ASSUME NEW s PROVE Buffer!End(s) = EndOf(Text, s)
  BY <1>1, Zenon DEF Buffer!End, EndOf, Buffer!Min, Min
<1> QED BY <1>1, <1>2, <1>3

LEMMA BufferMoves ==
  ASSUME NEW s \in StartsOf(Text), Text' = Text,
         \/ EndOf(Text, s) + 1 = LineStartOf(Text, Point)
         \/ EndOf(Text, LineStartOf(Text, Point)) + 1 = s,
         Point' = Min({s + (Point - LineStartOf(Text, Point)), EndOf(Text, s)})
  PROVE  Buffer!Next
<1>1. Buffer!Column(Point) = Point - LineStartOf(Text, Point)
  BY BufferLines DEF Buffer!Column
<1>2. Buffer!MoveTo(s)
  BY <1>1, BufferLines DEF Buffer!MoveTo, Buffer!Min, Min, Point, Off
<1>3. Buffer!Up \/ Buffer!Down
  BY <1>2, BufferLines DEF Buffer!Up, Buffer!Down, Point, Off
<1> QED BY <1>3 DEF Buffer!Next

LEMMA PointFacts ==
  ASSUME EditorInv
  PROVE  /\ lines \in Seq(Texts) /\ cursor_row \in 0..(Len(lines) - 1) /\ cursor_col \in 0..Len(lines[cursor_row + 1])
         /\ cursor_row \in Nat /\ cursor_col \in Nat /\ Len(lines) \in Nat /\ cursor_row + 1 = Row
         /\ Off(lines, cursor_row) \in Nat /\ Point \in Nat /\ Text = TextOf(lines)
<1>1. /\ lines \in Seq(Texts) /\ Len(lines) \in Nat /\ cursor_row \in Nat /\ cursor_row < Len(lines)
      /\ cursor_col \in Nat /\ cursor_col <= Len(Line) /\ Len(Line) \in Nat /\ Row = cursor_row + 1
  BY CursorFacts
<1>2. cursor_row \in 0..(Len(lines) - 1)
  BY <1>1
<1>3. cursor_col \in 0..Len(lines[cursor_row + 1])
  BY <1>1 DEF Line
<1>4. Off(lines, cursor_row) \in Nat
  BY <1>1, <1>2, RowFacts
<1>5. Point \in Nat
  BY <1>1, <1>4 DEF Point
<1> QED BY <1>1, <1>2, <1>3, <1>4, <1>5 DEF Text, TextOf

LEMMA MovedTo ==
  ASSUME NEW row, NEW col, MovesTo(row, col)
  PROVE  Text' = Text /\ Point' = Off(lines, row) + col
BY DEF MovesTo, ensure_cursor_visible, Text, Point, Off

LEMMA VerticalMove ==
  ASSUME EditorInv, NEW other \in 0..(Len(lines) - 1), other = cursor_row - 1 \/ other = cursor_row + 1,
         MovesTo(other, clamp_cursor_col(other))
  PROVE  Buffer!Next
<1> DEFINE col == cursor_col
           row == cursor_row
           s == Off(lines, other)
           t == Text
<1>1. lines \in Seq(Texts) /\ row \in 0..(Len(lines) - 1) /\ col \in 0..Len(lines[row + 1]) /\ Text = TextOf(lines)
      /\ row \in Nat /\ Len(lines) \in Nat
  BY PointFacts
<1>2. t' = t /\ Point' = s + clamp_cursor_col(other)
  BY MovedTo
<1>3. clamp_cursor_col(other) = IF col > Len(lines[other + 1]) THEN Len(lines[other + 1]) ELSE col
  BY DEF clamp_cursor_col
<1>4. /\ s \in StartsOf(t) /\ LineStartOf(t, Point) = Off(lines, row)
      /\ EndOf(t, s) = Off(lines, other + 1) - 1 /\ EndOf(t, Off(lines, row)) = Off(lines, row + 1) - 1
      /\ s + (IF col > Len(lines[other + 1]) THEN Len(lines[other + 1]) ELSE col)
         = Min({s + (Off(lines, row) + col - Off(lines, row)), EndOf(t, s)})
  BY <1>1, OtherLine DEF Point
<1>5. Off(lines, row) \in Nat /\ Off(lines, row + 1) \in Nat /\ Off(lines, other + 1) \in Nat
  BY <1>1, RowFacts
<1>6. Point = Off(lines, row) + col
  BY DEF Point
<1> HIDE DEF s, t
<1>7. Point' = Min({s + (Point - LineStartOf(t, Point)), EndOf(t, s)})
  <2>1. Off(lines, row) + col - Off(lines, row) = Point - LineStartOf(t, Point)
    <3>1. LineStartOf(t, Point) = Off(lines, row)
      BY <1>4
    <3> DEFINE o == Off(lines, row)
    <3>2. o \in Nat /\ col \in Nat /\ Point = o + col
      BY <1>1, <1>5, <1>6, PointFacts
    <3> HIDE DEF o
    <3>3. o + col - o = Point - o
      BY <3>2
    <3> QED BY <3>1, <3>3 DEF o
  <2>2. Point' = s + (IF col > Len(lines[other + 1]) THEN Len(lines[other + 1]) ELSE col)
    BY <1>2, <1>3, Zenon
  <2> QED BY <1>4, <2>1, <2>2, Zenon
<1>8. EndOf(t, s) + 1 = LineStartOf(t, Point) \/ EndOf(t, LineStartOf(t, Point)) + 1 = s
  <2>1. CASE other = row - 1
    <3>1. other + 1 = row
      BY <1>1, <2>1
    <3>2. EndOf(t, s) = Off(lines, row) - 1
      BY <1>4, <3>1
    <3> QED BY <1>4, <1>5, <3>2
  <2>2. CASE other = row + 1
    <3>1. s = Off(lines, row + 1)
      BY <2>2 DEF s
    <3> QED BY <1>4, <1>5, <3>1
  <2> QED BY <2>1, <2>2
<1> QED BY <1>2, <1>4, <1>7, <1>8, BufferMoves DEF t

LEMMA MovesText ==
  ASSUME EditorInv, Move
  PROVE  Buffer!Next
<1> DEFINE row == cursor_row
           col == cursor_col
<1>1. lines \in Seq(Texts) /\ row \in 0..(Len(lines) - 1) /\ col \in 0..Len(lines[row + 1]) /\ Text = TextOf(lines)
      /\ row \in Nat /\ col \in Nat /\ Len(lines) \in Nat /\ row + 1 = Row /\ Off(lines, row) \in Nat
  BY PointFacts
<1>2. Point = Off(lines, row) + col
  BY DEF Point
<1>3. /\ Len(lines[row + 1]) \in Nat /\ Off(lines, row + 1) = Off(lines, row) + Len(lines[row + 1]) + 1
      /\ Len(Text) \in Nat /\ Off(lines, row + 1) <= Len(Text) + 1
      /\ row + 1 < Len(lines) => Off(lines, row + 1) <= Len(Text)
  BY <1>1, RowFacts
<1>4. CASE KeyUp
  <2>1. row > 0 /\ MovesTo(row - 1, clamp_cursor_col(row - 1))
    BY <1>4 DEF KeyUp
  <2> DEFINE other == row - 1
  <2>2. other \in 0..(Len(lines) - 1) /\ other = cursor_row - 1
    BY <1>1, <2>1
  <2> HIDE DEF other
  <2>3. MovesTo(other, clamp_cursor_col(other))
    BY <2>1 DEF other
  <2> QED BY <2>2, <2>3, VerticalMove
<1>5. CASE KeyDown
  <2>1. row < Len(lines) - 1 /\ MovesTo(row + 1, clamp_cursor_col(row + 1))
    BY <1>5 DEF KeyDown
  <2> DEFINE other == row + 1
  <2>2. other \in 0..(Len(lines) - 1) /\ other = cursor_row + 1
    BY <1>1, <2>1
  <2> HIDE DEF other
  <2>3. MovesTo(other, clamp_cursor_col(other))
    BY <2>1 DEF other
  <2> QED BY <2>2, <2>3, VerticalMove
<1>6. CASE KeyLeft
  <2>1. col > 0 /\ MovesTo(row, col - 1)
    BY <1>6 DEF KeyLeft
  <2>2. Text' = Text /\ Point' = Off(lines, row) + (col - 1)
    BY <2>1, MovedTo
  <2>3. Point > 0 /\ Point' = Point - 1
    BY <1>1, <1>2, <2>1, <2>2
  <2> QED BY <2>2, <2>3, BufferLeft
<1>7. CASE KeyLeftWraps
  <2>1. col = 0 /\ row > 0 /\ MovesTo(row - 1, Len(lines[row]))
    BY <1>7 DEF KeyLeftWraps
  <2> DEFINE h == row - 1
  <2>2. Text' = Text /\ Point' = Off(lines, h) + Len(lines[row])
    BY <2>1, MovedTo
  <2>3. h \in 0..(Len(lines) - 1) /\ h + 1 = row
    BY <1>1, <2>1
  <2> HIDE DEF h
  <2>4. Off(lines, h + 1) = Off(lines, h) + Len(lines[h + 1]) + 1 /\ Off(lines, h) \in Nat /\ Len(lines[h + 1]) \in Nat
    BY <1>1, <2>3, RowFacts
  <2>5. Point > 0 /\ Point' = Point - 1
    BY <1>1, <1>2, <2>1, <2>2, <2>3, <2>4
  <2> QED BY <2>2, <2>5, BufferLeft
<1>8. CASE KeyRight
  <2>1. col < Len(lines[row + 1]) /\ MovesTo(row, col + 1)
    BY <1>1, <1>8 DEF KeyRight, Line
  <2>2. Text' = Text /\ Point' = Off(lines, row) + (col + 1)
    BY <2>1, MovedTo
  <2>3. Point < Len(Text) /\ Point' = Point + 1
    BY <1>1, <1>2, <1>3, <2>1, <2>2
  <2> QED BY <2>2, <2>3, BufferRight
<1>9. CASE KeyRightWraps
  <2>1. col = Len(lines[row + 1]) /\ row < Len(lines) - 1 /\ MovesTo(row + 1, 0)
    BY <1>1, <1>9 DEF KeyRightWraps, Line
  <2>2. Text' = Text /\ Point' = Off(lines, row + 1) + 0
    BY <2>1, MovedTo
  <2>3. Point < Len(Text) /\ Point' = Point + 1
    BY <1>1, <1>2, <1>3, <2>1, <2>2
  <2> QED BY <2>2, <2>3, BufferRight
<1> QED BY <1>4, <1>5, <1>6, <1>7, <1>8, <1>9 DEF Move

LEMMA Edited ==
  ASSUME NEW ls, NEW row, NEW col, Edits(ls, row, col)
  PROVE  Text' = TextOf(ls) /\ Point' = Off(ls, row) + col
BY DEF Edits, ensure_cursor_visible, Text, TextOf, Point, Off

\* The cursor divides its line.
LEMMA LineSides ==
  ASSUME EditorInv
  PROVE  /\ Line = Before \o After /\ Before \in Texts /\ After \in Texts
         /\ Len(Before) = cursor_col /\ Len(After) = Len(Line) - cursor_col
         /\ Point = Off(lines, Row - 1) + Len(Before) /\ Row - 1 = cursor_row
         /\ Row \in 1..Len(lines) /\ lines[Row] = Before \o After
<1> DEFINE c == cursor_col
           n == Len(Line)
<1>1. /\ Line \in Seq(Chars) /\ n \in Nat /\ c \in Nat /\ c <= n
      /\ Row \in 1..Len(lines) /\ Row = cursor_row + 1 /\ cursor_row \in Nat
  BY CursorFacts
<1>2. Before \o After = SubSeq(Line, 1, n)
  <2>1. 1 \in 1..(n + 1) /\ c \in (1 - 1)..n /\ n \in c..n
    BY <1>1
  <2> QED BY <1>1, <2>1, ConcatAdjacentSubSeq DEF Before, After
<1>3. SubSeq(Line, 1, n) = Line
  BY <1>1, SubSeqFull
<1>4. Row - 1 = cursor_row
  BY <1>1
<1>5. Before \in Texts /\ After \in Texts /\ Len(Before) = c /\ Len(After) = n - c
  BY SidesFacts
<1>6. Point = Off(lines, Row - 1) + Len(Before)
  BY <1>4, <1>5 DEF Point
<1>7. Line = Before \o After
  BY <1>2, <1>3
<1> QED BY <1>1, <1>4, <1>5, <1>6, <1>7 DEF Line

LEMMA InsertsText ==
  ASSUME EditorInv, NEW c \in Typed, Insert(c)
  PROVE  Buffer!Next
<1> DEFINE sc == Append(Before, c)
           x == sc \o After
           new == ReplaceAt(lines, Row, x)
           k == Row
<1>1. /\ Before \in Texts /\ After \in Texts /\ Len(Before) = cursor_col /\ Len(After) = Len(Line) - cursor_col
      /\ Point = Off(lines, k - 1) + Len(Before) /\ k - 1 = cursor_row /\ k \in 1..Len(lines) /\ lines[k] = Before \o After
  BY LineSides
<1>2. lines \in Seq(Texts) /\ Text = TextOf(lines) /\ cursor_col \in Nat /\ Off(lines, cursor_row) \in Nat
  BY PointFacts
<1>3. c \in Chars /\ c \in Bytes /\ Before \in Seq(Chars) /\ After \in Seq(Chars) /\ Len(Before) \in Nat /\ Len(After) \in Nat
  BY <1>1, Sizes, TextFacts
<1>4. Len(Line) < MAX_LINE_LEN - 1 /\ Edits(new, cursor_row, cursor_col + 1)
  BY DEF Insert
<1>5. sc \in Seq(Chars) /\ Len(sc) = Len(Before) + 1
  BY <1>3, AppendProperties
<1> HIDE DEF sc
<1>6. x \in Seq(Chars) /\ Len(x) = Len(sc) + Len(After)
  BY <1>3, <1>5, ConcatProperties
<1> HIDE DEF x
<1>7. sc \in Texts /\ x \in Texts
  <2>1. Len(Line) \in Nat /\ cursor_col <= Len(Line)
    BY CursorFacts
  <2>2. Len(x) < MAX_LINE_LEN /\ Len(sc) < MAX_LINE_LEN
    BY <1>1, <1>2, <1>3, <1>4, <1>5, <1>6, <2>1, Sizes, SMTT(30)
  <2> QED BY <1>5, <1>6, <2>2 DEF Texts
<1> HIDE DEF new, k
<1>8. TextOf(new) = InsertText(TextOf(lines), Off(lines, k - 1) + Len(Before), c) /\ Off(new, k - 1) = Off(lines, k - 1)
  <2>1. new = ReplaceAt(lines, k, Append(Before, c) \o After)
    BY DEF new, x, sc, k
  <2>2. Append(Before, c) \in Texts /\ Append(Before, c) \o After \in Texts
    BY <1>7 DEF x, sc
  <2>3. InsertsIn(lines, k, Before, After, c, new)
    BY <1>1, <1>2, <1>3, <2>1, <2>2, Zenon DEF InsertsIn
  <2> QED BY <2>3, InsertInLine
<1>9. Text' = TextOf(new) /\ Point' = Off(new, cursor_row) + (cursor_col + 1)
  BY <1>4, Edited
<1>10. Text' = InsertText(Text, Point, c)
  BY <1>1, <1>2, <1>8, <1>9
<1>11. Point' = Point + 1
  BY <1>1, <1>2, <1>8, <1>9
<1> QED BY <1>3, <1>10, <1>11, BufferInserts

LEMMA EnterText ==
  ASSUME EditorInv, Enter
  PROVE  Buffer!Next
<1> DEFINE k == Row
           new == InsertAt(ReplaceAt(lines, k, Before), k + 1, After)
<1>1. /\ Before \in Texts /\ After \in Texts /\ Len(Before) = cursor_col
      /\ Point = Off(lines, k - 1) + Len(Before) /\ k - 1 = cursor_row /\ k \in 1..Len(lines) /\ lines[k] = Before \o After
  BY LineSides
<1>2. lines \in Seq(Texts) /\ Text = TextOf(lines) /\ Off(lines, cursor_row) \in Nat /\ cursor_col \in Nat /\ cursor_row + 1 = k
  BY PointFacts
<1>3. Edits(new, cursor_row + 1, 0)
  BY DEF Enter
<1> HIDE DEF k, new
<1>4. TextOf(new) = InsertText(TextOf(lines), Off(lines, k - 1) + Len(Before), NL)
      /\ Off(new, k) = Off(lines, k - 1) + Len(Before) + 1
  BY <1>1, <1>2, SplitInLine DEF new
<1>5. Text' = TextOf(new) /\ Point' = Off(new, cursor_row + 1) + 0
  BY <1>3, Edited
<1>6. Text' = InsertText(Text, Point, NL)
  BY <1>1, <1>2, <1>4, <1>5
<1>7. Point' = Point + 1
  BY <1>1, <1>2, <1>4, <1>5
<1> QED BY <1>6, <1>7, BufferInserts, Sizes

LEMMA BackspaceText ==
  ASSUME EditorInv, Backspace
  PROVE  Buffer!Next
<1> DEFINE k == Row
           f == Front(Before)
           x == f \o After
           new == ReplaceAt(lines, k, x)
<1>1. /\ Before \in Texts /\ After \in Texts /\ Len(Before) = cursor_col /\ Len(After) = Len(Line) - cursor_col
      /\ Point = Off(lines, k - 1) + Len(Before) /\ k - 1 = cursor_row /\ k \in 1..Len(lines) /\ lines[k] = Before \o After
  BY LineSides
<1>2. lines \in Seq(Texts) /\ Text = TextOf(lines) /\ Off(lines, cursor_row) \in Nat /\ cursor_col \in Nat
  BY PointFacts
<1>3. Before \in Seq(Chars) /\ After \in Seq(Chars) /\ Len(Before) \in Nat /\ Len(After) \in Nat
  BY <1>1, TextFacts
<1>4. cursor_col > 0 /\ Edits(new, cursor_row, cursor_col - 1)
  BY DEF Backspace
<1>5. Before # <<>>
  <2>1. Len(Before) # 0
    BY <1>1, <1>2, <1>4
  <2> QED BY <2>1
<1>6. f \in Seq(Chars) /\ Len(f) = Len(Before) - 1
  BY <1>3, <1>5, FrontFacts
<1> HIDE DEF f
<1>7. x \in Seq(Chars) /\ Len(x) = Len(f) + Len(After)
  BY <1>3, <1>6, ConcatProperties
<1> HIDE DEF x
<1>8. f \in Texts /\ x \in Texts
  <2>1. Len(Line) \in Nat /\ cursor_col <= Len(Line) /\ Len(Line) < MAX_LINE_LEN
    BY CursorFacts
  <2>2. Len(x) < MAX_LINE_LEN /\ Len(f) < MAX_LINE_LEN
    BY <1>1, <1>2, <1>3, <1>4, <1>6, <1>7, <2>1, Sizes, SMTT(30)
  <2> QED BY <1>6, <1>7, <2>2 DEF Texts
<1> HIDE DEF new, k
<1>9. TextOf(new) = EraseText(TextOf(lines), Off(lines, k - 1) + Len(Before)) /\ Off(new, k - 1) = Off(lines, k - 1)
  <2>1. new = ReplaceAt(lines, k, Front(Before) \o After)
    BY DEF new, x, f
  <2>2. Front(Before) \in Texts /\ Front(Before) \o After \in Texts
    BY <1>8 DEF x, f
  <2> QED BY <1>1, <1>2, <1>5, <2>1, <2>2, EraseInLine, SMTT(30)
<1>10. Text' = TextOf(new) /\ Point' = Off(new, cursor_row) + (cursor_col - 1)
  BY <1>4, Edited
<1>11. Text' = EraseText(Text, Point)
  BY <1>1, <1>2, <1>9, <1>10
<1>12. Point' = Point - 1 /\ Point > 0
  BY <1>1, <1>2, <1>4, <1>9, <1>10
<1> QED BY <1>11, <1>12, BufferErases

LEMMA MergesText ==
  ASSUME EditorInv, BackspaceMerges
  PROVE  Buffer!Next
<1> DEFINE k == cursor_row
           h == k - 1
           m == Merged
           new == RemoveAt(ReplaceAt(lines, k, m), k + 1)
           s == lines[k]
<1>1. /\ lines \in Seq(Texts) /\ Text = TextOf(lines) /\ Off(lines, k) \in Nat /\ Len(lines) \in Nat
      /\ k \in Nat /\ k \in 0..(Len(lines) - 1) /\ k + 1 = Row
  BY PointFacts
<1>2. cursor_col = 0 /\ k > 0 /\ Len(m) < MAX_LINE_LEN /\ Edits(new, h, Len(s))
  BY <1>1 DEF BackspaceMerges, Fits, MergeColumn
<1>3. k \in 1..Len(lines) /\ k + 1 \in 1..Len(lines)
  BY <1>1, <1>2
<1>4. m = lines[k] \o lines[k + 1]
  BY <1>1 DEF Merged, Line
<1>5. m \in Texts
  <2> DEFINE t == lines[k + 1]
  <2>1. s \in Seq(Chars) /\ t \in Seq(Chars)
    BY <1>1, <1>3, TextAt
  <2> HIDE DEF s, t
  <2>2. s \o t \in Seq(Chars)
    BY <2>1, ConcatProperties
  <2>3. m \in Seq(Chars)
    BY <1>4, <2>2 DEF s, t
  <2> HIDE DEF m
  <2> QED BY <1>2, <2>3 DEF Texts
<1>6. Len(s) \in Nat
  BY <1>1, <1>3, TextAt
<1> HIDE DEF m, new, k
<1>7. TextOf(new) = EraseText(TextOf(lines), Off(lines, k)) /\ Off(new, k - 1) + Len(lines[k]) + 1 = Off(lines, k)
  <2>1. new = RemoveAt(ReplaceAt(lines, k, m), k + 1)
    BY DEF new
  <2> QED BY <1>1, <1>3, <1>4, <1>5, <2>1, MergeLines
<1>8. Text' = TextOf(new) /\ Point' = Off(new, h) + Len(s)
  BY <1>2, Edited
<1>9. Point = Off(lines, k)
  BY <1>1, <1>2 DEF Point, k
<1>10. Text' = EraseText(Text, Point)
  BY <1>1, <1>7, <1>8, <1>9
<1>11. Point' + 1 = Point /\ Point' \in Nat
  <2>1. new \in Seq(Texts) /\ k - 1 \in 0..Len(new)
    <3>1. ReplaceAt(lines, k, m) \in Seq(Texts) /\ Len(ReplaceAt(lines, k, m)) = Len(lines)
      BY <1>1, <1>3, <1>5, ReplaceFacts
    <3> DEFINE r == ReplaceAt(lines, k, m)
    <3>2. r \in Seq(Texts) /\ k + 1 \in 1..Len(r)
      BY <1>3, <3>1
    <3> HIDE DEF r
    <3>3. RemoveAt(r, k + 1) \in Seq(Texts) /\ Removed(RemoveAt(r, k + 1), r, k + 1)
      BY <3>2, RemoveFacts
    <3>4. new \in Seq(Texts) /\ Len(new) = Len(lines) - 1
      BY <3>1, <3>3 DEF new, r, Removed
    <3> QED BY <1>1, <1>3, <3>4
  <2>2. Off(new, k - 1) \in Nat
    BY <2>1, OffFacts
  <2> QED BY <1>6, <1>7, <1>8, <1>9, <2>2
<1>12. Point > 0 /\ Point' = Point - 1
  <2> DEFINE p == Point
             q == Point'
  <2>1. q + 1 = p /\ q \in Nat
    BY <1>11
  <2> HIDE DEF p, q
  <2>2. p > 0 /\ q = p - 1
    BY <2>1
  <2> QED BY <2>2 DEF p, q
<1> QED BY <1>10, <1>12, BufferErases

\* The text of lines, with the point before its first character.
LEMMA FreshText ==
  ASSUME NEW ls \in Seq(Texts), Len(ls) > 0
  PROVE  TextOf(ls) \in Seq(Bytes) /\ Off(ls, 0) + 0 = 0
<1>1. TextOf(ls) \in Seq(Bytes)
  BY JoinedEnds DEF TextOf
<1>2. Off(ls, 0) = 0
  BY OffFacts
<1> QED BY <1>1, <1>2

\* Where the lines are others from their start on, a text has been opened.
LEMMA OpensText ==
  ASSUME EditorInv', NEW ls, Fresh(ls)
  PROVE  Buffer!Next
<1>1. lines' = ls /\ cursor_row' = 0 /\ cursor_col' = 0
  BY DEF Fresh
<1>2. ls \in Seq(Texts) /\ Len(ls) > 0
  <2>1. lines' \in Seq(Texts) /\ Len(lines') \in 1..MAX_LINES
    BY DEF EditorInv, TextOK
  <2> QED BY <1>1, <2>1, Sizes
<1>3. Text' \in Seq(Bytes)
  BY <1>1, <1>2, FreshText DEF Text, TextOf
<1>4. Point' = 0
  BY <1>1, <1>2, FreshText DEF Point, Off
<1>5. Buffer!Open
  BY <1>3, <1>4 DEF Buffer!Open, Point, Off, Bytes
<1> QED BY <1>5 DEF Buffer!Next

LEMMA InitText ==
  Init => Buffer!Init
<1> SUFFICES ASSUME Init PROVE Buffer!Init
  OBVIOUS
<1> DEFINE one == << <<>> >>
<1>1. lines = one /\ cursor_row = 0 /\ cursor_col = 0
  BY DEF Init
<1>2. one \in Seq(Texts) /\ Len(one) > 0
  BY OneEmptyLine
<1> HIDE DEF one
<1>3. Text \in Seq(Bytes)
  BY <1>1, <1>2, FreshText DEF Text, TextOf
<1>4. Point = 0
  BY <1>1, <1>2, FreshText DEF Point
<1> QED BY <1>3, <1>4 DEF Buffer!Init, Point, Off, Bytes

\* A step that keeps the lines and the cursor is none of the text.
LEMMA KeepsText ==
  ASSUME lines' = lines, cursor_row' = cursor_row, cursor_col' = cursor_col
  PROVE  UNCHANGED Buffer!vars
<1>1. Text' = Text /\ Point' = Point
  BY DEF Text, Point, Off
<1> QED BY <1>1 DEF Buffer!vars, Point, Off

LEMMA StepText ==
  EditorInv /\ EditorInv' /\ [Next]_vars => [Buffer!Next]_(Buffer!vars)
<1> SUFFICES ASSUME EditorInv, EditorInv', [Next]_vars PROVE Buffer!Next \/ UNCHANGED Buffer!vars
  OBVIOUS
<1>1. CASE Move
  BY <1>1, MovesText
<1>2. CASE Enter \/ Backspace \/ BackspaceMerges
  BY <1>2, EnterText, BackspaceText, MergesText
<1>3. ASSUME NEW c \in Typed, Insert(c) PROVE Buffer!Next
  BY <1>3, InsertsText
<1>4. CASE Save \/ SaveFails
  <2>1. lines' = lines /\ cursor' = cursor
    BY <1>4 DEF Save, SaveFails
  <2> QED BY <2>1, KeepsText DEF cursor
<1>5. CASE Start
  <2>1. PICK ls : Fresh(ls)
    BY <1>5 DEF Start, Opens
  <2> QED BY <2>1, OpensText
<1>6. CASE Quit \/ StartEmpty \/ StartUnnamed
  <2>1. PICK ls : Fresh(ls)
    BY <1>6 DEF Quit, StartEmpty, StartUnnamed, Opens
  <2> QED BY <2>1, OpensText
<1>7. CASE UNCHANGED vars
  BY <1>7, KeepsText DEF vars, cursor
<1> QED BY <1>1, <1>2, <1>3, <1>4, <1>5, <1>6, <1>7 DEF Next, Edit

\* Every key does to the text the lines stand for what it would do to one
\* without lines, or nothing, and so do opening, saving and quitting.
THEOREM TextCorrect ==
  Spec => EditsText
<1>1. EditorInv /\ EditorInv' /\ [Next]_vars => [Buffer!Next]_(Buffer!vars)
  BY StepText
<1> QED BY <1>1, InitText, EditorInvariant, PTL DEF Spec, EditsText, Buffer!Spec
=============================================================================
