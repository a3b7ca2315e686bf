----------------------------- MODULE HeapProofs -----------------------------
(***************************************************************************)
(* What Heap guarantees for every size of the heap and of a size_t, and for  *)
(* whatever callers ask for: the blocks stay a partition of the heap, the    *)
(* free list is exactly what nobody holds, the statistics are exact, and the *)
(* regions that callers see are those of HeapSpec.                          *)
(***************************************************************************)
EXTENDS Heap, SequenceTheorems, FiniteSetTheorems, WellFoundedInduction, TLAPS

\* No request is so close to the largest size_t that align_size wraps.
NoWrap == \A n \in Requests : n + Alignment - 1 < SizeRange

Elements(s) == {s[j] : j \in DOMAIN s}
Distinct(s) == \A j, k \in DOMAIN s : j # k => s[j] # s[k]

-----------------------------------------------------------------------------
(* Operators                                                               *)

LEMMA RequestsNat == Requests \subseteq Nat
<1> DEFINE Products == {(m * n) % SizeRange : m \in Counts, n \in Sizes}
<1>1. SizeRange \in Nat \ {0} /\ Counts \subseteq Nat /\ Sizes \subseteq Nat
  BY HeapAssumption DEF HeapAssumption
<1>2. ASSUME NEW k \in Nat PROVE k % SizeRange \in Nat
  BY <1>1
<1>3. ASSUME NEW m \in Counts, NEW n \in Sizes PROVE m * n \in Nat
  BY <1>1
<1>4. ASSUME NEW k \in Products PROVE k \in Nat
  <2>1. PICK m \in Counts, n \in Sizes : k = (m * n) % SizeRange
    OBVIOUS
  <2> QED BY <1>2, <1>3, <2>1
<1>5. Requests = Sizes \cup Products
  BY DEF Requests
<1> HIDE DEF Products
<1> QED BY <1>1, <1>4, <1>5

LEMMA AlignNat == ASSUME NEW n \in Nat PROVE align_size(n) \in Nat
BY HeapAssumption DEF HeapAssumption, align_size, Alignment

LEMMA AlignEnough == ASSUME NoWrap, NEW n \in Requests PROVE n <= align_size(n)
<1>1. n \in Nat /\ n + 1 < SizeRange /\ SizeRange \in Nat
  BY RequestsNat, HeapAssumption DEF HeapAssumption, NoWrap, Alignment
<1>2. (n + 1) % SizeRange = n + 1
  BY <1>1
<1> QED BY <1>1, <1>2 DEF align_size, Alignment

\* What the invariant says of a free block.
LEMMA FreeBlockFacts ==
  ASSUME HeapInv, NEW i \in DOMAIN free_list
  PROVE  /\ DOMAIN free_list = 1..Len(free_list) /\ Len(free_list) \in Nat
         /\ free_list[i] \in Blocks /\ free_list[i] \notin HeldBlocks
         /\ free_list[i] \in Nat /\ size[free_list[i]] \in Nat
BY DEF HeapInv, Tiled, TypeOK, FreeListExact, FreeBlocks, Elements, Distinct

\* Removing an element keeps the others, in their order.
LEMMA UnlinkedProperties ==
  ASSUME NEW S, NEW s \in Seq(S), NEW i \in DOMAIN s,
         Distinct(s)
  PROVE  /\ Unlinked(s, i) \in Seq(S)
         /\ Elements(Unlinked(s, i)) = Elements(s) \ {s[i]}
         /\ Distinct(Unlinked(s, i))
<1> DEFINE t == Unlinked(s, i)
<1> USE DEF Elements, Distinct
<1>1. Len(s) \in Nat /\ DOMAIN s = 1..Len(s) /\ Len(s) - 1 \in Nat /\ i \in 1..Len(s)
  OBVIOUS
<1>2. DOMAIN t = 1..(Len(s) - 1)
  BY DEF Unlinked
<1>3. \A j \in DOMAIN t : t[j] = IF j < i THEN s[j] ELSE s[j + 1]
  BY <1>2 DEF Unlinked
<1>4. t \in [1..(Len(s) - 1) -> S]
  BY <1>1 DEF Unlinked
<1>5. t \in Seq(S)
  BY <1>1, <1>4
<1>6. Distinct(t)
  BY <1>1, <1>2, <1>3
<1>7. ASSUME NEW x \in Elements(t) PROVE x \in Elements(s) \ {s[i]}
  BY <1>1, <1>2, <1>3
<1>8. ASSUME NEW k \in DOMAIN s, k # i PROVE s[k] \in Elements(t)
  <2>1. CASE k < i
    BY <1>1, <1>2, <1>3, <2>1
  <2>2. CASE k > i
    <3>1. k - 1 \in DOMAIN t /\ t[k - 1] = s[k]
      BY <1>1, <1>2, <1>3, <2>2
    <3> QED BY <3>1
  <2> QED BY <1>1, <1>8, <2>1, <2>2
<1> QED BY <1>5, <1>6, <1>7, <1>8
-----------------------------------------------------------------------------
(* What an allocation makes of the blocks                                  *)

\* The part of Tiled that is about the blocks sz of a heap.
Partition(sz) ==
  /\ DOMAIN sz \subseteq 0..HeapSize /\ sz \in [DOMAIN sz -> 0..HeapSize]
  /\ 0 \in DOMAIN sz
  /\ \A b \in DOMAIN sz :
       /\ b + Header + sz[b] = HeapSize \/ b + Header + sz[b] \in DOMAIN sz
       /\ b + Header + sz[b] <= HeapSize
       /\ \A c \in DOMAIN sz : b < c => b + Header + sz[b] <= c

LEMMA TiledIsPartition ==
  Tiled <=> /\ Partition(size)
            /\ free_list \in Seq(Blocks)
            /\ DOMAIN held \subseteq Nat /\ HeldBlocks \subseteq Blocks
            /\ held \in [DOMAIN held -> Nat]
BY DEF Tiled, TypeOK, Partition, Blocks, End

\* split_block cuts a block in two, within its bounds.
LEMMA SplitPartition ==
  ASSUME Partition(size), NEW b \in Blocks, NEW need \in Nat, Splittable(b, need)
  PROVE  /\ Rest(b, need) \in 0..HeapSize /\ Rest(b, need) \notin Blocks
         /\ Partition(SizesAfterSplit(b, need))
<1> DEFINE r == Rest(b, need)
           sz == SizesAfterSplit(b, need)
<1> USE DEF Header, Alignment
<1>1. HeapSize \in Nat /\ b \in Nat /\ size[b] \in Nat /\ need \in Nat
  BY HeapAssumption DEF HeapAssumption, Partition, Blocks
<1>2. size[b] >= need + 5 /\ r = b + 3 + need /\ b + 3 + size[b] <= HeapSize
  BY DEF Splittable, Rest, Partition, Blocks
<1>3. r \in 0..HeapSize /\ b < r /\ r < b + 3 + size[b]
  BY <1>1, <1>2
<1>4. r \notin Blocks
  BY <1>1, <1>2, <1>3 DEF Partition, Blocks
<1>5. DOMAIN sz = Blocks \cup {r}
  BY DEF SizesAfterSplit
<1>6. /\ sz[b] = need /\ sz[r] = size[b] - need - 3
      /\ \A x \in Blocks \ {b} : sz[x] = size[x]
  BY <1>4 DEF SizesAfterSplit
<1>7. \A x \in Blocks : x \in Nat /\ size[x] \in Nat /\ x + 3 + size[x] <= HeapSize
  BY <1>1 DEF Partition, Blocks
<1>8. b + 3 + sz[b] = r /\ r + 3 + sz[r] = b + 3 + size[b] /\ sz[r] \in 0..HeapSize
  BY <1>1, <1>2, <1>6
<1>9. sz \in [DOMAIN sz -> 0..HeapSize] /\ DOMAIN sz \subseteq 0..HeapSize /\ 0 \in DOMAIN sz
  <2>1. \A x \in DOMAIN sz : sz[x] \in 0..HeapSize
    <3>1. \A x \in Blocks \ {b} : sz[x] \in 0..HeapSize
      BY <1>6 DEF Partition, Blocks
    <3>2. sz[b] \in 0..HeapSize
      BY <1>1, <1>2, <1>6
    <3> QED BY <1>5, <1>8, <3>1, <3>2
  <2>2. sz = [x \in DOMAIN sz |-> sz[x]]
    BY DEF SizesAfterSplit
  <2> QED BY <1>3, <1>5, <2>1, <2>2 DEF Partition, Blocks
<1>10. ASSUME NEW x \in DOMAIN sz
       PROVE  /\ x + 3 + sz[x] = HeapSize \/ x + 3 + sz[x] \in DOMAIN sz
              /\ x + 3 + sz[x] <= HeapSize
  <2>1. CASE x = b
    BY <1>3, <1>5, <1>8, <2>1
  <2>2. CASE x = r
    BY <1>2, <1>5, <1>8, <2>2 DEF Partition, Blocks
  <2>3. CASE x \in Blocks \ {b}
    BY <1>5, <1>6, <1>7, <2>3 DEF Partition, Blocks
  <2> QED BY <1>5, <2>1, <2>2, <2>3
<1>11. ASSUME NEW x \in DOMAIN sz, NEW y \in DOMAIN sz, x < y
       PROVE  x + 3 + sz[x] <= y
  <2>1. \A u, v \in Blocks : u < v => u + 3 + size[u] <= v
    BY DEF Partition, Blocks
  <2>2. CASE x = b /\ y = r
    BY <1>1, <1>2, <1>8, <2>2
  <2>3. CASE x = b /\ y \in Blocks
    BY <1>1, <1>2, <1>3, <1>7, <1>8, <1>11, <2>1, <2>3
  <2>4. CASE x = r /\ y \in Blocks
    BY <1>1, <1>3, <1>7, <1>8, <1>11, <2>1, <2>4
  <2>5. CASE x \in Blocks \ {b} /\ y = r
    BY <1>1, <1>2, <1>3, <1>6, <1>7, <1>11, <2>1, <2>5
  <2>6. CASE x \in Blocks \ {b} /\ y \in Blocks
    BY <1>6, <1>11, <2>1, <2>6
  <2>7. ~(x = r /\ y = r) /\ ~(x = b /\ y = b)
    BY <1>1, <1>3, <1>11
  <2> QED BY <1>5, <2>2, <2>3, <2>4, <2>5, <2>6, <2>7
<1> QED BY <1>3, <1>4, <1>9, <1>10, <1>11 DEF Partition

\* An allocation of need units from the i-th block of the list: the blocks
\* stay a partition, the rest of the block joins the list, the block leaves it.
LEMMA AllocProperties ==
  ASSUME HeapInv, NEW i \in DOMAIN free_list, NEW need \in Nat
  PROVE  LET b == free_list[i]
             sz == SizesAfter(b, need)
             fl == ListAfter(i, need)
         IN  /\ Partition(sz) /\ Blocks \subseteq DOMAIN sz
             /\ fl \in Seq(DOMAIN sz)
             /\ Elements(fl) = DOMAIN sz \ (HeldBlocks \cup {b})
             /\ Distinct(fl)
             /\ \A x \in Blocks \ {b} : sz[x] = size[x]
             /\ sz[b] = IF Splittable(b, need) THEN need ELSE size[b]
<1> DEFINE b == free_list[i]
           sz == SizesAfter(b, need)
           fl == ListAfter(i, need)
           r == Rest(b, need)
<1>1. Partition(size) /\ free_list \in Seq(Blocks) /\ HeldBlocks \subseteq Blocks
  BY TiledIsPartition DEF HeapInv
<1>2. b \in Blocks /\ b \notin HeldBlocks /\ DOMAIN free_list = 1..Len(free_list)
  BY FreeBlockFacts
<1>3. Elements(free_list) = Blocks \ HeldBlocks /\ Distinct(free_list)
  BY DEF HeapInv, FreeListExact, FreeBlocks, Elements, Distinct
<1>4. CASE ~Splittable(b, need)
  <2>1. sz = size /\ fl = Unlinked(free_list, i)
    BY <1>4 DEF SizesAfter, ListAfter
  <2>2. /\ fl \in Seq(Blocks)
        /\ Elements(fl) = Elements(free_list) \ {b}
        /\ Distinct(fl)
    <3> HIDE DEF fl
    <3>1. fl = Unlinked(free_list, i) /\ b = free_list[i]
      BY <2>1
    <3> QED BY <1>1, <1>3, <3>1, UnlinkedProperties
  <2> QED BY <1>1, <1>3, <1>4, <2>1, <2>2 DEF Blocks
<1>5. CASE Splittable(b, need)
  <2>1. sz = SizesAfterSplit(b, need) /\ fl = [free_list EXCEPT ![i] = r]
    BY <1>5 DEF SizesAfter, ListAfter
  <2>2. r \notin Blocks /\ Partition(sz)
    BY <1>1, <1>2, <1>5, <2>1, SplitPartition
  <2>3. DOMAIN sz = Blocks \cup {r} /\ sz[b] = need /\ \A x \in Blocks \ {b} : sz[x] = size[x]
    BY <1>2, <2>1, <2>2 DEF SizesAfterSplit
  <2>4. free_list \in Seq(DOMAIN sz)
    BY <1>1, <2>3
  <2>5. DOMAIN fl = DOMAIN free_list
        /\ \A j \in DOMAIN fl : fl[j] = IF j = i THEN r ELSE free_list[j]
    BY <2>1
  <2>6. fl \in Seq(DOMAIN sz)
    BY <2>1, <2>3, <2>4, ExceptSeq
  <2>7. Elements(fl) = (Elements(free_list) \ {b}) \cup {r}
    BY <1>2, <1>3, <2>5 DEF Elements, Distinct
  <2>8. Distinct(fl)
    BY <1>1, <1>3, <2>2, <2>5 DEF Elements, Distinct
  <2> QED BY <1>1, <1>3, <1>5, <2>2, <2>3, <2>6, <2>7, <2>8
<1> QED BY <1>4, <1>5
-----------------------------------------------------------------------------
(* What callers hold                                                       *)

HeldIn(h) == {Block(q) : q \in DOMAIN h}
IsHeld(h) == DOMAIN h \subseteq Nat /\ h \in [DOMAIN h -> Nat]

LEMMA HoldProperties ==
  ASSUME NEW h, IsHeld(h), NEW b \in Nat, NEW n \in Nat
  PROVE  /\ IsHeld(Hold(h, Ptr(b), n))
         /\ HeldIn(Hold(h, Ptr(b), n)) = HeldIn(h) \cup {b}
<1> DEFINE g == Hold(h, Ptr(b), n)
<1>1. Ptr(b) \in Nat /\ Block(Ptr(b)) = b
  BY DEF Ptr, Block, Header
<1>2. DOMAIN g = DOMAIN h \cup {Ptr(b)} /\ \A q \in DOMAIN g : g[q] = IF q = Ptr(b) THEN n ELSE h[q]
  BY DEF Hold
<1>3. g = [q \in DOMAIN g |-> g[q]]
  BY DEF Hold
<1> HIDE DEF g
<1>4. IsHeld(g)
  BY <1>1, <1>2, <1>3 DEF IsHeld
<1>5. HeldIn(g) = HeldIn(h) \cup {b}
  BY <1>1, <1>2 DEF HeldIn
<1> QED BY <1>4, <1>5 DEF g

LEMMA DropProperties ==
  ASSUME NEW h, IsHeld(h), NEW p \in DOMAIN h
  PROVE  /\ IsHeld(Drop(h, p))
         /\ HeldIn(Drop(h, p)) = HeldIn(h) \ {Block(p)}
<1>1. DOMAIN Drop(h, p) = DOMAIN h \ {p} /\ \A q \in DOMAIN Drop(h, p) : Drop(h, p)[q] = h[q]
  BY DEF Drop
<1>2. IsHeld(Drop(h, p))
  BY <1>1 DEF IsHeld, Drop
<1>3. \A q \in DOMAIN h : q # p => Block(q) # Block(p)
  BY DEF Block, Header, IsHeld
<1>4. HeldIn(Drop(h, p)) = HeldIn(h) \ {Block(p)}
  BY <1>1, <1>3 DEF HeldIn
<1> QED BY <1>2, <1>4

LEMMA HeldPointer ==
  ASSUME HeapInv, NEW p \in DOMAIN held
  PROVE  /\ IsHeld(held) /\ HeldBlocks = HeldIn(held)
         /\ Block(p) \in HeldBlocks /\ HeldBlocks \subseteq Blocks
BY DEF HeapInv, Tiled, TypeOK, IsHeld, HeldBlocks, HeldIn

\* A block joins the front of the list.
LEMMA PushProperties ==
  ASSUME NEW S, NEW s \in Seq(S), NEW e \in S,
         Distinct(s),
         \A j \in DOMAIN s : s[j] # e
  PROVE  /\ <<e>> \o s \in Seq(S)
         /\ Elements(<<e>> \o s) = Elements(s) \cup {e}
         /\ Distinct(<<e>> \o s)
<1> DEFINE t == <<e>> \o s
<1> USE DEF Elements, Distinct
<1>1. t \in Seq(S) /\ Len(t) = 1 + Len(s) /\ Len(s) \in Nat
  OBVIOUS
<1>2. DOMAIN t = 1..(1 + Len(s)) /\ DOMAIN s = 1..Len(s)
  BY <1>1
<1>3. \A j \in DOMAIN t : t[j] = IF j = 1 THEN e ELSE s[j - 1]
  BY <1>1, <1>2
<1> HIDE DEF t
<1>4. Distinct(t)
  BY <1>1, <1>2, <1>3
<1>5. \A j \in DOMAIN t : t[j] \in {s[k] : k \in DOMAIN s} \cup {e}
  BY <1>1, <1>2, <1>3
<1>6. \A k \in DOMAIN s : k + 1 \in DOMAIN t /\ t[k + 1] = s[k]
  BY <1>1, <1>2, <1>3
<1>7. 1 \in DOMAIN t /\ t[1] = e
  BY <1>1, <1>2, <1>3
<1>8. Elements(t) = Elements(s) \cup {e}
  BY <1>5, <1>6, <1>7
<1> QED BY <1>1, <1>4, <1>8 DEF t
-----------------------------------------------------------------------------
(* The invariant                                                           *)

LEMMA InvInit == Init => HeapInv
<1> SUFFICES ASSUME Init PROVE HeapInv
  OBVIOUS
<1>1. Blocks = {0} /\ size[0] = HeapSize - 3 /\ free_list = <<0>> /\ DOMAIN held = {}
  BY DEF Init, Blocks, Header
<1>2. HeapSize \in Nat /\ HeapSize - 3 \in 0..HeapSize
  BY HeapAssumption DEF HeapAssumption, Header
<1>3. Partition(size)
  BY <1>1, <1>2 DEF Partition, Blocks, Header, Init
<1>4. HeldBlocks = {} /\ held \in [DOMAIN held -> Nat] /\ DOMAIN held \subseteq Nat
  BY <1>1 DEF HeldBlocks, Init
<1>5. free_list \in Seq(Blocks)
  BY <1>1
<1>6. FreeListExact
  BY <1>1, <1>4 DEF FreeListExact, FreeBlocks
<1> QED BY <1>3, <1>4, <1>5, <1>6, TiledIsPartition DEF HeapInv

\* Assembling the invariant after a step, from what it is made of.
LEMMA InvFrom ==
  ASSUME Partition(size)', (free_list \in Seq(Blocks))', IsHeld(held)', HeldIn(held)' \subseteq Blocks',
         Elements(free_list') = Blocks' \ HeldIn(held)',
         Distinct(free_list')
  PROVE  HeapInv'
BY DEF HeapInv, Tiled, TypeOK, FreeListExact, FreeBlocks, HeldBlocks, HeldIn, IsHeld, Partition, Elements, Distinct,
       Blocks, End

LEMMA MallocInv ==
  ASSUME HeapInv, NEW n \in Nat, Malloc(n)
  PROVE  HeapInv'
<1> DEFINE need == align_size(n)
<1>1. PICK i \in DOMAIN free_list :
        /\ size' = SizesAfter(free_list[i], need)
        /\ free_list' = ListAfter(i, need)
        /\ held' = Hold(held, Ptr(free_list[i]), n)
  BY DEF Malloc
<1>2. need \in Nat
  BY AlignNat
<1> HIDE DEF need
<1>3. /\ Partition(size)' /\ Blocks \subseteq Blocks'
      /\ (free_list \in Seq(Blocks))'
      /\ Elements(free_list') = Blocks' \ (HeldBlocks \cup {free_list[i]})
      /\ Distinct(free_list')
  BY <1>1, <1>2, AllocProperties DEF Blocks, Partition
<1>4. IsHeld(held) /\ HeldBlocks = HeldIn(held) /\ HeldBlocks \subseteq Blocks
      /\ free_list[i] \in Nat /\ free_list[i] \in Blocks
  BY FreeBlockFacts DEF HeapInv, Tiled, TypeOK, IsHeld, HeldBlocks, HeldIn
<1>5. IsHeld(held') /\ HeldIn(held') = HeldIn(held) \cup {free_list[i]}
  BY <1>1, <1>4, HoldProperties
<1>6. IsHeld(held)' /\ HeldIn(held)' = HeldBlocks \cup {free_list[i]}
  BY <1>4, <1>5 DEF IsHeld, HeldIn
<1> QED BY <1>3, <1>4, <1>6, InvFrom

LEMMA FreeInv ==
  ASSUME HeapInv, NEW p \in DOMAIN held, Free(p)
  PROVE  HeapInv'
<1>1. /\ IsHeld(held) /\ HeldBlocks = HeldIn(held)
      /\ Block(p) \in HeldBlocks /\ HeldBlocks \subseteq Blocks
  BY HeldPointer
<1>2. /\ free_list \in Seq(Blocks) /\ Elements(free_list) = Blocks \ HeldBlocks
      /\ Distinct(free_list)
      /\ \A j \in DOMAIN free_list : free_list[j] # Block(p)
  BY <1>1 DEF HeapInv, Tiled, TypeOK, FreeListExact, FreeBlocks, Elements, Distinct
<1>3. free_list' = <<Block(p)>> \o free_list /\ held' = Drop(held, p) /\ Blocks' = Blocks
  BY DEF Free, Blocks
<1>4. /\ free_list' \in Seq(Blocks)
      /\ Elements(free_list') = (Blocks \ HeldBlocks) \cup {Block(p)}
      /\ Distinct(free_list')
  BY <1>1, <1>2, <1>3, PushProperties
<1>5. IsHeld(held') /\ HeldIn(held') = HeldIn(held) \ {Block(p)}
  BY <1>1, <1>3, DropProperties
<1>6. IsHeld(held)' /\ HeldIn(held)' = HeldBlocks \ {Block(p)}
  BY <1>1, <1>5 DEF IsHeld, HeldIn
<1>7. Partition(size)'
  BY TiledIsPartition DEF HeapInv, Free, Partition, Blocks
<1> QED BY <1>1, <1>3, <1>4, <1>6, <1>7, InvFrom

LEMMA ReallocHereInv ==
  ASSUME HeapInv, NEW p \in DOMAIN held, NEW n \in Nat, ReallocHere(p, n)
  PROVE  HeapInv'
<1>1. held' = Hold(held, Ptr(Block(p)), n) /\ size' = size /\ free_list' = free_list
      /\ Block(p) \in Nat
  <2>1. Block(p) \in Blocks /\ Blocks \subseteq Nat /\ p \in Nat
    BY HeldPointer DEF HeapInv, Tiled, TypeOK
  <2>2. Ptr(Block(p)) = p
    BY <2>1 DEF Ptr, Block, Header
  <2> QED BY <2>1, <2>2 DEF ReallocHere
<1>2. /\ IsHeld(held) /\ HeldBlocks = HeldIn(held)
      /\ Block(p) \in HeldBlocks /\ HeldBlocks \subseteq Blocks
  BY HeldPointer
<1>3. IsHeld(held') /\ HeldIn(held') = HeldIn(held) \cup {Block(p)}
  BY <1>1, <1>2, HoldProperties
<1>4. IsHeld(held)' /\ HeldIn(held)' = HeldBlocks
  BY <1>2, <1>3 DEF IsHeld, HeldIn
<1>5. /\ Partition(size)' /\ (free_list \in Seq(Blocks))' /\ Blocks' = Blocks
      /\ Elements(free_list') = Blocks \ HeldBlocks
      /\ Distinct(free_list')
  BY <1>1, TiledIsPartition DEF HeapInv, FreeListExact, FreeBlocks, Partition, Blocks, Elements, Distinct
<1> QED BY <1>2, <1>4, <1>5, InvFrom

LEMMA ReallocMoveInv ==
  ASSUME HeapInv, NEW p \in DOMAIN held, NEW n \in Nat, ReallocMove(p, n)
  PROVE  HeapInv'
<1> DEFINE need == align_size(n)
           old == Block(p)
<1>1. PICK i \in DOMAIN free_list :
        /\ size' = SizesAfter(free_list[i], need)
        /\ free_list' = <<Block(p)>> \o ListAfter(i, need)
        /\ held' = Drop(Hold(held, Ptr(free_list[i]), n), p)
  BY DEF ReallocMove
<1> DEFINE b == free_list[i]
           fl == ListAfter(i, need)
           h == Hold(held, Ptr(b), n)
<1>2. need \in Nat
  BY AlignNat
<1> HIDE DEF need
<1>3. /\ Partition(size)' /\ Blocks \subseteq Blocks'
      /\ fl \in Seq(Blocks')
      /\ Elements(fl) = Blocks' \ (HeldBlocks \cup {b})
      /\ Distinct(fl)
  BY <1>1, <1>2, AllocProperties DEF Blocks, Partition
<1>4. /\ IsHeld(held) /\ HeldBlocks = HeldIn(held) /\ HeldBlocks \subseteq Blocks
      /\ b \in Nat /\ b \in Blocks /\ b \notin HeldBlocks /\ old \in HeldBlocks
  BY FreeBlockFacts, HeldPointer
<1>5. IsHeld(h) /\ HeldIn(h) = HeldBlocks \cup {b} /\ p \in DOMAIN h
  <2>1. p \in DOMAIN h
    BY DEF Hold
  <2> HIDE DEF b
  <2>2. IsHeld(h) /\ HeldIn(h) = HeldIn(held) \cup {b}
    BY <1>4, HoldProperties
  <2> QED BY <1>4, <2>1, <2>2
<1>6. IsHeld(held') /\ HeldIn(held') = (HeldBlocks \cup {b}) \ {old}
  BY <1>1, <1>5, DropProperties
<1>7. IsHeld(held)' /\ HeldIn(held)' = (HeldBlocks \cup {b}) \ {old}
  BY <1>6 DEF IsHeld, HeldIn
<1> HIDE DEF fl, b, old
<1>8. free_list' = <<old>> \o fl /\ old \in Blocks' /\ \A j \in DOMAIN fl : fl[j] # old
  BY <1>1, <1>3, <1>4 DEF fl, old, Elements
<1>9. /\ free_list' \in Seq(Blocks')
      /\ Elements(free_list') = (Blocks' \ (HeldBlocks \cup {b})) \cup {old}
      /\ Distinct(free_list')
  BY <1>3, <1>8, PushProperties
<1> QED BY <1>3, <1>4, <1>7, <1>8, <1>9, InvFrom

LEMMA StepInv == ASSUME HeapInv, [Next]_vars PROVE HeapInv'
<1>1. ASSUME NEW n \in Sizes, Malloc(n) PROVE HeapInv'
  BY <1>1, RequestsNat, MallocInv DEF Requests
<1>2. ASSUME NEW m \in Counts, NEW n \in Sizes, Calloc(m, n) PROVE HeapInv'
  BY <1>2, RequestsNat, MallocInv DEF Requests, Calloc
<1>3. ASSUME NEW p \in DOMAIN held, Free(p) PROVE HeapInv'
  BY <1>3, FreeInv
<1>4. ASSUME NEW p \in DOMAIN held, NEW n \in Sizes, ReallocHere(p, n) PROVE HeapInv'
  BY <1>4, RequestsNat, ReallocHereInv DEF Requests
<1>5. ASSUME NEW p \in DOMAIN held, NEW n \in Sizes, ReallocMove(p, n) PROVE HeapInv'
  BY <1>5, RequestsNat, ReallocMoveInv DEF Requests
<1>6. CASE UNCHANGED vars
  BY <1>6 DEF vars, HeapInv, Tiled, TypeOK, FreeListExact, FreeBlocks, HeldBlocks, Blocks, End, Block
<1> QED BY <1>1, <1>2, <1>3, <1>4, <1>5, <1>6 DEF Next, MallocFails, ReallocFails

\* After any calls, whatever they ask for, the blocks are a partition of the
\* heap and the free list is exactly the blocks nobody holds (heap.c: malloc,
\* free, realloc, calloc, split_block, remove_from_free_list).
THEOREM HeapCorrect == Spec => []HeapInv
<1>1. Init => HeapInv
  BY InvInit
<1>2. HeapInv /\ [Next]_vars => HeapInv'
  BY StepInv
<1> QED BY <1>1, <1>2, PTL DEF Spec
-----------------------------------------------------------------------------
(* What callers get                                                        *)

\* The block an allocation takes is as large as asked for, and the others are
\* as large as before.
LEMMA AllocSize ==
  ASSUME NoWrap, HeapInv, NEW n \in Requests, NEW i \in DOMAIN free_list,
         IsFirstFit(i, align_size(n))
  PROVE  LET b == free_list[i]
         IN  /\ n <= SizesAfter(b, align_size(n))[b]
             /\ SizesAfter(b, align_size(n))[b] <= size[b]
             /\ \A x \in HeldBlocks : SizesAfter(b, align_size(n))[x] = size[x]
<1> DEFINE b == free_list[i]
           need == align_size(n)
           sz == SizesAfter(b, need)
<1>1. n \in Nat /\ need \in Nat /\ n <= need
  BY RequestsNat, AlignNat, AlignEnough
<1>2. b \notin HeldBlocks /\ size[b] \in Nat /\ size[b] >= need /\ HeldBlocks \subseteq Blocks
  BY FreeBlockFacts DEF IsFirstFit, HeapInv, Tiled, TypeOK
<1> HIDE DEF need
<1>3. /\ \A x \in Blocks \ {b} : sz[x] = size[x]
      /\ sz[b] = IF Splittable(b, need) THEN need ELSE size[b]
  BY <1>1, AllocProperties
<1> QED BY <1>1, <1>2, <1>3 DEF need

\* In Malloc and in ReallocMove: the new pointer and the old ones fit.
LEMMA FitsAfter ==
  ASSUME NoWrap, HeapInv, HeldFits, NEW n \in Requests, NEW i \in DOMAIN free_list,
         IsFirstFit(i, align_size(n)),
         size' = SizesAfter(free_list[i], align_size(n)),
         NEW q \in DOMAIN Hold(held, Ptr(free_list[i]), n)
  PROVE  Hold(held, Ptr(free_list[i]), n)[q] <= size'[Block(q)]
<1> DEFINE b == free_list[i]
<1>1. /\ n <= size'[b] /\ \A x \in HeldBlocks : size'[x] = size[x]
  BY AllocSize
<1>2. b \in Nat /\ Block(Ptr(b)) = b
  BY FreeBlockFacts DEF Ptr, Block, Header
<1>3. CASE q = Ptr(b)
  BY <1>1, <1>2, <1>3 DEF Hold
<1>4. CASE q \in DOMAIN held /\ q # Ptr(b)
  BY <1>1, <1>4 DEF Hold, HeldFits, HeldBlocks
<1> QED BY <1>3, <1>4 DEF Hold

LEMMA FitsStep ==
  ASSUME NoWrap, HeapInv, HeldFits, [Next]_vars
  PROVE  HeldFits'
<1>1. ASSUME NEW n \in Requests, Malloc(n) PROVE HeldFits'
  <2>1. PICK i \in DOMAIN free_list :
          /\ IsFirstFit(i, align_size(n))
          /\ size' = SizesAfter(free_list[i], align_size(n))
          /\ held' = Hold(held, Ptr(free_list[i]), n)
    BY <1>1 DEF Malloc
  <2> QED BY <2>1, FitsAfter DEF HeldFits, Block
<1>2. ASSUME NEW m \in Counts, NEW n \in Sizes, Calloc(m, n) PROVE HeldFits'
  BY <1>1, <1>2 DEF Requests, Calloc
<1>3. ASSUME NEW p \in DOMAIN held, Free(p) PROVE HeldFits'
  BY <1>3 DEF Free, Drop, HeldFits, Block
<1>4. ASSUME NEW p \in DOMAIN held, NEW n \in Sizes, ReallocHere(p, n) PROVE HeldFits'
  <2>1. n \in Requests /\ n <= align_size(n) /\ n \in Nat /\ align_size(n) \in Nat
    BY RequestsNat, AlignEnough, AlignNat DEF Requests
  <2>2. size[Block(p)] \in Nat
    BY HeldPointer DEF HeapInv, Tiled, TypeOK
  <2>3. n <= size[Block(p)]
    BY <1>4, <2>1, <2>2 DEF ReallocHere
  <2> QED BY <1>4, <2>3 DEF ReallocHere, Hold, HeldFits, Block
<1>5. ASSUME NEW p \in DOMAIN held, NEW n \in Sizes, ReallocMove(p, n) PROVE HeldFits'
  <2>1. PICK i \in DOMAIN free_list :
          /\ IsFirstFit(i, align_size(n))
          /\ size' = SizesAfter(free_list[i], align_size(n))
          /\ held' = Drop(Hold(held, Ptr(free_list[i]), n), p)
    BY <1>5 DEF ReallocMove
  <2>2. n \in Requests
    BY DEF Requests
  <2> QED BY <2>1, <2>2, FitsAfter DEF HeldFits, Block, Drop
<1>6. CASE UNCHANGED vars
  BY <1>6 DEF vars, HeldFits, Block
<1> QED BY <1>1, <1>2, <1>3, <1>4, <1>5, <1>6 DEF Next, MallocFails, ReallocFails, Requests

\* Whatever a caller holds is as large as it asked for, after any mallocs,
\* callocs and reallocs, unless it asks for within 15 bytes of the largest
\* size_t (heap.c:21 rounds such a request to nothing).
THEOREM FitsCorrect == ASSUME NoWrap PROVE Spec => []HeldFits
<1>1. Init => HeldFits
  BY DEF Init, HeldFits
<1>2. HeapInv /\ HeldFits /\ [Next]_vars => HeldFits'
  BY FitsStep
<1> QED BY <1>1, <1>2, HeapCorrect, PTL DEF Spec

-----------------------------------------------------------------------------
(* Heap implements HeapSpec                                                *)

\* Two blocks do not overlap, so neither do the regions in them.
LEMMA BlocksApart ==
  ASSUME HeapInv, NEW b \in Blocks, NEW c \in Blocks, b # c
  PROVE  /\ b \in Nat /\ c \in Nat /\ size[b] \in Nat /\ size[c] \in Nat
         /\ b + 3 + size[b] <= HeapSize
         /\ b + 3 + size[b] <= c \/ c + 3 + size[c] <= b
<1>1. /\ b \in Nat /\ c \in Nat /\ size[b] \in Nat /\ size[c] \in Nat /\ HeapSize \in Nat
  BY HeapAssumption DEF HeapInv, Tiled, TypeOK, HeapAssumption
<1>2. b + 3 + size[b] <= HeapSize
  BY DEF HeapInv, Tiled, End, Header
<1>3. (b < c => b + 3 + size[b] <= c) /\ (c < b => c + 3 + size[c] <= b)
  BY DEF HeapInv, Tiled, End, Header
<1> QED BY <1>1, <1>2, <1>3

\* A region of n units in the block b is apart from the regions of h, which lie
\* in other blocks.
LEMMA RegionFits ==
  ASSUME HeapInv, HeldFits, NEW b \in Blocks, NEW n \in Nat, n <= size[b],
         NEW h, DOMAIN h \subseteq DOMAIN held,
         \A q \in DOMAIN h : h[q] = held[q] /\ Block(q) # b
  PROVE  Abs!Fits(h, Ptr(b), n)
<1>1. b \in Nat /\ size[b] \in Nat /\ HeapSize \in Nat /\ b + 3 + size[b] <= HeapSize
  BY HeapAssumption DEF HeapInv, Tiled, TypeOK, End, Header, HeapAssumption
<1>2. Ptr(b) + n <= HeapSize
  BY <1>1 DEF Ptr, Header
<1>3. ASSUME NEW q \in DOMAIN h PROVE Ptr(b) + n <= q \/ q + h[q] <= Ptr(b)
  <2> DEFINE c == Block(q)
  <2>1. q \in DOMAIN held /\ q \in Nat /\ c \in Blocks /\ c # b /\ h[q] = held[q] /\ held[q] \in Nat
    BY HeldPointer DEF IsHeld
  <2>2. q = c + 3
    BY <2>1 DEF Block, Header
  <2>3. held[q] <= size[c]
    BY <2>1 DEF HeldFits
  <2> HIDE DEF c
  <2>4. /\ c \in Nat /\ size[c] \in Nat
        /\ b + 3 + size[b] <= c \/ c + 3 + size[c] <= b
    BY <2>1, BlocksApart
  <2> QED BY <1>1, <2>1, <2>2, <2>3, <2>4 DEF Ptr, Header
<1> QED BY <1>2, <1>3 DEF Abs!Fits

\* The pointer malloc returns is new, and its region fits.
LEMMA NewRegion ==
  ASSUME NoWrap, HeapInv, HeldFits, NEW n \in Requests, NEW i \in DOMAIN free_list,
         IsFirstFit(i, align_size(n))
  PROVE  /\ Ptr(free_list[i]) \in 0..HeapSize
         /\ Ptr(free_list[i]) \notin DOMAIN held
         /\ Abs!Fits(held, Ptr(free_list[i]), n)
<1> DEFINE b == free_list[i]
<1>1. b \in Blocks /\ b \notin HeldBlocks /\ b \in Nat /\ size[b] \in Nat
  BY FreeBlockFacts
<1>2. Block(Ptr(b)) = b /\ Ptr(b) = b + 3
  BY <1>1 DEF Block, Ptr, Header
<1>3. Ptr(b) \notin DOMAIN held /\ \A q \in DOMAIN held : Block(q) # b
  BY <1>1, <1>2 DEF HeldBlocks
<1>4. n \in Nat /\ align_size(n) \in Nat /\ n <= align_size(n) /\ align_size(n) <= size[b]
  BY RequestsNat, AlignNat, AlignEnough DEF IsFirstFit
<1>5. n <= size[b]
  BY <1>1, <1>4
<1>6. b + 3 + size[b] <= HeapSize /\ HeapSize \in Nat
  BY <1>1, HeapAssumption DEF HeapInv, Tiled, End, Header, HeapAssumption
<1> HIDE DEF b
<1>7. Abs!Fits(held, Ptr(b), n)
  BY <1>1, <1>3, <1>4, <1>5, RegionFits
<1>8. Ptr(b) \in 0..HeapSize
  BY <1>1, <1>2, <1>6
<1> QED BY <1>3, <1>7, <1>8 DEF b

LEMMA RegionsStep ==
  ASSUME NoWrap, HeapInv, HeldFits, [Next]_vars
  PROVE  [Abs!Next]_held
<1> USE DEF Abs!Next
<1>1. ASSUME NEW n \in Requests, Malloc(n) PROVE Abs!Next
  <2>1. PICK i \in DOMAIN free_list :
          IsFirstFit(i, align_size(n)) /\ held' = Hold(held, Ptr(free_list[i]), n)
    BY <1>1 DEF Malloc
  <2>2. Abs!Alloc(Ptr(free_list[i]), n)
    BY <2>1, NewRegion DEF Abs!Alloc, Abs!With, Hold
  <2> QED BY <2>1, <2>2, NewRegion
<1>2. ASSUME NEW m \in Counts, NEW n \in Sizes, Calloc(m, n) PROVE Abs!Next
  BY <1>1, <1>2 DEF Requests, Calloc
<1>3. ASSUME NEW p \in DOMAIN held, Free(p) PROVE Abs!Next
  BY <1>3 DEF Free, Drop, Abs!Release, Abs!Without
<1>4. ASSUME NEW p \in DOMAIN held, NEW n \in Sizes, ReallocHere(p, n) PROVE Abs!Next
  <2> DEFINE h == Abs!Without(held, p)
             b == Block(p)
  <2>1. n \in Requests /\ n <= align_size(n) /\ n \in Nat /\ align_size(n) \in Nat
    BY RequestsNat, AlignEnough, AlignNat DEF Requests
  <2>2. b \in Blocks /\ size[b] \in Nat /\ DOMAIN held \subseteq Nat
    BY HeldPointer DEF HeapInv, Tiled, TypeOK
  <2>3. n <= size[b]
    BY <1>4, <2>1, <2>2 DEF ReallocHere
  <2>4. DOMAIN h \subseteq DOMAIN held /\ \A q \in DOMAIN h : h[q] = held[q] /\ q # p
    BY DEF Abs!Without
  <2>5. \A q \in DOMAIN h : Block(q) # b
    BY <2>2, <2>4 DEF Block, Header
  <2>6. Ptr(b) = p
    BY <2>2 DEF Ptr, Block, Header
  <2> HIDE DEF h, b
  <2>7. Abs!Fits(h, Ptr(b), n)
    BY <2>1, <2>2, <2>3, <2>4, <2>5, RegionFits
  <2>8. Abs!Resize(p, n)
    BY <1>4, <2>6, <2>7 DEF h, Abs!Resize, Abs!With, ReallocHere, Hold
  <2> QED BY <2>1, <2>8
<1>5. ASSUME NEW p \in DOMAIN held, NEW n \in Sizes, ReallocMove(p, n) PROVE Abs!Next
  <2>1. PICK i \in DOMAIN free_list :
          /\ IsFirstFit(i, align_size(n))
          /\ held' = Drop(Hold(held, Ptr(free_list[i]), n), p)
    BY <1>5 DEF ReallocMove
  <2>2. n \in Requests
    BY DEF Requests
  <2>3. Abs!Move(p, Ptr(free_list[i]), n)
    BY <2>1, <2>2, NewRegion DEF Abs!Move, Abs!With, Abs!Without, Hold, Drop
  <2> QED BY <2>1, <2>2, <2>3, NewRegion
<1>6. CASE UNCHANGED vars
  BY <1>6 DEF vars
<1>7. Sizes \subseteq Requests
  BY DEF Requests
<1> HIDE DEF Abs!Next
<1> QED BY <1>1, <1>2, <1>3, <1>4, <1>5, <1>6, <1>7 DEF Next, MallocFails, ReallocFails

\* To its callers the heap is HeapSpec: the regions they hold lie in it and
\* never overlap, and one changes only in a call on it.
THEOREM RegionsCorrect == ASSUME NoWrap PROVE Spec => Regions
<1>1. Init => Abs!Init
  BY DEF Init, Abs!Init
<1>2. HeapInv /\ HeldFits /\ [Next]_vars => [Abs!Next]_held
  BY RegionsStep
<1> QED BY <1>1, <1>2, HeapCorrect, FitsCorrect, PTL DEF Spec, Regions, Abs!Spec

-----------------------------------------------------------------------------
(* Sums over finite sets                                                    *)

\* A set of numbers has a least one.
LEMMA NatHasLeast ==
  ASSUME NEW S \in SUBSET Nat, S # {}
  PROVE  \E p \in S : \A q \in S : p <= q
<1> DEFINE R == OpToRel(<, Nat)
<1>1. \A p, q \in Nat : q < p => <<q, p>> \in R
  BY DEF OpToRel
<1>2. IsWellFoundedOn(R, Nat)
  BY NatLessThanWellFounded
<1> HIDE DEF R
<1>3. PICK p \in S : \A q \in S : ~(<<q, p>> \in R)
  BY <1>2, WFMin
<1>4. ASSUME NEW q \in S PROVE p <= q
  <2>1. p \in Nat /\ q \in Nat
    OBVIOUS
  <2>2. ~(q < p)
    BY <1>1, <1>3, <2>1
  <2> QED BY <2>1, <2>2
<1> QED BY <1>4

\* A family of subsets of a finite set has one without a smaller one in it.
LEMMA LeastSubset ==
  ASSUME NEW S, IsFiniteSet(S), NEW B \in SUBSET (SUBSET S), B # {}
  PROVE  \E b \in B : \A c \in SUBSET b : c # b => c \notin B
<1> DEFINE N == {Cardinality(c) : c \in B}
<1>1. \A c \in SUBSET S : IsFiniteSet(c) /\ Cardinality(c) \in Nat
  BY FS_Subset, FS_CardinalityType
<1>2. N \in SUBSET Nat /\ N # {}
  BY <1>1
<1>3. PICK b \in B : \A c \in B : Cardinality(b) <= Cardinality(c)
  <2> HIDE DEF N
  <2>1. PICK p \in N : \A q \in N : p <= q
    BY <1>2, NatHasLeast
  <2> QED BY <2>1 DEF N
<1>4. ASSUME NEW c \in SUBSET b, c # b, c \in B PROVE FALSE
  <2>1. IsFiniteSet(b) /\ Cardinality(b) \in Nat /\ Cardinality(c) \in Nat
    BY <1>1, <1>4
  <2>2. Cardinality(c) <= Cardinality(b) /\ Cardinality(c) # Cardinality(b)
    BY <1>4, <2>1, FS_Subset
  <2>3. Cardinality(b) <= Cardinality(c)
    BY <1>3, <1>4
  <2> QED BY <2>1, <2>2, <2>3
<1> QED BY <1>4

Any(s) == CHOOSE x \in s : TRUE

\* What a fold over S computes: for each part of S the sum of g over it.
Added(g, S, w) == [s \in SUBSET S |-> IF s = {} THEN 0 ELSE g[Any(s)] + w[s \ {Any(s)}]]
AddsUp(g, S, w) == w = Added(g, S, w)

LEMMA AnyIn == \A s : s # {} => Any(s) \in s
BY DEF Any

\* There is such a function.
LEMMA AddsUpExists ==
  ASSUME NEW S, IsFiniteSet(S), NEW g
  PROVE  \E w : AddsUp(g, S, w)
<1> DEFINE Upto(n, w) == \A s \in SUBSET S : Cardinality(s) <= n => w[s] = Added(g, S, w)[s]
           Bad == {n \in Nat : ~\E w : Upto(n, w)}
<1>1. ASSUME NEW w, NEW s \in SUBSET S
      PROVE  Added(g, S, w)[s] = IF s = {} THEN 0 ELSE g[Any(s)] + w[s \ {Any(s)}]
  BY DEF Added
<1>2. \A s \in SUBSET S : IsFiniteSet(s) /\ Cardinality(s) \in Nat
  BY FS_Subset, FS_CardinalityType
<1>3. \A s \in SUBSET S : Cardinality(s) = 0 => s = {}
  BY <1>2, FS_EmptySet
<1>4. \A s \in SUBSET S : s # {} => s \ {Any(s)} \in SUBSET S /\ Cardinality(s \ {Any(s)}) = Cardinality(s) - 1
  BY <1>2, AnyIn, FS_RemoveElement
<1>5. ASSUME NEW n \in Nat, NEW w, Upto(n, w) PROVE Upto(n + 1, Added(g, S, w))
  <2> DEFINE v == Added(g, S, w)
  <2>1. ASSUME NEW s \in SUBSET S, Cardinality(s) <= n + 1 PROVE v[s] = Added(g, S, v)[s]
    <3>1. CASE s = {}
      BY <1>1, <3>1
    <3>2. CASE s # {}
      <4> DEFINE r == s \ {Any(s)}
      <4>1. r \in SUBSET S /\ Cardinality(r) <= n
        BY <1>2, <1>4, <2>1, <3>2
      <4>2. w[r] = v[r]
        BY <1>5, <4>1
      <4>3. v[s] = g[Any(s)] + w[r]
        BY <1>1, <3>2
      <4> HIDE DEF v
      <4>4. Added(g, S, v)[s] = g[Any(s)] + v[r]
        BY <1>1, <3>2
      <4> QED BY <4>2, <4>3, <4>4
    <3> QED BY <3>1, <3>2
  <2> QED BY <2>1
<1>6. \E w : Upto(0, w)
  <2> DEFINE w == [s \in SUBSET S |-> 0]
  <2>1. ASSUME NEW s \in SUBSET S, Cardinality(s) <= 0 PROVE w[s] = Added(g, S, w)[s]
    <3>1. s = {}
      BY <1>2, <1>3, <2>1
    <3> QED BY <1>1, <3>1
  <2> QED BY <2>1
<1> HIDE DEF Upto
<1>7. ASSUME Bad # {} PROVE FALSE
  <2>1. PICK n \in Bad : \A m \in Bad : n <= m
    BY <1>7, NatHasLeast
  <2> DEFINE m == n - 1
  <2>2. n \in Nat /\ n # 0
    BY <1>6, <2>1
  <2>3. m \in Nat /\ m + 1 = n /\ ~(n <= m)
    BY <2>2
  <2> HIDE DEF m
  <2>4. m \notin Bad
    BY <2>1, <2>3
  <2>5. PICK w : Upto(m, w)
    BY <2>3, <2>4
  <2>6. Upto(n, Added(g, S, w))
    BY <1>5, <2>3, <2>5
  <2> QED BY <2>1, <2>6
<1>8. PICK w : Upto(Cardinality(S), w)
  <2>1. Cardinality(S) \in Nat
    BY FS_CardinalityType
  <2> QED BY <1>7, <2>1
<1>9. AddsUp(g, S, Added(g, S, w))
  <2> DEFINE v == Added(g, S, w)
  <2>1. ASSUME NEW s \in SUBSET S PROVE w[s] = v[s]
    <3>1. Cardinality(s) <= Cardinality(S)
      BY FS_Subset
    <3> QED BY <1>8, <3>1 DEF Upto
  <2>2. ASSUME NEW s \in SUBSET S PROVE v[s] = Added(g, S, v)[s]
    <3>1. CASE s = {}
      BY <1>1, <3>1
    <3>2. CASE s # {}
      <4> DEFINE r == s \ {Any(s)}
      <4>1. v[s] = g[Any(s)] + w[r] /\ w[r] = v[r]
        BY <1>1, <2>1, <3>2
      <4> HIDE DEF v
      <4>2. Added(g, S, v)[s] = g[Any(s)] + v[r]
        BY <1>1, <3>2
      <4> QED BY <4>1, <4>2
    <3> QED BY <3>1, <3>2
  <2>3. v = [s \in SUBSET S |-> v[s]] /\ Added(g, S, v) = [s \in SUBSET S |-> Added(g, S, v)[s]]
    BY DEF Added
  <2> HIDE DEF v
  <2>4. v = Added(g, S, v)
    BY <2>2, <2>3
  <2> QED BY <2>4 DEF AddsUp, v
<1> QED BY <1>9

\* The sums of g over the parts of S.
Sums(g, S, w) ==
  /\ w[{}] = 0
  /\ \A s \in SUBSET S : w[s] \in Nat
  /\ \A s \in SUBSET S : \A x \in s : w[s] = g[x] + w[s \ {x}]

\* The order in which the elements are added does not matter.
LEMMA SumTakes ==
  ASSUME NEW S, IsFiniteSet(S), NEW g \in [S -> Nat], NEW w, AddsUp(g, S, w)
  PROVE  Sums(g, S, w)
<1> DEFINE Good(s) == w[s] \in Nat /\ \A x \in s : w[s] = g[x] + w[s \ {x}]
           B == {s \in SUBSET S : ~Good(s)}
<1>1. \A s \in SUBSET S : w[s] = IF s = {} THEN 0 ELSE g[Any(s)] + w[s \ {Any(s)}]
  <2>1. ASSUME NEW s \in SUBSET S PROVE Added(g, S, w)[s] = IF s = {} THEN 0 ELSE g[Any(s)] + w[s \ {Any(s)}]
    BY DEF Added
  <2> QED BY <2>1 DEF AddsUp
<1>2. ASSUME B # {} PROVE FALSE
  <2>0. B \in SUBSET (SUBSET S)
    OBVIOUS
  <2>1. PICK s \in B : \A c \in SUBSET s : c # s => c \notin B
    <3> HIDE DEF B
    <3> QED BY <1>2, <2>0, LeastSubset
  <2>2. s \in SUBSET S /\ ~Good(s)
    BY <2>1
  <2>3. s # {}
    <3>1. ASSUME s = {} PROVE Good(s)
      BY <1>1, <2>2, <3>1
    <3> QED BY <2>2, <3>1
  <2> DEFINE a == Any(s)
             r == s \ {a}
  <2>4. a \in s /\ w[s] = g[a] + w[r]
    BY <1>1, <2>2, <2>3, AnyIn
  <2>5. \A c \in SUBSET s : c # s => Good(c)
    BY <2>1, <2>2
  <2> HIDE DEF Good, B, a
  <2>6. Good(r) /\ g[a] \in Nat
    BY <2>2, <2>4, <2>5
  <2>7. w[s] \in Nat
    BY <2>4, <2>6 DEF Good
  <2>8. ASSUME NEW x \in s PROVE w[s] = g[x] + w[s \ {x}]
    <3>1. CASE x = a
      BY <2>4, <3>1
    <3>2. CASE x # a
      <4> DEFINE t == s \ {x}
                 u == r \ {x}
      <4>1. x \in r /\ a \in t /\ t \ {a} = u /\ t # s /\ t \in SUBSET s /\ u \in SUBSET s /\ u # s /\ g[x] \in Nat
        BY <2>2, <2>4, <2>8, <3>2
      <4>2. Good(t) /\ Good(u)
        BY <2>5, <4>1
      <4>3. w[r] = g[x] + w[u]
        BY <2>6, <4>1 DEF Good
      <4>4. w[t] = g[a] + w[t \ {a}] /\ w[u] \in Nat
        BY <4>1, <4>2 DEF Good
      <4>5. w[t] = g[a] + w[u]
        BY <4>1, <4>4
      <4> HIDE DEF r, t, u
      <4>6. w[s] = g[x] + w[t]
        BY <2>4, <2>6, <4>1, <4>3, <4>4, <4>5
      <4> QED BY <4>6 DEF t
    <3> QED BY <3>1, <3>2
  <2> QED BY <2>2, <2>7, <2>8 DEF Good
<1>3. {} \in SUBSET S
  OBVIOUS
<1> QED BY <1>1, <1>2, <1>3 DEF Sums

\* Of two disjoint sets.
LEMMA SumOfTwo ==
  ASSUME NEW S, IsFiniteSet(S), NEW g \in [S -> Nat], NEW w, Sums(g, S, w),
         NEW p \in SUBSET S, NEW q \in SUBSET S, p \cap q = {}
  PROVE  w[p \cup q] = w[p] + w[q]
<1> DEFINE Good(s) == w[s \cup q] = w[s] + w[q]
           B == {s \in SUBSET p : ~Good(s)}
<1>1. IsFiniteSet(p)
  BY FS_Subset
<1>2. ASSUME B # {} PROVE FALSE
  <2>0. B \in SUBSET (SUBSET p)
    OBVIOUS
  <2>1. PICK s \in B : \A c \in SUBSET s : c # s => c \notin B
    <3> HIDE DEF B
    <3> QED BY <1>1, <1>2, <2>0, LeastSubset
  <2>2. s \in SUBSET p /\ s \in SUBSET S
    BY <2>1
  <2>3. s # {}
    <3>1. {} \cup q = q /\ w[{}] = 0 /\ w[q] \in Nat
      BY DEF Sums
    <3>2. w[{} \cup q] = w[{}] + w[q]
      BY <3>1
    <3> QED BY <2>1, <3>2
  <2>4. PICK a \in s : TRUE
    BY <2>3
  <2> DEFINE r == s \ {a}
  <2>5. r \in SUBSET s /\ r # s /\ r \in SUBSET p /\ r \in SUBSET S
    BY <2>2, <2>4
  <2>6. Good(r)
    BY <2>1, <2>5
  <2>7. (s \cup q) \ {a} = r \cup q /\ a \in s \cup q /\ s \cup q \in SUBSET S /\ g[a] \in Nat
    BY <2>2, <2>4
  <2>8. w[s \cup q] = g[a] + w[r \cup q] /\ w[s] = g[a] + w[r] /\ w[r] \in Nat /\ w[q] \in Nat
    BY <2>2, <2>4, <2>5, <2>7 DEF Sums
  <2> HIDE DEF r
  <2>9. Good(s)
    BY <2>6, <2>7, <2>8
  <2> QED BY <2>1, <2>9
<1>3. p \in SUBSET p
  OBVIOUS
<1> QED BY <1>2, <1>3

Image(h, s) == {h[x] : x \in s}

\* Over the images of what h tells apart.
LEMMA SumOfImage ==
  ASSUME NEW S, NEW g \in [S -> Nat], NEW w, Sums(g, S, w),
         NEW D, IsFiniteSet(D), NEW k \in [D -> Nat], NEW v, Sums(k, D, v),
         NEW h \in [D -> S], \A x, y \in D : x # y => h[x] # h[y],
         \A x \in D : k[x] = g[h[x]]
  PROVE  v[D] = w[Image(h, D)]
<1> DEFINE Good(s) == v[s] = w[Image(h, s)]
           B == {s \in SUBSET D : ~Good(s)}
<1>1. ASSUME B # {} PROVE FALSE
  <2>0. B \in SUBSET (SUBSET D)
    OBVIOUS
  <2>1. PICK s \in B : \A c \in SUBSET s : c # s => c \notin B
    <3> HIDE DEF B
    <3> QED BY <1>1, <2>0, LeastSubset
  <2>2. s \in SUBSET D
    BY <2>1
  <2>3. s # {}
    <3>1. Image(h, {}) = {} /\ v[{}] = w[{}]
      BY DEF Image, Sums
    <3> QED BY <2>1, <3>1
  <2>4. PICK a \in s : TRUE
    BY <2>3
  <2> DEFINE r == s \ {a}
  <2>5. r \in SUBSET s /\ r # s /\ r \in SUBSET D
    BY <2>2, <2>4
  <2>6. Good(r)
    BY <2>1, <2>5
  <2>7. Image(h, s) \in SUBSET S /\ h[a] \in Image(h, s)
    BY <2>2, <2>4 DEF Image
  <2>8. Image(h, s) \ {h[a]} = Image(h, r)
    <3>1. ASSUME NEW y \in Image(h, s) \ {h[a]} PROVE y \in Image(h, r)
      BY <2>4, <3>1 DEF Image
    <3>2. ASSUME NEW y \in Image(h, r) PROVE y \in Image(h, s) /\ y # h[a]
      BY <2>2, <2>4, <2>5, <3>2 DEF Image
    <3> QED BY <3>1, <3>2
  <2>9. v[s] = k[a] + v[r] /\ w[Image(h, s)] = g[h[a]] + w[Image(h, r)] /\ k[a] = g[h[a]]
    <3>1. v[s] = k[a] + v[r]
      BY <2>2, <2>4 DEF Sums
    <3>2. w[Image(h, s)] = g[h[a]] + w[Image(h, s) \ {h[a]}]
      BY <2>7 DEF Sums
    <3>3. k[a] = g[h[a]]
      BY <2>2, <2>4
    <3> QED BY <2>8, <3>1, <3>2, <3>3
  <2>10. Good(s)
    BY <2>6, <2>9
  <2> QED BY <2>1, <2>10
<1>2. D \in SUBSET D
  OBVIOUS
<1> QED BY <1>1, <1>2

-----------------------------------------------------------------------------
(* What heap_stats adds up                                                  *)

Weights == [b \in Blocks |-> size[b] + Header]

\* The blocks before an address fill the heap up to it.
LEMMA TilesAddUp ==
  ASSUME Tiled, NEW w, Sums(Weights, Blocks, w)
  PROVE  w[Blocks] = HeapSize
<1> DEFINE Below(a) == {b \in Blocks : b < a}
           Ends == Blocks \cup {HeapSize}
           Bad == {a \in Ends : w[Below(a)] # a}
<1>1. /\ Blocks \subseteq Nat /\ HeapSize \in Nat /\ Ends \subseteq Nat /\ 0 \in Blocks
      /\ \A b \in Blocks : b <= HeapSize /\ size[b] \in Nat
  BY HeapAssumption DEF Tiled, TypeOK
<1>2. \A b \in Blocks : End(b) \in Ends /\ End(b) <= HeapSize /\ b < End(b) /\ End(b) = b + (size[b] + 3)
                      /\ \A c \in Blocks : b < c => End(b) <= c
  BY <1>1 DEF Tiled, End, Header
<1>3. IsFiniteSet(Blocks)
  BY <1>1, FS_BoundedSetOfNaturals
<1>4. ASSUME Bad # {} PROVE FALSE
  <2>0. Bad \in SUBSET Nat
    BY <1>1
  <2>1. PICK a \in Bad : \A c \in Bad : a <= c
    BY <1>4, <2>0, NatHasLeast
  <2>2. a \in Ends /\ a \in Nat /\ w[Below(a)] # a
    BY <1>1, <2>1
  <2>3. a # 0
    <3>1. Below(0) = {}
      <4>1. ASSUME NEW b \in Blocks, b < 0 PROVE FALSE
        <5>1. b \in Nat
          BY <1>1
        <5> QED BY <4>1, <5>1
      <4> QED BY <4>1
    <3>2. w[Below(0)] = 0
      BY <3>1 DEF Sums
    <3> QED BY <2>2, <3>2
  <2>4. a <= HeapSize
    BY <1>1, <2>2
  \* The last block before a ends at a.
  <2>5. PICK b \in Below(a) : \A c \in Below(a) : c <= b
    <3> DEFINE Gaps == {a - c : c \in Below(a)}
    <3>1. Gaps \in SUBSET Nat /\ a - 0 \in Gaps
      BY <1>1, <2>2, <2>3
    <3> HIDE DEF Gaps
    <3>2. PICK p \in Gaps : \A q \in Gaps : p <= q
      BY <3>1, NatHasLeast
    <3>3. PICK b \in Below(a) : p = a - b
      BY <3>2 DEF Gaps
    <3>4. ASSUME NEW c \in Below(a) PROVE c <= b
      <4>1. a - c \in Gaps
        BY DEF Gaps
      <4>2. a - b <= a - c /\ b \in Nat /\ c \in Nat
        BY <1>1, <3>2, <3>3, <4>1
      <4> QED BY <2>2, <4>2
    <3> QED BY <3>4
  <2>6. b \in Blocks /\ b < a /\ b \in Nat
    BY <1>1, <2>5
  <2>7. End(b) = a
    <3>1. End(b) <= a
      <4>1. CASE a \in Blocks
        BY <1>2, <2>6, <4>1
      <4>2. CASE a = HeapSize
        BY <1>2, <2>6, <4>2
      <4> QED BY <2>2, <4>1, <4>2
    <3>2. ASSUME End(b) < a PROVE FALSE
      <4>1. End(b) \in Blocks
        BY <1>1, <1>2, <2>4, <2>6, <3>2
      <4>2. End(b) <= b
        BY <2>5, <3>2, <4>1
      <4> QED BY <1>1, <1>2, <2>6, <4>1, <4>2
    <3>3. End(b) \in Nat
      BY <1>1, <1>2, <2>6
    <3> QED BY <2>2, <3>1, <3>2, <3>3
  <2>8. w[Below(b)] = b
    <3>1. b \notin Bad
      BY <2>1, <2>2, <2>6
    <3> QED BY <2>6, <3>1
  <2>9. Below(a) \ {b} = Below(b)
    <3>1. ASSUME NEW c \in Below(a) \ {b} PROVE c \in Below(b)
      <4>1. c \in Blocks /\ c \in Nat /\ c <= b /\ c # b
        BY <1>1, <2>5, <3>1
      <4> QED BY <2>6, <4>1
    <3>2. ASSUME NEW c \in Below(b) PROVE c \in Below(a) \ {b}
      <4>1. c \in Blocks /\ c \in Nat /\ c < b
        BY <1>1, <3>2
      <4> QED BY <2>2, <2>6, <4>1
    <3> HIDE DEF Below
    <3> QED BY <3>1, <3>2
  <2>10. w[Below(a)] = Weights[b] + w[Below(b)]
    BY <2>5, <2>9 DEF Sums
  <2>11. Weights[b] = size[b] + 3
    BY <2>6 DEF Weights, Header
  <2> HIDE DEF Below
  <2>12. w[Below(a)] = a
    BY <1>1, <1>2, <2>6, <2>7, <2>8, <2>10, <2>11
  <2> QED BY <2>2, <2>12
<1>5. w[Below(HeapSize)] = HeapSize
  BY <1>4
<1>6. Below(HeapSize) = Blocks
  <2>1. ASSUME NEW b \in Blocks PROVE b < HeapSize
    <3>1. b < End(b) /\ End(b) <= HeapSize /\ b \in Nat /\ End(b) \in Nat /\ HeapSize \in Nat
      BY <1>1, <1>2
    <3> QED BY <3>1
  <2> QED BY <2>1
<1> QED BY <1>5, <1>6

\* The fold over the indices of the list, as such a sum.
LEMMA ListSum ==
  ASSUME NEW S, NEW w, AddsUp([i \in S |-> size[free_list[i]] + Header], S, w)
  PROVE  \E v : AddsUp([i \in S |-> size[free_list[i]] + Header], S, v)
                /\ MapThenSumSet(LAMBDA i : size[free_list[i]] + Header, S) = v[S]
<1> DEFINE F(v) == [s \in SUBSET S |-> IF s = {} THEN 0 ELSE (size[free_list[CHOOSE x \in s : TRUE]] + Header)
                                                          + v[s \ {CHOOSE x \in s : TRUE}]]
           v == CHOOSE v : v = F(v)
<1>1. MapThenSumSet(LAMBDA i : size[free_list[i]] + Header, S) = v[S]
  BY Zenon DEF MapThenSumSet, MapThenFoldSet
<1>2. ASSUME NEW u PROVE Added([i \in S |-> size[free_list[i]] + Header], S, u) = F(u)
  <2>1. ASSUME NEW s \in SUBSET S, s # {} PROVE Any(s) \in S
    BY <2>1, AnyIn
  <2> QED BY <2>1 DEF Added, Any
<1> HIDE DEF F
<1>3. w = F(w)
  BY <1>2 DEF AddsUp
<1>4. v = F(v)
  BY <1>3
<1> HIDE DEF v
<1> QED BY <1>1, <1>2, <1>4 DEF AddsUp

\* And the one over blocks.
LEMMA BlockSum ==
  ASSUME NEW S, NEW w, AddsUp([b \in S |-> size[b] + Header], S, w)
  PROVE  \E v : AddsUp([b \in S |-> size[b] + Header], S, v)
                /\ MapThenSumSet(LAMBDA b : size[b] + Header, S) = v[S]
<1> DEFINE F(v) == [s \in SUBSET S |-> IF s = {} THEN 0 ELSE (size[CHOOSE x \in s : TRUE] + Header)
                                                          + v[s \ {CHOOSE x \in s : TRUE}]]
           v == CHOOSE v : v = F(v)
<1>1. MapThenSumSet(LAMBDA b : size[b] + Header, S) = v[S]
  BY Zenon DEF MapThenSumSet, MapThenFoldSet
<1>2. ASSUME NEW u PROVE Added([b \in S |-> size[b] + Header], S, u) = F(u)
  <2>1. ASSUME NEW s \in SUBSET S, s # {} PROVE Any(s) \in S
    BY <2>1, AnyIn
  <2> QED BY <2>1 DEF Added, Any
<1> HIDE DEF F
<1>3. w = F(w)
  BY <1>2 DEF AddsUp
<1>4. v = F(v)
  BY <1>3
<1> HIDE DEF v
<1> QED BY <1>1, <1>2, <1>4 DEF AddsUp

LEMMA SumsExact ==
  ASSUME HeapInv
  PROVE  StatsExact
<1> DEFINE D == DOMAIN free_list
           k == [i \in D |-> size[free_list[i]] + Header]
           g == Weights
           H == HeldBlocks
           f == [b \in H |-> size[b] + Header]
           h == [i \in D |-> free_list[i]]
           id == [b \in H |-> b]
<1>1. Tiled /\ FreeListExact
  BY DEF HeapInv
<1>2. /\ Blocks \in SUBSET Nat /\ \A b \in Blocks : b <= HeapSize /\ size[b] + Header \in Nat
      /\ D = 1..Len(free_list) /\ Len(free_list) \in Nat /\ \A i \in D : free_list[i] \in Blocks
      /\ H \in SUBSET Blocks /\ FreeBlocks = Blocks \ H /\ HeapSize \in Nat
      /\ \A i, j \in D : i # j => free_list[i] # free_list[j]
  BY <1>1, HeapAssumption DEF Tiled, TypeOK, FreeListExact, Header
<1>3. IsFiniteSet(Blocks) /\ IsFiniteSet(D) /\ IsFiniteSet(H)
  <2>1. IsFiniteSet(Blocks)
    BY <1>2, FS_BoundedSetOfNaturals
  <2>2. IsFiniteSet(1..Len(free_list))
    BY <1>2, FS_Interval
  <2> QED BY <1>2, <2>1, <2>2, FS_Subset
<1>4. /\ k \in [D -> Nat] /\ g \in [Blocks -> Nat] /\ f \in [H -> Nat]
      /\ h \in [D -> Blocks] /\ id \in [H -> Blocks]
  BY <1>2 DEF Weights
<1> HIDE DEF D, H
<1>5. PICK v : AddsUp(k, D, v) /\ free_sum = v[D]
  <2>1. PICK w : AddsUp(k, D, w)
    BY <1>3, AddsUpExists
  <2>2. \E v : AddsUp(k, D, v) /\ MapThenSumSet(LAMBDA i : size[free_list[i]] + Header, D) = v[D]
    BY <2>1, ListSum
  <2> QED BY <2>2 DEF free_sum, D
<1>6. PICK u : AddsUp(f, H, u) /\ MapThenSumSet(LAMBDA b : size[b] + Header, HeldBlocks) = u[H]
  <2>1. PICK w : AddsUp(f, H, w)
    BY <1>3, AddsUpExists
  <2>2. \E x : AddsUp(f, H, x) /\ MapThenSumSet(LAMBDA b : size[b] + Header, H) = x[H]
    BY <2>1, BlockSum
  <2> QED BY <2>2 DEF H
<1>7. PICK w : AddsUp(g, Blocks, w)
  BY <1>3, AddsUpExists
<1>8. Sums(k, D, v) /\ Sums(f, H, u) /\ Sums(g, Blocks, w)
  <2> HIDE DEF k, f, g
  <2>1. Sums(k, D, v)
    BY <1>3, <1>4, <1>5, SumTakes, Zenon
  <2>2. Sums(f, H, u)
    BY <1>3, <1>4, <1>6, SumTakes, Zenon
  <2>3. Sums(g, Blocks, w)
    BY <1>3, <1>4, <1>7, SumTakes, Zenon
  <2> QED BY <2>1, <2>2, <2>3
<1>9. v[D] = w[Image(h, D)]
  <2>1. (\A x, y \in D : x # y => h[x] # h[y]) /\ (\A x \in D : k[x] = g[h[x]])
    BY <1>2 DEF Weights
  <2> HIDE DEF h, k, g
  <2> QED BY <1>3, <1>4, <1>8, <2>1, SumOfImage
<1>10. u[H] = w[Image(id, H)]
  <2>1. (\A x, y \in H : x # y => id[x] # id[y]) /\ (\A x \in H : f[x] = g[id[x]])
    BY <1>2 DEF Weights
  <2> HIDE DEF id, f, g
  <2> QED BY <1>3, <1>4, <1>8, <2>1, SumOfImage
<1>11. Image(h, D) = Blocks \ H /\ Image(id, H) = H
  BY <1>2 DEF Image, FreeBlocks, D
<1>12. w[Blocks] = HeapSize
  BY <1>1, <1>8, TilesAddUp
<1>13. w[Blocks] = w[Blocks \ H] + w[H]
  <2> DEFINE r == Blocks \ H
  <2>1. r \in SUBSET Blocks /\ r \cap H = {} /\ r \cup H = Blocks
    BY <1>2
  <2> HIDE DEF r, g
  <2>2. w[r \cup H] = w[r] + w[H]
    <3>1. IsFiniteSet(Blocks) /\ g \in [Blocks -> Nat] /\ Sums(g, Blocks, w) /\ H \in SUBSET Blocks
      BY <1>2, <1>3, <1>4, <1>8
    <3>2. \A p, q \in SUBSET Blocks : p \cap q = {} => w[p \cup q] = w[p] + w[q]
      BY <3>1, SumOfTwo
    <3> QED BY <2>1, <3>1, <3>2
  <2> QED BY <2>1, <2>2 DEF r
<1>14. w[Blocks \ H] \in Nat /\ w[H] \in Nat
  BY <1>2, <1>8 DEF Sums
<1>15. free_sum = w[Blocks \ H] /\ MapThenSumSet(LAMBDA b : size[b] + Header, HeldBlocks) = w[H]
  BY <1>5, <1>6, <1>9, <1>10, <1>11
<1>16. HeapSize - free_sum = w[H]
  <2> DEFINE a == w[Blocks \ H]
             b == w[H]
  <2>1. a \in Nat /\ b \in Nat /\ HeapSize = a + b /\ free_sum = a
    BY <1>12, <1>13, <1>14, <1>15
  <2> HIDE DEF a, b
  <2>2. HeapSize - free_sum = b
    BY <2>1
  <2> QED BY <2>2 DEF b
<1> QED BY <1>15, <1>16 DEF StatsExact

\* What heap_stats reports as used, the heap less the sum of the free list, is
\* the blocks that callers hold with their headers.
THEOREM StatsCorrect == Spec => []StatsExact
<1>1. HeapInv => StatsExact
  BY SumsExact
<1> QED BY <1>1, HeapCorrect, PTL
=============================================================================
