-------------------------------- MODULE Heap --------------------------------
(***************************************************************************)
(* The kernel heap (src/src/heap.c), which serves the kernel and, through   *)
(* system calls, every program.  A call runs to its end before another one  *)
(* starts.                                                                  *)
(*                                                                         *)
(* Addresses and sizes are in units of 8 bytes from heap_start: a block is  *)
(* a header of 3 units (size, next, magic) and its data, and sizes are      *)
(* rounded up to 2 units (ALIGNMENT).  A block is named by the address of   *)
(* its header; the pointer to it is that of its data.  Callers pass back     *)
(* only pointers they hold, so the check of the magic always succeeds.      *)
(***************************************************************************)
EXTENDS Naturals, Sequences, FiniteSetsExt

CONSTANTS
  HeapSize,   \* heap_size, in units
  SizeRange,  \* number of values of a size_t, in units
  Sizes,      \* what callers ask for, in units
  Counts      \* nmemb of calloc

Header    == 3    \* BLOCK_HEADER_SIZE
Alignment == 2    \* ALIGNMENT

ASSUME HeapAssumption ==
  /\ HeapSize \in Nat /\ Header <= HeapSize
  /\ SizeRange \in Nat \ {0}
  /\ Sizes \subseteq Nat /\ Counts \subseteq Nat

VARIABLES
  size,       \* block |-> size, for the blocks the heap is cut into
  free_list,  \* the free blocks, in the order of the list
  held        \* ghost: pointer |-> size asked for, for what callers hold

vars == <<size, free_list, held>>

Blocks == DOMAIN size
FreeBlocks == {free_list[i] : i \in DOMAIN free_list}
End(b) == b + Header + size[b]

Ptr(b) == b + Header
Block(p) == p - Header
HeldBlocks == {Block(p) : p \in DOMAIN held}

TypeOK ==
  /\ Blocks \subseteq 0..HeapSize /\ size \in [Blocks -> 0..HeapSize]
  /\ free_list \in Seq(Blocks)
  /\ DOMAIN held \subseteq Nat /\ HeldBlocks \subseteq Blocks
  /\ held \in [DOMAIN held -> Nat]

-----------------------------------------------------------------------------
(* Operators                                                               *)

\* (size + ALIGNMENT - 1) & ~(ALIGNMENT - 1), in the arithmetic of a size_t.
align_size(n) ==
  LET m == (n + Alignment - 1) % SizeRange IN m - (m % Alignment)

\* Where the first block of the list that is large enough is.
IsFirstFit(i, need) ==
  /\ i \in DOMAIN free_list /\ size[free_list[i]] >= need
  /\ \A j \in 1..(i-1) : size[free_list[j]] < need
NoFit(need) == \A i \in DOMAIN free_list : size[free_list[i]] < need

Splittable(b, need) == size[b] >= need + Header + Alignment

\* The part of b that split_block cuts off.
Rest(b, need) == b + Header + need

\* Mutant: the rest keeps the space of its own header.
SizesAfterLong(b, need) ==
  [x \in Blocks \cup {Rest(b, need)} |->
     IF x = b THEN need
     ELSE IF x = Rest(b, need) THEN size[b] - need ELSE size[x]]
SizesAfterSplit(b, need) ==
  [x \in Blocks \cup {Rest(b, need)} |->
     IF x = b THEN need
     ELSE IF x = Rest(b, need) THEN size[b] - need - Header ELSE size[x]]

\* s without its i-th element.
Unlinked(s, i) == [j \in 1..(Len(s) - 1) |-> IF j < i THEN s[j] ELSE s[j + 1]]

\* Mutant: only a block that is not split leaves the list.
ListAfterKept(i, need) ==
  LET b == free_list[i]
  IN  IF Splittable(b, need) THEN [free_list EXCEPT ![i] = Rest(b, need)] ELSE free_list
\* split_block puts the rest behind the block, and remove_from_free_list takes
\* the block out.
ListAfter(i, need) ==
  LET b == free_list[i]
  IN  IF Splittable(b, need) THEN [free_list EXCEPT ![i] = Rest(b, need)]
                             ELSE Unlinked(free_list, i)
SizesAfter(b, need) == IF Splittable(b, need) THEN SizesAfterSplit(b, need) ELSE size

Hold(h, p, n) == [q \in DOMAIN h \cup {p} |-> IF q = p THEN n ELSE h[q]]
Drop(h, p) == [q \in DOMAIN h \ {p} |-> h[q]]

-----------------------------------------------------------------------------
(* malloc, calloc, free, realloc.  A call that finds no block that fits, or  *)
(* is asked for nothing, returns NULL and leaves everything as it is.        *)

Malloc(n) ==
  /\ n > 0
  /\ \E i \in DOMAIN free_list :
       /\ IsFirstFit(i, align_size(n))
       /\ size' = SizesAfter(free_list[i], align_size(n))
       /\ free_list' = ListAfter(i, align_size(n))
       /\ held' = Hold(held, Ptr(free_list[i]), n)

MallocFails(n) == (n = 0 \/ NoFit(align_size(n))) /\ UNCHANGED vars

\* malloc of the product, which a size_t may not hold; the zeroes are left out.
Calloc(m, n) == Malloc((m * n) % SizeRange)

\* free, and realloc to 0.
Free(p) ==
  /\ free_list' = <<Block(p)>> \o free_list
  /\ held' = Drop(held, p)
  /\ UNCHANGED size

\* Mutant: the size is compared with the room up to the next block's data.
ReallocHereLoose(p, n) ==
  /\ n > 0
  /\ align_size(n) <= size[Block(p)] + Header
  /\ held' = Hold(held, p, n)
  /\ UNCHANGED <<size, free_list>>
\* A block that is large enough is kept as it is, and is never cut.
ReallocHere(p, n) ==
  /\ n > 0
  /\ align_size(n) <= size[Block(p)]
  /\ held' = Hold(held, p, n)
  /\ UNCHANGED <<size, free_list>>

ReallocMove(p, n) ==
  /\ n > 0
  /\ align_size(n) > size[Block(p)]
  /\ \E i \in DOMAIN free_list :
       /\ IsFirstFit(i, align_size(n))
       /\ size' = SizesAfter(free_list[i], align_size(n))
       /\ free_list' = <<Block(p)>> \o ListAfter(i, align_size(n))
       /\ held' = Drop(Hold(held, Ptr(free_list[i]), n), p)

\* The old block stays the caller's.
ReallocFails(p, n) ==
  /\ n > 0
  /\ align_size(n) > size[Block(p)]
  /\ NoFit(align_size(n))
  /\ UNCHANGED vars

\* heap_init: one free block.
Init ==
  /\ size = [b \in {0} |-> HeapSize - Header]
  /\ free_list = <<0>>
  /\ held = [b \in {} |-> 0]

Next ==
  \/ \E n \in Sizes : Malloc(n) \/ MallocFails(n)
  \/ \E m \in Counts, n \in Sizes : Calloc(m, n)
  \/ \E p \in DOMAIN held :
       \/ Free(p)
       \/ \E n \in Sizes : ReallocHere(p, n) \/ ReallocMove(p, n) \/ ReallocFails(p, n)

Spec == Init /\ [][Next]_vars

-----------------------------------------------------------------------------
(* Properties                                                              *)

\* The blocks are the heap, from its first unit to its last, without gaps and
\* without overlap: no call of split_block makes or loses a unit.
Tiled ==
  /\ TypeOK
  /\ 0 \in Blocks
  /\ \A b \in Blocks :
       /\ End(b) = HeapSize \/ End(b) \in Blocks
       /\ End(b) <= HeapSize
       /\ \A c \in Blocks : b < c => End(b) <= c

\* The list holds every block no caller holds, once, and no other: nothing is
\* handed out twice and nothing is lost to the heap.
FreeListExact ==
  /\ FreeBlocks = Blocks \ HeldBlocks
  /\ \A i, j \in DOMAIN free_list : i # j => free_list[i] # free_list[j]

\* Inductive: the type of everything, the blocks and the list of the free ones.
HeapInv == Tiled /\ FreeListExact

\* What heap_stats reports as free, from a walk of the list, is all but what
\* the callers hold, with one header each.
free_sum ==
  MapThenSumSet(LAMBDA i : size[free_list[i]] + Header, DOMAIN free_list)
StatsExact == HeapSize - free_sum = MapThenSumSet(LAMBDA b : size[b] + Header, HeldBlocks)

\* The block of a caller is as large as what the caller asked for, rounding
\* and reallocation included ("Align size up", heap.c:21).
HeldFits == \A p \in DOMAIN held : held[p] <= size[Block(p)]

\* The lengths callers ask for.
Requests == Sizes \cup {(m * n) % SizeRange : m \in Counts, n \in Sizes}
Abs == INSTANCE HeapSpec

\* Callers see regions that never overlap and never change but by a call.
Regions == Abs!Spec

=============================================================================
