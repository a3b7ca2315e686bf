-------------------------------- MODULE Pmem --------------------------------
(***************************************************************************)
(* Physical memory (src/src/memory.c): the region kernel_main chooses from  *)
(* the memory map of the BIOS, and the bitmap of its pages.                 *)
(*                                                                         *)
(* Addresses and sizes are in pages of 4KB.  A call runs to its end before  *)
(* another one starts, but for pmem_alloc_pages, which calls itself.        *)
(***************************************************************************)
EXTENDS Integers, FiniteSets, Sequences

CONSTANTS
  E820Maps,     \* the memory maps a BIOS may report: sequences of entries
  OneMB,        \* 0x100000, in pages
  Base,         \* 0x800000, the lowest start of the region, in pages
  Cap,          \* 0x40000000, the largest region, in pages
  Fallback,     \* 0x400000, start and size of the region without a map
  AddressRange, \* 2^32, in pages: addresses have 32 bits
  BitsPerPage,  \* bits of a page of the bitmap
  MaxCount,     \* bound on the pages asked for at once
  MaxDepth,     \* the depth of recursion at which the stack is gone
  Occupied      \* pages in use that pmem knows nothing of: the tables of boot2,
                \* the stacks, the DMA buffer, shell, kernel, heap

ASSUME PmemAssumption ==
  /\ OneMB \in Nat /\ Base \in Nat /\ OneMB <= Base
  /\ Cap \in Nat \ {0} /\ Fallback \in Nat /\ AddressRange \in Nat \ {0}
  /\ BitsPerPage \in Nat \ {0}
  /\ MaxCount \in Nat /\ MaxDepth \in Nat \ {0} /\ Occupied \subseteq Nat
  /\ \A m \in E820Maps : \A i \in DOMAIN m : m[i].base \in Nat /\ m[i].length \in Nat

-----------------------------------------------------------------------------
(* The region                                                              *)

End(e) == e.base + e.length
UsableStart(e) == IF e.base < OneMB THEN OneMB ELSE e.base
UsableSize(e) == End(e) - UsableStart(e)
Usable(m) == {i \in DOMAIN m : m[i].ram /\ End(m[i]) > OneMB}

\* The first of the largest entries.
e820_find_largest_region(m) ==
  CHOOSE i \in Usable(m) : \A j \in Usable(m) :
    \/ UsableSize(m[j]) < UsableSize(m[i])
    \/ UsableSize(m[j]) = UsableSize(m[i]) /\ i <= j

RegionStart(e) == IF UsableStart(e) > Base THEN UsableStart(e) ELSE Base

\* A size below zero wraps to one that is capped.
RegionSize(e) ==
  LET size == UsableStart(e) + UsableSize(e) - RegionStart(e)
  IN  IF size < 0 \/ size > Cap THEN Cap ELSE size

-----------------------------------------------------------------------------

VARIABLES
  map,           \* the memory map
  memory_start,  \* where the bitmap lies, and the region starts
  total_pages,
  used,          \* the pages whose bit is set
  free_pages,
  pc, want,      \* a pmem_alloc_pages that has not returned, and its argument
  depth,         \* how often it has called itself
  owners         \* ghost: how often a page has been handed out and not freed

region == <<map, memory_start, total_pages>>
bits == <<used, free_pages>>
call == <<pc, want, depth>>
pmem == <<region, bits, call, owners>>

Pages == 0..(total_pages - 1)
FreePages == Pages \ used

\* The pages that pmem_init marks, as many as the bitmap takes.
MarkedPages(total) == {p \in 0..(total - 1) : p * BitsPerPage < total}

\* The pages it takes: bit p stands for the address p * 4096, and the bitmap
\* lies at the start of the region.
BitmapPages == memory_start..(memory_start + Cardinality(MarkedPages(total_pages)) - 1)

IsRam(p) ==
  Usable(map) = {} \/ \E k \in DOMAIN map : map[k].ram /\ map[k].base <= p /\ p < End(map[k])

\* The bitmap lies on what is in use or is not memory, or a page was handed out
\* that is in use, is the bitmap's or is not memory.  What is written to it then
\* may change the bits, the tables or anything else, as does a stack that has
\* grown over what lies below it, and the model ends.
Spoilt ==
  \/ depth = MaxDepth
  \/ \E p \in BitmapPages : p \in Occupied \/ ~IsRam(p)
  \/ \E p \in Pages : owners[p] > 0 /\ (p \in Occupied \/ p \in BitmapPages \/ ~IsRam(p))

TypeOK ==
  /\ memory_start \in Nat /\ total_pages \in Nat
  /\ used \subseteq Pages /\ free_pages \in 0..total_pages
  /\ pc \in {"idle", "alloc_pages"} /\ want \in 0..MaxCount /\ depth \in 0..MaxDepth
  /\ owners \in [Pages -> Nat]

\* pmem_init.
pmem_init(start, size) ==
  /\ memory_start = start /\ total_pages = size
  /\ used = MarkedPages(size)
  /\ free_pages = size - Cardinality(MarkedPages(size))
  /\ owners = [p \in 0..(size - 1) |-> 0]
  /\ pc = "idle" /\ want = 0 /\ depth = 0

\* kernel_main, which passes on the low 32 bits of the start.
Init ==
  /\ map \in E820Maps
  /\ \/ /\ Usable(map) = {}
        /\ pmem_init(Fallback, Fallback)
     \/ \E i \in Usable(map) :
          /\ i = e820_find_largest_region(map)
          /\ pmem_init(RegionStart(map[i]) % AddressRange, RegionSize(map[i]))

-----------------------------------------------------------------------------
(* Operations                                                              *)

\* find_free_page(0).
IsFirst(p, free) == p \in free /\ \A q \in free : p <= q
IsFirstFree(p) == IsFirst(p, FreePages)

\* bitmap_set for n pages.
Taken(first, n) ==
  /\ used' = used \cup (first..(first + n - 1))
  /\ free_pages' = free_pages - n

HandOut(first, n) ==
  owners' = [p \in Pages |->
               IF p \in first..(first + n - 1) THEN owners[p] + 1 ELSE owners[p]]

\* A single page; 0, when there is none.
pmem_alloc_page ==
  /\ pc = "idle"
  /\ \E p \in FreePages : IsFirstFree(p) /\ Taken(p, 1) /\ HandOut(p, 1)
  /\ UNCHANGED <<region, call>>

\* The call, with a count above 0.
CallAllocPages(n) ==
  /\ pc = "idle" /\ n > 0
  /\ pc' = "alloc_pages" /\ want' = n
  /\ UNCHANGED <<region, bits, depth, owners>>

Return == pc' = "idle" /\ want' = 0 /\ depth' = 0

\* Mutant: pages are counted that are not free.
EnoughLoose == free_pages + 1 >= want
Enough == free_pages >= want

AllocPagesFails ==
  /\ pc = "alloc_pages" /\ ~Enough
  /\ Return
  /\ UNCHANGED <<region, bits, owners>>

Run(first) == first..(first + want - 1)

\* Mutant: the last page of the run is not looked at.
IsFreeRunShort(first) == \A p \in Run(first) \ {first + want - 1} : p \notin used
IsFreeRun(first) == \A p \in Run(first) : p \notin used

AllocPagesFound ==
  /\ pc = "alloc_pages" /\ Enough
  /\ \E first \in FreePages :
       /\ IsFirstFree(first) /\ IsFreeRun(first)
       /\ Taken(first, want) /\ HandOut(first, want)
  /\ Return
  /\ UNCHANGED region

\* The first free page has too few behind it: the same call once more.
AllocPagesAgain ==
  /\ pc = "alloc_pages" /\ Enough
  /\ \A first \in FreePages : IsFirstFree(first) => ~IsFreeRun(first)
  /\ depth' = depth + 1
  /\ UNCHANGED <<region, bits, pc, want, owners>>

\* Mutant: no test for pages that are free already.
FreedTwice(first, n) ==
  /\ used' = used \ (first..(first + n - 1))
  /\ free_pages' = free_pages + n
\* pmem_free_page, for n pages in turn: page 0, pages beyond the region and
\* free pages are left alone.
Freed(first, n) ==
  LET freed == ((first..(first + n - 1)) \cap used) \ {0}
  IN  /\ used' = used \ freed
      /\ free_pages' = free_pages + Cardinality(freed)

\* Callers free pages that they hold, or that nobody does any more.
pmem_free_pages(first, n) ==
  /\ pc = "idle"
  /\ \A p \in (first..(first + n - 1)) \cap used : owners[p] > 0
  /\ Freed(first, n)
  /\ owners' = [p \in Pages |-> IF p \in first..(first + n - 1) THEN 0 ELSE owners[p]]
  /\ UNCHANGED <<region, call>>

Operations ==
  \/ pmem_alloc_page
  \/ \E n \in 1..MaxCount : CallAllocPages(n)
  \/ AllocPagesFails \/ AllocPagesFound \/ AllocPagesAgain
  \/ \E first \in Pages, n \in 1..MaxCount : pmem_free_pages(first, n)

Next == \/ ~Spoilt /\ Operations
        \/ Spoilt /\ UNCHANGED pmem

Spec == Init /\ [][Next]_pmem

-----------------------------------------------------------------------------
(* Properties                                                              *)

\* pmem.free_pages is the number of clear bits, after any allocations and frees,
\* frees of pages that are free already included.
CountExact == free_pages = Cardinality(FreePages)

\* No page is handed out to two callers, and none is lost: the bits set are those
\* that pmem_init marked and those of the pages handed out.
PagesAccounted ==
  /\ \A p \in Pages : owners[p] <= 1
  /\ used = MarkedPages(total_pages) \cup {p \in Pages : owners[p] = 1}
  /\ \A p \in MarkedPages(total_pages) : owners[p] = 0

\* The test of a run stops at a page in use before it leaves the bitmap, though
\* only the number of free pages is checked before.
ScanInBitmap ==
  pc = "alloc_pages" /\ Enough =>
    \A first \in FreePages :
      IsFirstFree(first) => Run(first) \subseteq Pages \/ Run(first) \cap used # {}
=============================================================================
