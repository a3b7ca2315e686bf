----------------------------- MODULE VmmProofs -----------------------------
(***************************************************************************)
(* What Pmem and Vmm guarantee.  First the page bitmap, for every memory     *)
(* map, size of the region and number of pages asked for.  Then paging, for  *)
(* tables of every size and every use of the range calls: the tables form a  *)
(* tree, the translations that the processor has kept are those of the       *)
(* tables, and ranges are mapped as a whole or not at all.                   *)
(***************************************************************************)
EXTENDS Vmm, FiniteSetTheorems, WellFoundedInduction, TLAPS

-----------------------------------------------------------------------------
(* The page bitmap                                                          *)

\* Nothing is asked for while no pmem_alloc_pages runs, and something while one does.
WantInv == pc = "alloc_pages" => want > 0

PmemInv == TypeOK /\ WantInv /\ CountExact /\ PagesAccounted

-----------------------------------------------------------------------------
(* Counting pages                                                          *)

LEMMA PagesFinite ==
  ASSUME total_pages \in Nat, NEW S \in SUBSET Pages
  PROVE  IsFiniteSet(S) /\ Cardinality(S) \in 0..total_pages
<1>1. IsFiniteSet(Pages) /\ Cardinality(Pages) = total_pages
  BY FS_Interval DEF Pages
<1>2. IsFiniteSet(S) /\ Cardinality(S) <= Cardinality(Pages)
  BY <1>1, FS_Subset
<1>3. Cardinality(S) \in Nat
  BY <1>2, FS_CardinalityType
<1> QED BY <1>1, <1>2, <1>3

\* Setting the bits of free pages makes as many fewer free.
LEMMA CountTaken ==
  ASSUME total_pages \in Nat, used \subseteq Pages,
         NEW S \in SUBSET (Pages \ used)
  PROVE  Cardinality(Pages \ (used \cup S)) = Cardinality(Pages \ used) - Cardinality(S)
<1> DEFINE Rest == Pages \ (used \cup S)
<1>1. IsFiniteSet(Rest) /\ IsFiniteSet(S) /\ Cardinality(Rest) \in Nat /\ Cardinality(S) \in Nat
  BY PagesFinite
<1>2. Rest \cap S = {} /\ Rest \cup S = Pages \ used
  OBVIOUS
<1>3. Cardinality(Rest \cup S) = Cardinality(Rest) + Cardinality(S) - Cardinality(Rest \cap S)
  BY <1>1, FS_Union
<1>4. Cardinality(Rest \cap S) = 0
  BY <1>2, FS_EmptySet
<1> QED BY <1>1, <1>2, <1>3, <1>4

\* Clearing the bits of used pages makes as many more free.
LEMMA CountFreed ==
  ASSUME total_pages \in Nat, used \subseteq Pages, NEW S \in SUBSET used
  PROVE  Cardinality(Pages \ (used \ S)) = Cardinality(Pages \ used) + Cardinality(S)
<1> DEFINE Free == Pages \ used
<1>1. IsFiniteSet(Free) /\ IsFiniteSet(S) /\ Cardinality(Free) \in Nat /\ Cardinality(S) \in Nat
  BY PagesFinite
<1>2. Free \cap S = {} /\ Free \cup S = Pages \ (used \ S)
  OBVIOUS
<1>3. Cardinality(Free \cup S) = Cardinality(Free) + Cardinality(S) - Cardinality(Free \cap S)
  BY <1>1, FS_Union
<1>4. Cardinality(Free \cap S) = 0
  BY <1>2, FS_EmptySet
<1>5. Cardinality(Pages \ (used \ S)) = Cardinality(Free) + Cardinality(S) - 0
  BY ONLY <1>2, <1>3, <1>4
<1> QED BY ONLY <1>1, <1>5

\* The argument behind the loop of pmem_alloc_pages: all free pages are at or
\* after the first one, and there are enough, so a run that meets no page in use
\* ends inside the bitmap.
LEMMA RunInBitmap ==
  ASSUME PmemInv, pc = "alloc_pages", Enough,
         NEW first \in FreePages, IsFirstFree(first), IsFreeRun(first)
  PROVE  Run(first) \subseteq Pages
<1>1. first \in Nat /\ total_pages \in Nat /\ first < total_pages /\ want \in Nat /\ want > 0
  BY PmemAssumption DEF PmemAssumption, PmemInv, TypeOK, WantInv, FreePages, Pages
<1>2. FreePages \in SUBSET (first..(total_pages - 1))
  BY <1>1 DEF IsFirstFree, IsFirst, FreePages, Pages
<1>3. IsFiniteSet(first..(total_pages - 1))
      /\ Cardinality(first..(total_pages - 1)) = total_pages - first
  BY <1>1, FS_Interval
<1>4. Cardinality(FreePages) <= total_pages - first
  BY <1>2, <1>3, FS_Subset
<1>5. want <= total_pages - first
  BY <1>1, <1>4 DEF Enough, PmemInv, CountExact, TypeOK
<1> QED BY <1>1, <1>5 DEF Run, Pages

-----------------------------------------------------------------------------
(* The invariant                                                           *)

LEMMA RegionNat ==
  ASSUME NEW m \in E820Maps, NEW k \in Usable(m)
  PROVE  RegionStart(m[k]) % AddressRange \in Nat /\ RegionSize(m[k]) \in Nat
<1>1. m[k].base \in Nat /\ m[k].length \in Nat
  BY PmemAssumption DEF PmemAssumption, Usable
<1>2. UsableStart(m[k]) \in Nat /\ UsableSize(m[k]) \in Int
  BY <1>1, PmemAssumption DEF PmemAssumption, UsableStart, UsableSize, End
<1>3. RegionStart(m[k]) \in Nat
  BY <1>2, PmemAssumption DEF PmemAssumption, RegionStart
<1>4. RegionSize(m[k]) \in Nat
  BY <1>2, <1>3, PmemAssumption DEF PmemAssumption, RegionSize
<1> QED BY <1>3, <1>4, PmemAssumption DEF PmemAssumption

LEMMA InitInv ==
  ASSUME NEW start \in Nat, NEW size \in Nat, pmem_init(start, size)
  PROVE  PmemInv
<1>1. total_pages = size /\ used = MarkedPages(size) /\ used \subseteq Pages
  BY DEF pmem_init, MarkedPages, Pages
<1>2. Cardinality(Pages \ used) = size - Cardinality(used)
  <2>0. Pages = 0..(size - 1)
    BY <1>1 DEF Pages
  <2>1. IsFiniteSet(Pages) /\ Cardinality(Pages) = size
    BY <2>0, FS_Interval
  <2>2. IsFiniteSet(used) /\ IsFiniteSet(Pages \ used)
        /\ Cardinality(used) \in Nat /\ Cardinality(Pages \ used) \in Nat
    BY <1>1, PagesFinite
  <2>3. used \cup (Pages \ used) = Pages /\ used \cap (Pages \ used) = {}
    BY <1>1
  <2>4. Cardinality(used \cup (Pages \ used))
          = Cardinality(used) + Cardinality(Pages \ used) - Cardinality(used \cap (Pages \ used))
    BY <2>2, FS_Union
  <2>5. Cardinality(used \cap (Pages \ used)) = 0
    BY <2>3, FS_EmptySet
  <2>6. size = Cardinality(used) + Cardinality(Pages \ used) - 0
    BY ONLY <2>1, <2>3, <2>4, <2>5
  <2> QED BY ONLY <2>2, <2>6
<1>3. CountExact
  BY <1>1, <1>2 DEF CountExact, FreePages, pmem_init
<1>4. free_pages \in 0..total_pages
  BY <1>1, <1>3, PagesFinite DEF CountExact, FreePages
<1>5. owners = [p \in Pages |-> 0]
  BY <1>1 DEF pmem_init, Pages
<1>6. TypeOK /\ WantInv
  BY <1>1, <1>4, <1>5, PmemAssumption DEF PmemAssumption, TypeOK, WantInv, pmem_init
<1>7. PagesAccounted
  BY <1>1, <1>5 DEF PagesAccounted
<1> QED BY <1>3, <1>6, <1>7 DEF PmemInv

\* What pmem_init leaves.
LEMMA InitPmemInv == ASSUME Init PROVE PmemInv
<1>1. CASE pmem_init(Fallback, Fallback)
  BY <1>1, InitInv, PmemAssumption DEF PmemAssumption
<1>2. CASE \E k \in Usable(map) :
             pmem_init(RegionStart(map[k]) % AddressRange, RegionSize(map[k]))
  <2>1. PICK k \in Usable(map) :
          pmem_init(RegionStart(map[k]) % AddressRange, RegionSize(map[k]))
    BY <1>2
  <2>2. map \in E820Maps
    BY DEF Init
  <2> QED BY <2>1, <2>2, RegionNat, InitInv
<1> QED BY <1>1, <1>2 DEF Init

\* Handing out n free pages from first on.
LEMMA HandOutInv ==
  ASSUME PmemInv, NEW first \in Nat, NEW n \in Nat \ {0},
         first..(first + n - 1) \subseteq FreePages,
         Taken(first, n), HandOut(first, n), UNCHANGED region
  PROVE  /\ used' \subseteq Pages' /\ free_pages' \in 0..total_pages' /\ owners' \in [Pages' -> Nat]
         /\ CountExact' /\ PagesAccounted'
<1> DEFINE S == first..(first + n - 1)
<1> USE DEF PmemInv, TypeOK
<1>1. Pages' = Pages /\ total_pages' = total_pages /\ S \in SUBSET (Pages \ used)
  BY DEF region, Pages, FreePages
<1>2. used' = used \cup S /\ free_pages' = free_pages - n
  BY DEF Taken
<1>3. Cardinality(S) = n
  BY FS_Interval
<1>4. CountExact'
  BY <1>1, <1>2, <1>3, CountTaken DEF CountExact, FreePages
<1>5. used' \subseteq Pages /\ free_pages' \in 0..total_pages
  <2>1. used' \subseteq Pages
    BY <1>1, <1>2
  <2>2. Cardinality(Pages \ used') \in 0..total_pages
    BY <2>1, PagesFinite
  <2> QED BY <2>1, <2>2, <1>1, <1>4 DEF CountExact, FreePages
<1>6. owners' = [p \in Pages |-> IF p \in S THEN owners[p] + 1 ELSE owners[p]]
  BY DEF HandOut
<1>7. \A p \in Pages : owners[p] \in Nat
  OBVIOUS
<1>8. \A p \in S : owners[p] = 0 /\ p \notin MarkedPages(total_pages)
  BY <1>1, <1>7 DEF PagesAccounted
<1>9. \A p \in Pages : owners'[p] = IF p \in S THEN 1 ELSE owners[p]
  BY <1>6, <1>7, <1>8
<1>10. MarkedPages(total_pages)' = MarkedPages(total_pages) /\ MarkedPages(total_pages) \subseteq Pages
  BY <1>1 DEF MarkedPages, Pages
<1>11. PagesAccounted'
  <2>1. \A p \in Pages : owners'[p] <= 1
    BY <1>9 DEF PagesAccounted
  <2>2. {p \in Pages : owners'[p] = 1} = {p \in Pages : owners[p] = 1} \cup S
    BY <1>1, <1>9
  <2>3. \A p \in MarkedPages(total_pages) : owners'[p] = 0
    BY <1>8, <1>9, <1>10 DEF PagesAccounted
  <2> QED BY <1>1, <1>2, <1>10, <2>1, <2>2, <2>3 DEF PagesAccounted
<1> QED BY <1>1, <1>4, <1>5, <1>6, <1>7, <1>11

\* Freeing n pages from first on.
LEMMA FreeInv ==
  ASSUME PmemInv, NEW first \in Pages, NEW n \in 1..MaxCount, pmem_free_pages(first, n)
  PROVE  PmemInv'
<1> DEFINE S == first..(first + n - 1)
           F == (S \cap used) \ {0}
<1> USE DEF PmemInv, TypeOK
<1>1. Pages' = Pages /\ total_pages' = total_pages /\ pc' = pc /\ want' = want /\ depth' = depth
      /\ memory_start' = memory_start
  BY DEF pmem_free_pages, region, call, Pages
<1>2. used' = used \ F /\ free_pages' = free_pages + Cardinality(F) /\ F \in SUBSET used
  BY DEF pmem_free_pages, Freed
<1>3. CountExact'
  BY <1>1, <1>2, CountFreed DEF CountExact, FreePages
<1>4. used' \subseteq Pages /\ free_pages' \in 0..total_pages
  <2>1. used' \subseteq Pages
    BY <1>2
  <2>2. Cardinality(Pages \ used') \in 0..total_pages
    BY <2>1, PagesFinite
  <2> QED BY <2>1, <2>2, <1>1, <1>3 DEF CountExact, FreePages
<1>5. owners' = [p \in Pages |-> IF p \in S THEN 0 ELSE owners[p]]
  BY DEF pmem_free_pages
<1>6. MarkedPages(total_pages)' = MarkedPages(total_pages) /\ MarkedPages(total_pages) \subseteq Pages
  BY <1>1 DEF MarkedPages, Pages
<1>7. \A p \in S \cap used : owners[p] > 0
  BY DEF pmem_free_pages
<1>8. 0 \in Pages => 0 \in MarkedPages(total_pages)
  BY PmemAssumption DEF PmemAssumption, MarkedPages, Pages
<1>9. S \cap MarkedPages(total_pages) = {}
  BY <1>7 DEF PagesAccounted
<1>10. F = S \cap used
  BY <1>8, <1>9
<1>11. PagesAccounted'
  <2>1. \A p \in Pages : owners'[p] <= 1
    BY <1>5 DEF PagesAccounted
  <2>2. {p \in Pages : owners'[p] = 1} = {p \in Pages : owners[p] = 1} \ S
    BY <1>5
  <2>3. \A p \in MarkedPages(total_pages) : owners'[p] = 0
    BY <1>5, <1>6 DEF PagesAccounted
  <2> QED BY <1>1, <1>2, <1>6, <1>9, <1>10, <2>1, <2>2, <2>3 DEF PagesAccounted
<1> QED BY <1>1, <1>3, <1>4, <1>5, <1>11 DEF WantInv

\* A step that leaves the bitmap alone.
LEMMA CallInv ==
  ASSUME PmemInv, UNCHANGED <<region, bits, owners>>,
         pc' \in {"idle", "alloc_pages"}, want' \in 0..MaxCount, depth' \in 0..MaxDepth, WantInv'
  PROVE  PmemInv'
<1>1. /\ total_pages' = total_pages /\ memory_start' = memory_start /\ used' = used
      /\ free_pages' = free_pages /\ owners' = owners
  BY DEF region, bits
<1>2. Pages' = Pages /\ MarkedPages(total_pages)' = MarkedPages(total_pages)
  BY <1>1 DEF Pages, MarkedPages
<1> QED BY <1>1, <1>2 DEF PmemInv, TypeOK, CountExact, PagesAccounted, FreePages

LEMMA OperationInv == ASSUME PmemInv, ~Spoilt, Operations PROVE PmemInv'
<1>1. CASE pmem_alloc_page
  <2>1. PICK p \in FreePages : IsFirstFree(p) /\ Taken(p, 1) /\ HandOut(p, 1)
    BY <1>1 DEF pmem_alloc_page
  <2>2. p \in Nat /\ 1 \in Nat \ {0} /\ p..(p + 1 - 1) \subseteq FreePages
    BY <2>1 DEF FreePages, Pages, PmemInv, TypeOK
  <2>3. UNCHANGED region /\ UNCHANGED call
    BY <1>1 DEF pmem_alloc_page
  <2>4. /\ used' \subseteq Pages' /\ free_pages' \in 0..total_pages' /\ owners' \in [Pages' -> Nat]
        /\ CountExact' /\ PagesAccounted'
    BY <2>1, <2>2, <2>3, HandOutInv
  <2> QED BY <2>3, <2>4 DEF PmemInv, TypeOK, WantInv, region, call
<1>2. ASSUME NEW n \in 1..MaxCount, CallAllocPages(n) PROVE PmemInv'
  BY <1>2, CallInv, PmemAssumption DEF PmemAssumption, CallAllocPages, PmemInv, TypeOK, WantInv
<1>3. CASE AllocPagesFails
  BY <1>3, CallInv, PmemAssumption
  DEF PmemAssumption, AllocPagesFails, Return, PmemInv, TypeOK, WantInv
<1>4. CASE AllocPagesFound
  <2>1. PICK first \in FreePages :
          IsFirstFree(first) /\ IsFreeRun(first) /\ Taken(first, want) /\ HandOut(first, want)
    BY <1>4 DEF AllocPagesFound
  <2>2. Run(first) \subseteq Pages
    BY <1>4, <2>1, RunInBitmap DEF AllocPagesFound
  <2>3. first \in Nat /\ want \in Nat \ {0} /\ first..(first + want - 1) \subseteq FreePages
    BY <1>4, <2>1, <2>2, PmemAssumption
    DEF PmemAssumption, AllocPagesFound, IsFreeRun, Run, FreePages, Pages, PmemInv, TypeOK, WantInv
  <2>4. UNCHANGED region /\ Return
    BY <1>4 DEF AllocPagesFound
  <2>5. /\ used' \subseteq Pages' /\ free_pages' \in 0..total_pages' /\ owners' \in [Pages' -> Nat]
        /\ CountExact' /\ PagesAccounted'
    BY <2>1, <2>3, <2>4, HandOutInv
  <2> QED
    BY <2>4, <2>5, PmemAssumption DEF PmemAssumption, Return, PmemInv, TypeOK, WantInv, region
<1>5. CASE AllocPagesAgain
  BY <1>5, CallInv, PmemAssumption
  DEF PmemAssumption, AllocPagesAgain, Spoilt, PmemInv, TypeOK, WantInv
<1>6. ASSUME NEW first \in Pages, NEW n \in 1..MaxCount, pmem_free_pages(first, n)
      PROVE  PmemInv'
  BY <1>6, FreeInv
<1> QED BY <1>1, <1>2, <1>3, <1>4, <1>5, <1>6 DEF Operations

LEMMA StepInv == ASSUME PmemInv, [Next]_pmem PROVE PmemInv'
<1>1. CASE ~Spoilt /\ Operations
  BY <1>1, OperationInv
<1>2. CASE UNCHANGED pmem
  BY <1>2, CallInv DEF pmem, region, bits, call, PmemInv, TypeOK, WantInv
<1> QED BY <1>1, <1>2 DEF Next

-----------------------------------------------------------------------------
(* Theorems                                                                *)

\* The invariant holds in every state: types, the count of free pages, and who
\* has which page.
THEOREM PmemCorrect == Spec => []PmemInv
<1>1. Init => PmemInv
  BY InitPmemInv
<1>2. PmemInv /\ [Next]_pmem => PmemInv'
  BY StepInv
<1> QED BY <1>1, <1>2, PTL DEF Spec

\* pmem.free_pages counts the clear bits, for regions of any size.
THEOREM CountCorrect == Spec => []CountExact
<1>1. PmemInv => CountExact
  BY DEF PmemInv
<1> QED BY <1>1, PmemCorrect, PTL

\* No page has two holders and none is lost: the bits set are those that pmem_init
\* marked and those of the pages handed out, until one is that something lies in
\* (which pmem_init does not mark: it takes the bits for pages of the region, but
\* the addresses handed out count from 0).
THEOREM PagesCorrect == Spec => []PagesAccounted
<1>1. PmemInv => PagesAccounted
  BY DEF PmemInv
<1> QED BY <1>1, PmemCorrect, PTL

\* The test of a run never looks behind the bitmap.
THEOREM ScanCorrect == Spec => []ScanInBitmap
<1>1. PmemInv => ScanInBitmap
  BY RunInBitmap DEF ScanInBitmap, IsFreeRun
<1> QED BY <1>1, PmemCorrect, PTL

\* The largest entry of the memory map reaches above what the kernel is loaded
\* to, and starts at an address of 32 bits.
LargestInReach ==
  \A m \in E820Maps : Usable(m) # {} =>
    \A k \in Usable(m) : k = e820_find_largest_region(m) =>
      Base <= End(m[k]) /\ RegionStart(m[k]) < AddressRange

\* The region, total_pages from memory_start on, is memory that the BIOS
\* reported, above what the kernel is loaded to.
RegionIsRam ==
  Usable(map) # {} => \E k \in DOMAIN map :
    /\ map[k].ram /\ Base <= memory_start
    /\ map[k].base <= memory_start /\ memory_start + total_pages <= End(map[k])

\* The region lies in memory that the BIOS reported, whatever map that is: the
\* clipping of its start and of its size loses nothing but what it should.
THEOREM RegionCorrect ==
  ASSUME LargestInReach
  PROVE  Spec => []RegionIsRam
<1>1. Init => RegionIsRam
  <2> SUFFICES ASSUME Init, Usable(map) # {} PROVE RegionIsRam
    BY DEF RegionIsRam
  <2>1. PICK k \in Usable(map) :
          /\ k = e820_find_largest_region(map)
          /\ pmem_init(RegionStart(map[k]) % AddressRange, RegionSize(map[k]))
    BY DEF Init
  <2> DEFINE e == map[k]
  <2>2. /\ map \in E820Maps /\ k \in DOMAIN map /\ e.ram
        /\ e.base \in Nat /\ e.length \in Nat /\ End(e) > OneMB
    BY <2>1, PmemAssumption DEF PmemAssumption, Init, Usable
  <2>3. Base <= End(e) /\ RegionStart(e) < AddressRange
    BY <2>1, <2>2 DEF LargestInReach
  <2>4. memory_start = RegionStart(e) % AddressRange /\ total_pages = RegionSize(e)
    BY <2>1 DEF pmem_init
  <2> HIDE DEF e
  <2>5. /\ RegionStart(e) \in Nat /\ Base <= RegionStart(e) /\ e.base <= RegionStart(e)
        /\ RegionStart(e) <= End(e)
    BY <2>2, <2>3, PmemAssumption DEF PmemAssumption, RegionStart, UsableStart, End
  <2>6. memory_start = RegionStart(e)
    BY <2>3, <2>4, <2>5, PmemAssumption DEF PmemAssumption
  <2>7. RegionStart(e) + RegionSize(e) <= End(e)
    <3>1. /\ UsableStart(e) \in Nat /\ UsableSize(e) \in Int /\ End(e) \in Nat
          /\ UsableStart(e) + UsableSize(e) = End(e)
      BY <2>2, PmemAssumption DEF PmemAssumption, UsableStart, UsableSize, End
    <3>2. Cap \in Nat
      BY PmemAssumption DEF PmemAssumption
    <3>3. RegionSize(e) = IF End(e) - RegionStart(e) > Cap THEN Cap ELSE End(e) - RegionStart(e)
      <4> DEFINE size == UsableStart(e) + UsableSize(e) - RegionStart(e)
      <4>1. size = End(e) - RegionStart(e) /\ ~(size < 0)
        BY <2>5, <3>1
      <4>2. RegionSize(e) = IF size < 0 \/ size > Cap THEN Cap ELSE size
        BY DEF RegionSize
      <4> HIDE DEF size
      <4> QED BY <4>1, <4>2
    <3> QED BY <2>5, <3>1, <3>2, <3>3
  <2> QED BY <2>2, <2>4, <2>5, <2>6, <2>7 DEF RegionIsRam, e
<1>2. RegionIsRam /\ [Next]_pmem => RegionIsRam'
  <2>1. [Next]_pmem => UNCHANGED region
    BY DEF Next, Operations, pmem, region, pmem_alloc_page, CallAllocPages, AllocPagesFails,
       AllocPagesFound, AllocPagesAgain, pmem_free_pages
  <2> QED BY <2>1 DEF RegionIsRam, region, Usable, End
<1> QED BY <1>1, <1>2, PTL DEF Spec

-----------------------------------------------------------------------------
(* Paging                                                                   *)

\* An address has no bits above those that the four indices take.
Canonical == \A v \in VPages : v \div Weight[4] < Fan

-----------------------------------------------------------------------------
(* Indices                                                                 *)

LEMMA FanNat == Fan \in Nat /\ Fan > 1
BY VmmAssumption DEF VmmAssumption

LEMMA DivFan ==
  ASSUME NEW v \in Nat
  PROVE  v \div Fan \in Nat /\ v % Fan \in Indices /\ v \div (Fan * Fan) = (v \div Fan) \div Fan
BY FanNat DEF Indices

LEMMA DivFan3 ==
  ASSUME NEW v \in Nat
  PROVE  v \div (Fan * Fan * Fan) = ((v \div Fan) \div Fan) \div Fan
<1>1. v \div (Fan * Fan * Fan) = (v \div (Fan * Fan)) \div Fan
  <2> DEFINE S == Fan * Fan
  <2>1. S \in Nat /\ S > 0
    BY FanNat
  <2> HIDE DEF S
  <2>2. v \div (S * Fan) = (v \div S) \div Fan
    BY FanNat, <2>1
  <2> QED BY <2>2 DEF S
<1> QED BY <1>1, DivFan

LEMMA DivModEqual ==
  ASSUME NEW v \in Nat, NEW w \in Nat, v \div Fan = w \div Fan, v % Fan = w % Fan
  PROVE  v = w
BY FanNat

LEMMA SmallDiv == ASSUME NEW v \in Nat PROVE v < Fan <=> v \div Fan = 0
BY FanNat

LEMMA SmallMod == ASSUME NEW v \in Nat, v < Fan PROVE v % Fan = v
BY FanNat

LEMMA IndexShift ==
  ASSUME NEW v \in Nat
  PROVE  /\ Index(v, 1) = v % Fan
         /\ Index(v, 2) = (v \div Fan) % Fan
         /\ Index(v, 3) = ((v \div Fan) \div Fan) % Fan
         /\ Index(v, 4) = (((v \div Fan) \div Fan) \div Fan) % Fan
<1>1. Weight[1] = 1 /\ Weight[2] = Fan /\ Weight[3] = Fan * Fan /\ Weight[4] = Fan * Fan * Fan
  BY DEF Weight
<1>2. v \div Weight[1] = v
  BY <1>1
<1>3. v \div Weight[2] = v \div Fan
  BY <1>1
<1>4. v \div Weight[3] = (v \div Fan) \div Fan
  BY <1>1, DivFan
<1>5. v \div Weight[4] = ((v \div Fan) \div Fan) \div Fan
  BY <1>1, DivFan3
<1> QED BY ONLY <1>2, <1>3, <1>4, <1>5 DEF Index

LEMMA IndexType ==
  ASSUME NEW v \in Nat
  PROVE  Index(v, 1) \in Indices /\ Index(v, 2) \in Indices /\ Index(v, 3) \in Indices /\ Index(v, 4) \in Indices
BY IndexShift, DivFan

\* The shifts that come after the indices of a page.
LEMMA TopIndex ==
  ASSUME NEW v \in Nat, v \div Weight[4] < Fan
  PROVE  ((v \div Fan) \div Fan) \div Fan = Index(v, 4)
<1> DEFINE a == ((v \div Fan) \div Fan) \div Fan
<1>1. a \in Nat
  BY DivFan
<1>2. a < Fan
  BY DivFan3 DEF Weight
<1>3. a % Fan = Index(v, 4)
  BY IndexShift
<1> HIDE DEF a
<1>4. a = Index(v, 4)
  BY <1>1, <1>2, <1>3, SmallMod
<1> QED BY <1>4 DEF a

\* The four indices tell pages apart.
LEMMA IndexInjective ==
  ASSUME Canonical, NEW v \in VPages, NEW w \in VPages,
         Index(v, 2) = Index(w, 2), Index(v, 3) = Index(w, 3), Index(v, 4) = Index(w, 4)
  PROVE  /\ v \div Fan = w \div Fan
         /\ Index(v, 1) = Index(w, 1) => v = w
<1>1. v \in Nat /\ w \in Nat /\ v \div Weight[4] < Fan /\ w \div Weight[4] < Fan
  BY VmmAssumption DEF VmmAssumption, Canonical
<1>2. ((v \div Fan) \div Fan) \div Fan = ((w \div Fan) \div Fan) \div Fan
  BY <1>1, TopIndex
<1>3. (v \div Fan) \div Fan = (w \div Fan) \div Fan
  BY <1>1, <1>2, IndexShift, DivModEqual, DivFan
<1>4. v \div Fan = w \div Fan
  BY <1>1, <1>3, IndexShift, DivModEqual, DivFan
<1>5. ASSUME Index(v, 1) = Index(w, 1) PROVE v = w
  BY <1>1, <1>4, <1>5, IndexShift, DivModEqual
<1> QED BY <1>4, <1>5

\* The pages of the boot loader's huge page have no upper indices.
LEMMA BootIndex ==
  ASSUME Canonical, NEW v \in VPages
  PROVE  /\ v < Fan <=> Index(v, 2) = 0 /\ Index(v, 3) = 0 /\ Index(v, 4) = 0
         /\ v < Fan => Index(v, 1) = v
<1>1. v \in Nat /\ v \div Weight[4] < Fan /\ 0 \in Nat
  BY VmmAssumption DEF VmmAssumption, Canonical
<1>2. 0 \div Fan = 0 /\ 0 % Fan = 0
  BY FanNat
<1>3. v < Fan => Index(v, 2) = 0 /\ Index(v, 3) = 0 /\ Index(v, 4) = 0 /\ Index(v, 1) = v
  <2>1. v < Fan => v \div Fan = 0 /\ v % Fan = v
    BY <1>1, SmallDiv, SmallMod
  <2> QED BY <1>1, <1>2, <2>1, IndexShift
<1>4. ASSUME Index(v, 2) = 0, Index(v, 3) = 0, Index(v, 4) = 0 PROVE v < Fan
  <2>1. ((v \div Fan) \div Fan) \div Fan = 0 \div Fan
    BY <1>1, <1>2, <1>4, TopIndex
  <2>2. (v \div Fan) \div Fan = 0
    BY <1>1, <1>2, <1>4, <2>1, IndexShift, DivModEqual, DivFan
  <2>3. v \div Fan = 0
    BY <1>1, <1>2, <1>4, <2>2, IndexShift, DivModEqual, DivFan
  <2> QED BY <1>1, <2>3, SmallDiv
<1> QED BY <1>3, <1>4
-----------------------------------------------------------------------------
(* The tree of tables                                                      *)

TableMaps == [Pages \cup BootTables -> [Indices -> Entries]]

\* The operators of a walk, for any contents of memory.
Kid(ts, t, x) == IF t # 0 /\ ts[t][x].present /\ ~ts[t][x].huge THEN ts[t][x].frame ELSE 0
PdptIn(ts, v) == Kid(ts, Pml4, Index(v, 4))
PdIn(ts, v) == Kid(ts, PdptIn(ts, v), Index(v, 3))
PtIn(ts, v) == Kid(ts, PdIn(ts, v), Index(v, 2))
Phys(ts, v) ==
  IF PdIn(ts, v) # 0 /\ ts[PdIn(ts, v)][Index(v, 2)].huge
    THEN ts[PdIn(ts, v)][Index(v, 2)].frame + Index(v, 1)
  ELSE IF PtIn(ts, v) # 0 /\ ts[PtIn(ts, v)][Index(v, 1)].present
    THEN ts[PtIn(ts, v)][Index(v, 1)].frame
  ELSE Unmapped

\* K are the tables, and L says at which of the four levels each is: links lead
\* one level down, and to every table but the root leads exactly one.  Nothing
\* but the boot loader's entry is a huge page.
Typed(ts, K, L) ==
  /\ ts \in TableMaps
  /\ K \subseteq Pages \cup BootTables /\ BootTables \subseteq K /\ 0 \notin K
  /\ L \in [K -> 1..4] /\ L[Pml4] = 4 /\ L[Pdpt] = 3 /\ L[Pd] = 2
Down(ts, K, L) ==
  \A t \in K, x \in Indices : L[t] > 1 =>
    Kid(ts, t, x) = 0 \/ (Kid(ts, t, x) \in K /\ L[Kid(ts, t, x)] = L[t] - 1)
Unique(ts, K, L) ==
  \A t, u \in K, x, y \in Indices :
    L[t] > 1 /\ L[u] > 1 /\ Kid(ts, t, x) # 0 /\ Kid(ts, t, x) = Kid(ts, u, y) => t = u /\ x = y
Reached(ts, K, L) ==
  \A u \in K \ {Pml4} : \E t \in K, x \in Indices : L[t] > 1 /\ Kid(ts, t, x) = u
BootEntries(ts) == Kid(ts, Pml4, 0) = Pdpt /\ Kid(ts, Pdpt, 0) = Pd /\ ts[Pd][0] = Entry(TRUE, TRUE, 0)
Regular(ts, K) ==
  \A t \in K, x \in Indices :
    /\ ts[t][x].huge => t = Pd /\ x = 0
    /\ ts[t][x].present /\ ~ts[t][x].huge => ts[t][x].frame # 0

Tree(ts, K, L) ==
  Typed(ts, K, L) /\ Down(ts, K, L) /\ Unique(ts, K, L) /\ Reached(ts, K, L) /\ BootEntries(ts) /\ Regular(ts, K)

LEMMA SameWalk ==
  ASSUME NEW v
  PROVE  /\ PdOf(v) = PdIn(tables, v) /\ PtOf(v) = PtIn(tables, v)
         /\ vmm_get_physical(v) = Phys(tables, v)
BY DEF PdOf, PtOf, child, vmm_get_physical, Kid, PdptIn, PdIn, PtIn, Phys

\* The tables that a walk meets.
LEMMA WalkLevels ==
  ASSUME NEW ts, NEW K, NEW L, Tree(ts, K, L), NEW v \in Nat
  PROVE  /\ PdptIn(ts, v) # 0 => PdptIn(ts, v) \in K /\ L[PdptIn(ts, v)] = 3
         /\ PdIn(ts, v) # 0 => /\ PdptIn(ts, v) # 0
                               /\ PdIn(ts, v) \in K /\ L[PdIn(ts, v)] = 2
         /\ PtIn(ts, v) # 0 => /\ PdIn(ts, v) # 0
                               /\ PtIn(ts, v) \in K /\ L[PtIn(ts, v)] = 1
<1> DEFINE a == PdptIn(ts, v)
           b == PdIn(ts, v)
           c == PtIn(ts, v)
<1>1. Index(v, 2) \in Indices /\ Index(v, 3) \in Indices /\ Index(v, 4) \in Indices
  BY IndexType
<1>2. Pml4 \in K /\ L[Pml4] = 4 /\ L \in [K -> 1..4]
  BY DEF Tree, Typed, BootTables
<1>3. a # 0 => a \in K /\ L[a] = 3
  BY <1>1, <1>2 DEF Tree, Down, PdptIn
<1>4. b # 0 => a # 0
  BY DEF PdIn, Kid
<1>5. b # 0 => b \in K /\ L[b] = 2
  <2> HIDE DEF a
  <2>1. b = Kid(ts, a, Index(v, 3))
    BY DEF PdIn, a
  <2> HIDE DEF b
  <2> QED BY <1>1, <1>3, <1>4, <2>1 DEF Tree, Down
<1>6. c # 0 => b # 0
  BY DEF PtIn, Kid
<1>7. c # 0 => c \in K /\ L[c] = 1
  <2> HIDE DEF b
  <2>1. c = Kid(ts, b, Index(v, 2))
    BY DEF PtIn, b
  <2> HIDE DEF c
  <2> QED BY <1>1, <1>5, <1>6, <2>1 DEF Tree, Down
<1> QED BY <1>3, <1>4, <1>5, <1>6, <1>7

\* Pages with a common directory have the same upper indices.
LEMMA WalkUnique ==
  ASSUME NEW ts, NEW K, NEW L, Tree(ts, K, L), NEW v \in Nat, NEW w \in Nat
  PROVE  /\ PdIn(ts, v) # 0 /\ PdIn(ts, v) = PdIn(ts, w)
              => Index(v, 3) = Index(w, 3) /\ Index(v, 4) = Index(w, 4)
         /\ PtIn(ts, v) # 0 /\ PtIn(ts, v) = PtIn(ts, w)
              => Index(v, 2) = Index(w, 2) /\ Index(v, 3) = Index(w, 3) /\ Index(v, 4) = Index(w, 4)
<1>1. /\ Index(v, 2) \in Indices /\ Index(v, 3) \in Indices /\ Index(v, 4) \in Indices
      /\ Index(w, 2) \in Indices /\ Index(w, 3) \in Indices /\ Index(w, 4) \in Indices
  BY IndexType
<1>2. Pml4 \in K /\ L[Pml4] = 4 /\ L \in [K -> 1..4]
  BY DEF Tree, Typed, BootTables
<1>3. PdptIn(ts, v) # 0 /\ PdptIn(ts, v) = PdptIn(ts, w) => Index(v, 4) = Index(w, 4)
  BY <1>1, <1>2 DEF Tree, Unique, PdptIn
<1>4. PdIn(ts, v) # 0 /\ PdIn(ts, v) = PdIn(ts, w)
        => Index(v, 3) = Index(w, 3) /\ PdptIn(ts, v) # 0 /\ PdptIn(ts, v) = PdptIn(ts, w)
  <2> DEFINE a == PdptIn(ts, v)
             b == PdptIn(ts, w)
  <2>1. PdIn(ts, v) = Kid(ts, a, Index(v, 3)) /\ PdIn(ts, w) = Kid(ts, b, Index(w, 3))
    BY DEF PdIn
  <2>2. PdIn(ts, v) # 0 => a \in K /\ L[a] = 3
    BY WalkLevels
  <2>3. PdIn(ts, w) # 0 => b \in K /\ L[b] = 3
    BY WalkLevels
  <2>4. PdIn(ts, v) # 0 => a # 0
    BY WalkLevels
  <2> HIDE DEF a, b
  <2>5. PdIn(ts, v) # 0 /\ PdIn(ts, v) = PdIn(ts, w) => Index(v, 3) = Index(w, 3) /\ a # 0 /\ a = b
    BY <1>1, <2>1, <2>2, <2>3, <2>4 DEF Tree, Unique
  <2> QED BY <2>5 DEF a, b
<1>5. PtIn(ts, v) # 0 /\ PtIn(ts, v) = PtIn(ts, w)
        => Index(v, 2) = Index(w, 2) /\ PdIn(ts, v) # 0 /\ PdIn(ts, v) = PdIn(ts, w)
  <2> DEFINE a == PdIn(ts, v)
             b == PdIn(ts, w)
  <2>1. PtIn(ts, v) = Kid(ts, a, Index(v, 2)) /\ PtIn(ts, w) = Kid(ts, b, Index(w, 2))
    BY DEF PtIn
  <2>2. PtIn(ts, v) # 0 => a \in K /\ L[a] = 2
    BY WalkLevels
  <2>3. PtIn(ts, w) # 0 => b \in K /\ L[b] = 2
    BY WalkLevels
  <2>4. PtIn(ts, v) # 0 => a # 0
    BY WalkLevels
  <2> HIDE DEF a, b
  <2>5. PtIn(ts, v) # 0 /\ PtIn(ts, v) = PtIn(ts, w) => Index(v, 2) = Index(w, 2) /\ a # 0 /\ a = b
    BY <1>1, <2>1, <2>2, <2>3, <2>4 DEF Tree, Unique
  <2> QED BY <2>5 DEF a, b
<1> QED BY <1>3, <1>4, <1>5

LEMMA OneLink ==
  ASSUME NEW ts, NEW K, NEW L, Tree(ts, K, L), NEW t \in K, NEW u \in K, NEW x \in Indices, NEW y \in Indices,
         L[t] > 1, L[u] > 1, Kid(ts, t, x) # 0, Kid(ts, t, x) = Kid(ts, u, y)
  PROVE  t = u /\ x = y
BY DEF Tree, Unique

\* The boot loader's pages, and only they, are translated by its huge page.
LEMMA BootWalk ==
  ASSUME Canonical, NEW ts, NEW K, NEW L, Tree(ts, K, L), NEW v \in VPages
  PROVE  /\ v \in Boot => PtIn(ts, v) = 0 /\ Phys(ts, v) = v
         /\ v \notin Boot => Phys(ts, v) = IF PtIn(ts, v) # 0 /\ ts[PtIn(ts, v)][Index(v, 1)].present
                                           THEN ts[PtIn(ts, v)][Index(v, 1)].frame ELSE 0
         /\ Phys(ts, v) \in Nat
<1>1. v \in Nat /\ 0 \in Nat /\ 0 \in Indices
  BY VmmAssumption, FanNat DEF VmmAssumption, Indices
<1>2. /\ Index(v, 1) \in Indices /\ Index(v, 2) \in Indices /\ Index(v, 3) \in Indices /\ Index(v, 4) \in Indices
      /\ Indices \subseteq Nat
  BY <1>1, IndexType, FanNat DEF Indices
<1>3. /\ Kid(ts, Pml4, 0) = Pdpt /\ Kid(ts, Pdpt, 0) = Pd /\ ts[Pd][0] = Entry(TRUE, TRUE, 0)
      /\ Pml4 \in K /\ Pdpt \in K /\ Pd \in K /\ L[Pml4] = 4 /\ L[Pdpt] = 3 /\ L[Pd] = 2
      /\ L \in [K -> 1..4] /\ ts \in TableMaps /\ K \subseteq Pages \cup BootTables
  BY DEF Tree, Typed, BootEntries, BootTables
<1>4. CASE v \in Boot
  <2>1. Index(v, 2) = 0 /\ Index(v, 3) = 0 /\ Index(v, 4) = 0 /\ Index(v, 1) = v
    BY <1>4, BootIndex DEF Boot
  <2>2. PdIn(ts, v) = Pd
    BY <1>3, <2>1 DEF PdIn, PdptIn
  <2>3. ts[Pd][0].present /\ ts[Pd][0].huge /\ ts[Pd][0].frame = 0
    BY <1>3 DEF Entry
  <2>4. PtIn(ts, v) = 0
    BY <2>1, <2>2, <2>3 DEF PtIn, Kid
  <2>5. Phys(ts, v) = 0 + v
    BY <2>1, <2>2, <2>3 DEF Phys, Pd
  <2> QED BY <1>1, <1>4, <2>4, <2>5
<1>5. CASE v \notin Boot
  <2> DEFINE b == PdIn(ts, v)
             c == PtIn(ts, v)
  <2>1. Index(v, 2) # 0 \/ Index(v, 3) # 0 \/ Index(v, 4) # 0
    BY <1>5, BootIndex DEF Boot
  <2>2. b # 0 => b \in K /\ L[b] = 2 /\ PdptIn(ts, v) # 0 /\ PdptIn(ts, v) \in K /\ L[PdptIn(ts, v)] = 3
    BY <1>1, WalkLevels
  <2>3. ASSUME b = Pd, Index(v, 2) = 0 PROVE FALSE
    <3> DEFINE a == PdptIn(ts, v)
    <3>1. a \in K /\ L[a] = 3 /\ Kid(ts, a, Index(v, 3)) = Pd /\ Kid(ts, Pml4, Index(v, 4)) = a
      BY <2>2, <2>3 DEF PdIn, PdptIn, Pd
    <3> HIDE DEF a
    <3>2. a = Pdpt /\ Index(v, 3) = 0
      <4>1. Kid(ts, a, Index(v, 3)) # 0 /\ Kid(ts, a, Index(v, 3)) = Kid(ts, Pdpt, 0)
        BY <1>3, <3>1 DEF Pd
      <4>2. L[a] > 1 /\ L[Pdpt] > 1 /\ Pdpt \in K /\ a \in K
        BY <1>3, <3>1
      <4> QED BY <1>1, <1>2, <4>1, <4>2, OneLink
    <3>3. Index(v, 4) = 0
      <4>1. Kid(ts, Pml4, Index(v, 4)) # 0 /\ Kid(ts, Pml4, Index(v, 4)) = Kid(ts, Pml4, 0)
        BY <1>3, <3>1, <3>2 DEF Pdpt
      <4>2. L[Pml4] > 1 /\ Pml4 \in K
        BY <1>3
      <4> QED BY <1>1, <1>2, <4>1, <4>2, OneLink
    <3> QED BY <2>1, <2>3, <3>2, <3>3
  <2>4. b # 0 => ~ts[b][Index(v, 2)].huge
    <3> HIDE DEF b
    <3> QED BY <1>2, <2>2, <2>3 DEF Tree, Regular
  <2>5. Phys(ts, v) = IF c # 0 /\ ts[c][Index(v, 1)].present THEN ts[c][Index(v, 1)].frame ELSE 0
    BY <2>4 DEF Phys, Unmapped
  <2>6. c # 0 => c \in K
    BY <1>1, WalkLevels
  <2>7. c # 0 => ts[c][Index(v, 1)].frame \in Nat
    <3> HIDE DEF c
    <3> QED BY <1>2, <1>3, <2>6 DEF TableMaps, Entries
  <2> QED BY <1>5, <2>5, <2>7
<1> QED BY <1>4, <1>5

\* An entry of a table of the lowest level changes, of all translations, that of
\* the page that leads to it.
LEMMA SetLeaf ==
  ASSUME Canonical, NEW ts, NEW K, NEW L, Tree(ts, K, L), NEW v \in VPages, NEW e \in Entries,
         ~e.huge, e.present => e.frame # 0, PtIn(ts, v) # 0,
         NEW ts2, ts2 = SetEntry(ts, PtIn(ts, v), Index(v, 1), e)
  PROVE  /\ Tree(ts2, K, L)
         /\ Phys(ts2, v) = IF e.present THEN e.frame ELSE 0
         /\ \A w \in VPages \ {v} : Phys(ts2, w) = Phys(ts, w)
<1> DEFINE c == PtIn(ts, v)
           j == Index(v, 1)
<1>0. ts2 = SetEntry(ts, c, j, e)
  OBVIOUS
<1>1. VPages \subseteq Nat
  BY VmmAssumption DEF VmmAssumption
<1>2. c \in K /\ L[c] = 1 /\ j \in Indices /\ c # 0
  BY <1>1, WalkLevels, IndexType
<1>3. ts \in TableMaps /\ K \subseteq Pages \cup BootTables
  BY DEF Tree, Typed
<1> HIDE DEF c, j
<1>4. /\ ts2 \in TableMaps
      /\ ts2[c][j] = e
      /\ \A t \in K, x \in Indices : ~(t = c /\ x = j) => ts2[t][x] = ts[t][x]
  <2> DEFINE row == [ts[c] EXCEPT ![j] = e]
  <2>1. c \in Pages \cup BootTables /\ ts[c] \in [Indices -> Entries]
    BY <1>2, <1>3 DEF TableMaps
  <2>2. /\ row \in [Indices -> Entries] /\ row[j] = e
        /\ \A x \in Indices : x # j => row[x] = ts[c][x]
    BY <1>2, <2>1
  <2>3. ts2 = [ts EXCEPT ![c] = row]
    BY <1>0 DEF SetEntry
  <2> HIDE DEF row
  <2>4. /\ ts2 \in TableMaps /\ ts2[c] = row
        /\ \A t \in Pages \cup BootTables : t # c => ts2[t] = ts[t]
    BY <1>3, <2>1, <2>2, <2>3 DEF TableMaps
  <2> QED BY <1>3, <2>2, <2>4
<1>5. \A t \in K, x \in Indices : L[t] > 1 => Kid(ts2, t, x) = Kid(ts, t, x)
  BY <1>2, <1>4 DEF Kid
<1>6. BootTables \subseteq K /\ L[Pml4] = 4 /\ L[Pdpt] = 3 /\ L[Pd] = 2 /\ L \in [K -> 1..4] /\ 0 \in Indices
  BY FanNat DEF Tree, Typed, Indices
<1>7. Tree(ts2, K, L)
  <2>1. Typed(ts2, K, L)
    BY <1>4 DEF Tree, Typed
  <2>2. Down(ts2, K, L)
    BY <1>5 DEF Tree, Down
  <2>3. Unique(ts2, K, L)
    BY <1>5 DEF Tree, Unique
  <2>4. Reached(ts2, K, L)
    BY <1>5 DEF Tree, Reached
  <2>5. BootEntries(ts2)
    <3>1. Kid(ts2, Pml4, 0) = Kid(ts, Pml4, 0) /\ Kid(ts2, Pdpt, 0) = Kid(ts, Pdpt, 0)
      BY <1>5, <1>6 DEF BootTables
    <3>2. ts2[Pd][0] = ts[Pd][0]
      BY <1>2, <1>4, <1>6 DEF BootTables
    <3> QED BY <3>1, <3>2 DEF Tree, BootEntries
  <2>6. Regular(ts2, K)
    BY <1>2, <1>4 DEF Tree, Regular
  <2> QED BY <2>1, <2>2, <2>3, <2>4, <2>5, <2>6 DEF Tree
<1>8. ASSUME NEW w \in VPages PROVE PtIn(ts2, w) = PtIn(ts, w)
  <2>1. w \in Nat
    BY <1>1
  <2>2. Index(w, 2) \in Indices /\ Index(w, 3) \in Indices /\ Index(w, 4) \in Indices
    BY <2>1, IndexType
  <2>3. PdptIn(ts2, w) = PdptIn(ts, w)
    BY <1>5, <1>6, <2>2 DEF PdptIn, BootTables
  <2>4. PdIn(ts2, w) = PdIn(ts, w)
    <3> DEFINE a == PdptIn(ts, w)
    <3>1. a # 0 => a \in K /\ L[a] = 3
      BY <2>1, WalkLevels
    <3>2. a = 0 => Kid(ts2, a, Index(w, 3)) = 0 /\ Kid(ts, a, Index(w, 3)) = 0
      BY DEF Kid
    <3> HIDE DEF a
    <3>3. Kid(ts2, a, Index(w, 3)) = Kid(ts, a, Index(w, 3))
      BY <1>5, <2>2, <3>1, <3>2
    <3> QED BY <2>3, <3>3 DEF PdIn, a
  <2>5. PtIn(ts2, w) = PtIn(ts, w)
    <3> DEFINE a == PdIn(ts, w)
    <3>1. a # 0 => a \in K /\ L[a] = 2
      BY <2>1, WalkLevels
    <3>2. a = 0 => Kid(ts2, a, Index(w, 2)) = 0 /\ Kid(ts, a, Index(w, 2)) = 0
      BY DEF Kid
    <3> HIDE DEF a
    <3>3. Kid(ts2, a, Index(w, 2)) = Kid(ts, a, Index(w, 2))
      BY <1>5, <2>2, <3>1, <3>2
    <3> QED BY <2>4, <3>3 DEF PtIn, a
  <2> QED BY <2>5
<1>9. v \notin Boot
  BY <1>2, BootWalk DEF c
<1>10. Phys(ts2, v) = IF e.present THEN e.frame ELSE 0
  <2>1. PtIn(ts2, v) = c
    BY <1>8 DEF c
  <2> QED BY <1>2, <1>4, <1>7, <1>9, <2>1, BootWalk DEF j
<1>11. ASSUME NEW w \in VPages \ {v} PROVE Phys(ts2, w) = Phys(ts, w)
  <2>1. CASE w \in Boot
    BY <1>7, <2>1, BootWalk
  <2>2. CASE w \notin Boot
    <3> DEFINE d == PtIn(ts, w)
    <3>1. /\ Phys(ts, w) = IF d # 0 /\ ts[d][Index(w, 1)].present THEN ts[d][Index(w, 1)].frame ELSE 0
          /\ Phys(ts2, w) = IF d # 0 /\ ts2[d][Index(w, 1)].present THEN ts2[d][Index(w, 1)].frame ELSE 0
      BY <1>7, <1>8, <2>2, BootWalk
    <3>2. w \in Nat /\ v \in Nat /\ Index(w, 1) \in Indices
      BY <1>1, IndexType
    <3>3. d # 0 => d \in K
      BY <3>2, WalkLevels
    <3>4. d # 0 /\ d = c => Index(w, 1) # j
      <4>1. ASSUME d # 0, d = c, Index(w, 1) = j PROVE FALSE
        <5>1. Index(w, 2) = Index(v, 2) /\ Index(w, 3) = Index(v, 3) /\ Index(w, 4) = Index(v, 4)
          BY <3>2, <4>1, WalkUnique DEF c
        <5> QED BY <4>1, <5>1, IndexInjective DEF j
      <4> QED BY <4>1
    <3> HIDE DEF d
    <3>5. d # 0 => ts2[d][Index(w, 1)] = ts[d][Index(w, 1)]
      BY <1>4, <3>2, <3>3, <3>4
    <3> QED BY <3>1, <3>5
  <2> QED BY <2>1, <2>2
<1> QED BY <1>7, <1>10, <1>11
-----------------------------------------------------------------------------
(* A new table                                                             *)

\* The tables once the page has been linked into entry x of table t.
Grown(ts, t, x, page) ==
  LET zeroed == [ts EXCEPT ![page] = [y \in Indices |-> Empty]]
  IN  [zeroed EXCEPT ![t] = [zeroed[t] EXCEPT ![x] = Entry(TRUE, FALSE, page)]]
GrownLevels(K, L, t, page) == [u \in K \cup {page} |-> IF u = page THEN L[t] - 1 ELSE L[u]]

GrownFacts(ts2, ts, K, t, x, page) ==
  /\ ts2 \in TableMaps
  /\ ts2[t][x] = Entry(TRUE, FALSE, page)
  /\ \A u \in K, y \in Indices : ~(u = t /\ y = x) => ts2[u][y] = ts[u][y]
  /\ \A y \in Indices : ts2[page][y] = Empty

LEMMA GrownEntries ==
  ASSUME NEW ts, NEW K, NEW L, Tree(ts, K, L), NEW t \in K, NEW x \in Indices,
         NEW page \in Pages \ K, page # 0, NEW ts2, ts2 = Grown(ts, t, x, page)
  PROVE  GrownFacts(ts2, ts, K, t, x, page)
<1> DEFINE zeroed == [ts EXCEPT ![page] = [y \in Indices |-> Empty]]
<1>1. ts \in TableMaps /\ K \subseteq Pages \cup BootTables /\ page \in Nat
  BY DEF Tree, Typed, Pages
<1>2. [y \in Indices |-> Empty] \in [Indices -> Entries] /\ Entry(TRUE, FALSE, page) \in Entries
  BY <1>1 DEF Empty, Entry, Entries
<1>3. zeroed \in TableMaps /\ zeroed[page] = [y \in Indices |-> Empty]
      /\ \A u \in K : zeroed[u] = ts[u]
  BY <1>1, <1>2 DEF TableMaps
<1>4. ts2 = [zeroed EXCEPT ![t] = [zeroed[t] EXCEPT ![x] = Entry(TRUE, FALSE, page)]]
  BY DEF Grown
<1> HIDE DEF zeroed
<1>5. [zeroed[t] EXCEPT ![x] = Entry(TRUE, FALSE, page)] \in [Indices -> Entries]
  BY <1>1, <1>2, <1>3 DEF TableMaps
<1>6. ts2 \in TableMaps /\ ts2[t] = [zeroed[t] EXCEPT ![x] = Entry(TRUE, FALSE, page)]
      /\ \A u \in Pages \cup BootTables : u # t => ts2[u] = zeroed[u]
  BY <1>1, <1>3, <1>4, <1>5 DEF TableMaps
<1>7. zeroed[t] \in [Indices -> Entries] /\ t # page
  BY <1>1, <1>3 DEF TableMaps
<1>8. ts2[t][x] = Entry(TRUE, FALSE, page) /\ \A y \in Indices : y # x => ts2[t][y] = ts[t][y]
  BY <1>3, <1>6, <1>7
<1>9. \A u \in K, y \in Indices : u # t => ts2[u][y] = ts[u][y]
  BY <1>1, <1>3, <1>6
<1>10. \A y \in Indices : ts2[page][y] = Empty
  BY <1>3, <1>6, <1>7
<1> QED BY <1>6, <1>8, <1>9, <1>10 DEF GrownFacts

\* A page that is no table becomes the child of a table that had none: what must
\* hold for it, and what holds then.
MayGrow(ts, K, L, t, x, page, ts2, L2) ==
  /\ Tree(ts, K, L) /\ t \in K /\ x \in Indices
  /\ L[t] > 1 /\ ~ts[t][x].present /\ ~ts[t][x].huge
  /\ page \in Pages \ K /\ page # 0
  /\ ts2 = Grown(ts, t, x, page) /\ L2 = GrownLevels(K, L, t, page)

HasGrown(ts, K, L, t, x, page, ts2, L2) ==
  /\ Tree(ts2, K \cup {page}, L2)
  /\ L2[page] = L[t] - 1 /\ Kid(ts2, t, x) = page
  /\ \A u \in K : L2[u] = L[u]
  /\ \A u \in K, y \in Indices : Kid(ts, u, y) # 0 => Kid(ts2, u, y) = Kid(ts, u, y)
  /\ \A v \in Nat : Phys(ts2, v) = Phys(ts, v)

LEMMA GrownTree ==
  ASSUME NEW ts, NEW K, NEW L, NEW t, NEW x, NEW page, NEW ts2, NEW L2,
         MayGrow(ts, K, L, t, x, page, ts2, L2)
  PROVE  HasGrown(ts, K, L, t, x, page, ts2, L2)
<1> /\ Tree(ts, K, L) /\ t \in K /\ x \in Indices
    /\ L[t] > 1 /\ ~ts[t][x].present /\ ~ts[t][x].huge
    /\ page \in Pages \ K /\ page # 0
    /\ ts2 = Grown(ts, t, x, page) /\ L2 = GrownLevels(K, L, t, page)
  BY DEF MayGrow
<1> USE DEF HasGrown
<1> DEFINE K2 == K \cup {page}
<1>1. /\ ts2 \in TableMaps
      /\ ts2[t][x] = Entry(TRUE, FALSE, page)
      /\ \A u \in K, y \in Indices : ~(u = t /\ y = x) => ts2[u][y] = ts[u][y]
      /\ \A y \in Indices : ts2[page][y] = Empty
  <2>1. GrownFacts(ts2, ts, K, t, x, page)
    BY GrownEntries
  <2> QED BY <2>1 DEF GrownFacts
<1>2. /\ ts \in TableMaps /\ K \subseteq Pages \cup BootTables /\ BootTables \subseteq K /\ 0 \notin K
      /\ L \in [K -> 1..4] /\ L[Pml4] = 4 /\ L[Pdpt] = 3 /\ L[Pd] = 2
  BY DEF Tree, Typed
<1>3. /\ L2 \in [K2 -> 1..4] /\ L2[page] = L[t] - 1
      /\ \A u \in K : L2[u] = L[u]
  BY <1>2 DEF GrownLevels
<1>4. Kid(ts, t, x) = 0
  BY DEF Kid
<1>5. /\ Kid(ts2, t, x) = page
      /\ \A u \in K, y \in Indices : ~(u = t /\ y = x) => Kid(ts2, u, y) = Kid(ts, u, y)
      /\ \A y \in Indices : Kid(ts2, page, y) = 0
  <2>1. t # 0 /\ ts2[t][x].present /\ ~ts2[t][x].huge /\ ts2[t][x].frame = page
    BY <1>1, <1>2 DEF Entry
  <2>2. Kid(ts2, t, x) = page
    BY <2>1 DEF Kid
  <2>3. \A u \in K, y \in Indices : ~(u = t /\ y = x) => Kid(ts2, u, y) = Kid(ts, u, y)
    BY <1>1 DEF Kid
  <2>4. \A y \in Indices : ~ts2[page][y].present /\ ~ts2[page][y].huge
    BY <1>1 DEF Empty, Entry
  <2> QED BY <2>2, <2>3, <2>4 DEF Kid
<1>6. \A u \in K, y \in Indices : Kid(ts, u, y) # 0 => Kid(ts2, u, y) = Kid(ts, u, y)
  BY <1>4, <1>5
<1>7. ASSUME NEW u \in K, NEW y \in Indices, L[u] > 1
      PROVE  Kid(ts, u, y) # page
  BY <1>2, <1>7 DEF Tree, Down
<1>8. Tree(ts2, K2, L2)
  <2>1. Typed(ts2, K2, L2)
    BY <1>1, <1>2, <1>3 DEF Typed, BootTables
  <2>2. Down(ts2, K2, L2)
    <3> SUFFICES ASSUME NEW u \in K2, NEW y \in Indices, L2[u] > 1
                 PROVE  Kid(ts2, u, y) = 0 \/ (Kid(ts2, u, y) \in K2 /\ L2[Kid(ts2, u, y)] = L2[u] - 1)
      BY DEF Down
    <3>1. CASE u = page
      BY <1>5, <3>1
    <3>2. CASE u = t /\ y = x
      BY <1>3, <1>5, <3>2
    <3>3. CASE u # page /\ ~(u = t /\ y = x)
      <4>1. u \in K /\ L[u] > 1 /\ L2[u] = L[u] /\ Kid(ts2, u, y) = Kid(ts, u, y)
        BY <1>3, <1>5, <3>3
      <4>2. Kid(ts, u, y) = 0 \/ (Kid(ts, u, y) \in K /\ L[Kid(ts, u, y)] = L[u] - 1)
        BY <4>1 DEF Tree, Down
      <4> QED BY <1>3, <4>1, <4>2
    <3> QED BY <3>1, <3>2, <3>3
  <2>3. Unique(ts2, K2, L2)
    <3> SUFFICES ASSUME NEW u \in K2, NEW w \in K2, NEW y \in Indices, NEW z \in Indices,
                        L2[u] > 1, L2[w] > 1, Kid(ts2, u, y) # 0, Kid(ts2, u, y) = Kid(ts2, w, z)
                 PROVE  u = w /\ y = z
      BY DEF Unique
    <3>1. u \in K /\ w \in K /\ L[u] > 1 /\ L[w] > 1
      BY <1>3, <1>5
    <3>2. CASE (u = t /\ y = x) \/ (w = t /\ z = x)
      BY <1>5, <1>7, <3>1, <3>2
    <3>3. CASE ~(u = t /\ y = x) /\ ~(w = t /\ z = x)
      <4>1. Kid(ts, u, y) # 0 /\ Kid(ts, u, y) = Kid(ts, w, z)
        BY <1>5, <3>1, <3>3
      <4> QED BY <3>1, <4>1, OneLink
    <3> QED BY <3>2, <3>3
  <2>4. Reached(ts2, K2, L2)
    <3> SUFFICES ASSUME NEW u \in K2 \ {Pml4}
                 PROVE  \E w \in K2, y \in Indices : L2[w] > 1 /\ Kid(ts2, w, y) = u
      BY DEF Reached
    <3>1. CASE u = page
      BY <1>3, <1>5, <3>1
    <3>2. CASE u # page
      <4>1. PICK w \in K, y \in Indices : L[w] > 1 /\ Kid(ts, w, y) = u
        BY <3>2 DEF Tree, Reached
      <4>2. u # 0
        BY <1>2, <3>2
      <4> QED BY <1>3, <1>6, <4>1, <4>2
    <3> QED BY <3>1, <3>2
  <2>5. BootEntries(ts2)
    <3>1. 0 \in Indices /\ Pml4 \in K /\ Pdpt \in K /\ Pd \in K
      BY <1>2, FanNat DEF Indices, BootTables
    <3>2. Kid(ts2, Pml4, 0) = Pdpt /\ Kid(ts2, Pdpt, 0) = Pd
      BY <1>6, <3>1 DEF Tree, BootEntries, Pdpt, Pd
    <3>3. ts2[Pd][0] = ts[Pd][0]
      <4>1. ts[Pd][0].present
        BY DEF Tree, BootEntries, Entry
      <4> QED BY <1>1, <3>1, <4>1
    <3> QED BY <3>2, <3>3 DEF Tree, BootEntries
  <2>6. Regular(ts2, K2)
    <3> SUFFICES ASSUME NEW u \in K2, NEW y \in Indices
                 PROVE  /\ ts2[u][y].huge => u = Pd /\ y = 0
                        /\ ts2[u][y].present /\ ~ts2[u][y].huge => ts2[u][y].frame # 0
      BY DEF Regular
    <3>1. CASE u = page
      BY <1>1, <3>1 DEF Empty, Entry
    <3>2. CASE u = t /\ y = x
      BY <1>1, <3>2 DEF Entry
    <3>3. CASE u # page /\ ~(u = t /\ y = x)
      BY <1>1, <3>3 DEF Tree, Regular
    <3> QED BY <3>1, <3>2, <3>3
  <2> QED BY <2>1, <2>2, <2>3, <2>4, <2>5, <2>6 DEF Tree
<1>9. ASSUME NEW v \in Nat PROVE Phys(ts2, v) = Phys(ts, v)
  <2> DEFINE a == PdptIn(ts, v)
             a2 == PdptIn(ts2, v)
             b == PdIn(ts, v)
             b2 == PdIn(ts2, v)
             c == PtIn(ts, v)
             c2 == PtIn(ts2, v)
             i1 == Index(v, 1)
             i2 == Index(v, 2)
             i3 == Index(v, 3)
             i4 == Index(v, 4)
  <2>1. i1 \in Indices /\ i2 \in Indices /\ i3 \in Indices /\ i4 \in Indices
    BY IndexType
  <2>2. /\ a # 0 => a \in K
        /\ b # 0 => b \in K
        /\ c # 0 => c \in K /\ L[c] = 1
    BY WalkLevels
  <2>3. Pml4 \in K
    BY <1>2 DEF BootTables
  <2>4. /\ a = Kid(ts, Pml4, i4) /\ a2 = Kid(ts2, Pml4, i4)
        /\ b = Kid(ts, a, i3) /\ b2 = Kid(ts2, a2, i3)
        /\ c = Kid(ts, b, i2) /\ c2 = Kid(ts2, b2, i2)
    BY DEF PdptIn, PdIn, PtIn
  <2>5. /\ Phys(ts, v) = IF b # 0 /\ ts[b][i2].huge THEN ts[b][i2].frame + i1
                         ELSE IF c # 0 /\ ts[c][i1].present THEN ts[c][i1].frame ELSE 0
        /\ Phys(ts2, v) = IF b2 # 0 /\ ts2[b2][i2].huge THEN ts2[b2][i2].frame + i1
                          ELSE IF c2 # 0 /\ ts2[c2][i1].present THEN ts2[c2][i1].frame ELSE 0
    BY DEF Phys, Unmapped
  <2>6. \A tt, y : Kid(tt, 0, y) = 0
    BY DEF Kid
  <2> HIDE DEF a, a2, b, b2, c, c2, i1, i2, i3, i4
  <2>7. \A y \in Indices : ~ts2[page][y].present /\ ~ts2[page][y].huge
    BY <1>1 DEF Empty, Entry
  <2>8. ~ts2[t][x].huge
    BY <1>1 DEF Entry
  <2>9. a2 = a \/ (a = 0 /\ a2 = page)
    BY <1>4, <1>5, <2>1, <2>3, <2>4
  <2>10. b2 = b \/ (b = 0 /\ b2 = page)
    BY <1>4, <1>5, <2>1, <2>2, <2>4, <2>6, <2>9
  <2>11. c2 = c \/ (c = 0 /\ c2 = page)
    BY <1>4, <1>5, <2>1, <2>2, <2>4, <2>6, <2>10
  <2>14. c # 0 => c2 = c /\ ts2[c][i1] = ts[c][i1]
    <3>1. c # 0 => c2 = c /\ c \in K /\ c # t
      BY <2>2, <2>11
    <3> QED BY <1>1, <2>1, <3>1
  <2>15. c = 0 => c2 = 0 \/ ~ts2[c2][i1].present
    BY <2>1, <2>7, <2>11
  <2>12. CASE b # 0 /\ ~(b = t /\ i2 = x)
    <3>1. b2 = b /\ ts2[b2][i2] = ts[b][i2]
      BY <1>1, <2>1, <2>2, <2>10, <2>12
    <3> QED BY <2>5, <2>12, <2>14, <2>15, <3>1
  <2>13. CASE b = 0 \/ (b = t /\ i2 = x)
    <3>1. b # 0 => ~ts[b][i2].huge /\ b2 = b /\ ~ts2[b2][i2].huge
      BY <2>8, <2>10, <2>13
    <3>2. b = 0 => b2 = 0 \/ ~ts2[b2][i2].huge
      BY <2>1, <2>7, <2>10
    <3> QED BY <2>5, <2>14, <2>15, <3>1, <3>2
  <2> QED BY <2>12, <2>13
<1> QED BY <1>3, <1>5, <1>6, <1>8, <1>9

-----------------------------------------------------------------------------
(* The walk of a mapping                                                   *)

Tables == BootTables \cup vmmPages
IsTree(L) == Tree(tables, Tables, L)

\* What the walks rely on: no page taken for a table is free.
TablesTaken == PmemInv /\ vmmPages \subseteq used

\* A walk leaves a tree of the tables there were and of those it has made, with
\* the same translations.
Walks == [at : Nat, tables : TableMaps, used : SUBSET Pages, free : Nat]
WalkTables(w) == Tables \cup (w.used \ used)
WalkInv(w, L) ==
  /\ w \in Walks /\ used \subseteq w.used /\ w.free = Cardinality(Pages \ w.used)
  /\ Tree(w.tables, WalkTables(w), L)
  /\ \A v \in Nat : Phys(w.tables, v) = Phys(tables, v)

\* What a level of a walk adds: the child of the table, one level down.
WalkStep(w, w2, x, L, L2) ==
  /\ WalkInv(w2, L2)
  /\ \A u \in WalkTables(w) : u \in WalkTables(w2) /\ L2[u] = L[u]
  /\ \A u \in WalkTables(w), y \in Indices :
       Kid(w.tables, u, y) # 0 => Kid(w2.tables, u, y) = Kid(w.tables, u, y)
  /\ w2.at # 0 =>
       /\ w.at # 0 /\ Kid(w2.tables, w.at, x) = w2.at
       /\ w2.at \in WalkTables(w2) /\ L2[w2.at] = L2[w.at] - 1

LEMMA NatHasLeast ==
  ASSUME NEW S \in SUBSET Nat, S # {}
  PROVE  \E p \in S : \A q \in S : p <= q
<1> DEFINE R == OpToRel(<, Nat)
<1>1. \A p, q \in Nat : q < p => <<q, p>> \in R
  BY DEF OpToRel
<1>2. IsWellFoundedOn(R, Nat)
  BY NatLessThanWellFounded
<1> HIDE DEF R
<1>3. PICK p \in S : \A q \in S : ~(<<q, p>> \in R)
  BY <1>2, WFMin
<1>4. ASSUME NEW q \in S PROVE p <= q
  <2>1. p \in Nat /\ q \in Nat
    OBVIOUS
  <2>2. ~(q < p)
    BY <1>1, <1>3, <2>1
  <2> QED BY <2>1, <2>2
<1> QED BY <1>4

LEMMA TablesUsed ==
  ASSUME TablesTaken
  PROVE  vmmPages \subseteq used /\ used \subseteq Pages /\ (0 \in Pages => 0 \in used)
<1>1. MarkedPages(total_pages) \subseteq used /\ used \subseteq Pages
  BY DEF TablesTaken, PmemInv, PagesAccounted, TypeOK
<1>2. 0 \in Pages => 0 \in MarkedPages(total_pages)
  <2>1. 0 * BitsPerPage = 0
    BY PmemAssumption DEF PmemAssumption
  <2>2. total_pages \in Nat
    BY DEF TablesTaken, PmemInv, TypeOK
  <2> QED BY <2>1, <2>2 DEF MarkedPages, Pages
<1> QED BY <1>1, <1>2 DEF TablesTaken

\* A walk counts the pages it takes, wherever they lie.
Counted(w) ==
  /\ w = [at |-> w.at, tables |-> w.tables, used |-> w.used, free |-> w.free]
  /\ used \subseteq w.used /\ w.used \subseteq Pages /\ w.free = Cardinality(Pages \ w.used)

LEMMA LevelCounted ==
  ASSUME TablesTaken, NEW w, Counted(w), NEW x
  PROVE  Counted(get_or_create_table(w, x)) /\ w.used \subseteq get_or_create_table(w, x).used
<1> DEFINE w2 == get_or_create_table(w, x)
           free == Pages \ w.used
           page == CHOOSE p \in free : IsFirst(p, free)
<1>1. CASE \E a : w2 = [w EXCEPT !.at = a]
  <2>1. PICK a : w2 = [w EXCEPT !.at = a]
    BY <1>1
  <2> HIDE DEF w2
  <2>2. w2 = [at |-> a, tables |-> w.tables, used |-> w.used, free |-> w.free]
    BY <2>1 DEF Counted
  <2> QED BY <2>2 DEF Counted, w2
<1>2. CASE w.free > 0 /\ free # {} /\ w2 = Linked(w, x, page)
  <2>1. page \in free
    <3>1. free \subseteq Nat /\ free # {}
      BY <1>2 DEF Pages
    <3>2. \E p \in free : \A q \in free : p <= q
      BY <3>1, NatHasLeast
    <3> QED BY <3>2 DEF IsFirst
  <2>2. /\ w2.used = w.used \cup {page} /\ w2.free = w.free - 1
        /\ w2 = [at |-> w2.at, tables |-> w2.tables, used |-> w2.used, free |-> w2.free]
    BY <1>2 DEF Linked
  <2> HIDE DEF page, w2
  <2>3. Cardinality(Pages \ w2.used) = w.free - 1
    <3>1. Pages \ w2.used = free \ {page} /\ IsFiniteSet(free)
      BY <2>2, PagesFinite DEF TablesTaken, PmemInv, TypeOK
    <3>2. Cardinality(free \ {page}) = Cardinality(free) - 1
      BY <2>1, <3>1, FS_RemoveElement
    <3> QED BY <3>1, <3>2 DEF Counted
  <2>4. used \subseteq w2.used /\ w2.used \subseteq Pages /\ w.used \subseteq w2.used
    BY <2>1, <2>2 DEF Counted
  <2> QED BY <2>2, <2>3, <2>4 DEF Counted, w2
<1> QED BY <1>1, <1>2 DEF get_or_create_table, Failed

\* The levels of a walk, each of which takes what the one before has.
LEMMA WalkCounted ==
  ASSUME TablesTaken, NEW v, NEW w3 \in WalkToPt(v)
  PROVE  LET w1 == get_or_create_table(Start, Index(v, 4))
             w2 == get_or_create_table(w1, Index(v, 3))
         IN  /\ w3 = get_or_create_table(w2, Index(v, 2))
             /\ Counted(w3) /\ w1.used \subseteq w2.used /\ w2.used \subseteq w3.used
<1> DEFINE w1 == get_or_create_table(Start, Index(v, 4))
           w2 == get_or_create_table(w1, Index(v, 3))
<1>1. w3 = get_or_create_table(w2, Index(v, 2))
  BY DEF WalkToPt
<1>2. Counted(Start)
  BY DEF Counted, Start, TablesTaken, PmemInv, TypeOK, CountExact, FreePages
<1>3. Counted(w1)
  BY <1>2, LevelCounted
<1> HIDE DEF w1
<1>4. Counted(w2) /\ w1.used \subseteq w2.used
  BY <1>3, LevelCounted
<1> HIDE DEF w2
<1>5. Counted(w3) /\ w2.used \subseteq w3.used
  BY <1>1, <1>4, LevelCounted
<1> QED BY <1>1, <1>4, <1>5 DEF w1, w2

LEMMA WalkStart ==
  ASSUME TablesTaken, NEW L, IsTree(L)
  PROVE  WalkInv(Start, L) /\ Start.at = Pml4 /\ Pml4 \in WalkTables(Start) /\ L[Pml4] = 4
<1>1. WalkTables(Start) = Tables
  BY DEF WalkTables, Start
<1>2. free_pages = Cardinality(Pages \ used) /\ free_pages \in Nat /\ used \subseteq Pages
  BY PagesFinite DEF TablesTaken, PmemInv, CountExact, TypeOK, FreePages
<1>3. tables \in TableMaps /\ Pml4 \in Tables /\ L[Pml4] = 4
  BY DEF IsTree, Tree, Typed, BootTables, Tables
<1>4. Start \in Walks
  BY <1>2, <1>3 DEF Start, Walks, Pml4
<1> QED BY <1>1, <1>2, <1>3, <1>4 DEF WalkInv, IsTree, Start

\* A level of the walk, which finds a table, makes one, or fails.
LEMMA WalkDown ==
  ASSUME TablesTaken, NEW w, NEW L, WalkInv(w, L), NEW x \in Indices,
         w.at # 0 => w.at \in WalkTables(w) /\ L[w.at] > 1,
         (get_or_create_table(w, x).used \ used) \cap BootTables = {}
  PROVE  \E L2 : WalkStep(w, get_or_create_table(w, x), x, L, L2)
<1> DEFINE e == w.tables[w.at][x]
           free == Pages \ w.used
           K == WalkTables(w)
           w2 == get_or_create_table(w, x)
<1>1. w \in Walks /\ used \subseteq w.used /\ w.free = Cardinality(Pages \ w.used) /\ Tree(w.tables, K, L)
      /\ \A v \in Nat : Phys(w.tables, v) = Phys(tables, v)
  BY DEF WalkInv
<1>2. CASE w2 = Failed(w)
  <2>1. w2.at = 0 /\ w2.tables = w.tables /\ w2.used = w.used /\ w2.free = w.free /\ w2 \in Walks
    BY <1>1, <1>2 DEF Failed, Walks
  <2> HIDE DEF w2
  <2>2. WalkTables(w2) = K
    BY <2>1 DEF WalkTables
  <2>3. WalkInv(w2, L)
    BY <1>1, <2>1, <2>2 DEF WalkInv
  <2>4. WalkStep(w, w2, x, L, L)
    BY <2>1, <2>2, <2>3 DEF WalkStep
  <2> QED BY <2>4 DEF w2
<1>3. CASE w.at # 0 /\ ~e.huge /\ e.present
  <2>1. w2 = [w EXCEPT !.at = e.frame]
    BY <1>3 DEF get_or_create_table
  <2>2. w.at \in K /\ Kid(w.tables, w.at, x) = e.frame /\ e.frame # 0
    BY <1>1, <1>3 DEF Kid, Tree, Regular
  <2>3. e.frame \in K /\ L[e.frame] = L[w.at] - 1
    <3>1. Down(w.tables, K, L) /\ L[w.at] > 1
      BY <1>1, <1>3 DEF Tree
    <3> HIDE DEF e, K
    <3> QED BY <2>2, <3>1 DEF Down
  <2>4. K \subseteq Nat
    BY <1>1, PmemAssumption DEF Tree, Typed, Pages, BootTables, Pml4, Pdpt, Pd
  <2>5. w2.at = e.frame /\ w2.tables = w.tables /\ w2.used = w.used /\ w2.free = w.free /\ w2 \in Walks
    BY <1>1, <2>1, <2>3, <2>4 DEF Walks
  <2> HIDE DEF w2, e
  <2>6. WalkTables(w2) = K
    BY <2>5 DEF WalkTables
  <2>7. WalkInv(w2, L)
    BY <1>1, <2>5, <2>6 DEF WalkInv
  <2>8. WalkStep(w, w2, x, L, L)
    BY <1>3, <2>2, <2>3, <2>5, <2>6, <2>7 DEF WalkStep
  <2> QED BY <2>8 DEF w2
<1>4. CASE w.at # 0 /\ ~e.huge /\ ~e.present /\ w.free > 0 /\ free # {}
  <2> DEFINE page == CHOOSE p \in free : IsFirst(p, free)
  <2>1. w2 = Linked(w, x, page)
    BY <1>4 DEF get_or_create_table
  <2>2. page \in free
    <3>1. \E p \in free : IsFirst(p, free)
      <4>1. free \subseteq Nat /\ free # {}
        BY <1>4 DEF Pages
      <4>2. \E p \in free : \A q \in free : p <= q
        BY <4>1, NatHasLeast
      <4> QED BY <4>2 DEF IsFirst
    <3> QED BY <3>1
  <2> HIDE DEF page
  <2>3. w.used \subseteq Pages /\ page \notin BootTables
    <3>1. page \in w2.used /\ page \notin used
      BY <1>1, <2>1, <2>2 DEF Linked
    <3> QED BY <1>1, <3>1 DEF Walks
  <2>4. page \in Pages \ K /\ page # 0 /\ page \in Nat
    BY <1>1, <2>2, <2>3, TablesUsed DEF Pages, WalkTables, Tables
  <2>5. w.at \in K /\ L[w.at] > 1
    BY <1>4
  <2> DEFINE ts2 == Grown(w.tables, w.at, x, page)
             L2 == GrownLevels(K, L, w.at, page)
             K2 == K \cup {page}
  <2>6. /\ w2.at = page /\ w2.tables = ts2
        /\ w2.used = w.used \cup {page} /\ w2.free = w.free - 1
        /\ w2 = [at |-> page, used |-> w.used \cup {page}, free |-> w.free - 1, tables |-> ts2]
    BY <2>1 DEF Linked, Grown
  <2> HIDE DEF ts2, L2, w2
  <2>7. /\ Tree(ts2, K2, L2)
        /\ L2[page] = L[w.at] - 1 /\ Kid(ts2, w.at, x) = page
        /\ \A u \in K : L2[u] = L[u]
        /\ \A u \in K, y \in Indices : Kid(w.tables, u, y) # 0 => Kid(ts2, u, y) = Kid(w.tables, u, y)
        /\ \A v \in Nat : Phys(ts2, v) = Phys(w.tables, v)
    <3>1. ~w.tables[w.at][x].present /\ ~w.tables[w.at][x].huge
      BY <1>4
    <3>2. ts2 = Grown(w.tables, w.at, x, page) /\ L2 = GrownLevels(K, L, w.at, page)
      BY DEF ts2, L2
    <3>3. Tree(w.tables, K, L) /\ page \in Pages \ K
      BY <1>1, <2>4
    <3> DEFINE ts == w.tables
               t == w.at
    <3>4. /\ x \in Indices /\ t \in K /\ L[t] > 1 /\ page \in Pages \ K /\ page # 0
          /\ Tree(ts, K, L) /\ ~ts[t][x].present /\ ~ts[t][x].huge
          /\ ts2 = Grown(ts, t, x, page) /\ L2 = GrownLevels(K, L, t, page)
      BY <2>4, <2>5, <3>1, <3>2, <3>3
    <3> HIDE DEF K, e, ts, t
    <3>5. /\ Tree(ts2, K \cup {page}, L2)
          /\ L2[page] = L[t] - 1 /\ Kid(ts2, t, x) = page
          /\ \A u \in K : L2[u] = L[u]
          /\ \A u \in K, y \in Indices : Kid(ts, u, y) # 0 => Kid(ts2, u, y) = Kid(ts, u, y)
          /\ \A v \in Nat : Phys(ts2, v) = Phys(ts, v)
      <4>1. MayGrow(ts, K, L, t, x, page, ts2, L2)
        BY <3>4 DEF MayGrow
      <4>2. HasGrown(ts, K, L, t, x, page, ts2, L2)
        BY ONLY <4>1, GrownTree
      <4> QED BY <4>2 DEF HasGrown
    <3> QED BY <3>5 DEF ts, t
  <2>8. WalkTables(w2) = K2
    BY <1>1, <2>2, <2>6 DEF WalkTables
  <2>9. Cardinality(Pages \ w2.used) = w.free - 1 /\ w.free - 1 \in Nat
    <3>1. Pages \ w2.used = free \ {page} /\ IsFiniteSet(free)
      BY <2>6, PagesFinite DEF TablesTaken, PmemInv, TypeOK
    <3>2. Cardinality(free \ {page}) = Cardinality(free) - 1
      BY <2>2, <3>1, FS_RemoveElement
    <3>3. w.free \in Nat /\ w.free > 0 /\ w.free = Cardinality(free)
      BY <1>1, <1>4 DEF Walks
    <3> QED BY ONLY <3>1, <3>2, <3>3
  <2>10. w2 \in Walks
    <3>1. ts2 \in TableMaps
      BY <2>7 DEF Tree, Typed
    <3> QED BY <2>2, <2>3, <2>4, <2>6, <2>9, <3>1 DEF Walks
  <2>11. WalkInv(w2, L2)
    BY <1>1, <2>6, <2>7, <2>8, <2>9, <2>10 DEF WalkInv
  <2>12. WalkStep(w, w2, x, L, L2)
    BY <1>4, <2>5, <2>6, <2>7, <2>8, <2>11 DEF WalkStep
  <2> QED BY <2>12 DEF w2
<1> QED BY <1>2, <1>3, <1>4 DEF get_or_create_table

\* The whole walk: it ends at the table that leads to the page, or has failed.
LEMMA WalkEnds ==
  ASSUME TablesTaken, NEW L, IsTree(L), NEW v \in VPages, NEW w3 \in WalkToPt(v),
         (w3.used \ used) \cap BootTables = {}
  PROVE  /\ \E L3 : WalkInv(w3, L3)
         /\ w3.at # 0 => w3.at = PtIn(w3.tables, v)
<1> DEFINE i4 == Index(v, 4)
           i3 == Index(v, 3)
           i2 == Index(v, 2)
           w1 == get_or_create_table(Start, i4)
           w2 == get_or_create_table(w1, i3)
<1>1. i4 \in Indices /\ i3 \in Indices /\ i2 \in Indices
  BY VmmAssumption, IndexType DEF VmmAssumption
<1>2. w3 = get_or_create_table(w2, i2) /\ w1.used \subseteq w2.used /\ w2.used \subseteq w3.used
  BY WalkCounted
<1>3. PICK L1 : WalkStep(Start, w1, i4, L, L1)
  BY <1>1, <1>2, WalkStart, WalkDown
<1> HIDE DEF w1, i4, i3, i2
<1>4. Start.at = Pml4 /\ Pml4 \in WalkTables(Start) /\ L[Pml4] = 4
  BY WalkStart
<1>5. WalkInv(w1, L1) /\ (w1.at # 0 => w1.at \in WalkTables(w1) /\ L1[w1.at] = 3)
  BY <1>3, <1>4 DEF WalkStep
<1>6. PICK L2 : WalkStep(w1, w2, i3, L1, L2)
  BY <1>1, <1>2, <1>5, WalkDown
<1> HIDE DEF w2
<1>7. WalkInv(w2, L2) /\ (w2.at # 0 => w1.at # 0 /\ w2.at \in WalkTables(w2) /\ L2[w2.at] = 2)
  BY <1>5, <1>6 DEF WalkStep
<1>8. PICK L3 : WalkStep(w2, w3, i2, L2, L3)
  BY <1>1, <1>2, <1>7, WalkDown
<1>9. ASSUME w3.at # 0 PROVE w3.at = PtIn(w3.tables, v)
  <2>1. w1.at # 0 /\ w2.at # 0
    BY <1>7, <1>8, <1>9 DEF WalkStep
  <2>2. /\ Kid(w1.tables, Pml4, i4) = w1.at
        /\ Kid(w2.tables, w1.at, i3) = w2.at
        /\ Kid(w3.tables, w2.at, i2) = w3.at
    BY <1>3, <1>4, <1>6, <1>8, <1>9, <2>1 DEF WalkStep
  <2>3. Pml4 \in WalkTables(w1) /\ Pml4 \in WalkTables(w2) /\ w1.at \in WalkTables(w2)
    BY <1>3, <1>4, <1>5, <1>6, <2>1 DEF WalkStep
  <2>4. Kid(w2.tables, Pml4, i4) = w1.at
    BY <1>1, <1>5, <1>6, <2>1, <2>2, <2>3 DEF WalkStep
  <2>5. Kid(w3.tables, Pml4, i4) = w1.at /\ Kid(w3.tables, w1.at, i3) = w2.at
    BY <1>1, <1>8, <2>1, <2>2, <2>3, <2>4 DEF WalkStep
  <2> QED BY <2>2, <2>5 DEF PtIn, PdIn, PdptIn, i4, i3, i2
<1>10. WalkInv(w3, L3)
  BY <1>8 DEF WalkStep
<1> QED BY <1>9, <1>10

\* The pages that a walk takes are counted and owned like any others.
LEMMA WalkTakenInv ==
  ASSUME TablesTaken, NEW w, Counted(w), WalkTaken(w), UNCHANGED <<region, call>>
  PROVE  /\ TablesTaken' /\ Tables' = WalkTables(w) /\ vmmPages' \subseteq Pages'
         /\ ~Spoilt' => (w.used \ used) \cap BootTables = {}
<1> USE DEF TablesTaken, PmemInv, TypeOK
<1>1. /\ total_pages' = total_pages /\ memory_start' = memory_start
      /\ pc' = pc /\ want' = want /\ depth' = depth
      /\ used' = w.used /\ free_pages' = w.free /\ vmmPages' = vmmPages \cup (w.used \ used)
      /\ owners' = [p \in Pages |-> IF p \in w.used \ used THEN owners[p] + 1 ELSE owners[p]]
  BY DEF region, call, WalkTaken
<1>2. Pages' = Pages /\ MarkedPages(total_pages)' = MarkedPages(total_pages)
      /\ MarkedPages(total_pages) \subseteq Pages /\ MarkedPages(total_pages) \subseteq used
  BY <1>1 DEF Pages, MarkedPages, PagesAccounted
<1>3. w.used \subseteq Pages /\ used \subseteq w.used /\ w.free = Cardinality(Pages \ w.used)
      /\ Cardinality(Pages \ w.used) \in 0..total_pages
  BY PagesFinite DEF Counted
<1>4. CountExact' /\ free_pages' \in 0..total_pages'
  BY <1>1, <1>2, <1>3 DEF CountExact, FreePages
<1>5. \A p \in Pages : owners[p] \in Nat
  OBVIOUS
<1>6. \A p \in Pages : p \notin used => owners[p] = 0
  BY <1>5 DEF PagesAccounted
<1>7. \A p \in Pages : owners'[p] = IF p \in w.used \ used THEN 1 ELSE owners[p]
  BY <1>1, <1>5, <1>6
<1>8. owners' \in [Pages' -> Nat]
  BY <1>1, <1>2, <1>5
<1>9. PagesAccounted'
  <2>1. \A p \in Pages : owners'[p] <= 1
    BY <1>7 DEF PagesAccounted
  <2>2. {p \in Pages : owners'[p] = 1} = {p \in Pages : owners[p] = 1} \cup (w.used \ used)
    BY <1>3, <1>7
  <2>3. \A p \in MarkedPages(total_pages) : owners'[p] = 0
    BY <1>2, <1>7 DEF PagesAccounted
  <2> QED BY <1>1, <1>2, <1>3, <2>1, <2>2, <2>3 DEF PagesAccounted
<1>10. PmemInv'
  BY <1>1, <1>2, <1>3, <1>4, <1>8, <1>9 DEF WantInv
<1>11. vmmPages' \subseteq used'
  BY <1>1, <1>2, <1>3
<1>12. Tables' = WalkTables(w)
  BY <1>1 DEF Tables, WalkTables
<1>13. ASSUME NEW p \in w.used \ used, p \in BootTables PROVE Spoilt'
  <2>1. p \in Pages' /\ owners'[p] > 0
    BY <1>2, <1>3, <1>7
  <2>2. p \in Occupied
    BY <1>13, VmmAssumption DEF VmmAssumption
  <2> QED BY <2>1, <2>2 DEF Spoilt
<1> QED BY <1>1, <1>2, <1>3, <1>10, <1>11, <1>12, <1>13

-----------------------------------------------------------------------------
(* The invariant                                                           *)

\* The processor keeps what the tables say.
TlbInv ==
  /\ tlb \subseteq VPages \X Nat
  /\ \A t \in tlb : vmm_get_physical(t[1]) = t[2]

HasTree == \E L : Tree(tables, Tables, L)

MemoryInv == TablesTaken /\ HasTree /\ TlbInv

CallTypes ==
  /\ vpc \in {"idle", "map", "undo", "unmap"} /\ i \in 0..vcall.n
  /\ vcall \in [v : VPages \cup {0}, p : Nat, n : 0..MaxRange]
  /\ failed \in BOOLEAN /\ result \in {0, -1}

\* The first k pages of the range of the call.
First(k) == vcall.v..(vcall.v + k - 1)

\* The pages before the loop are mapped, and were free when the call began.
MapInv ==
  vpc = "map" =>
    /\ vcall.p \in Physical
    /\ \A x \in First(i) : before[x] = 0
    /\ \A x \in VPages :
         vmm_get_physical(x) = IF x \in First(i) THEN vcall.p + (x - vcall.v) ELSE before[x]

\* All but the pages still to be undone is what it was.
UndoInv ==
  vpc = "undo" =>
    /\ \A x \in First(vcall.n) : before[x] = 0
    /\ \A x \in VPages : x \notin First(vcall.n) \ First(i) => vmm_get_physical(x) = before[x]

\* The pages before the loop are gone, but for those of the boot loader.
UnmapInv ==
  vpc = "unmap" =>
    /\ \A x \in VPages : vmm_get_physical(x) = IF x \in First(i) \ Boot THEN 0 ELSE before[x]
    /\ failed <=> \E x \in First(i) : x \in Boot \/ before[x] = 0

RangeInv ==
  /\ Running => /\ before \in [VPages -> Nat]
                /\ \A x \in Boot : before[x] = x
                /\ vcall.v \in VPages /\ First(vcall.n) \subseteq VPages
                /\ vpc # "undo" => vcall.n > 0
  /\ MapInv /\ UndoInv /\ UnmapInv

VInv == MemoryInv /\ CallTypes /\ RangeInv

LEMMA PrimedWalk ==
  ASSUME NEW v
  PROVE  PtOf(v)' = PtIn(tables', v) /\ vmm_get_physical(v)' = Phys(tables', v)
BY DEF PdOf, PtOf, child, vmm_get_physical, Kid, PdptIn, PdIn, PtIn, Phys

LEMMA TreeAfter ==
  ASSUME NEW L, Pages' = Pages, Tree(tables', Tables', L)
  PROVE  HasTree'
BY DEF HasTree, Tree, Typed, TableMaps, Down, Unique, Reached, BootEntries, Regular, Kid

\* What is free, what is the boot loader's, and what can be unmapped.
LEMMA PageFacts ==
  ASSUME Canonical, NEW L, IsTree(L), NEW v \in VPages
  PROVE  /\ vmm_get_physical(v) \in Nat
         /\ v \in Boot => vmm_get_physical(v) = v
         /\ CanUnmap(v) <=> v \notin Boot /\ vmm_get_physical(v) # 0
<1> DEFINE c == PtIn(tables, v)
           e == tables[c][Index(v, 1)]
<1>1. v \in Nat /\ v # 0
  BY VmmAssumption DEF VmmAssumption
<1>2. /\ v \in Boot => c = 0 /\ Phys(tables, v) = v
      /\ v \notin Boot => Phys(tables, v) = IF c # 0 /\ e.present THEN e.frame ELSE 0
      /\ Phys(tables, v) \in Nat
  BY BootWalk DEF IsTree
<1>3. PtOf(v) = c /\ vmm_get_physical(v) = Phys(tables, v)
  BY SameWalk
<1>4. CanUnmap(v) <=> c # 0 /\ e.present
  BY <1>3 DEF CanUnmap
<1>5. c # 0 => c \in Tables /\ L[c] = 1 /\ Index(v, 1) \in Indices
  BY <1>1, WalkLevels, IndexType DEF IsTree
<1> HIDE DEF c
<1>6. c # 0 /\ e.present => e.frame # 0
  <2>1. c # 0 => c # Pd
    BY <1>5 DEF IsTree, Tree, Typed
  <2> QED BY <1>5, <2>1 DEF IsTree, Tree, Regular
<1> QED BY <1>1, <1>2, <1>3, <1>4, <1>6

\* What the processor keeps stays right when the translation of v alone changes
\* and is flushed.
LEMMA TlbAfter ==
  ASSUME TlbInv, NEW v,
         \/ /\ tlb' = Flushed(v)
            /\ \A x \in VPages : x # v => vmm_get_physical(x)' = vmm_get_physical(x)
         \/ /\ tlb' = tlb
            /\ \A x \in VPages : vmm_get_physical(x)' = vmm_get_physical(x)
  PROVE  TlbInv'
<1>1. tlb' \subseteq tlb
  BY DEF Flushed
<1>2. ASSUME NEW t \in tlb' PROVE vmm_get_physical(t[1])' = t[2]
  <2>1. t[1] \in VPages /\ vmm_get_physical(t[1]) = t[2]
    BY <1>1 DEF TlbInv
  <2>2. vmm_get_physical(t[1])' = vmm_get_physical(t[1])
    BY <2>1 DEF Flushed
  <2> QED BY <2>1, <2>2
<1> QED BY <1>1, <1>2 DEF TlbInv

\* A page becomes mapped.
LEMMA MapPage ==
  ASSUME Canonical, MemoryInv, NEW v \in VPages, NEW p \in Nat \ {0},
         vmm_map_page(v, p), UNCHANGED <<region, call>>, ~Spoilt'
  PROVE  /\ MemoryInv' /\ vmm_get_physical(v) = 0
         /\ \A x \in VPages : vmm_get_physical(x)' = IF x = v THEN p ELSE vmm_get_physical(x)
<1>1. PICK L : IsTree(L)
  BY DEF MemoryInv, HasTree, IsTree
<1>2. TablesTaken /\ TlbInv
  BY DEF MemoryInv
<1>3. PICK w \in WalkToPt(v) :
        /\ CanMap(w, v)
        /\ WalkTaken(w)
        /\ tables' = SetEntry(w.tables, w.at, Index(v, 1), Entry(TRUE, FALSE, p))
        /\ tlb' = Flushed(v)
  BY DEF vmm_map_page
<1>6. TablesTaken' /\ Tables' = WalkTables(w) /\ (w.used \ used) \cap BootTables = {}
  BY <1>2, <1>3, WalkCounted, WalkTakenInv
<1>4. PICK L3 : WalkInv(w, L3)
  BY <1>1, <1>2, <1>6, WalkEnds
<1>5. w.at # 0 /\ w.at = PtIn(w.tables, v) /\ ~w.tables[w.at][Index(v, 1)].present
  BY <1>1, <1>2, <1>3, <1>6, WalkEnds DEF CanMap
<1> DEFINE e == Entry(TRUE, FALSE, p)
           K == WalkTables(w)
<1>7. e \in Entries /\ ~e.huge /\ e.present /\ e.frame = p /\ e.frame # 0
  BY DEF Entry, Entries
<1>8. tables' = SetEntry(w.tables, PtIn(w.tables, v), Index(v, 1), e)
  BY <1>3, <1>5
<1>9. Tree(w.tables, K, L3) /\ \A x \in Nat : Phys(w.tables, x) = Phys(tables, x)
  BY <1>4 DEF WalkInv
<1>10. PtIn(w.tables, v) # 0
  BY <1>5
<1> HIDE DEF e, K
<1>11. /\ Tree(tables', K, L3)
       /\ Phys(tables', v) = p
       /\ \A x \in VPages \ {v} : Phys(tables', x) = Phys(w.tables, x)
  BY <1>7, <1>8, <1>9, <1>10, SetLeaf
<1>12. \A x \in VPages : x \in Nat
  BY VmmAssumption DEF VmmAssumption
<1>13. Phys(w.tables, v) = 0
  BY <1>5, <1>9, BootWalk
<1>14. vmm_get_physical(v) = 0
  BY <1>9, <1>12, <1>13, SameWalk
<1>15. \A x \in VPages : vmm_get_physical(x)' = IF x = v THEN p ELSE vmm_get_physical(x)
  BY <1>9, <1>11, <1>12, SameWalk, PrimedWalk
<1>16. TlbInv'
  BY <1>2, <1>3, <1>15, TlbAfter
<1>17. HasTree'
  BY <1>6, <1>11, TreeAfter DEF region, Pages, K
<1> QED BY <1>6, <1>14, <1>15, <1>16, <1>17 DEF MemoryInv

\* A page that cannot be mapped leaves all translations as they are.
LEMMA MapPageFails ==
  ASSUME Canonical, MemoryInv, NEW v \in VPages,
         vmm_map_page_fails(v), UNCHANGED <<region, call>>, ~Spoilt'
  PROVE  /\ MemoryInv'
         /\ \A x \in VPages : vmm_get_physical(x)' = vmm_get_physical(x)
<1>1. PICK L : IsTree(L)
  BY DEF MemoryInv, HasTree, IsTree
<1>2. TablesTaken /\ TlbInv
  BY DEF MemoryInv
<1>3. PICK w \in WalkToPt(v) : WalkTaken(w) /\ tables' = w.tables /\ tlb' = tlb
  BY DEF vmm_map_page_fails
<1>5. TablesTaken' /\ Tables' = WalkTables(w) /\ (w.used \ used) \cap BootTables = {}
  BY <1>2, <1>3, WalkCounted, WalkTakenInv
<1>4. PICK L3 : WalkInv(w, L3)
  BY <1>1, <1>2, <1>5, WalkEnds
<1>6. Tree(tables', Tables', L3) /\ \A x \in Nat : Phys(tables', x) = Phys(tables, x)
  BY <1>3, <1>4, <1>5 DEF WalkInv
<1>7. \A x \in VPages : x \in Nat
  BY VmmAssumption DEF VmmAssumption
<1>8. \A x \in VPages : vmm_get_physical(x)' = vmm_get_physical(x)
  BY <1>6, <1>7, SameWalk, PrimedWalk
<1>9. TlbInv'
  BY <1>2, <1>3, <1>8, TlbAfter
<1>10. HasTree'
  BY <1>6, TreeAfter DEF region, Pages
<1> QED BY <1>5, <1>8, <1>9, <1>10 DEF MemoryInv

\* The pages taken stay the same, and with them the tables there are.
LEMMA TakenKept ==
  ASSUME TablesTaken, UNCHANGED <<pmem, vmmPages>>
  PROVE  TablesTaken' /\ Tables' = Tables /\ Pages' = Pages
<1>1. PmemInv'
  BY StepInv DEF TablesTaken
<1> QED BY <1>1 DEF TablesTaken, Tables, Pages, pmem, region, bits

\* A page becomes unmapped, if it can be.
LEMMA UnmapPage ==
  ASSUME Canonical, MemoryInv, NEW v \in VPages,
         vmm_unmap_page(v), UNCHANGED <<pmem, vmmPages>>
  PROVE  /\ MemoryInv'
         /\ \A x \in VPages :
              vmm_get_physical(x)' = IF x = v /\ v \notin Boot THEN 0 ELSE vmm_get_physical(x)
<1>1. PICK L : IsTree(L)
  BY DEF MemoryInv, HasTree, IsTree
<1>2. TablesTaken /\ TlbInv
  BY DEF MemoryInv
<1>3. TablesTaken' /\ Tables' = Tables /\ Pages' = Pages
  BY <1>2, TakenKept
<1>4. CASE CanUnmap(v)
  <2>1. PtOf(v) = PtIn(tables, v) /\ PtIn(tables, v) # 0
    BY <1>4, SameWalk DEF CanUnmap
  <2>2. tables' = SetEntry(tables, PtIn(tables, v), Index(v, 1), Empty) /\ tlb' = Flushed(v)
    BY <1>4, <2>1 DEF vmm_unmap_page
  <2>3. Empty \in Entries /\ ~Empty.huge /\ ~Empty.present
    BY DEF Empty, Entry, Entries
  <2>4. Tree(tables, Tables, L)
    BY <1>1 DEF IsTree
  <2>5. /\ Tree(tables', Tables, L)
        /\ Phys(tables', v) = 0
        /\ \A x \in VPages \ {v} : Phys(tables', x) = Phys(tables, x)
    BY <2>1, <2>2, <2>3, <2>4, SetLeaf
  <2>6. \A x \in VPages : vmm_get_physical(x)' = IF x = v THEN 0 ELSE vmm_get_physical(x)
    BY <2>5, SameWalk, PrimedWalk
  <2>7. v \notin Boot
    BY <1>1, <1>4, PageFacts
  <2>8. TlbInv'
    BY <1>2, <2>2, <2>6, TlbAfter
  <2>9. HasTree'
    BY <1>3, <2>5, TreeAfter
  <2> QED BY <1>3, <2>6, <2>7, <2>8, <2>9 DEF MemoryInv
<1>5. CASE ~CanUnmap(v)
  <2>1. tables' = tables /\ tlb' = tlb
    BY <1>5 DEF vmm_unmap_page
  <2>2. \A x \in VPages : vmm_get_physical(x)' = vmm_get_physical(x)
    BY <2>1, SameWalk, PrimedWalk
  <2>3. v \in Boot \/ vmm_get_physical(v) = 0
    BY <1>1, <1>5, PageFacts
  <2>4. TlbInv'
    BY <1>2, <2>1, <2>2, TlbAfter
  <2>5. HasTree'
    BY <1>1, <1>3, <2>1, TreeAfter DEF IsTree
  <2> QED BY <1>3, <2>2, <2>3, <2>4, <2>5 DEF MemoryInv
<1> QED BY <1>4, <1>5

-----------------------------------------------------------------------------
(* Every step keeps the invariant                                          *)

LEMMA BootTree ==
  ASSUME VInit, PmemInv
  PROVE  HasTree
<1> DEFINE L == [t \in BootTables |-> IF t = Pml4 THEN 4 ELSE IF t = Pdpt THEN 3 ELSE 2]
<1> USE DEF Pml4, Pdpt, Pd
<1>1. Tables = BootTables
  BY DEF VInit, Tables
<1>2. \A page \in Pages \cup BootTables : tables[page] = BootTable(page)
  BY DEF VInit
<1>3. 0 \in Indices /\ Pages \subseteq Nat
  BY FanNat DEF Indices, Pages
<1>4. \A x \in Indices :
        /\ tables[Pml4][x] = IF x = 0 THEN Entry(TRUE, FALSE, Pdpt) ELSE Empty
        /\ tables[Pdpt][x] = IF x = 0 THEN Entry(TRUE, FALSE, Pd) ELSE Empty
        /\ tables[Pd][x] = IF x = 0 THEN Entry(TRUE, TRUE, 0) ELSE Empty
  <2>1. /\ BootTable(Pml4) = [x \in Indices |-> IF x = 0 THEN Entry(TRUE, FALSE, Pdpt) ELSE Empty]
        /\ BootTable(Pdpt) = [x \in Indices |-> IF x = 0 THEN Entry(TRUE, FALSE, Pd) ELSE Empty]
        /\ BootTable(Pd) = [x \in Indices |-> IF x = 0 THEN Entry(TRUE, TRUE, 0) ELSE Empty]
    BY DEF BootTable
  <2>2. /\ tables[Pml4] = BootTable(Pml4) /\ tables[Pdpt] = BootTable(Pdpt)
        /\ tables[Pd] = BootTable(Pd)
    BY <1>2 DEF BootTables
  <2> HIDE DEF Pml4, Pdpt, Pd
  <2>3. \A x \in Indices : tables[Pml4][x] = IF x = 0 THEN Entry(TRUE, FALSE, Pdpt) ELSE Empty
    BY <2>1, <2>2
  <2>4. \A x \in Indices : tables[Pdpt][x] = IF x = 0 THEN Entry(TRUE, FALSE, Pd) ELSE Empty
    BY <2>1, <2>2
  <2>5. \A x \in Indices : tables[Pd][x] = IF x = 0 THEN Entry(TRUE, TRUE, 0) ELSE Empty
    BY <2>1, <2>2
  <2> QED BY <2>3, <2>4, <2>5
<1>5. tables \in TableMaps
  <2>1. \A page : BootTable(page) \in [Indices -> Entries]
    <3>1. Empty \in Entries /\ Entry(TRUE, FALSE, Pdpt) \in Entries
          /\ Entry(TRUE, FALSE, Pd) \in Entries /\ Entry(TRUE, TRUE, 0) \in Entries
          /\ Entry(TRUE, FALSE, 0) \in Entries
      BY DEF Empty, Entry, Entries
    <3> QED BY <3>1 DEF BootTable, Garbage
  <2> QED BY <2>1 DEF VInit, TableMaps
<1>6. L \in [BootTables -> 1..4] /\ L[Pml4] = 4 /\ L[Pdpt] = 3 /\ L[Pd] = 2
  BY DEF BootTables
<1>7. \A x \in Indices :
        /\ Kid(tables, Pml4, x) = IF x = 0 THEN Pdpt ELSE 0
        /\ Kid(tables, Pdpt, x) = IF x = 0 THEN Pd ELSE 0
        /\ Kid(tables, Pd, x) = 0
  BY <1>4 DEF Kid, Entry, Empty
<1> HIDE DEF L
<1>8. Typed(tables, BootTables, L)
  BY <1>5, <1>6 DEF Typed, BootTables
<1>9. Down(tables, BootTables, L)
  BY <1>6, <1>7 DEF Down, BootTables
<1>10. Unique(tables, BootTables, L)
  BY <1>6, <1>7 DEF Unique, BootTables
<1>11. Reached(tables, BootTables, L)
  BY <1>3, <1>6, <1>7 DEF Reached, BootTables
<1>12. BootEntries(tables)
  BY <1>3, <1>4, <1>7 DEF BootEntries
<1>13. Regular(tables, BootTables)
  BY <1>4 DEF Regular, BootTables, Entry, Empty
<1> QED BY <1>1, <1>8, <1>9, <1>10, <1>11, <1>12, <1>13 DEF HasTree, Tree

LEMMA VInitInv == ASSUME VInit PROVE VInv
<1>1. PmemInv
  BY InitPmemInv DEF VInit
<1>2. TablesTaken /\ HasTree /\ TlbInv
  BY <1>1, BootTree DEF VInit, TablesTaken, TlbInv
<1>3. CallTypes
  <2>1. /\ vcall \in [v : VPages \cup {0}, p : Nat, n : 0..MaxRange] /\ vcall.n = 0
        /\ i = 0 /\ vpc = "idle" /\ failed = FALSE /\ result = 0
    BY VmmAssumption DEF VmmAssumption, VInit, NoCall
  <2>2. i \in 0..vcall.n
    BY <2>1
  <2>3. result \in {0, -1}
    BY <2>1
  <2>4. failed \in BOOLEAN /\ vpc \in {"idle", "map", "undo", "unmap"}
    BY <2>1
  <2> QED BY <2>1, <2>2, <2>3, <2>4 DEF CallTypes
<1>4. RangeInv
  BY DEF VInit, RangeInv, Running, MapInv, UndoInv, UnmapInv
<1> QED BY <1>2, <1>3, <1>4 DEF VInv, MemoryInv

LEMMA MemoryKept ==
  ASSUME MemoryInv, TablesTaken', Pages' = Pages, UNCHANGED <<tables, tlb, vmmPages>>
  PROVE  MemoryInv' /\ \A x : vmm_get_physical(x)' = vmm_get_physical(x)
<1>1. \A x : vmm_get_physical(x)' = vmm_get_physical(x)
  BY SameWalk, PrimedWalk
<1>2. PICK L : Tree(tables, Tables, L)
  BY DEF MemoryInv, HasTree
<1>3. HasTree'
  BY <1>2, TreeAfter DEF Tables
<1>4. TlbInv'
  BY <1>1 DEF MemoryInv, TlbInv
<1> QED BY <1>1, <1>3, <1>4 DEF MemoryInv

LEMMA FirstPages ==
  ASSUME CallTypes, vcall.v \in VPages, NEW k \in 0..vcall.n
  PROVE  /\ First(0) = {} /\ First(k) \subseteq First(vcall.n)
         /\ First(k + 1) = First(k) \cup {vcall.v + k} /\ vcall.v + k \notin First(k)
         /\ k < vcall.n => vcall.v + k \in First(vcall.n)
         /\ \A x \in First(vcall.n) : x - vcall.v \in Nat
<1>1. vcall.v \in Nat /\ vcall.n \in Nat /\ k \in Nat /\ k <= vcall.n
  <2>1. vcall.v \in Nat
    BY VmmAssumption DEF VmmAssumption
  <2>2. vcall.n \in 0..MaxRange /\ MaxRange \in Nat
    BY VmmAssumption DEF VmmAssumption, CallTypes
  <2> QED BY <2>1, <2>2
<1>2. First(0) = {} /\ First(k) \subseteq First(vcall.n)
  BY <1>1 DEF First
<1>3. First(k + 1) = First(k) \cup {vcall.v + k} /\ vcall.v + k \notin First(k)
  BY <1>1 DEF First
<1>4. k < vcall.n => vcall.v + k \in First(vcall.n)
  BY <1>1 DEF First
<1>5. \A x \in First(vcall.n) : x - vcall.v \in Nat
  BY <1>1 DEF First
<1> QED BY <1>2, <1>3, <1>4, <1>5

LEMMA ClientsInv == ASSUME TablesTaken, ~Spoilt, Clients PROVE TablesTaken' /\ (VInv => VInv')
<1>1. PmemInv /\ vmmPages \subseteq used /\ used \subseteq Pages
  BY DEF TablesTaken, PmemInv, TypeOK
<1>2. Operations /\ UNCHANGED vmm
  BY DEF Clients, Operations
<1>3. PmemInv'
  BY <1>1, <1>2, OperationInv
<1>4. UNCHANGED region
  BY DEF Clients, pmem_alloc_page, CallAllocPages, AllocPagesFails, AllocPagesFound,
     AllocPagesAgain, pmem_free_pages
<1>5. vmmPages \subseteq used'
  <2>1. CASE used \subseteq used'
    BY <1>1, <2>1
  <2>2. ASSUME NEW first \in Pages, NEW n \in 1..MaxCount,
               (first..(first + n - 1)) \cap vmmPages = {}, pmem_free_pages(first, n)
        PROVE  vmmPages \subseteq used'
    BY <1>1, <2>2 DEF pmem_free_pages, Freed
  <2> QED BY <2>1, <2>2 DEF Clients, pmem_alloc_page, Taken, CallAllocPages, AllocPagesFails,
         AllocPagesFound, AllocPagesAgain, bits
<1>6. TablesTaken' /\ Pages' = Pages
  BY <1>2, <1>3, <1>4, <1>5
  DEF TablesTaken, Pages, region, vmm
<1>7. VInv => MemoryInv'
  BY <1>2, <1>6, MemoryKept DEF VInv, vmm
<1>8. VInv => CallTypes' /\ RangeInv'
  BY <1>2 DEF Clients, VInv, vmm, CallTypes, RangeInv, Running, MapInv, UndoInv, UnmapInv
<1> QED BY <1>6, <1>7, <1>8 DEF VInv

\* What the callers see, and what a step of it is.
Seen == IF Running THEN before ELSE Mapping
SeenStep == [ASNext]_<<Seen, result>>

LEMMA BeginInv ==
  ASSUME Canonical, VInv, NEW at \in {"map", "unmap"}, NEW v \in VPages, NEW p \in Nat, NEW n \in 1..MaxRange,
         at = "map" => p \in Physical, v..(v + n - 1) \subseteq VPages, Begin(at, v, p, n)
  PROVE  VInv' /\ SeenStep
<1>1. /\ MemoryInv /\ TablesTaken /\ vpc = "idle"
      /\ vpc' = at /\ vcall' = [v |-> v, p |-> p, n |-> n] /\ i' = 0 /\ failed' = FALSE
      /\ before' = Mapping /\ result' = result
      /\ UNCHANGED <<pmem, tables, tlb, vmmPages>>
  BY DEF Begin, VInv, MemoryInv
<1>2. TablesTaken' /\ Pages' = Pages
  BY <1>1, TakenKept
<1>3. MemoryInv' /\ \A x : vmm_get_physical(x)' = vmm_get_physical(x)
  BY <1>1, <1>2, MemoryKept
<1>4. MaxRange \in Nat /\ v \in Nat /\ n \in Nat /\ n > 0 /\ n <= MaxRange
  BY VmmAssumption DEF VmmAssumption
<1>5. vcall' \in [v : VPages \cup {0}, p : Nat, n : 0..MaxRange]
      /\ vcall'.v = v /\ vcall'.p = p /\ vcall'.n = n
  BY <1>1, <1>4
<1>6. i' \in 0..vcall'.n
  BY <1>1, <1>4, <1>5
<1>7. CallTypes'
  BY <1>1, <1>5, <1>6 DEF VInv, CallTypes
<1>8. First(0)' = {} /\ First(i)' = {} /\ First(vcall.n)' = v..(v + n - 1)
  BY <1>1, <1>4, <1>5 DEF First
<1>9. PICK L : IsTree(L)
  BY <1>1 DEF MemoryInv, HasTree, IsTree
<1>10. /\ before' \in [VPages -> Nat]
       /\ \A x \in VPages : vmm_get_physical(x)' = before'[x]
       /\ \A x \in Boot : before'[x] = x
  BY <1>1, <1>3, <1>9, PageFacts DEF Mapping, Boot
<1>11. MapInv' /\ UndoInv' /\ UnmapInv'
  BY <1>1, <1>5, <1>8, <1>10 DEF MapInv, UndoInv, UnmapInv
<1>12. RangeInv'
  BY <1>1, <1>4, <1>5, <1>8, <1>10, <1>11 DEF RangeInv, Running
<1>13. Seen' = Seen
  BY <1>1 DEF Seen, Running
<1> QED BY <1>1, <1>3, <1>7, <1>12, <1>13 DEF VInv, SeenStep

\* What holds while a call runs.
LEMMA RunningFacts ==
  ASSUME VInv, Running
  PROVE  /\ MemoryInv /\ TablesTaken /\ CallTypes /\ i \in Nat /\ i <= vcall.n /\ vcall.n \in 0..MaxRange
         /\ before \in [VPages -> Nat] /\ vcall.v \in VPages /\ VPages \subseteq Nat \ {0}
         /\ First(i) \subseteq First(vcall.n) /\ First(vcall.n) \subseteq VPages
         /\ First(i + 1) = First(i) \cup {vcall.v + i} /\ vcall.v + i \notin First(i)
         /\ i < vcall.n => vcall.v + i \in First(vcall.n)
<1>1. MemoryInv /\ TablesTaken /\ CallTypes /\ vcall.v \in VPages /\ before \in [VPages -> Nat]
      /\ First(vcall.n) \subseteq VPages
  BY DEF VInv, MemoryInv, RangeInv
<1>2. VPages \subseteq Nat \ {0}
  BY VmmAssumption DEF VmmAssumption
<1>3. vcall.n \in 0..MaxRange /\ i \in 0..vcall.n
  BY <1>1 DEF CallTypes
<1>4. i \in Nat /\ i <= vcall.n
  BY <1>3, VmmAssumption DEF VmmAssumption
<1> QED BY <1>1, <1>2, <1>3, <1>4, FirstPages

LEMMA MapNextInv == ASSUME Canonical, VInv, MapNext, ~Spoilt' PROVE VInv'
<1> DEFINE v == vcall.v + i
           p == vcall.p + i
<1>1. /\ vpc = "map" /\ i < vcall.n /\ vmm_map_page(v, p) /\ i' = i + 1
      /\ UNCHANGED <<region, call, vpc, vcall, failed, result, before>>
  BY DEF MapNext
<1>2. Running /\ Running'
  BY <1>1 DEF Running
<1>3. v \in VPages /\ v \in First(vcall.n) /\ v \notin First(i) /\ First(i + 1) = First(i) \cup {v}
  BY <1>1, <1>2, RunningFacts
<1>4. vcall.p \in Physical /\ vcall.p \in Nat \ {0} /\ i \in Nat /\ vcall.v \in Nat
  BY <1>1, <1>2, RunningFacts, VmmAssumption DEF VmmAssumption, VInv, RangeInv, MapInv
<1>5. p \in Nat \ {0} /\ p = vcall.p + (v - vcall.v)
  BY <1>4
<1> HIDE DEF v, p
<1>6. /\ MemoryInv' /\ vmm_get_physical(v) = 0
      /\ \A x \in VPages : vmm_get_physical(x)' = IF x = v THEN p ELSE vmm_get_physical(x)
  BY <1>1, <1>2, <1>3, <1>5, RunningFacts, MapPage
<1>7. /\ \A x \in First(i) : before[x] = 0
      /\ \A x \in VPages :
           vmm_get_physical(x) = IF x \in First(i) THEN vcall.p + (x - vcall.v) ELSE before[x]
  BY <1>1 DEF VInv, RangeInv, MapInv
<1>8. First(i)' = First(i) \cup {v} /\ First(vcall.n)' = First(vcall.n)
  BY <1>1, <1>3 DEF First
<1>9. MapInv' /\ UndoInv' /\ UnmapInv'
  BY <1>1, <1>3, <1>4, <1>5, <1>6, <1>7, <1>8 DEF MapInv, UndoInv, UnmapInv
<1>10. RangeInv'
  BY <1>1, <1>2, <1>8, <1>9 DEF VInv, RangeInv
<1>11. CallTypes'
  <2>1. i' \in 0..vcall'.n
    BY <1>1, <1>2, RunningFacts
  <2> QED BY <1>1, <2>1 DEF VInv, CallTypes
<1> QED BY <1>1, <1>6, <1>10, <1>11 DEF VInv

LEMMA MapFailsInv == ASSUME Canonical, VInv, MapFails, ~Spoilt' PROVE VInv'
<1> DEFINE v == vcall.v + i
<1>1. /\ vpc = "map" /\ i < vcall.n /\ vmm_map_page_fails(v)
      /\ vpc' = "undo" /\ vcall' = [vcall EXCEPT !.n = i] /\ i' = 0
      /\ UNCHANGED <<region, call, failed, result, before>>
  BY DEF MapFails
<1>2. Running /\ Running'
  BY <1>1 DEF Running
<1>3. v \in VPages /\ i \in Nat /\ i <= MaxRange /\ vcall.v \in Nat
  BY <1>1, <1>2, RunningFacts, VmmAssumption DEF VmmAssumption
<1> HIDE DEF v
<1>4. MemoryInv' /\ \A x \in VPages : vmm_get_physical(x)' = vmm_get_physical(x)
  BY <1>1, <1>2, <1>3, RunningFacts, MapPageFails
<1>5. /\ \A x \in First(i) : before[x] = 0
      /\ \A x \in VPages :
           vmm_get_physical(x) = IF x \in First(i) THEN vcall.p + (x - vcall.v) ELSE before[x]
  BY <1>1 DEF VInv, RangeInv, MapInv
<1>6. /\ vcall' \in [v : VPages \cup {0}, p : Nat, n : 0..MaxRange]
      /\ vcall'.v = vcall.v /\ vcall'.n = i
  BY <1>1, <1>2, <1>3, RunningFacts, VmmAssumption DEF VmmAssumption, CallTypes
<1>7. First(i)' = {} /\ First(vcall.n)' = First(i)
  BY <1>1, <1>3, <1>6 DEF First
<1>8. MapInv' /\ UndoInv' /\ UnmapInv'
  BY <1>1, <1>4, <1>5, <1>7 DEF MapInv, UndoInv, UnmapInv
<1>9. RangeInv'
  BY <1>1, <1>2, <1>6, <1>7, <1>8, RunningFacts DEF VInv, RangeInv
<1>10. CallTypes'
  <2>1. i' \in 0..vcall'.n
    BY <1>1, <1>3, <1>6
  <2> QED BY <1>1, <1>6, <2>1 DEF VInv, CallTypes
<1> QED BY <1>1, <1>4, <1>9, <1>10 DEF VInv

\* While the loop of a mapping takes pages, its caller sees nothing, wherever they lie.
LEMMA MappingInv ==
  ASSUME TablesTaken, MapNext \/ MapFails
  PROVE  TablesTaken' /\ SeenStep
<1>1. Running /\ Running' /\ before' = before /\ result' = result
  BY DEF MapNext, MapFails, Running
<1>2. \E v : \E w \in WalkToPt(v) : WalkTaken(w) /\ UNCHANGED <<region, call>>
  BY DEF MapNext, MapFails, vmm_map_page, vmm_map_page_fails
<1>3. TablesTaken'
  BY <1>2, WalkCounted, WalkTakenInv
<1> QED BY <1>1, <1>3 DEF SeenStep, Seen

LEMMA UndoNextInv == ASSUME Canonical, VInv, UndoNext PROVE VInv' /\ SeenStep
<1> DEFINE v == vcall.v + i
<1>1. /\ vpc = "undo" /\ i # vcall.n /\ vmm_unmap_page(v) /\ i' = i + 1
      /\ UNCHANGED <<pmem, vpc, vcall, failed, result, vmmPages, before>>
  BY DEF UndoNext, Undone
<1>2. Running /\ Running'
  BY <1>1 DEF Running
<1>3. i < vcall.n
  BY <1>1, <1>2, RunningFacts, VmmAssumption DEF VmmAssumption
<1>4. v \in VPages /\ v \in First(vcall.n) /\ v \notin First(i) /\ First(i + 1) = First(i) \cup {v}
      /\ v # 0
  BY <1>2, <1>3, RunningFacts
<1> HIDE DEF v
<1>5. /\ MemoryInv'
      /\ \A x \in VPages : vmm_get_physical(x)' = IF x = v /\ v \notin Boot THEN 0 ELSE vmm_get_physical(x)
  BY <1>1, <1>2, <1>4, RunningFacts, UnmapPage
<1>6. /\ \A x \in First(vcall.n) : before[x] = 0
      /\ \A x \in VPages : x \notin First(vcall.n) \ First(i) => vmm_get_physical(x) = before[x]
      /\ \A x \in Boot : before[x] = x
  BY <1>1, <1>2 DEF VInv, RangeInv, UndoInv
<1>7. v \notin Boot
  BY <1>4, <1>6
<1>8. First(i)' = First(i) \cup {v} /\ First(vcall.n)' = First(vcall.n)
  BY <1>1, <1>4 DEF First
<1>9. MapInv' /\ UndoInv' /\ UnmapInv'
  BY <1>1, <1>4, <1>5, <1>6, <1>7, <1>8 DEF MapInv, UndoInv, UnmapInv
<1>10. RangeInv'
  BY <1>1, <1>2, <1>8, <1>9 DEF VInv, RangeInv
<1>11. CallTypes'
  <2>1. i' \in 0..vcall'.n
    BY <1>1, <1>2, <1>3, RunningFacts
  <2> QED BY <1>1, <2>1 DEF VInv, CallTypes
<1>12. Seen' = Seen
  BY <1>1, <1>2 DEF Seen
<1> QED BY <1>1, <1>5, <1>10, <1>11, <1>12 DEF VInv, SeenStep

LEMMA UnmapNextInv == ASSUME Canonical, VInv, UnmapNext PROVE VInv' /\ SeenStep
<1> DEFINE v == vcall.v + i
<1>1. /\ vpc = "unmap" /\ i < vcall.n /\ vmm_unmap_page(v) /\ i' = i + 1
      /\ failed' = (failed \/ ~CanUnmap(v))
      /\ UNCHANGED <<pmem, vpc, vcall, result, vmmPages, before>>
  BY DEF UnmapNext
<1>2. Running /\ Running'
  BY <1>1 DEF Running
<1>3. v \in VPages /\ v \in First(vcall.n) /\ v \notin First(i) /\ First(i + 1) = First(i) \cup {v}
  BY <1>1, <1>2, RunningFacts
<1> HIDE DEF v
<1>4. /\ MemoryInv'
      /\ \A x \in VPages : vmm_get_physical(x)' = IF x = v /\ v \notin Boot THEN 0 ELSE vmm_get_physical(x)
  BY <1>1, <1>2, <1>3, RunningFacts, UnmapPage
<1>5. /\ \A x \in VPages : vmm_get_physical(x) = IF x \in First(i) \ Boot THEN 0 ELSE before[x]
      /\ failed <=> \E x \in First(i) : x \in Boot \/ before[x] = 0
  BY <1>1 DEF VInv, RangeInv, UnmapInv
<1>6. CanUnmap(v) <=> v \notin Boot /\ before[v] # 0
  <2>1. PICK L : IsTree(L)
    BY <1>2, RunningFacts DEF MemoryInv, HasTree, IsTree
  <2> QED BY <1>3, <1>5, <2>1, PageFacts
<1>7. First(i)' = First(i) \cup {v} /\ First(vcall.n)' = First(vcall.n)
  BY <1>1, <1>3 DEF First
<1>8. failed' <=> \E x \in First(i)' : x \in Boot \/ before'[x] = 0
  BY <1>1, <1>5, <1>6, <1>7
<1>9. \A x \in VPages : vmm_get_physical(x)' = IF x \in First(i)' \ Boot THEN 0 ELSE before'[x]
  BY <1>1, <1>4, <1>5, <1>7
<1>10. MapInv' /\ UndoInv' /\ UnmapInv'
  BY <1>1, <1>8, <1>9 DEF MapInv, UndoInv, UnmapInv
<1>11. RangeInv'
  BY <1>1, <1>2, <1>7, <1>10 DEF VInv, RangeInv
<1>12. CallTypes'
  <2>1. i' \in 0..vcall'.n
    BY <1>1, <1>2, RunningFacts
  <2>2. failed' \in BOOLEAN
    BY <1>1
  <2> QED BY <1>1, <2>1, <2>2 DEF VInv, CallTypes
<1>13. Seen' = Seen
  BY <1>1, <1>2 DEF Seen
<1> QED BY <1>1, <1>4, <1>11, <1>12, <1>13 DEF VInv, SeenStep

\* The end of a call.
LEMMA FinishInv ==
  ASSUME VInv, Running, NEW r \in {0, -1}, Finish(r), UNCHANGED <<pmem, tables, tlb, vmmPages>>
  PROVE  /\ VInv' /\ result' = r /\ Seen = before
         /\ Seen' = [x \in VPages |-> vmm_get_physical(x)]
<1>1. TablesTaken' /\ Pages' = Pages /\ MemoryInv
  BY TakenKept DEF VInv, MemoryInv
<1>2. MemoryInv' /\ \A x : vmm_get_physical(x)' = vmm_get_physical(x)
  BY <1>1, MemoryKept
<1>3. /\ vpc' = "idle" /\ result' = r /\ vcall' = NoCall /\ i' = 0 /\ failed' = FALSE
  BY DEF Finish
<1>4. CallTypes'
  <2>1. vcall' \in [v : VPages \cup {0}, p : Nat, n : 0..MaxRange] /\ vcall'.n = 0
    BY <1>3, VmmAssumption DEF VmmAssumption, NoCall
  <2>2. i' \in 0..vcall'.n
    BY <1>3, <2>1
  <2>3. failed' \in BOOLEAN /\ vpc' \in {"idle", "map", "undo", "unmap"} /\ result' \in {0, -1}
    BY <1>3
  <2> QED BY <2>1, <2>2, <2>3 DEF CallTypes
<1>5. RangeInv'
  BY <1>3 DEF RangeInv, Running, MapInv, UndoInv, UnmapInv
<1>6. Seen = before /\ Seen' = Mapping'
  BY <1>3 DEF Seen, Running
<1>7. Mapping' = [x \in VPages |-> vmm_get_physical(x)]
  BY <1>2 DEF Mapping
<1> QED BY <1>2, <1>3, <1>4, <1>5, <1>6, <1>7 DEF VInv

LEMMA MapDoneInv == ASSUME VInv, MapDone PROVE VInv' /\ SeenStep
<1>1. /\ vpc = "map" /\ i = vcall.n /\ Finish(0) /\ UNCHANGED <<pmem, tables, tlb, vmmPages>>
      /\ Running /\ ~Running'
  BY DEF MapDone, Running, Finish
<1>2. /\ VInv' /\ result' = 0 /\ Seen = before
      /\ Seen' = [x \in VPages |-> vmm_get_physical(x)]
  BY <1>1, FinishInv
<1> DEFINE v == vcall.v
           p == vcall.p
           n == vcall.n
<1>3. /\ p \in Physical
      /\ \A x \in First(n) : before[x] = 0
      /\ \A x \in VPages : vmm_get_physical(x) = IF x \in First(n) THEN p + (x - v) ELSE before[x]
  BY <1>1 DEF VInv, RangeInv, MapInv
<1>4. v \in VPages /\ First(n) \subseteq VPages /\ n \in 1..MaxRange
  <2>1. n > 0
    BY <1>1 DEF VInv, RangeInv
  <2> QED BY <1>1, <2>1, RunningFacts, VmmAssumption DEF VmmAssumption
<1>5. First(n) = v..(v + n - 1) /\ AS!Range(v, n) = v..(v + n - 1)
  BY DEF First, AS!Range
<1> HIDE DEF v, p, n
<1>6. AS!MapRange(v, p, n)
  <2>1. \A x \in AS!Range(v, n) : Seen[x] = Unmapped
    BY <1>2, <1>3, <1>5 DEF Unmapped
  <2>2. Seen' = [x \in VPages |-> IF x \in AS!Range(v, n) THEN p + (x - v) ELSE Seen[x]]
    BY <1>2, <1>3, <1>5
  <2> QED BY <1>2, <2>1, <2>2 DEF AS!MapRange, Seen
<1>7. ASNext
  BY <1>1, <1>3, <1>4, <1>5, <1>6 DEF ASNext
<1> QED BY <1>2, <1>7 DEF SeenStep

LEMMA UndoDoneInv == ASSUME VInv, UndoDone PROVE VInv' /\ SeenStep
<1>1. /\ vpc = "undo" /\ i = vcall.n /\ Finish(-1) /\ UNCHANGED <<pmem, tables, tlb, vmmPages>>
      /\ Running /\ ~Running'
  BY DEF UndoDone, Undone, Running, Finish
<1>2. /\ VInv' /\ result' = -1 /\ Seen = before
      /\ Seen' = [x \in VPages |-> vmm_get_physical(x)]
  BY <1>1, FinishInv
<1>3. \A x \in VPages : vmm_get_physical(x) = before[x]
  BY <1>1 DEF VInv, RangeInv, UndoInv
<1>4. before \in [VPages -> Nat]
  BY <1>1, RunningFacts
<1>5. Seen' = Seen
  BY <1>2, <1>3, <1>4
<1>6. AS!MapFails
  BY <1>2, <1>5 DEF AS!MapFails, Seen
<1> QED BY <1>1, <1>2, <1>6 DEF SeenStep, ASNext

LEMMA UnmapDoneInv == ASSUME Canonical, VInv, UnmapDone PROVE VInv' /\ SeenStep
<1> DEFINE r == IF failed THEN -1 ELSE 0
           v == vcall.v
           n == vcall.n
           gone == {x \in First(n) \ Boot : before[x] # 0}
<1>1. /\ vpc = "unmap" /\ i = vcall.n /\ Finish(r) /\ UNCHANGED <<pmem, tables, tlb, vmmPages>>
      /\ Running /\ ~Running' /\ r \in {0, -1}
  BY DEF UnmapDone, Running, Finish
<1>2. /\ VInv' /\ result' = r /\ Seen = before
      /\ Seen' = [x \in VPages |-> vmm_get_physical(x)]
  BY <1>1, FinishInv
<1>3. /\ \A x \in VPages : vmm_get_physical(x) = IF x \in First(n) \ Boot THEN 0 ELSE before[x]
      /\ failed <=> \E x \in First(n) : x \in Boot \/ before[x] = 0
  BY <1>1 DEF VInv, RangeInv, UnmapInv
<1>4. v \in VPages /\ First(n) \subseteq VPages /\ n \in 1..MaxRange
  <2>1. n > 0
    BY <1>1 DEF VInv, RangeInv
  <2> QED BY <1>1, <2>1, RunningFacts, VmmAssumption DEF VmmAssumption
<1>5. First(n) = v..(v + n - 1) /\ AS!Range(v, n) = v..(v + n - 1)
  BY DEF First, AS!Range
<1>6. failed \in BOOLEAN
  BY DEF VInv, CallTypes
<1>7. result' = IF gone = First(n) THEN 0 ELSE -1
  <2>1. failed <=> gone # First(n)
    BY <1>3
  <2> QED BY <1>2, <1>6, <2>1
<1>8. Seen' = [x \in VPages |-> IF x \in gone THEN Unmapped ELSE Seen[x]]
  <2>1. \A x \in VPages : vmm_get_physical(x) = IF x \in gone THEN Unmapped ELSE before[x]
    BY <1>3, <1>4 DEF Unmapped
  <2> HIDE DEF gone
  <2> QED BY <1>2, <2>1
<1>9. AS!UnmapRange(v, n, Boot)
  <2>1. gone = {x \in AS!Range(v, n) \ Boot : Seen[x] # Unmapped}
    BY <1>2, <1>5 DEF Unmapped
  <2> HIDE DEF gone, v, n
  <2> QED BY <1>5, <1>7, <1>8, <2>1 DEF AS!UnmapRange, Seen
<1>10. ASNext
  BY <1>1, <1>4, <1>5, <1>9 DEF ASNext
<1> QED BY <1>2, <1>10 DEF SeenStep

LEMMA TranslateInv == ASSUME Canonical, VInv, NEW v \in VPages, Translate(v) PROVE VInv' /\ SeenStep
<1>1. /\ tlb' = tlb \cup {<<v, vmm_get_physical(v)>>}
      /\ UNCHANGED <<pmem, tables, vpc, vcall, i, failed, result, vmmPages, before>>
  BY DEF Translate
<1>2. PICK L : IsTree(L)
  BY DEF VInv, MemoryInv, HasTree, IsTree
<1>3. vmm_get_physical(v) \in Nat
  BY <1>2, PageFacts
<1>4. TablesTaken' /\ Tables' = Tables /\ Pages' = Pages
  BY <1>1, TakenKept DEF VInv, MemoryInv
<1>5. HasTree'
  BY <1>1, <1>2, <1>4, TreeAfter DEF IsTree
<1>6. \A x : vmm_get_physical(x)' = vmm_get_physical(x)
  BY <1>1, SameWalk, PrimedWalk
<1>7. TlbInv'
  <2>1. tlb' \subseteq VPages \X Nat
    BY <1>1, <1>3 DEF VInv, MemoryInv, TlbInv
  <2>2. ASSUME NEW t \in tlb' PROVE vmm_get_physical(t[1])' = t[2]
    <3>1. vmm_get_physical(t[1]) = t[2]
      BY <1>1 DEF VInv, MemoryInv, TlbInv
    <3>2. vmm_get_physical(t[1])' = vmm_get_physical(t[1])
      BY <1>6, <2>1
    <3> QED BY <3>1, <3>2
  <2> QED BY <2>1, <2>2 DEF TlbInv
<1>8. CallTypes'
  BY <1>1 DEF VInv, CallTypes
<1>9. RangeInv'
  <2>1. First(i)' = First(i) /\ First(vcall.n)' = First(vcall.n)
    BY <1>1 DEF First
  <2> QED BY <1>1, <1>6, <2>1 DEF VInv, RangeInv, Running, MapInv, UndoInv, UnmapInv
<1>10. Seen' = Seen
  BY <1>1, <1>6 DEF Seen, Running, Mapping
<1> QED BY <1>1, <1>4, <1>5, <1>7, <1>8, <1>9, <1>10 DEF VInv, MemoryInv, SeenStep

\* The accounts hold whatever pages are handed out; the rest, as long as none is
\* in use by something else.
VSafe == TablesTaken /\ (~Spoilt => VInv)

LEMMA VStutter == ASSUME VSafe, UNCHANGED vars PROVE VSafe' /\ SeenStep
<1>1. UNCHANGED pmem /\ UNCHANGED vmm
  BY DEF vars
<1>2. TablesTaken' /\ Tables' = Tables /\ Pages' = Pages
  BY <1>1, TakenKept DEF VSafe, vmm
<1>3. Spoilt' = Spoilt
  BY <1>1 DEF pmem, region, call, Spoilt, BitmapPages, Pages, IsRam
<1>4. Seen' = Seen /\ result' = result
  BY <1>1, SameWalk, PrimedWalk DEF Seen, Running, Mapping, vmm
<1>5. ASSUME VInv PROVE VInv'
  <2>1. MemoryInv' /\ \A x : vmm_get_physical(x)' = vmm_get_physical(x)
    BY <1>1, <1>2, <1>5, MemoryKept DEF VInv, vmm
  <2>2. CallTypes'
    BY <1>1, <1>5 DEF VInv, CallTypes, vmm
  <2>3. First(i)' = First(i) /\ First(vcall.n)' = First(vcall.n)
    BY <1>1 DEF First, vmm
  <2>4. RangeInv'
    BY <1>1, <1>5, <2>1, <2>3 DEF VInv, RangeInv, Running, MapInv, UndoInv, UnmapInv, vmm
  <2> QED BY <2>1, <2>2, <2>4 DEF VInv
<1> QED BY <1>2, <1>3, <1>4, <1>5 DEF VSafe, SeenStep

LEMMA VStepInv == ASSUME Canonical, VSafe, [VNext]_vars PROVE VSafe' /\ SeenStep
<1>1. CASE UNCHANGED vars
  BY <1>1, VStutter
<1>2. ASSUME ~Spoilt, Clients \/ Ranges \/ \E v \in VPages : Translate(v)
      PROVE  VSafe' /\ SeenStep
  <2> USE <1>2
  <2>0. VInv /\ TablesTaken
    BY DEF VSafe
  <2>1. CASE Clients
    <3>1. Seen' = Seen /\ result' = result
      BY <2>1, SameWalk, PrimedWalk DEF Clients, vmm, Seen, Running, Mapping
    <3> QED BY <2>0, <2>1, <3>1, ClientsInv DEF SeenStep, VSafe
  <2>2. CASE MapNext \/ MapFails
    BY <2>0, <2>2, MapNextInv, MapFailsInv, MappingInv DEF VSafe
  <2>3. ASSUME NEW v \in VPages, NEW n \in 1..MaxRange, v..(v + n - 1) \subseteq VPages, vmm_unmap_pages(v, n)
        PROVE  VInv' /\ SeenStep
    BY <2>0, <2>3, BeginInv DEF vmm_unmap_pages
  <2>4. ASSUME NEW v \in VPages, NEW n \in 1..MaxRange, v..(v + n - 1) \subseteq VPages,
               NEW p \in Physical, vmm_map_pages(v, p, n)
        PROVE  VInv' /\ SeenStep
    <3>1. p \in Nat
      BY VmmAssumption DEF VmmAssumption
    <3> QED BY <2>0, <2>4, <3>1, BeginInv DEF vmm_map_pages
  <2>5. CASE MapDone \/ UndoNext \/ UndoDone \/ UnmapNext \/ UnmapDone
    <3>1. VInv' /\ SeenStep
      BY <2>0, <2>5, MapDoneInv, UndoNextInv, UndoDoneInv, UnmapNextInv, UnmapDoneInv
    <3> QED BY <3>1 DEF VSafe, VInv, MemoryInv
  <2>6. ASSUME NEW v \in VPages, Translate(v) PROVE VInv' /\ SeenStep
    BY <2>0, <2>6, TranslateInv
  <2>7. VInv' => VSafe'
    BY DEF VSafe, VInv, MemoryInv
  <2> QED BY <2>1, <2>2, <2>3, <2>4, <2>5, <2>6, <2>7 DEF Ranges
<1> QED BY <1>1, <1>2 DEF VNext

-----------------------------------------------------------------------------
(* The tables as a tree of links                                           *)

Level(L, k) == {t \in Tables : L[t] = k}
Link(l) == tables[l[1]][l[2]].frame

LEMMA ChildLinks ==
  ASSUME NEW L, IsTree(L), NEW S \in SUBSET Tables
  PROVE  /\ Children(S) = {l \in S \X Indices : Kid(tables, l[1], l[2]) # 0}
         /\ \A l \in Children(S) : Link(l) = Kid(tables, l[1], l[2])
<1>1. \A l \in S \X Indices :
        /\ l[1] \in Tables /\ l[2] \in Indices
        /\ tables[l[1]][l[2]].present /\ ~tables[l[1]][l[2]].huge <=> Kid(tables, l[1], l[2]) # 0
  BY DEF IsTree, Tree, Typed, Regular, Kid
<1>2. Children(S) = {l \in S \X Indices : Kid(tables, l[1], l[2]) # 0}
  BY <1>1 DEF Children
<1>3. \A l \in Children(S) : Link(l) = Kid(tables, l[1], l[2])
  BY <1>1 DEF Children, Kid, Link
<1> QED BY <1>2, <1>3

\* The links of one level lead to all tables of the next.
LEMMA NextLevel ==
  ASSUME NEW L, IsTree(L), NEW k \in 2..4
  PROVE  Frames(Children(Level(L, k))) = Level(L, k - 1)
<1> DEFINE S == Level(L, k)
<1>1. /\ S \in SUBSET Tables /\ \A t \in S : L[t] = k
      /\ L \in [Tables -> 1..4] /\ L[Pml4] = 4 /\ 0 \notin Tables
  BY DEF Level, IsTree, Tree, Typed
<1>2. Frames(Children(S)) = {Link(l) : l \in Children(S)}
  BY DEF Frames, Link
<1>3. ASSUME NEW l \in Children(S) PROVE Link(l) \in Level(L, k - 1)
  <2>1. l \in S \X Indices /\ Link(l) # 0 /\ Link(l) = Kid(tables, l[1], l[2])
    BY <1>1, ChildLinks
  <2>2. l[1] \in Tables /\ L[l[1]] = k /\ l[2] \in Indices
    BY <1>1, <2>1
  <2> QED BY <2>1, <2>2 DEF IsTree, Tree, Down, Level
<1>4. ASSUME NEW u \in Level(L, k - 1) PROVE \E l \in Children(S) : Link(l) = u
  <2>1. u \in Tables /\ L[u] = k - 1 /\ u # Pml4 /\ u # 0
    BY <1>1 DEF Level
  <2>2. PICK t \in Tables, x \in Indices : L[t] > 1 /\ Kid(tables, t, x) = u
    BY <2>1 DEF IsTree, Tree, Reached
  <2>3. L[t] = k
    <3>1. L[u] = L[t] - 1 /\ L[t] \in 1..4
      BY <1>1, <2>1, <2>2 DEF IsTree, Tree, Down
    <3> QED BY <2>1, <3>1
  <2>4. <<t, x>> \in S \X Indices /\ Kid(tables, <<t, x>>[1], <<t, x>>[2]) = u
    BY <2>2, <2>3 DEF Level
  <2> HIDE DEF S
  <2>5. <<t, x>> \in Children(S)
    BY <1>1, <2>1, <2>4, ChildLinks
  <2>6. Link(<<t, x>>) = u
    BY <1>1, <2>4, <2>5, ChildLinks
  <2> QED BY <2>5, <2>6
<1> QED BY <1>2, <1>3, <1>4

LEMMA TreeCounted ==
  ASSUME TablesTaken, HasTree
  PROVE  TablesAreTree
<1>1. PICK L : IsTree(L)
  BY DEF HasTree, IsTree
<1>2. /\ L \in [Tables -> 1..4] /\ L[Pml4] = 4 /\ 0 \notin Tables /\ Pml4 \in Tables
  BY <1>1 DEF IsTree, Tree, Typed, Tables, BootTables
<1>3. Level(L, 4) = {Pml4}
  <2>1. ASSUME NEW u \in Tables, u # Pml4 PROVE L[u] # 4
    <3>1. PICK t \in Tables, x \in Indices : L[t] > 1 /\ Kid(tables, t, x) = u
      BY <1>1, <2>1 DEF IsTree, Tree, Reached
    <3>2. L[u] = L[t] - 1 /\ L[t] \in 1..4
      BY <1>1, <1>2, <2>1, <3>1 DEF IsTree, Tree, Down
    <3> QED BY <3>2
  <2> QED BY <1>2, <2>1 DEF Level
<1> DEFINE l1 == Children({Pml4})
           l2 == Children(Frames(l1))
           l3 == Children(Frames(l2))
           links == l1 \cup l2 \cup l3
           Others == Tables \ {Pml4}
<1>4. l1 = Children(Level(L, 4)) /\ l2 = Children(Level(L, 3)) /\ l3 = Children(Level(L, 2))
  BY <1>1, <1>3, NextLevel
<1>5. /\ Level(L, 4) \in SUBSET Tables /\ Level(L, 3) \in SUBSET Tables /\ Level(L, 2) \in SUBSET Tables
      /\ Tables \subseteq Level(L, 1) \cup Level(L, 2) \cup Level(L, 3) \cup Level(L, 4)
  BY <1>2 DEF Level
<1>6. links = {l \in Tables \X Indices : L[l[1]] > 1 /\ Kid(tables, l[1], l[2]) # 0}
      /\ \A l \in links : Link(l) = Kid(tables, l[1], l[2])
  <2>1. /\ l1 = {l \in Level(L, 4) \X Indices : Kid(tables, l[1], l[2]) # 0}
        /\ l2 = {l \in Level(L, 3) \X Indices : Kid(tables, l[1], l[2]) # 0}
        /\ l3 = {l \in Level(L, 2) \X Indices : Kid(tables, l[1], l[2]) # 0}
    BY <1>1, <1>4, <1>5, ChildLinks
  <2>2. \A l \in links : Link(l) = Kid(tables, l[1], l[2])
    BY <1>1, <1>4, <1>5, ChildLinks
  <2> HIDE DEF l1, l2, l3
  <2>3. \A t \in Tables : L[t] > 1 <=> t \in Level(L, 4) \cup Level(L, 3) \cup Level(L, 2)
    BY <1>2 DEF Level
  <2> QED BY <1>5, <2>1, <2>2, <2>3
<1>7. Frames(links) = Others
  <2>1. Frames(links) = Frames(l1) \cup Frames(l2) \cup Frames(l3)
    BY DEF Frames
  <2>2. Frames(l1) = Level(L, 3) /\ Frames(l2) = Level(L, 2) /\ Frames(l3) = Level(L, 1)
    BY <1>1, <1>4, NextLevel
  <2>3. Level(L, 3) \cup Level(L, 2) \cup Level(L, 1) = Others
    BY <1>2, <1>3, <1>5 DEF Level
  <2> QED BY <2>1, <2>2, <2>3
<1> HIDE DEF l1, l2, l3, links
<1> DEFINE f == [l \in links |-> Link(l)]
<1>8. IsFiniteSet(Tables) /\ IsFiniteSet(Others) /\ Cardinality(Others) = Cardinality(Tables) - 1
  <2>1. IsFiniteSet(Tables)
    <3>1. IsFiniteSet(vmmPages)
      BY TablesUsed, PagesFinite DEF TablesTaken, PmemInv, TypeOK
    <3>2. IsFiniteSet({Pml4}) /\ IsFiniteSet({Pml4} \cup {Pdpt}) /\ IsFiniteSet({Pml4} \cup {Pdpt} \cup {Pd})
      BY FS_Singleton, FS_Union
    <3>3. Tables = {Pml4} \cup {Pdpt} \cup {Pd} \cup vmmPages
      BY DEF Tables, BootTables
    <3> QED BY <3>1, <3>2, <3>3, FS_Union
  <2> QED BY <1>2, <2>1, FS_RemoveElement
<1>9. f \in Injection(links, Others)
  <2>1. \A l \in links : Link(l) \in Others
    BY <1>7 DEF Frames, Link
  <2>2. ASSUME NEW l \in links, NEW m \in links, Link(l) = Link(m) PROVE l = m
    <3>1. /\ l \in Tables \X Indices /\ L[l[1]] > 1 /\ Kid(tables, l[1], l[2]) # 0
          /\ m \in Tables \X Indices /\ L[m[1]] > 1 /\ Kid(tables, l[1], l[2]) = Kid(tables, m[1], m[2])
      BY <1>6, <2>2
    <3>2. l[1] \in Tables /\ l[2] \in Indices /\ m[1] \in Tables /\ m[2] \in Indices
      BY <3>1
    <3>3. l[1] = m[1] /\ l[2] = m[2]
      BY <1>1, <3>1, <3>2, OneLink DEF IsTree
    <3> QED BY <3>1, <3>3
  <2>3. f \in [links -> Others] /\ \A l \in links : f[l] = Link(l)
    BY <2>1
  <2> HIDE DEF f, Others
  <2>4. ASSUME NEW a \in links, NEW b \in links, f[a] = f[b] PROVE a = b
    BY <2>2, <2>3, <2>4
  <2> QED BY <2>3, <2>4 DEF Injection, IsInjective
<1>10. f \in Surjection(links, Others)
  <2>1. \A u \in Others : \E l \in links : Link(l) = u
    BY <1>7 DEF Frames, Link
  <2> QED BY <1>9, <2>1 DEF Injection, Surjection
<1>11. Cardinality(links) = Cardinality(Tables) - 1
  BY <1>8, <1>9, <1>10, FS_Injection
<1>12. Frames(links) \cup {Pml4} = Tables
  BY <1>2, <1>7
<1> QED BY <1>11, <1>12 DEF TablesAreTree, Tables, links, l1, l2, l3

-----------------------------------------------------------------------------
(* Theorems                                                                *)

\* The invariant holds in every state, from the tables of boot2 on: the accounts
\* of pmem always, the tables and the calls as long as pmem has handed out no page
\* that something else lies in.
THEOREM VmmCorrect ==
  ASSUME Canonical
  PROVE  VSpec => []VSafe
<1>1. VInit => VSafe
  BY VInitInv DEF VSafe, VInv, MemoryInv
<1>2. VSafe /\ [VNext]_vars => VSafe'
  BY VStepInv
<1> QED BY <1>1, <1>2, PTL DEF VSpec

\* A translation that the processor has kept is never one the tables no longer
\* have, whatever is mapped, unmapped and undone, as long as pmem has handed out
\* no page that is in use.
THEOREM TlbCorrect ==
  ASSUME Canonical
  PROVE  VSpec => []TlbCoherent
<1>1. VSafe => TlbCoherent
  <2>1. ASSUME VInv PROVE VTypeOK
    <3>1. tables \in [Pages \cup BootTables -> [Indices -> Entries]]
      BY <2>1 DEF VInv, MemoryInv, HasTree, Tree, Typed, TableMaps
    <3>2. vmmPages \subseteq Pages /\ TypeOK
      BY <2>1 DEF VInv, MemoryInv, TablesTaken, PmemInv, TypeOK
    <3> QED BY <2>1, <3>1, <3>2 DEF VTypeOK, VInv, MemoryInv, TlbInv, CallTypes
  <2> QED BY <2>1 DEF VSafe, VInv, MemoryInv, TlbInv, TlbCoherent
<1> QED BY <1>1, VmmCorrect, PTL

\* No page that has been taken for a table is lost or shared between two ranges,
\* after mappings that fail halfway too, as long as pmem has handed out no page that
\* is in use.  It does so at once when the bitmap marks too few pages: with 128MB
\* the first page it hands out is the root of the tables.
THEOREM TreeCorrect ==
  ASSUME Canonical
  PROVE  VSpec => []TablesAreTree
<1>1. VSafe => TablesAreTree
  <2>1. Spoilt => TablesAreTree
    BY DEF TablesAreTree
  <2>2. VInv => TablesAreTree
    BY TreeCounted DEF VInv, MemoryInv
  <2> QED BY <2>1, <2>2 DEF VSafe
<1> QED BY <1>1, VmmCorrect, PTL

\* The pages that mappings take, by a walk that sets their bits one by one, are
\* counted and have one holder each like those of the other callers of pmem.  What
\* else lies in them is left out here.
THEOREM TablesAccounted ==
  ASSUME Canonical
  PROVE  VSpec => [](CountExact /\ PagesAccounted)
<1>1. VSafe => CountExact /\ PagesAccounted
  BY DEF VSafe, TablesTaken, PmemInv
<1> QED BY <1>1, VmmCorrect, PTL

\* A range is mapped as a whole or not at all, although the code maps, undoes and
\* unmaps page by page, by every call that returns before pmem has handed out a
\* page that is in use.
THEOREM RangesCorrect ==
  ASSUME Canonical
  PROVE  VSpec => RangesWhole
<1>1. VSafe /\ [VNext]_vars => SeenStep
  BY VStepInv
<1> QED BY <1>1, VmmCorrect, PTL DEF VSpec, RangesWhole, SeenStep, Seen
=============================================================================
