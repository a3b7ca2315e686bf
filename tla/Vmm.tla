-------------------------------- MODULE Vmm --------------------------------
(***************************************************************************)
(* The virtual memory manager (src/src/vmm.c) on top of physical memory:    *)
(* mapping and unmapping of ranges of 4KB pages in the page tables, and the  *)
(* copies of their entries the processor keeps.                             *)
(*                                                                         *)
(* Page tables lie in pages that pmem hands out, at the very address pmem    *)
(* returns; Pml4, Pdpt and Pd are those boot2 made.  Virtual addresses are   *)
(* page numbers, with the same fan-out at each of the four levels.          *)
(***************************************************************************)
EXTENDS Pmem

CONSTANTS
  Fan,       \* entries of a table
  VPages,    \* the virtual pages that callers map
  Physical,  \* the frames that callers map to
  MaxRange,  \* bound on the length of a range
  MaxTlb     \* bound on the translations the processor keeps

Pml4 == 1
Pdpt == 2
Pd   == 3
BootTables == {Pml4, Pdpt, Pd}

Unmapped == 0

ASSUME VmmAssumption ==
  /\ Fan \in Nat /\ Fan > 1 /\ MaxRange \in Nat /\ MaxTlb \in Nat
  /\ VPages \subseteq Nat \ {0} /\ Physical \subseteq Nat \ {0}
  /\ BootTables \subseteq Occupied

VARIABLES
  tables,     \* what memory holds, read as tables: page -> index -> entry
  vpc, vcall, i,   \* the call that runs, and its loop
  failed,     \* a page of the range failed
  result,     \* what the last call returned
  tlb,        \* the translations the processor has kept
  vmmPages,   \* ghost: the pages taken for tables
  before      \* ghost: the translations when the call began

vmm == <<tables, vpc, vcall, i, failed, result, tlb, vmmPages, before>>
vars == <<pmem, vmm>>

\* The present and huge bits and the address of an entry.
Entry(present, huge, frame) == [present |-> present, huge |-> huge, frame |-> frame]
Empty == Entry(FALSE, FALSE, 0)
Indices == 0..(Fan - 1)

\* What pages hold before anybody writes to them.
Garbage == [x \in Indices |-> Entry(TRUE, FALSE, 0)]

\* PML4_INDEX to PT_INDEX.
Weight == <<1, Fan, Fan * Fan, Fan * Fan * Fan>>
Index(v, level) == (v \div Weight[level]) % Fan

Entries == [present : BOOLEAN, huge : BOOLEAN, frame : Nat]

VTypeOK ==
  /\ TypeOK
  /\ tables \in [Pages \cup BootTables -> [Indices -> Entries]]
  /\ vpc \in {"idle", "map", "undo", "unmap"} /\ i \in 0..vcall.n
  /\ vcall \in [v : VPages \cup {0}, p : Nat, n : 0..MaxRange]
  /\ failed \in BOOLEAN /\ result \in {0, -1}
  /\ tlb \subseteq VPages \X Nat /\ vmmPages \subseteq Pages

-----------------------------------------------------------------------------
(* The walk                                                                *)

\* Where a walk is: at a table, with what it has taken and changed; at 0 once
\* it has failed.
Start == [at |-> Pml4, tables |-> tables, used |-> used, free |-> free_pages]

Failed(w) == [w EXCEPT !.at = 0]

\* Mutant: a new table keeps what the page held.
LinkedDirty(w, x, page) ==
  [at |-> page, used |-> w.used \cup {page}, free |-> w.free - 1,
   tables |-> [w.tables EXCEPT ![w.at] = [w.tables[w.at] EXCEPT ![x] = Entry(TRUE, FALSE, page)]]]
\* A zeroed page becomes the table that entry x leads to.
Linked(w, x, page) ==
  LET zeroed == [w.tables EXCEPT ![page] = [y \in Indices |-> Empty]]
  IN  [at |-> page, used |-> w.used \cup {page}, free |-> w.free - 1,
       tables |-> [zeroed EXCEPT ![w.at] = [zeroed[w.at] EXCEPT ![x] = Entry(TRUE, FALSE, page)]]]

\* The child of a table, which pmem may have to provide.  Huge pages have none.
get_or_create_table(w, x) ==
  LET e == w.tables[w.at][x]
      free == Pages \ w.used
  IN  IF w.at = 0 \/ e.huge THEN Failed(w)
      ELSE IF e.present THEN [w EXCEPT !.at = e.frame]
      ELSE IF w.free > 0 /\ free # {} THEN Linked(w, x, CHOOSE p \in free : IsFirst(p, free))
      ELSE Failed(w)

\* The walk from the root to the table of the lowest level, as a set of one.
WalkToPt(v) ==
  {get_or_create_table(pd, Index(v, 2)) :
    pd \in {get_or_create_table(pdpt, Index(v, 3)) :
      pdpt \in {get_or_create_table(Start, Index(v, 4))}}}

\* The child of a table that is there, or else 0.
child(t, x) ==
  IF t # 0 /\ tables[t][x].present /\ ~tables[t][x].huge THEN tables[t][x].frame ELSE 0

PdOf(v) == child(child(Pml4, Index(v, 4)), Index(v, 3))
PtOf(v) == child(PdOf(v), Index(v, 2))

vmm_get_physical(v) ==
  LET pd == PdOf(v)
      pt == PtOf(v)
  IN  IF pd # 0 /\ tables[pd][Index(v, 2)].huge
        THEN tables[pd][Index(v, 2)].frame + Index(v, 1)
      ELSE IF pt # 0 /\ tables[pt][Index(v, 1)].present
        THEN tables[pt][Index(v, 1)].frame
      ELSE Unmapped

Mapping == [v \in VPages |-> vmm_get_physical(v)]

-----------------------------------------------------------------------------
(* One page                                                                *)

Flushed(v) == {t \in tlb : t[1] # v}

SetEntry(ts, t, x, e) == [ts EXCEPT ![t] = [ts[t] EXCEPT ![x] = e]]

\* The walk of a mapping, whose new tables stay whatever comes after.
WalkTaken(w) ==
  /\ used' = w.used /\ free_pages' = w.free
  /\ vmmPages' = vmmPages \cup (w.used \ used)
  /\ owners' = [p \in Pages |-> IF p \in w.used \ used THEN owners[p] + 1 ELSE owners[p]]

CanMap(w, v) == w.at # 0 /\ ~w.tables[w.at][Index(v, 1)].present

vmm_map_page(v, p) ==
  \E w \in WalkToPt(v) :
    /\ CanMap(w, v)
    /\ WalkTaken(w)
    /\ tables' = SetEntry(w.tables, w.at, Index(v, 1), Entry(TRUE, FALSE, p))
    /\ tlb' = Flushed(v)

vmm_map_page_fails(v) ==
  \E w \in WalkToPt(v) :
    /\ ~CanMap(w, v)
    /\ WalkTaken(w)
    /\ tables' = w.tables
    /\ tlb' = tlb

CanUnmap(v) == PtOf(v) # 0 /\ tables[PtOf(v)][Index(v, 1)].present

\* Mutant: the processor keeps the translation.
vmm_unmap_stale(v) ==
  /\ tables' = IF CanUnmap(v) THEN SetEntry(tables, PtOf(v), Index(v, 1), Empty) ELSE tables
  /\ tlb' = tlb
\* What is not mapped stays so.
vmm_unmap_page(v) ==
  /\ tables' = IF CanUnmap(v) THEN SetEntry(tables, PtOf(v), Index(v, 1), Empty) ELSE tables
  /\ tlb' = IF CanUnmap(v) THEN Flushed(v) ELSE tlb

-----------------------------------------------------------------------------
(* Ranges                                                                  *)

NoCall == [v |-> 0, p |-> 0, n |-> 0]

Begin(at, v, p, n) ==
  /\ pc = "idle" /\ vpc = "idle"
  /\ vpc' = at /\ vcall' = [v |-> v, p |-> p, n |-> n] /\ i' = 0 /\ failed' = FALSE
  /\ before' = Mapping
  /\ UNCHANGED <<pmem, tables, result, tlb, vmmPages>>

vmm_map_pages(v, p, n) == Begin("map", v, p, n)
vmm_unmap_pages(v, n) == Begin("unmap", v, 0, n)

Finish(r) ==
  /\ vpc' = "idle" /\ result' = r
  /\ vcall' = NoCall /\ i' = 0 /\ failed' = FALSE /\ before' = <<>>

MapNext ==
  /\ vpc = "map" /\ i < vcall.n
  /\ vmm_map_page(vcall.v + i, vcall.p + i)
  /\ i' = i + 1
  /\ UNCHANGED <<region, call, vpc, vcall, failed, result, before>>

MapDone ==
  /\ vpc = "map" /\ i = vcall.n
  /\ Finish(0)
  /\ UNCHANGED <<pmem, tables, tlb, vmmPages>>

\* The loop that undoes starts from the first page of the range.
MapFails ==
  /\ vpc = "map" /\ i < vcall.n
  /\ vmm_map_page_fails(vcall.v + i)
  /\ vpc' = "undo" /\ vcall' = [vcall EXCEPT !.n = i] /\ i' = 0
  /\ UNCHANGED <<region, call, failed, result, before>>

\* Mutant: the page that failed is unmapped as well.
UndoneOver == i > vcall.n
Undone == i = vcall.n

UndoNext ==
  /\ vpc = "undo" /\ ~Undone
  /\ vmm_unmap_page(vcall.v + i)
  /\ i' = i + 1
  /\ UNCHANGED <<pmem, vpc, vcall, failed, result, vmmPages, before>>

UndoDone ==
  /\ vpc = "undo" /\ Undone
  /\ Finish(-1)
  /\ UNCHANGED <<pmem, tables, tlb, vmmPages>>

UnmapNext ==
  /\ vpc = "unmap" /\ i < vcall.n
  /\ vmm_unmap_page(vcall.v + i)
  /\ failed' = (failed \/ ~CanUnmap(vcall.v + i))
  /\ i' = i + 1
  /\ UNCHANGED <<pmem, vpc, vcall, result, vmmPages, before>>

UnmapDone ==
  /\ vpc = "unmap" /\ i = vcall.n
  /\ Finish(IF failed THEN -1 ELSE 0)
  /\ UNCHANGED <<pmem, tables, tlb, vmmPages>>

\* The processor may keep a translation whenever the tables have it.
Translate(v) ==
  /\ vmm_get_physical(v) # Unmapped /\ Cardinality(tlb) < MaxTlb
  /\ tlb' = tlb \cup {<<v, vmm_get_physical(v)>>}
  /\ UNCHANGED <<pmem, tables, vpc, vcall, i, failed, result, vmmPages, before>>

-----------------------------------------------------------------------------

\* boot2 has mapped the first pages with a huge page.
BootTable(page) ==
  CASE page = Pml4 -> [x \in Indices |-> IF x = 0 THEN Entry(TRUE, FALSE, Pdpt) ELSE Empty]
    [] page = Pdpt -> [x \in Indices |-> IF x = 0 THEN Entry(TRUE, FALSE, Pd) ELSE Empty]
    [] page = Pd   -> [x \in Indices |-> IF x = 0 THEN Entry(TRUE, TRUE, 0) ELSE Empty]
    [] OTHER       -> Garbage

VInit ==
  /\ Init
  /\ tables = [page \in Pages \cup BootTables |-> BootTable(page)]
  /\ vpc = "idle" /\ vcall = NoCall /\ i = 0 /\ failed = FALSE /\ result = 0
  /\ tlb = {} /\ vmmPages = {}
  /\ before = <<>>

\* Others that take pages (nobody does so far) keep off those of the tables.
Clients ==
  /\ vpc = "idle"
  /\ \/ pmem_alloc_page
     \/ \E n \in 1..MaxCount : CallAllocPages(n)
     \/ AllocPagesFails \/ AllocPagesFound \/ AllocPagesAgain
     \/ \E first \in Pages, n \in 1..MaxCount :
          (first..(first + n - 1)) \cap vmmPages = {} /\ pmem_free_pages(first, n)
  /\ UNCHANGED vmm

Ranges ==
  \/ \E v \in VPages, n \in 1..MaxRange :
       v..(v + n - 1) \subseteq VPages /\ (vmm_unmap_pages(v, n) \/ \E p \in Physical : vmm_map_pages(v, p, n))
  \/ MapNext \/ MapDone \/ MapFails \/ UndoNext \/ UndoDone \/ UnmapNext \/ UnmapDone

VNext == \/ ~Spoilt /\ (Clients \/ Ranges \/ \E v \in VPages : Translate(v))
         \/ Spoilt /\ UNCHANGED vars

VSpec == VInit /\ [][VNext]_vars

-----------------------------------------------------------------------------
(* Properties                                                              *)

Running == vpc # "idle"

\* Ranges are mapped as a whole or not at all, whatever stops the mapping halfway;
\* the result says which, and the boot loader's pages keep their frames.
AS == INSTANCE AddressSpace WITH
        mapping <- IF Running THEN before ELSE Mapping

Boot == {v \in VPages : v < Fan}

\* What a call does, its caller sees when it returns.
ASNext ==
  /\ Running /\ ~Running'
  /\ \/ \E v \in VPages, p \in Physical, n \in 1..MaxRange :
          v..(v + n - 1) \subseteq VPages /\ AS!MapRange(v, p, n)
     \/ \E v \in VPages, n \in 1..MaxRange :
          v..(v + n - 1) \subseteq VPages /\ AS!UnmapRange(v, n, Boot)
     \/ AS!MapFails
RangesWhole == [][ASNext]_<<IF Running THEN before ELSE Mapping, result>>

\* A translation that the processor has kept is the one of the tables, also in
\* the middle of a call, as long as pmem has handed out no page that is in use.
TlbCoherent == ~Spoilt => VTypeOK /\ \A t \in tlb : vmm_get_physical(t[1]) = t[2]

\* The tables form a tree of which every page taken for a table is part, after
\* failed mappings too: none is lost, none is shared between two ranges, as long
\* as pmem has handed out no page that is in use (the root's is the first one on
\* a machine of 128MB).
Children(ts) ==
  {l \in ts \X Indices : tables[l[1]][l[2]].present /\ ~tables[l[1]][l[2]].huge}
Frames(links) == {tables[l[1]][l[2]].frame : l \in links}
TablesAreTree == ~Spoilt =>
  LET l1 == Children({Pml4})
      l2 == Children(Frames(l1))
      l3 == Children(Frames(l2))
      links == l1 \cup l2 \cup l3
  IN  /\ Frames(links) \cup {Pml4} = BootTables \cup vmmPages
      /\ Cardinality(links) = Cardinality(BootTables \cup vmmPages) - 1
=============================================================================
