------------------------------- MODULE Fat12 -------------------------------
(***************************************************************************)
(* The FAT12 driver of the kernel (src/src/fat12.c) under the file system  *)
(* calls that use it (src/src/syscall.c: CREATE_FILE, WRITE_FILE).         *)
(*                                                                         *)
(* The kernel serves one call at a time, so nothing interleaves with a     *)
(* call except the disk: each fdc_write_sectors is a step of its own,      *)
(* which may fail, and between any two steps the machine may lose power.   *)
(* A call is therefore a small state machine over pc.                      *)
(*                                                                         *)
(* One FAT (the driver never writes the second copy), one root directory   *)
(* sector per slot group, sectors_per_cluster = 1 as on the 1.44MB floppy  *)
(* the build makes: sizes are counted in sectors, and the content of a     *)
(* sector is the pair <<value written, position in the file>>.  Names are  *)
(* 8.3 names, after the conversion every operation begins with.            *)
(***************************************************************************)
EXTENDS Naturals, FiniteSets

CONSTANTS
  Names,       \* 8.3 names a caller may use
  NoName,      \* the name of a slot that holds no file
  Values,      \* what a caller may write
  NSlots,      \* root directory entries (boot_sector.root_entries)
  LastDisk,    \* last cluster that exists on the disk
  LastScan,    \* last cluster find_free_cluster looks at
  FatSectors,  \* boot_sector.sectors_per_fat
  SectorOf,    \* the FAT sector that holds the entry of a cluster
  MaxLen,      \* longest write, in sectors
  Ops,         \* the calls made: a subset of {"create", "write", "delete"}
  MaxFaults,   \* bound on failing disk operations
  MaxCrashes   \* bound on power losses

Clusters     == 2..LastScan
DiskClusters == 2..LastDisk
Slots        == 1..NSlots
EndOfChain   == 4095      \* 0xFFF
FatEntries   == {0, EndOfChain} \cup Clusters

ASSUME Fat12Assumption ==
  /\ NoName \notin Names
  /\ NSlots \in Nat \ {0}
  /\ LastDisk \in Nat /\ LastScan \in Nat
  /\ 2 <= LastDisk /\ LastDisk <= LastScan /\ LastScan < 4080   \* 0xFF0
  /\ FatSectors \in Nat \ {0}
  /\ SectorOf \in [Clusters -> 1..FatSectors]
  /\ MaxLen \in Nat
  /\ Ops \subseteq {"create", "write", "delete"}
  /\ MaxFaults \in Nat /\ MaxCrashes \in Nat

Blank == <<NoName, 0>>
Contents == {Blank} \cup (Values \X (1..MaxLen))

(***************************************************************************)
(* Directory entries: filename[0] = 0x00 ends the directory, 0xE5 marks a  *)
(* deleted entry.                                                          *)
(***************************************************************************)
Entry(state, name, first, size) ==
  [state |-> state, name |-> name, first |-> first, size |-> size]
EndEntry == Entry("end", NoName, 0, 0)
DeletedEntry == Entry("deleted", NoName, 0, 0)
DirEntries ==
  [state: {"end", "deleted", "file"}, name: Names \cup {NoName},
   first: {0} \cup Clusters, size: 0..MaxLen]

Request(op, name, val, len) == [op |-> op, name |-> name, val |-> val, len |-> len]
NoCall == Request("none", NoName, NoName, 0)
Calls ==
  [op: {"none", "create", "write", "delete"}, name: Names \cup {NoName},
   val: Values \cup {NoName}, len: 0..MaxLen]

VARIABLES
  fat_buffer,  \* the FAT in memory
  fatOnDisk,   \* the FAT on the disk
  rootDir,     \* the root directory, on the disk
  dataArea,    \* the data clusters, on the disk
  pc,          \* where the call is; "off" is the machine without power
  after,       \* where write_fat_table returns to
  call,        \* the arguments of the call
  slot,        \* the directory slot the call works on
  cluster,     \* cluster (fat12_write) or first_cluster (fat12_create)
  done,        \* bytes_written, in sectors
  fatSector,   \* i of write_fat_table
  faults,      \* failing disk operations so far
  crashes,     \* power losses so far
  promise      \* ghost: what a caller may rely on reading back, per name

disk  == <<fatOnDisk, rootDir, dataArea>>
regs  == <<after, call, slot, cluster, done, fatSector>>
ghost == <<faults, crashes, promise>>
vars  == <<fat_buffer, disk, pc, regs, ghost>>

-----------------------------------------------------------------------------
(* Operators over the FAT and the directory                                *)

IsData(c) == c >= 2 /\ c < 4088     \* the loops' "cluster >= 2 && cluster < 0xFF8"

\* The first element of S, for the scans that take the first match.
IsFirst(x, S) == x \in S /\ \A y \in S : x <= y

\* Mutant: looks for a free cluster in the FAT on the disk.
FreeOnDisk == {c \in Clusters : fatOnDisk[c] = 0}
FreeClusters == {c \in Clusters : fat_buffer[c] = 0}

\* Slots whose entry has name n, not hidden behind the end of the directory.
Matches(n) ==
  {s \in Slots : /\ rootDir[s].state = "file"
                 /\ rootDir[s].name = n
                 /\ \A t \in 1..s : rootDir[t].state # "end"}

\* Slots fat12_create may take.
Vacant == {s \in Slots : rootDir[s].state # "file"}

\* The clusters met from c on, following the links of fat.
Walk(fat, c) ==
  LET w[k \in 0..LastScan] ==
        IF k = 0 THEN c
        ELSE IF IsData(w[k-1]) THEN fat[w[k-1]] ELSE w[k-1]
  IN  w
ChainSet(fat, c) == {Walk(fat, c)[k] : k \in 0..LastScan} \cap Clusters

(***************************************************************************)
(* fat12_open then fat12_read, with a disk that answers: the contents      *)
(* READ_FILE returns for the entry in slot s.                              *)
(***************************************************************************)
ReadWith(fat, s) ==
  LET w == Walk(fat, rootDir[s].first)
      n == Cardinality({k \in 0..(LastScan - 1) :
                           IsData(w[k]) /\ k < rootDir[s].size})
  IN  [k \in 1..n |-> IF w[k-1] \in DiskClusters THEN dataArea[w[k-1]] ELSE Blank]
Readable(fat, n, text) ==
  \E s \in Slots : IsFirst(s, Matches(n)) /\ ReadWith(fat, s) = text

Text(v, len) == [k \in 1..len |-> <<v, k>>]
Unknown == <<NoName>>

-----------------------------------------------------------------------------
(* The disk may fail                                                       *)

Fault == faults < MaxFaults /\ faults' = faults + 1

\* The locals of a call go with the call.
ClearRegs ==
  /\ after' = "idle" /\ call' = NoCall /\ slot' = 0
  /\ cluster' = 0 /\ done' = 0 /\ fatSector' = 0

\* Every error path of a call returns as it is: nothing is undone.
Return == pc' = "idle" /\ ClearRegs

\* A read that fails ends the call with -1.
ReadFault == Fault /\ Return /\ UNCHANGED <<fat_buffer, disk, crashes, promise>>

\* What the caller knows of a name once a call on it has started.
Doubt(n) == promise' = [promise EXCEPT ![n] = Unknown]

\* The start of write_fat_table, which continues at k.
\* Mutant: a write_fat_table that writes nothing.
SkipFatWrite(k) == pc' = k /\ after' = "idle" /\ fatSector' = 0
StartFatWrite(k) == pc' = "fat" /\ after' = k /\ fatSector' = 1

\* fat_buffer's sector i, copied over the disk's.
Flushed(i) ==
  [c \in Clusters |-> IF SectorOf[c] = i THEN fat_buffer[c] ELSE fatOnDisk[c]]

-----------------------------------------------------------------------------
(* Calls                                                                   *)

Start(c, at) ==
  /\ pc = "idle"
  /\ c.op \in Ops
  /\ pc' = at
  /\ call' = c
  /\ Doubt(c.name)
  /\ UNCHANGED <<fat_buffer, disk, after, slot, cluster, done, fatSector, faults, crashes>>

CallCreate(n) == Start(Request("create", n, NoName, 0), "create")
CallDelete(n) == Start(Request("delete", n, NoName, 0), "delete")
CallWrite(n, v, len) == Start(Request("write", n, v, len), "open")

-----------------------------------------------------------------------------
(* SYSCALL_WRITE_FILE: fat12_open, else fat12_create, then fat12_write and *)
(* fat12_update_size                                                       *)

OpenFound ==
  /\ pc = "open"
  /\ \E s \in Slots :
       /\ IsFirst(s, Matches(call.name))
       /\ cluster' = rootDir[s].first
  /\ pc' = "data"
  /\ UNCHANGED <<fat_buffer, disk, after, call, slot, done, fatSector, ghost>>

\* -1 for "not found" and -1 for a read error look the same to the caller.
OpenFails ==
  /\ pc = "open"
  /\ \/ Matches(call.name) = {} /\ UNCHANGED faults
     \/ Fault
  /\ pc' = "create"
  /\ UNCHANGED <<fat_buffer, disk, regs, crashes, promise>>

\* fat12_write's loop, one sector per iteration.  The link is made in memory
\* in the same step as the data write: no disk access lies between them.
InLoop == done < call.len /\ IsData(cluster)
NeedsCluster == done + 1 < call.len /\ ~IsData(fat_buffer[cluster])

DataStored ==
  /\ cluster \in DiskClusters
  /\ dataArea' = [dataArea EXCEPT ![cluster] = <<call.val, done + 1>>]

\* Mutant: takes files to be contiguous.
WriteDataAdjacent ==
  /\ pc = "data" /\ InLoop /\ ~NeedsCluster
  /\ DataStored
  /\ done' = done + 1
  /\ cluster' = IF cluster < LastScan THEN cluster + 1 ELSE EndOfChain
  /\ UNCHANGED <<fat_buffer, fatOnDisk, rootDir, pc, after, call, slot, fatSector, ghost>>

WriteDataNext ==
  /\ pc = "data" /\ InLoop /\ ~NeedsCluster
  /\ DataStored
  /\ done' = done + 1
  /\ cluster' = fat_buffer[cluster]
  /\ UNCHANGED <<fat_buffer, fatOnDisk, rootDir, pc, after, call, slot, fatSector, ghost>>

\* Mutants: one of the two set_fat_entry calls is missing.
LinkWithoutEnd(c) == [fat_buffer EXCEPT ![cluster] = c]
EndWithoutLink(c) == [fat_buffer EXCEPT ![c] = EndOfChain]
Link(c) == [fat_buffer EXCEPT ![cluster] = c, ![c] = EndOfChain]

WriteDataExtend ==
  /\ pc = "data" /\ InLoop /\ NeedsCluster
  /\ DataStored
  /\ done' = done + 1
  /\ \E c \in Clusters :
       /\ IsFirst(c, FreeClusters)
       /\ fat_buffer' = Link(c)
       /\ cluster' = c
  /\ StartFatWrite("data")
  /\ UNCHANGED <<fatOnDisk, rootDir, call, slot, ghost>>

WriteDataFull ==
  /\ pc = "data" /\ InLoop /\ NeedsCluster
  /\ DataStored
  /\ FreeClusters = {}
  /\ Return
  /\ UNCHANGED <<fat_buffer, fatOnDisk, rootDir, ghost>>

\* The sector write fails: a bad disk operation, or a cluster the disk does
\* not have.  A failing write may still have reached the medium.
WriteDataFails ==
  /\ pc = "data" /\ InLoop
  /\ \/ cluster \notin DiskClusters /\ UNCHANGED <<dataArea, faults>>
     \/ Fault /\ (DataStored \/ UNCHANGED dataArea)
  /\ Return
  /\ UNCHANGED <<fat_buffer, fatOnDisk, rootDir, crashes, promise>>

\* The loop is over with something written: the size is next.
WriteDataDone ==
  /\ pc = "data" /\ ~InLoop /\ done > 0
  /\ pc' = "size"
  /\ UNCHANGED <<fat_buffer, disk, regs, ghost>>

\* The loop is over with nothing written: the call returns 0.
WriteNothing ==
  /\ pc = "data" /\ ~InLoop /\ done = 0
  /\ Return
  /\ UNCHANGED <<fat_buffer, disk, ghost>>

\* fat12_update_size on the first entry with the name.
SizeStored ==
  \E s \in Slots :
    /\ IsFirst(s, Matches(call.name))
    /\ rootDir' = [rootDir EXCEPT ![s].size = done]

UpdateSize ==
  /\ pc = "size"
  /\ SizeStored
  /\ promise' = [promise EXCEPT ![call.name] =
                   IF done = call.len THEN Text(call.val, done) ELSE Unknown]
  /\ Return
  /\ UNCHANGED <<fat_buffer, fatOnDisk, dataArea, faults, crashes>>

UpdateSizeFails ==
  /\ pc = "size"
  /\ \/ Matches(call.name) = {} /\ UNCHANGED <<rootDir, faults>>
     \/ Fault /\ (SizeStored \/ UNCHANGED rootDir)
  /\ Return
  /\ UNCHANGED <<fat_buffer, fatOnDisk, dataArea, crashes, promise>>

-----------------------------------------------------------------------------
(* fat12_create                                                            *)

\* Mutant: the entry is written before the FAT.
CreateEntryFirst ==
  /\ pc = "create"
  /\ \E s \in Slots, c \in Clusters :
       /\ IsFirst(s, Vacant)
       /\ IsFirst(c, FreeClusters)
       /\ slot' = s
       /\ cluster' = c
       /\ fat_buffer' = [fat_buffer EXCEPT ![c] = EndOfChain]
  /\ pc' = "entry"
  /\ UNCHANGED <<disk, after, call, done, fatSector, ghost>>

CreateAllocate ==
  /\ pc = "create"
  /\ \E s \in Slots, c \in Clusters :
       /\ IsFirst(s, Vacant)
       /\ IsFirst(c, FreeClusters)
       /\ slot' = s
       /\ cluster' = c
       /\ fat_buffer' = [fat_buffer EXCEPT ![c] = EndOfChain]
  /\ StartFatWrite("entry")
  /\ UNCHANGED <<disk, call, done, ghost>>

\* Mutant: takes the cluster before it knows there is a slot.
CreateFullLeaks ==
  /\ pc = "create"
  /\ Vacant = {}
  /\ \E c \in Clusters :
       /\ IsFirst(c, FreeClusters)
       /\ fat_buffer' = [fat_buffer EXCEPT ![c] = EndOfChain]
  /\ Return
  /\ UNCHANGED <<disk, ghost>>

\* No vacant slot, or no free cluster.
CreateFull ==
  /\ pc = "create"
  /\ Vacant = {} \/ FreeClusters = {}
  /\ Return
  /\ UNCHANGED <<fat_buffer, disk, ghost>>

CreateReadFault == pc = "create" /\ ReadFault

\* The entry goes to the disk; SYSCALL_WRITE_FILE goes on to fat12_write.
EntryStored ==
  rootDir' = [rootDir EXCEPT ![slot] = Entry("file", call.name, cluster, 0)]

CreateEntryForWrite ==
  /\ pc = "entry" /\ call.op = "write"
  /\ EntryStored
  /\ pc' = "data"
  /\ UNCHANGED <<fat_buffer, fatOnDisk, dataArea, regs, ghost>>

\* Returns 0.  If the name was new, the caller has an empty file.
CreateEntry ==
  /\ pc = "entry" /\ call.op = "create"
  /\ EntryStored
  /\ promise' = [promise EXCEPT ![call.name] =
                   IF Matches(call.name) = {} THEN Text(NoName, 0) ELSE Unknown]
  /\ Return
  /\ UNCHANGED <<fat_buffer, fatOnDisk, dataArea, faults, crashes>>

CreateEntryFails ==
  /\ pc = "entry"
  /\ Fault
  /\ EntryStored \/ UNCHANGED rootDir
  /\ Return
  /\ UNCHANGED <<fat_buffer, fatOnDisk, dataArea, crashes, promise>>

-----------------------------------------------------------------------------
(* fat12_delete                                                            *)

\* Mutant: frees the first cluster only.
FreedFirst(s) == {rootDir[s].first} \cap Clusters

Freed(s) == ChainSet(fat_buffer, rootDir[s].first)

DeleteChain ==
  /\ pc = "delete"
  /\ \E s \in Slots :
       /\ IsFirst(s, Matches(call.name))
       /\ slot' = s
       /\ fat_buffer' = [c \in Clusters |-> IF c \in Freed(s) THEN 0 ELSE fat_buffer[c]]
  /\ StartFatWrite("unlink")
  /\ UNCHANGED <<disk, call, cluster, done, ghost>>

DeleteNotFound ==
  /\ pc = "delete"
  /\ Matches(call.name) = {}
  /\ Return
  /\ UNCHANGED <<fat_buffer, disk, ghost>>

DeleteReadFault == pc = "delete" /\ ReadFault

\* Mutant: the 0xE5 mark is missing.
EntryKept == rootDir' = rootDir
EntryDeleted == rootDir' = [rootDir EXCEPT ![slot].state = "deleted"]

DeleteEntry ==
  /\ pc = "unlink"
  /\ EntryDeleted
  /\ Return
  /\ UNCHANGED <<fat_buffer, fatOnDisk, dataArea, ghost>>

DeleteEntryFails ==
  /\ pc = "unlink"
  /\ Fault
  /\ EntryDeleted \/ UNCHANGED rootDir
  /\ Return
  /\ UNCHANGED <<fat_buffer, fatOnDisk, dataArea, crashes, promise>>

-----------------------------------------------------------------------------
(* write_fat_table, one sector per step                                    *)

\* Mutants: i <= sectors_per_fat; i never advanced; the last sector left out.
WriteFatSectorOver ==
  /\ pc = "fat" /\ fatSector <= FatSectors
  /\ fatOnDisk' = Flushed(fatSector)
  /\ fatSector' = fatSector + 1
  /\ UNCHANGED <<fat_buffer, rootDir, dataArea, pc, after, call, slot, cluster, done, ghost>>
WriteLastFatSectorStuck ==
  /\ pc = "fat" /\ fatSector = FatSectors
  /\ fatOnDisk' = Flushed(fatSector)
  /\ UNCHANGED <<fat_buffer, rootDir, dataArea, pc, regs, ghost>>
SkipLastFatSector ==
  /\ pc = "fat" /\ fatSector = FatSectors
  /\ pc' = after
  /\ after' = "idle" /\ fatSector' = 0
  /\ UNCHANGED <<fat_buffer, disk, call, slot, cluster, done, ghost>>

WriteFatSector ==
  /\ pc = "fat" /\ fatSector < FatSectors
  /\ fatOnDisk' = Flushed(fatSector)
  /\ fatSector' = fatSector + 1
  /\ UNCHANGED <<fat_buffer, rootDir, dataArea, pc, after, call, slot, cluster, done, ghost>>

WriteLastFatSector ==
  /\ pc = "fat" /\ fatSector = FatSectors
  /\ fatOnDisk' = Flushed(fatSector)
  /\ pc' = after
  /\ after' = "idle" /\ fatSector' = 0
  /\ UNCHANGED <<fat_buffer, rootDir, dataArea, call, slot, cluster, done, ghost>>

WriteFatSectorFails ==
  /\ pc = "fat"
  /\ Fault
  /\ fatOnDisk' \in {fatOnDisk, Flushed(fatSector)}
  /\ Return
  /\ UNCHANGED <<fat_buffer, rootDir, dataArea, crashes, promise>>

-----------------------------------------------------------------------------
(* Power loss and fat12_init                                               *)

Crash ==
  /\ pc # "off"
  /\ crashes < MaxCrashes
  /\ crashes' = crashes + 1
  /\ pc' = "off" /\ ClearRegs
  /\ fat_buffer' = [c \in Clusters |-> 0]
  /\ UNCHANGED <<disk, faults, promise>>

Boot ==
  /\ pc = "off"
  /\ pc' = "idle"
  /\ fat_buffer' = fatOnDisk
  /\ UNCHANGED <<disk, regs, ghost>>

\* The kernel halts: the machine is as good as off.
BootFails ==
  /\ pc = "off"
  /\ Fault
  /\ UNCHANGED <<fat_buffer, disk, pc, regs, crashes, promise>>

-----------------------------------------------------------------------------
(* The disk the build makes: files copied by mtools, some deleted again, an *)
(* empty file having no cluster at all (first = 0).                         *)
FirstEntries == {EndEntry, DeletedEntry} \cup {Entry("file", n, 0, 0) : n \in Names}

Init ==
  /\ fat_buffer = [c \in Clusters |-> 0]
  /\ fatOnDisk = fat_buffer
  /\ \E e \in FirstEntries :
       rootDir = [s \in Slots |-> IF s = 1 THEN e ELSE EndEntry]
  /\ dataArea = [c \in DiskClusters |-> Blank]
  /\ pc = "off" /\ after = "idle" /\ call = NoCall /\ slot = 0
  /\ cluster = 0 /\ done = 0 /\ fatSector = 0
  /\ faults = 0 /\ crashes = 0
  /\ promise = [n \in Names |-> Unknown]

Call ==
  \E n \in Names :
    \/ CallCreate(n)
    \/ CallDelete(n)
    \/ \E v \in Values, len \in 0..MaxLen : CallWrite(n, v, len)

Write ==
  \/ OpenFound \/ OpenFails
  \/ WriteDataNext \/ WriteDataExtend \/ WriteDataFull \/ WriteDataFails
  \/ WriteDataDone \/ WriteNothing
  \/ UpdateSize \/ UpdateSizeFails

Create ==
  \/ CreateAllocate \/ CreateFull \/ CreateReadFault
  \/ CreateEntry \/ CreateEntryForWrite \/ CreateEntryFails

Delete ==
  \/ DeleteChain \/ DeleteNotFound \/ DeleteReadFault
  \/ DeleteEntry \/ DeleteEntryFails

FatWrite == WriteFatSector \/ WriteLastFatSector \/ WriteFatSectorFails

\* What the kernel does by itself once a call has been made.
Kernel == Write \/ Create \/ Delete \/ FatWrite \/ Boot \/ BootFails

Next == Call \/ Kernel \/ Crash

\* Callers may never call again and power need not fail, but the kernel runs
\* a call it was given: its loops do not wait for anybody.
Spec == Init /\ [][Next]_vars /\ WF_vars(Kernel)

-----------------------------------------------------------------------------
(* Properties                                                              *)

\* Every variable holds a value of the C variable it stands for.
TypeOK ==
  /\ fat_buffer \in [Clusters -> FatEntries]
  /\ fatOnDisk \in [Clusters -> FatEntries]
  /\ rootDir \in [Slots -> DirEntries]
  /\ dataArea \in [DiskClusters -> Contents]
  /\ pc \in {"off", "idle", "open", "data", "size", "create", "entry",
            "delete", "unlink", "fat"}
  /\ after \in {"idle", "data", "entry", "unlink"}
  /\ call \in Calls
  /\ slot \in Slots \cup {0}
  /\ cluster \in FatEntries
  /\ done \in 0..MaxLen
  /\ fatSector \in 0..FatSectors
  /\ faults \in Nat
  /\ crashes \in Nat
  /\ DOMAIN promise = Names

Files == {s \in Slots : rootDir[s].state = "file"}
First(s) == rootDir[s].first

NoSharing(fat) ==
  /\ \A s, t \in Files : s # t /\ First(s) # 0 => First(s) # First(t)
  /\ \A c, d \in Clusters : c # d /\ fat[c] \in Clusters => fat[c] # fat[d]
  /\ \A s \in Files, c \in Clusters : First(s) # 0 => fat[c] # First(s)

LeadsToTaken(fat) ==
  /\ \A s \in Files : First(s) # 0 => fat[First(s)] # 0
  /\ \A c \in Clusters : fat[c] \in Clusters => fat[fat[c]] # 0

\* No two files, and no two links, lead to the same cluster: fat12_create and
\* fat12_write take only clusters nothing leads to, whatever fails.
NoSharedClusters == pc # "off" => NoSharing(fat_buffer)

\* What a file or a link leads to is marked as taken, so find_free_cluster will
\* not hand it out again.
ReferencedAllocated == pc # "off" => LeadsToTaken(fat_buffer)

\* The cluster fat12_create has taken and no file has yet.
Creating == pc = "entry" \/ (pc = "fat" /\ after = "entry")
Unclaimed ==
  /\ slot \in Slots /\ cluster \in Clusters
  /\ fat_buffer[cluster] # 0
  /\ \A s \in Files : First(s) # cluster
  /\ \A c \in Clusters : fat_buffer[c] # cluster

\* Why clusters are never shared, as long as nothing is deleted and a power
\* loss cannot leave half a FAT: both FATs are sound by themselves, the FAT is
\* on the disk before the entry, and a chain is extended at its end.
SharingInv ==
  /\ NoSharedClusters /\ ReferencedAllocated
  /\ FatSectors = 1 \/ pc = "off" => NoSharing(fatOnDisk) /\ LeadsToTaken(fatOnDisk)
  /\ FatSectors = 1 /\ pc = "entry" => fatOnDisk = fat_buffer
  /\ Creating => Unclaimed
  /\ pc = "data" \/ (pc = "fat" /\ after = "data") =>
       (cluster \in Clusters => fat_buffer[cluster] # 0)
  /\ pc = "fat" => after \in {"entry", "data"} /\ fatSector \in 1..FatSectors
  /\ pc \notin {"delete", "unlink"}
  /\ call.len > 0 => call.val \in Values

\* The slots a name has, a second one being the work of fat12_create, which
\* does not look whether the name exists.
Entries(n) == {s \in Files : rootDir[s].name = n}

\* A name with one entry reads back as what the last completed call on it left
\* there, whatever was done to other files, and whatever failed meanwhile.
ReadBack ==
  pc = "idle" =>
    \A n \in Names :
      promise[n] # Unknown /\ Cardinality(Entries(n)) = 1 => Readable(fat_buffer, n, promise[n])

\* With deletion, until a disk operation fails (fat12_delete frees the chain
\* before it marks the entry, so a failure in between leaves both): between
\* calls no cluster is shared or free while in use, and files read back.
SoundUntilFault ==
  pc = "idle" /\ faults = 0 => NoSharedClusters /\ ReferencedAllocated /\ ReadBack

\* What WRITE_FILE says it wrote is on the disk when it returns, so the next
\* boot finds it ("Write FAT table", fat12.c:643, before the link is used).
WrittenOnMedium ==
  pc = "idle" =>
    \A n \in Names :
      promise[n] # Unknown /\ Cardinality(Entries(n)) = 1
        => Readable(fatOnDisk, n, promise[n])

\* The size in a directory entry never exceeds the chain of the file, for a name
\* with one entry.
SizeCovered ==
  pc # "off" => \A s \in Files : Cardinality(Entries(rootDir[s].name)) = 1 =>
    rootDir[s].size <= Cardinality(ChainSet(fat_buffer, rootDir[s].first))

\* Clusters taken in the FAT that no file leads to.
Lost(fat) ==
  {c \in Clusters : fat[c] # 0}
    \ UNION {ChainSet(fat, rootDir[s].first) : s \in Files}

\* A failing disk operation or a power loss costs at most one cluster; with
\* neither, nothing is ever lost.
LeakBounded ==
  pc = "idle" => Cardinality(Lost(fat_buffer)) <= faults + crashes

\* Between calls, the FAT on the disk is the one in memory unless a disk
\* operation failed.
FatCoherent == pc = "idle" /\ faults = 0 => fatOnDisk = fat_buffer

\* fat12_create writes the FAT before the entry: even a FAT half written when
\* the power went does not leave a file whose first cluster is free on disk,
\* or two files that start at the same cluster.
FirstClusterOnDisk ==
  \A s \in Files : First(s) # 0 =>
    /\ fatOnDisk[First(s)] # 0
    /\ \A t \in Files \ {s} : First(t) # First(s)

\* Every call returns, and every power loss ends in a running kernel.
CallsReturn == pc # "idle" ~> pc = "idle"

=============================================================================
