---------------------------- MODULE Fat12Proofs ----------------------------
(***************************************************************************)
(* What Fat12 guarantees on every disk: every value of the constants, any   *)
(* number of failing operations and of power losses.  First the disk and    *)
(* the copy of the FAT in memory, then what callers may rely on when they   *)
(* read: files hold what was written to them, sizes do not exceed chains,   *)
(* and little is lost.                                                      *)
(***************************************************************************)
EXTENDS Fat12, FiniteSetTheorems, WellFoundedInduction, TLAPS

-----------------------------------------------------------------------------
(* The disk and the copy of the FAT                                         *)

\* TypeOK, with what the steps that store a cluster or a value rely on.
TypeInv ==
  /\ TypeOK
  /\ Creating => cluster \in Clusters
  /\ pc = "fat" => fatSector \in 1..FatSectors
  /\ call.len > 0 => call.val \in Values

\* Entries of the FAT are told apart by the loops' test.
LEMMA ClusterFacts ==
  /\ Clusters \subseteq Nat
  /\ EndOfChain \notin Clusters /\ 0 \notin Clusters
  /\ \A x \in FatEntries : IsData(x) <=> x \in Clusters
BY Fat12Assumption DEF Fat12Assumption, Clusters, EndOfChain, FatEntries, IsData

LEMMA TypeInvInit == Init => TypeInv
BY Fat12Assumption
DEF Fat12Assumption, Init, TypeInv, TypeOK, Creating, Clusters, DiskClusters, Slots,
    FatEntries, EndOfChain, Contents, Blank, Entry, EndEntry, DeletedEntry,
    DirEntries, NoCall, Request, Calls, FirstEntries

\* Replacing one entry of a table by another of its type.
LEMMA UpdateType ==
  ASSUME NEW S, NEW T, NEW f \in [S -> T], NEW x, NEW e \in T
  PROVE  [f EXCEPT ![x] = e] \in [S -> T]
OBVIOUS

\* What the callers pass is a call.
LEMMA RequestType ==
  ASSUME NEW n \in Names
  PROVE  /\ \A op \in {"create", "delete"} :
              /\ Request(op, n, NoName, 0) \in Calls
              /\ Request(op, n, NoName, 0).len = 0
         /\ \A v \in Values, len \in 0..MaxLen :
              /\ Request("write", n, v, len) \in Calls
              /\ Request("write", n, v, len).val = v
BY Fat12Assumption DEF Fat12Assumption, Request, Calls

\* A step that clears the registers leaves them typed.
LEMMA ClearType ==
  ASSUME ClearRegs
  PROVE  /\ after' = "idle" /\ call' \in Calls /\ slot' \in Slots \cup {0}
         /\ cluster' \in FatEntries /\ done' \in 0..MaxLen
         /\ fatSector' \in 0..FatSectors /\ call'.len = 0
BY Fat12Assumption DEF Fat12Assumption, ClearRegs, NoCall, Request, Calls, FatEntries

-----------------------------------------------------------------------------
(* Each step keeps the types                                               *)

\* The calls.
LEMMA CallType == ASSUME TypeInv, Call PROVE TypeInv'
<1>1. ASSUME NEW c \in Calls, NEW at \in {"create", "delete", "open"}, Start(c, at),
             c.len > 0 => c.val \in Values
      PROVE  TypeInv'
  BY <1>1 DEF Start, Doubt, TypeInv, TypeOK, Creating, disk
<1>2. ASSUME NEW n \in Names, CallCreate(n) PROVE TypeInv'
  BY <1>1, <1>2, RequestType DEF CallCreate
<1>3. ASSUME NEW n \in Names, CallDelete(n) PROVE TypeInv'
  BY <1>1, <1>3, RequestType DEF CallDelete
<1>4. ASSUME NEW n \in Names, NEW v \in Values, NEW len \in 0..MaxLen,
             CallWrite(n, v, len)
      PROVE  TypeInv'
  BY <1>1, <1>4, RequestType DEF CallWrite
<1> QED BY <1>2, <1>3, <1>4 DEF Call

\* SYSCALL_WRITE_FILE.
LEMMA WriteType == ASSUME TypeInv, Write PROVE TypeInv'
<1> USE Fat12Assumption, ClusterFacts, ClearType
    DEF Fat12Assumption, TypeInv, TypeOK, Creating, disk, regs, ghost
<1>a. ASSUME DataStored, InLoop PROVE dataArea' \in [DiskClusters -> Contents]
  <2>1. done + 1 \in 1..MaxLen /\ call.val \in Values
    BY <1>a DEF InLoop, Calls
  <2> QED BY <1>a, <2>1 DEF DataStored, Contents
<1>b. ASSUME SizeStored PROVE rootDir' \in [Slots -> DirEntries]
  BY <1>b DEF SizeStored, DirEntries
<1>c. InLoop => cluster \in Clusters /\ done + 1 \in 0..MaxLen
  BY DEF InLoop, Calls
<1>1. CASE OpenFound
  BY <1>1 DEF OpenFound, IsFirst, Matches, DirEntries, FatEntries
<1>2. CASE OpenFails
  BY <1>2 DEF OpenFails, Fault
<1>3. CASE WriteDataNext
  <2>1. cluster \in Clusters /\ done + 1 \in 0..MaxLen
    BY <1>3, <1>c DEF WriteDataNext
  <2>2. cluster' \in FatEntries /\ done' \in 0..MaxLen
    BY <1>3, <2>1 DEF WriteDataNext
  <2> QED BY <1>3, <1>a, <2>2 DEF WriteDataNext
<1>4. CASE WriteDataExtend
  <2>1. PICK c \in Clusters : fat_buffer' = Link(c) /\ cluster' = c
    BY <1>4 DEF WriteDataExtend
  <2>2. fat_buffer' \in [Clusters -> FatEntries] /\ cluster' \in FatEntries
    BY <2>1 DEF Link, FatEntries
  <2>3. fatSector' \in 0..FatSectors /\ fatSector' \in 1..FatSectors
    BY <1>4 DEF WriteDataExtend, StartFatWrite
  <2> QED BY <1>4, <1>a, <1>c, <2>1, <2>2, <2>3 DEF WriteDataExtend, StartFatWrite
<1>5. CASE WriteDataFull
  BY <1>5, <1>a DEF WriteDataFull, Return
<1>6. CASE WriteDataFails
  BY <1>6, <1>a DEF WriteDataFails, Return, Fault
<1>7. CASE WriteDataDone
  BY <1>7 DEF WriteDataDone
<1>8. CASE WriteNothing
  BY <1>8 DEF WriteNothing, Return
<1>9. CASE UpdateSize
  BY <1>9, <1>b DEF UpdateSize, Return
<1>10. CASE UpdateSizeFails
  BY <1>10, <1>b DEF UpdateSizeFails, Return, Fault
<1> QED
  BY <1>1, <1>2, <1>3, <1>4, <1>5, <1>6, <1>7, <1>8, <1>9, <1>10 DEF Write

\* fat12_create.
LEMMA CreateType == ASSUME TypeInv, Create PROVE TypeInv'
<1> USE Fat12Assumption, ClusterFacts, ClearType
    DEF Fat12Assumption, TypeInv, TypeOK, Creating, disk, regs, ghost
<1>a. ASSUME EntryStored, pc = "entry" PROVE rootDir' \in [Slots -> DirEntries]
  <2>1. Entry("file", call.name, cluster, 0) \in DirEntries
    BY <1>a DEF Calls, Entry, DirEntries
  <2>2. rootDir \in [Slots -> DirEntries]
    OBVIOUS
  <2> QED BY ONLY <1>a, <2>1, <2>2, UpdateType DEF EntryStored
<1>1. CASE CreateAllocate
  BY <1>1 DEF CreateAllocate, StartFatWrite, FatEntries
<1>2. CASE CreateFull
  BY <1>2 DEF CreateFull, Return
<1>3. CASE CreateReadFault
  BY <1>3 DEF CreateReadFault, ReadFault, Return, Fault
<1>4. CASE CreateEntry
  BY <1>4, <1>a DEF CreateEntry, Return
<1>5. CASE CreateEntryForWrite
  BY <1>5, <1>a DEF CreateEntryForWrite
<1>6. CASE CreateEntryFails
  BY <1>6, <1>a DEF CreateEntryFails, Return, Fault
<1> QED BY <1>1, <1>2, <1>3, <1>4, <1>5, <1>6 DEF Create

\* fat12_delete.
LEMMA DeleteType == ASSUME TypeInv, Delete PROVE TypeInv'
<1> USE Fat12Assumption, ClusterFacts, ClearType
    DEF Fat12Assumption, TypeInv, TypeOK, Creating, disk, regs, ghost
<1>a. ASSUME EntryDeleted PROVE rootDir' \in [Slots -> DirEntries]
  <2>1. CASE slot \in Slots
    <3>1. [rootDir[slot] EXCEPT !.state = "deleted"] \in DirEntries
      BY <2>1 DEF DirEntries
    <3>2. rootDir' = [rootDir EXCEPT ![slot] = [rootDir[slot] EXCEPT !.state = "deleted"]]
      BY <1>a DEF EntryDeleted
    <3> QED BY <3>1, <3>2, UpdateType
  <2>2. CASE slot \notin Slots
    <3>1. rootDir' = rootDir
      BY <1>a, <2>2 DEF EntryDeleted
    <3> QED BY <3>1
  <2> QED BY <2>1, <2>2
<1>1. CASE DeleteChain
  <2>1. fat_buffer' \in [Clusters -> FatEntries]
    BY <1>1 DEF DeleteChain, FatEntries
  <2> QED BY <1>1, <2>1 DEF DeleteChain, StartFatWrite
<1>2. CASE DeleteNotFound
  BY <1>2 DEF DeleteNotFound, Return
<1>3. CASE DeleteReadFault
  BY <1>3 DEF DeleteReadFault, ReadFault, Return, Fault
<1>4. CASE DeleteEntry
  BY <1>4, <1>a DEF DeleteEntry, Return
<1>5. CASE DeleteEntryFails
  BY <1>5, <1>a DEF DeleteEntryFails, Return, Fault
<1> QED BY <1>1, <1>2, <1>3, <1>4, <1>5 DEF Delete

\* write_fat_table, power losses and boots.
LEMMA DiskType == ASSUME TypeInv, FatWrite \/ Crash \/ Boot \/ BootFails PROVE TypeInv'
<1> USE Fat12Assumption, ClusterFacts, ClearType
    DEF Fat12Assumption, TypeInv, TypeOK, Creating, disk, regs, ghost
<1>a. Flushed(fatSector) \in [Clusters -> FatEntries]
  BY DEF Flushed
<1>1. CASE WriteFatSector
  BY <1>1, <1>a DEF WriteFatSector
<1>2. CASE WriteLastFatSector
  BY <1>2, <1>a DEF WriteLastFatSector
<1>3. CASE WriteFatSectorFails
  BY <1>3, <1>a DEF WriteFatSectorFails, Return, Fault
<1>4. CASE Crash
  BY <1>4 DEF Crash, FatEntries
<1>5. CASE Boot
  BY <1>5 DEF Boot
<1>6. CASE BootFails
  BY <1>6 DEF BootFails, Fault
<1> QED BY <1>1, <1>2, <1>3, <1>4, <1>5, <1>6 DEF FatWrite

\* Every step of the machine keeps the types.
LEMMA TypeInvStep == TypeInv /\ [Next]_vars => TypeInv'
<1>1. TypeInv /\ UNCHANGED vars => TypeInv'
  BY DEF TypeInv, TypeOK, Creating, vars, disk, regs, ghost
<1> QED
  BY <1>1, CallType, WriteType, CreateType, DeleteType, DiskType DEF Next, Kernel

\* The variables of the driver keep the types of the C variables they stand for.
THEOREM TypeCorrect == Spec => []TypeOK
<1>1. Init => TypeInv
  BY TypeInvInit
<1>2. TypeInv /\ [Next]_vars => TypeInv'
  BY TypeInvStep
<1>3. TypeInv => TypeOK
  BY DEF TypeInv
<1> QED BY <1>1, <1>2, <1>3, PTL DEF Spec

-----------------------------------------------------------------------------
(* The FAT on the disk                                                     *)

\* How far write_fat_table has come, and that the entry of a file is written
\* or deleted only once it has come to its end.
FlushInv ==
  /\ pc = "fat" => \A c \in Clusters : SectorOf[c] < fatSector => fatOnDisk[c] = fat_buffer[c]
  /\ pc \in {"entry", "unlink"} => fatOnDisk = fat_buffer
  /\ faults = 0 /\ pc \notin {"off", "fat"} => fatOnDisk = fat_buffer

FlushFirst == \A c \in Clusters : ~(SectorOf[c] < 1)

LEMMA FlushFirstHolds == FlushFirst
BY Fat12Assumption DEF Fat12Assumption, FlushFirst

\* A step that leaves both FATs alone and is not on its way to an entry.
LEMMA QuietFlush ==
  ASSUME TypeInv, FlushInv, UNCHANGED <<fat_buffer, fatOnDisk>>,
         faults' = faults \/ Fault, pc \notin {"off", "fat"},
         pc' \notin {"off", "fat", "entry", "unlink"}
  PROVE  FlushInv'
<1>1. faults' = 0 => faults = 0
  BY DEF Fault, TypeInv, TypeOK
<1> QED BY <1>1 DEF FlushInv

\* The start of write_fat_table.
LEMMA StartFlush ==
  ASSUME pc' = "fat", fatSector' = 1
  PROVE  FlushInv'
BY FlushFirstHolds DEF FlushInv, FlushFirst

LEMMA FlushStep == ASSUME TypeInv, FlushInv, Next PROVE FlushInv'
<1> USE DEF disk, regs, ghost, Return
<1>1. CASE Call
  <2>1. ASSUME NEW c, NEW at \in {"create", "delete", "open"}, Start(c, at) PROVE FlushInv'
    BY <2>1, QuietFlush DEF Start
  <2> QED BY <1>1, <2>1 DEF Call, CallCreate, CallDelete, CallWrite
<1>2. CASE Write
  <2>1. CASE WriteDataExtend
    BY <2>1, StartFlush DEF WriteDataExtend, StartFatWrite
  <2>2. CASE OpenFound \/ OpenFails
    BY <2>2, QuietFlush DEF OpenFound, OpenFails
  <2>3. CASE WriteDataNext \/ WriteDataFull \/ WriteDataFails
    BY <2>3, QuietFlush DEF WriteDataNext, WriteDataFull, WriteDataFails
  <2>4. CASE WriteDataDone \/ WriteNothing
    BY <2>4, QuietFlush DEF WriteDataDone, WriteNothing
  <2>5. CASE UpdateSize \/ UpdateSizeFails
    BY <2>5, QuietFlush DEF UpdateSize, UpdateSizeFails
  <2> QED BY <1>2, <2>1, <2>2, <2>3, <2>4, <2>5 DEF Write
<1>3. CASE Create
  <2>1. CASE CreateAllocate
    BY <2>1, StartFlush DEF CreateAllocate, StartFatWrite
  <2>2. CASE CreateFull \/ CreateReadFault
    BY <2>2, QuietFlush DEF CreateFull, CreateReadFault, ReadFault
  <2>3. CASE CreateEntry \/ CreateEntryForWrite \/ CreateEntryFails
    BY <2>3, QuietFlush DEF CreateEntry, CreateEntryForWrite, CreateEntryFails
  <2> QED BY <1>3, <2>1, <2>2, <2>3 DEF Create
<1>4. CASE Delete
  <2>1. CASE DeleteChain
    BY <2>1, StartFlush DEF DeleteChain, StartFatWrite
  <2>2. CASE DeleteNotFound \/ DeleteReadFault
    BY <2>2, QuietFlush DEF DeleteNotFound, DeleteReadFault, ReadFault
  <2>3. CASE DeleteEntry \/ DeleteEntryFails
    BY <2>3, QuietFlush DEF DeleteEntry, DeleteEntryFails
  <2> QED BY <1>4, <2>1, <2>2, <2>3 DEF Delete
<1>5. CASE WriteFatSector
  <2>1. ASSUME NEW c \in Clusters, SectorOf[c] < fatSector + 1
        PROVE  Flushed(fatSector)[c] = fat_buffer[c]
    <3>1. SectorOf[c] \in Nat /\ fatSector \in Nat
      BY Fat12Assumption DEF Fat12Assumption, TypeInv, TypeOK
    <3>2. SectorOf[c] = fatSector \/ SectorOf[c] < fatSector
      BY <2>1, <3>1
    <3> QED BY <1>5, <3>2 DEF WriteFatSector, FlushInv, Flushed
  <2> QED BY <1>5, <2>1 DEF WriteFatSector, FlushInv
<1>6. CASE WriteLastFatSector
  <2>1. ASSUME NEW c \in Clusters PROVE Flushed(fatSector)[c] = fat_buffer[c]
    <3>1. SectorOf[c] \in 1..FatSectors /\ FatSectors \in Nat
      BY Fat12Assumption DEF Fat12Assumption
    <3>2. SectorOf[c] = fatSector \/ SectorOf[c] < fatSector
      BY <1>6, <3>1 DEF WriteLastFatSector
    <3> QED BY <1>6, <3>2 DEF WriteLastFatSector, FlushInv, Flushed
  <2>2. Flushed(fatSector) = fat_buffer
    BY <2>1 DEF Flushed, TypeInv, TypeOK
  <2>3. after # "fat"
    BY DEF TypeInv, TypeOK
  <2> QED BY <1>6, <2>2, <2>3 DEF WriteLastFatSector, FlushInv
<1>7. CASE WriteFatSectorFails
  <2>1. faults' # 0
    BY <1>7 DEF WriteFatSectorFails, Fault, TypeInv, TypeOK
  <2> QED BY <1>7, <2>1 DEF WriteFatSectorFails, FlushInv
<1>8. CASE Crash
  BY <1>8 DEF Crash, FlushInv
<1>9. CASE Boot
  BY <1>9 DEF Boot, FlushInv
<1>10. CASE BootFails
  BY <1>10 DEF BootFails, FlushInv
<1> QED
  BY <1>1, <1>2, <1>3, <1>4, <1>5, <1>6, <1>7, <1>8, <1>9, <1>10 DEF Next, Kernel, FatWrite

LEMMA FlushAlways == Spec => [](TypeInv /\ FlushInv)
<1>1. Init => TypeInv /\ FlushInv
  BY TypeInvInit DEF Init, FlushInv
<1>2. TypeInv /\ FlushInv /\ [Next]_vars => (TypeInv /\ FlushInv)'
  <2>1. FlushInv /\ UNCHANGED vars => FlushInv'
    BY DEF FlushInv, vars, disk, regs, ghost
  <2> QED BY <2>1, TypeInvStep, FlushStep
<1> QED BY <1>1, <1>2, PTL DEF Spec

\* As long as no disk operation has failed, every call leaves the FAT on the
\* disk as it is in memory, whatever it was that the call did or did not do:
\* write_fat_table writes all its sectors before the call goes on.
THEOREM CoherentCorrect == Spec => []FatCoherent
<1>1. FlushInv => FatCoherent
  BY DEF FlushInv, FatCoherent
<1> QED BY <1>1, FlushAlways, PTL

-----------------------------------------------------------------------------
(* No cluster is shared                                                    *)

Sound(fat) == NoSharing(fat) /\ LeadsToTaken(fat)

\* Nothing in the FAT fat or in the directory leads to c.
Unreferenced(fat, c) ==
  /\ \A s \in Files : First(s) # c
  /\ \A b \in Clusters : fat[b] # c

LEMMA FirstType == TypeInv => \A s \in Files : First(s) \in {0} \cup Clusters
BY DEF TypeInv, TypeOK, DirEntries, Files, First

\* Nothing leads to a free cluster.
LEMMA FreeUnreferenced ==
  ASSUME NEW fat \in [Clusters -> FatEntries], Sound(fat),
         NEW c \in Clusters, fat[c] = 0
  PROVE  Unreferenced(fat, c)
BY ClusterFacts DEF Sound, LeadsToTaken, Unreferenced

\* fat12_create's set_fat_entry: a free cluster becomes a chain of its own.
LEMMA TakeSound ==
  ASSUME TypeInv, NEW fat \in [Clusters -> FatEntries], Sound(fat),
         NEW c \in Clusters, fat[c] = 0
  PROVE  /\ Sound([fat EXCEPT ![c] = EndOfChain])
         /\ Unreferenced([fat EXCEPT ![c] = EndOfChain], c)
<1> DEFINE g == [fat EXCEPT ![c] = EndOfChain]
<1>1. /\ \A b \in Clusters : g[b] = IF b = c THEN EndOfChain ELSE fat[b]
      /\ EndOfChain # 0 /\ EndOfChain \notin Clusters
  BY ClusterFacts DEF EndOfChain
<1>2. Unreferenced(fat, c)
  BY FreeUnreferenced
<1> HIDE DEF g
<1>3. NoSharing(g) /\ LeadsToTaken(g)
  <2>1. NoSharing(g)
    BY <1>1, <1>2, FirstType DEF Sound, NoSharing
  <2>2. LeadsToTaken(g)
    BY <1>1, <1>2, FirstType DEF Sound, LeadsToTaken, Unreferenced
  <2> QED BY <2>1, <2>2
<1>4. Unreferenced(g, c)
  BY <1>1, <1>2 DEF Unreferenced
<1> QED BY <1>3, <1>4 DEF Sound, g

\* fat12_write's two set_fat_entry calls: a chain grows at its end.
LEMMA LinkSound ==
  ASSUME TypeInv, NEW fat \in [Clusters -> FatEntries], Sound(fat),
         NEW b \in Clusters, fat[b] # 0, fat[b] \notin Clusters,
         NEW c \in Clusters, fat[c] = 0
  PROVE  Sound([fat EXCEPT ![b] = c, ![c] = EndOfChain])
<1> DEFINE g == [fat EXCEPT ![b] = c, ![c] = EndOfChain]
<1>1. /\ \A d \in Clusters : g[d] = IF d = c THEN EndOfChain
                                    ELSE IF d = b THEN c ELSE fat[d]
      /\ EndOfChain # 0 /\ EndOfChain \notin Clusters /\ 0 \notin Clusters
      /\ b # c
  BY ClusterFacts DEF EndOfChain
<1>2. Unreferenced(fat, c)
  BY FreeUnreferenced
<1> HIDE DEF g
<1>3. NoSharing(g)
  <2>1. \A s, t \in Files : s # t /\ First(s) # 0 => First(s) # First(t)
    BY DEF Sound, NoSharing
  <2>2. ASSUME NEW d \in Clusters, NEW e \in Clusters, d # e, g[d] \in Clusters
        PROVE  g[d] # g[e]
    BY <1>1, <1>2, <2>2 DEF Sound, NoSharing, Unreferenced
  <2>3. ASSUME NEW s \in Files, NEW d \in Clusters, First(s) # 0
        PROVE  g[d] # First(s)
    BY <1>1, <1>2, <2>3, FirstType DEF Sound, NoSharing, Unreferenced
  <2> QED BY <2>1, <2>2, <2>3 DEF NoSharing
<1>4. LeadsToTaken(g)
  <2>1. ASSUME NEW x \in Clusters, fat[x] # 0 PROVE g[x] # 0
    BY <1>1, <2>1
  <2>2. ASSUME NEW s \in Files, First(s) # 0 PROVE g[First(s)] # 0
    BY <2>1, <2>2, FirstType DEF Sound, LeadsToTaken
  <2>3. ASSUME NEW d \in Clusters, g[d] \in Clusters PROVE g[g[d]] # 0
    BY <1>1, <2>1, <2>3 DEF Sound, LeadsToTaken
  <2> QED BY <2>2, <2>3 DEF LeadsToTaken
<1> QED BY <1>3, <1>4 DEF Sound, g

\* fat12_create's entry: the new file takes a cluster nothing leads to.
LEMMA EntrySound ==
  ASSUME TypeInv, EntryStored, slot \in Slots, cluster \in Clusters,
         NEW fat \in [Clusters -> FatEntries],
         Sound(fat), Unreferenced(fat, cluster), fat[cluster] # 0
  PROVE  Sound(fat)'
<1>1. \A s \in Slots : rootDir'[s] = IF s = slot THEN Entry("file", call.name, cluster, 0)
                                     ELSE rootDir[s]
  BY DEF EntryStored, TypeInv, TypeOK
<1>2. /\ Files' \subseteq Files \cup {slot}
      /\ \A s \in Files' : First(s)' = IF s = slot THEN cluster ELSE First(s)
  BY <1>1 DEF Files, First, Entry
<1>3. NoSharing(fat)'
  BY <1>2 DEF Sound, NoSharing, Unreferenced
<1>4. LeadsToTaken(fat)'
  BY <1>2 DEF Sound, LeadsToTaken
<1> QED BY <1>3, <1>4 DEF Sound

\* A step that moves no file's first cluster leaves a sound FAT sound.
LEMMA SameFirstSound ==
  ASSUME NEW fat, Files' = Files, \A s \in Files : First(s)' = First(s)
  PROVE  /\ Sound(fat) => Sound(fat)'
         /\ \A c : Unreferenced(fat, c) => Unreferenced(fat, c)'
BY DEF Sound, NoSharing, LeadsToTaken, Unreferenced

\* fat12_update_size moves none.
LEMMA SizeKeepsFirst ==
  ASSUME TypeInv, SizeStored
  PROVE  Files' = Files /\ \A s \in Files : First(s)' = First(s)
<1>1. PICK t \in Slots : rootDir' = [rootDir EXCEPT ![t].size = done]
  BY DEF SizeStored
<1>2. \A s \in Slots : rootDir'[s].state = rootDir[s].state /\ rootDir'[s].first = rootDir[s].first
  BY <1>1 DEF TypeInv, TypeOK, DirEntries
<1> QED BY <1>2 DEF Files, First

-----------------------------------------------------------------------------
(* The steps                                                               *)

\* fat12_delete frees a chain before the entry goes, and a power loss between two
\* FAT sectors leaves half a link: the theorem is about disks without these.
Whole == FatSectors = 1 \/ MaxCrashes = 0
NoTornFat == "delete" \notin Ops /\ Whole

IInv == TypeInv /\ SharingInv

LEMMA FlushOne ==
  TypeInv /\ FatSectors = 1 => Flushed(1) = fat_buffer
BY Fat12Assumption DEF Fat12Assumption, TypeInv, TypeOK, Flushed

LEMMA SharingInit == Init => SharingInv
<1> SUFFICES ASSUME Init PROVE SharingInv
  OBVIOUS
<1>1. \A s \in Files : First(s) = 0
  BY DEF Init, FirstEntries, Files, First, Entry, EndEntry, DeletedEntry
<1>2. \A c \in Clusters : fatOnDisk[c] = 0 /\ 0 \notin Clusters
  BY ClusterFacts DEF Init
<1>3. NoSharing(fatOnDisk) /\ LeadsToTaken(fatOnDisk)
  BY <1>1, <1>2 DEF NoSharing, LeadsToTaken
<1> QED
  BY <1>3 DEF Init, SharingInv, NoSharedClusters, ReferencedAllocated, Creating,
              NoCall, Request

\* A step that leaves the FATs and the directory alone leaves them sound.
LEMMA SameDisk ==
  ASSUME IInv, UNCHANGED <<fat_buffer, fatOnDisk, rootDir>>, pc # "off"
  PROVE  /\ NoSharedClusters' /\ ReferencedAllocated'
         /\ FatSectors = 1 => (NoSharing(fatOnDisk) /\ LeadsToTaken(fatOnDisk))'
BY DEF IInv, SharingInv, NoSharedClusters, ReferencedAllocated, NoSharing,
       LeadsToTaken, Files, First

LEMMA CallSharing ==
  ASSUME IInv, Call, \A n \in Names : ~CallDelete(n)
  PROVE  SharingInv'
<1>1. ASSUME NEW c, NEW at \in {"create", "open"}, Start(c, at), c.len > 0 => c.val \in Values
      PROVE  SharingInv'
  BY <1>1, SameDisk DEF Start, IInv, SharingInv, Creating, disk
<1>2. ASSUME NEW n \in Names, CallCreate(n) PROVE SharingInv'
  BY <1>1, <1>2, RequestType DEF CallCreate
<1>3. ASSUME NEW n \in Names, NEW v \in Values, NEW len \in 0..MaxLen,
             CallWrite(n, v, len)
      PROVE  SharingInv'
  BY <1>1, <1>3, RequestType DEF CallWrite
<1> QED BY <1>2, <1>3 DEF Call

\* A step that returns, or goes on without a cluster.
LEMMA ReturnSharing ==
  ASSUME IInv, Return, UNCHANGED <<fat_buffer, fatOnDisk, rootDir>>, pc # "off"
  PROVE  SharingInv'
BY SameDisk DEF IInv, SharingInv, Return, ClearRegs, NoCall, Request, Creating

LEMMA WriteSharing == ASSUME IInv, Write PROVE SharingInv'
<1> USE DEF IInv, Creating, disk, regs, ghost
<1>1. CASE OpenFound
  <2>1. cluster' \in Clusters => fat_buffer[cluster'] # 0
    BY <1>1, ClusterFacts
    DEF OpenFound, IsFirst, Matches, SharingInv, ReferencedAllocated, LeadsToTaken, Files, First
  <2> QED BY <1>1, <2>1, SameDisk DEF OpenFound, SharingInv
<1>2. CASE OpenFails
  BY <1>2, SameDisk DEF OpenFails, SharingInv
<1>3. CASE WriteDataNext
  <2>1. cluster \in Clusters
    BY <1>3, ClusterFacts DEF WriteDataNext, InLoop, TypeInv, TypeOK
  <2>2. cluster' \in Clusters => fat_buffer[cluster'] # 0
    BY <1>3, <2>1 DEF WriteDataNext, SharingInv, ReferencedAllocated, LeadsToTaken
  <2> QED BY <1>3, <2>2, SameDisk DEF WriteDataNext, SharingInv
<1>4. CASE WriteDataExtend
  <2>1. PICK c \in Clusters : IsFirst(c, FreeClusters) /\ fat_buffer' = Link(c) /\ cluster' = c
    BY <1>4 DEF WriteDataExtend
  <2>2. cluster \in Clusters /\ fat_buffer[c] = 0
    BY <1>4, <2>1, ClusterFacts
    DEF WriteDataExtend, InLoop, TypeInv, TypeOK, IsFirst, FreeClusters
  <2>3. fat_buffer[cluster] # 0 /\ fat_buffer[cluster] \notin Clusters
    BY <1>4, <2>2, ClusterFacts DEF WriteDataExtend, NeedsCluster, SharingInv, TypeInv, TypeOK
  <2>4. Sound(fat_buffer)
    BY <1>4 DEF WriteDataExtend, SharingInv, NoSharedClusters, ReferencedAllocated, Sound
  <2>5. Sound(Link(c))
    BY <2>2, <2>3, <2>4, LinkSound DEF Link, TypeInv, TypeOK
  <2>6. (NoSharing(fat_buffer) /\ LeadsToTaken(fat_buffer))'
    BY <1>4, <2>1, <2>5
    DEF WriteDataExtend, Sound, NoSharing, LeadsToTaken, Files, First
  <2>7. FatSectors = 1 => (NoSharing(fatOnDisk) /\ LeadsToTaken(fatOnDisk))'
    BY <1>4 DEF WriteDataExtend, SharingInv, NoSharing, LeadsToTaken, Files, First
  <2>8. fat_buffer'[cluster'] # 0
    BY <2>1 DEF Link, TypeInv, TypeOK, EndOfChain
  <2>9. fatSector' \in 1..FatSectors
    BY <1>4, Fat12Assumption DEF Fat12Assumption, WriteDataExtend, StartFatWrite
  <2> QED
    BY <1>4, <2>6, <2>7, <2>8, <2>9
    DEF WriteDataExtend, StartFatWrite, SharingInv, NoSharedClusters, ReferencedAllocated
<1>5. CASE WriteDataFull
  BY <1>5, ReturnSharing DEF WriteDataFull
<1>6. CASE WriteDataFails
  BY <1>6, ReturnSharing DEF WriteDataFails
<1>7. CASE WriteDataDone
  BY <1>7, SameDisk DEF WriteDataDone, SharingInv
<1>8. CASE WriteNothing
  BY <1>8, ReturnSharing DEF WriteNothing
<1>a. ASSUME SizeStored, Return, pc = "size", UNCHANGED <<fat_buffer, fatOnDisk>>
      PROVE  SharingInv'
  <2>1. Files' = Files /\ \A s \in Files : First(s)' = First(s)
    BY <1>a, SizeKeepsFirst
  <2>2. Sound(fat_buffer) /\ (FatSectors = 1 => Sound(fatOnDisk))
    BY <1>a DEF SharingInv, NoSharedClusters, ReferencedAllocated, Sound
  <2>3. Sound(fat_buffer)' /\ (FatSectors = 1 => Sound(fatOnDisk)')
    BY <1>a, <2>1, <2>2 DEF Sound, NoSharing, LeadsToTaken
  <2> QED
    BY <1>a, <2>3
    DEF SharingInv, Return, ClearRegs, NoCall, Request, Sound, NoSharedClusters, ReferencedAllocated
<1>9. CASE UpdateSize
  BY <1>9, <1>a DEF UpdateSize
<1>10. CASE UpdateSizeFails
  <2>1. CASE UNCHANGED rootDir
    BY <1>10, <2>1, ReturnSharing DEF UpdateSizeFails
  <2>2. CASE SizeStored
    BY <1>10, <2>2, <1>a DEF UpdateSizeFails
  <2> QED BY <1>10, <2>1, <2>2 DEF UpdateSizeFails
<1> QED
  BY <1>1, <1>2, <1>3, <1>4, <1>5, <1>6, <1>7, <1>8, <1>9, <1>10 DEF Write

LEMMA CreateSharing == ASSUME IInv, Create PROVE SharingInv'
<1> USE DEF IInv, Creating, disk, regs, ghost
<1>1. CASE CreateAllocate
  <2>1. PICK s \in Slots, c \in Clusters :
          /\ IsFirst(c, FreeClusters)
          /\ slot' = s /\ cluster' = c
          /\ fat_buffer' = [fat_buffer EXCEPT ![c] = EndOfChain]
    BY <1>1 DEF CreateAllocate
  <2>2. fat_buffer[c] = 0
    BY <2>1 DEF IsFirst, FreeClusters
  <2>3. Sound(fat_buffer)
    BY <1>1 DEF CreateAllocate, SharingInv, NoSharedClusters, ReferencedAllocated, Sound
  <2>4. Sound(fat_buffer') /\ Unreferenced(fat_buffer', c)
    BY <2>1, <2>2, <2>3, TakeSound DEF TypeInv, TypeOK
  <2>5. (NoSharing(fat_buffer) /\ LeadsToTaken(fat_buffer))'
    BY <1>1, <2>4 DEF CreateAllocate, Sound, NoSharing, LeadsToTaken, Files, First
  <2>6. FatSectors = 1 => (NoSharing(fatOnDisk) /\ LeadsToTaken(fatOnDisk))'
    BY <1>1 DEF CreateAllocate, SharingInv, NoSharing, LeadsToTaken, Files, First
  <2>7. Unclaimed'
    BY <1>1, <2>1, <2>4
    DEF CreateAllocate, Unclaimed, Unreferenced, Files, First, TypeInv, TypeOK, EndOfChain
  <2>8. fatSector' \in 1..FatSectors
    BY <1>1, Fat12Assumption DEF Fat12Assumption, CreateAllocate, StartFatWrite
  <2> QED
    BY <1>1, <2>5, <2>6, <2>7, <2>8
    DEF CreateAllocate, StartFatWrite, SharingInv, NoSharedClusters, ReferencedAllocated
<1>2. CASE CreateFull
  BY <1>2, ReturnSharing DEF CreateFull
<1>3. CASE CreateReadFault
  BY <1>3, ReturnSharing DEF CreateReadFault, ReadFault
<1>a. ASSUME EntryStored, pc = "entry", UNCHANGED <<fat_buffer, fatOnDisk>>
      PROVE  Sound(fat_buffer)' /\ (FatSectors = 1 => Sound(fatOnDisk)')
  <2>1. /\ slot \in Slots /\ cluster \in Clusters
        /\ fat_buffer[cluster] # 0 /\ Unreferenced(fat_buffer, cluster)
    BY <1>a DEF SharingInv, Unclaimed, Unreferenced
  <2>2. Sound(fat_buffer) /\ (FatSectors = 1 => fatOnDisk = fat_buffer)
    BY <1>a DEF SharingInv, NoSharedClusters, ReferencedAllocated, Sound
  <2>3. ASSUME NEW fat, fat = fat_buffer PROVE Sound(fat)'
    BY <1>a, <2>1, <2>2, <2>3, EntrySound DEF TypeInv, TypeOK
  <2>4. Sound(fat_buffer)'
    BY <1>a, <2>3 DEF Sound, NoSharing, LeadsToTaken
  <2>5. FatSectors = 1 => Sound(fatOnDisk)'
    BY <1>a, <2>2, <2>4 DEF Sound, NoSharing, LeadsToTaken
  <2> QED BY <2>4, <2>5
<1>b. ASSUME EntryStored, pc = "entry", Return, UNCHANGED <<fat_buffer, fatOnDisk>>
      PROVE  SharingInv'
  BY <1>a, <1>b
  DEF SharingInv, Return, ClearRegs, NoCall, Request, Sound, NoSharedClusters, ReferencedAllocated
<1>4. CASE CreateEntry
  BY <1>4, <1>b DEF CreateEntry
<1>5. CASE CreateEntryForWrite
  <2>1. Sound(fat_buffer)' /\ (FatSectors = 1 => Sound(fatOnDisk)')
    BY <1>5, <1>a DEF CreateEntryForWrite
  <2>2. fat_buffer[cluster] # 0
    BY <1>5 DEF CreateEntryForWrite, SharingInv, Unclaimed
  <2> QED
    BY <1>5, <2>1, <2>2
    DEF CreateEntryForWrite, SharingInv, Sound, NoSharedClusters, ReferencedAllocated
<1>6. CASE CreateEntryFails
  <2>1. CASE UNCHANGED rootDir
    BY <1>6, <2>1, ReturnSharing DEF CreateEntryFails
  <2>2. CASE EntryStored
    BY <1>6, <2>2, <1>b DEF CreateEntryFails
  <2> QED BY <1>6, <2>1, <2>2 DEF CreateEntryFails
<1> QED BY <1>1, <1>2, <1>3, <1>4, <1>5, <1>6 DEF Create

LEMMA DiskSharing ==
  ASSUME IInv, Whole, FatWrite \/ Crash \/ Boot \/ BootFails
  PROVE  SharingInv'
<1> USE DEF IInv, Creating, disk, regs, ghost
<1>a. FatSectors = 1 /\ pc = "fat" => fatSector = 1 /\ Flushed(fatSector) = fat_buffer
  BY FlushOne DEF SharingInv
<1>1. CASE WriteFatSector
  <2>1. FatSectors # 1 /\ fatSector + 1 \in 1..FatSectors
    BY <1>1, Fat12Assumption DEF Fat12Assumption, WriteFatSector, SharingInv
  <2> QED
    BY <1>1, <2>1
    DEF WriteFatSector, SharingInv, NoSharedClusters, ReferencedAllocated, NoSharing,
        LeadsToTaken, Unclaimed, Files, First
<1>2. CASE WriteLastFatSector
  <2>1. FatSectors = 1 => fatOnDisk' = fat_buffer
    BY <1>2, <1>a DEF WriteLastFatSector
  <2> QED
    BY <1>2, <2>1
    DEF WriteLastFatSector, SharingInv, NoSharedClusters, ReferencedAllocated, NoSharing,
        LeadsToTaken, Unclaimed, Files, First
<1>3. CASE WriteFatSectorFails
  <2>1. FatSectors = 1 => fatOnDisk' \in {fatOnDisk, fat_buffer}
    BY <1>3, <1>a DEF WriteFatSectorFails
  <2> QED
    BY <1>3, <2>1
    DEF WriteFatSectorFails, SharingInv, NoSharedClusters, ReferencedAllocated, NoSharing,
        LeadsToTaken, Files, First, Return, ClearRegs, NoCall, Request
<1>4. CASE Crash
  <2>1. FatSectors = 1
    BY <1>4, Fat12Assumption DEF Fat12Assumption, Crash, Whole, TypeInv, TypeOK
  <2> QED
    BY <1>4, <2>1
    DEF Crash, SharingInv, NoSharedClusters, ReferencedAllocated, NoSharing,
        LeadsToTaken, Files, First, ClearRegs, NoCall, Request
<1>5. CASE Boot
  BY <1>5
  DEF Boot, SharingInv, NoSharedClusters, ReferencedAllocated, NoSharing,
      LeadsToTaken, Files, First
<1>6. CASE BootFails
  BY <1>6
  DEF BootFails, SharingInv, NoSharedClusters, ReferencedAllocated, NoSharing,
      LeadsToTaken, Files, First
<1> QED BY <1>1, <1>2, <1>3, <1>4, <1>5, <1>6 DEF FatWrite

\* The pc of a deletion is never reached.
LEMMA DeleteSharing == ASSUME IInv, Delete PROVE FALSE
BY Zenon
DEF IInv, SharingInv, Delete, DeleteChain, DeleteNotFound, DeleteReadFault,
    DeleteEntry, DeleteEntryFails

\* The inductive invariant holds of every disk without deletions or torn FATs.
THEOREM SharingCorrect == ASSUME NoTornFat PROVE Spec => []SharingInv
<1>1. Init => IInv
  BY TypeInvInit, SharingInit DEF IInv
<1>2. IInv /\ [Next]_vars => IInv'
  <2>1. IInv /\ UNCHANGED vars => IInv'
    BY DEF IInv, TypeInv, TypeOK, SharingInv, NoSharedClusters, ReferencedAllocated,
           NoSharing, LeadsToTaken, Unclaimed, Files, First, Creating, vars, disk, regs, ghost
  <2>2. IInv /\ Next => TypeInv'
    BY CallType, WriteType, CreateType, DeleteType, DiskType DEF IInv, Next, Kernel
  <2>3. IInv /\ Next => SharingInv'
    <3>1. Whole /\ \A n \in Names : ~CallDelete(n)
      BY DEF NoTornFat, CallDelete, Start, Request
    <3> QED
      BY <3>1, CallSharing, WriteSharing, CreateSharing, DeleteSharing, DiskSharing
      DEF Next, Kernel
  <2> QED BY <2>1, <2>2, <2>3 DEF IInv
<1>3. IInv => SharingInv
  BY DEF IInv
<1> QED BY <1>1, <1>2, <1>3, PTL DEF Spec

\* No two files, and no two links, ever lead to the same cluster, however many
\* disk operations fail and, with the FAT in one sector, however often the power
\* goes.
THEOREM SharedNever == ASSUME NoTornFat PROVE Spec => []NoSharedClusters
<1>1. SharingInv => NoSharedClusters
  BY DEF SharingInv
<1> QED BY <1>1, SharingCorrect, PTL

\* Nor does any lead to a cluster that the FAT calls free.
THEOREM ReferencedNeverFree == ASSUME NoTornFat PROVE Spec => []ReferencedAllocated
<1>1. SharingInv => ReferencedAllocated
  BY DEF SharingInv
<1> QED BY <1>1, SharingCorrect, PTL


-----------------------------------------------------------------------------
(* Half a FAT on the disk                                                  *)

NeverDeletes == "delete" \notin Ops

\* The disk's FAT has no cluster the one in memory does not have: what the
\* driver takes is free in both.  With the FAT on the disk before the entry,
\* a file's first cluster is then never free on the disk, even when half a FAT
\* reached it.
FirstInv ==
  /\ pc # "off" => \A c \in Clusters : fatOnDisk[c] # 0 => fat_buffer[c] # 0
  /\ Creating => /\ slot \in Slots /\ cluster \in Clusters
                 /\ fat_buffer[cluster] # 0
                 /\ \A s \in Files : First(s) # cluster
  /\ pc = "fat" => after # "unlink"
  /\ pc \notin {"delete", "unlink"}
  /\ FirstClusterOnDisk

DiskInv == TypeInv /\ FlushInv /\ FirstInv

\* A step that takes no cluster and writes no directory entry.
LEMMA QuietFirst ==
  ASSUME FirstInv, UNCHANGED <<fat_buffer, fatOnDisk>>,
         Files' = Files, \A s \in Files : First(s)' = First(s),
         pc # "off", pc' \notin {"fat", "entry", "delete", "unlink"}
  PROVE  FirstInv'
<1>1. FirstClusterOnDisk'
  BY DEF FirstInv, FirstClusterOnDisk
<1> QED BY <1>1 DEF FirstInv, Creating

LEMMA QuietFiles == UNCHANGED rootDir => Files' = Files /\ \A s \in Files : First(s)' = First(s)
BY DEF Files, First

\* A sector of the FAT reaches the disk, or does not.
LEMMA DiskFatGrows ==
  ASSUME TypeInv, FirstInv, pc # "off",
         fatOnDisk' \in {fatOnDisk, Flushed(fatSector)}, UNCHANGED <<fat_buffer, rootDir>>
  PROVE  /\ \A c \in Clusters : fatOnDisk'[c] # 0 => fat_buffer'[c] # 0
         /\ FirstClusterOnDisk'
<1>1. \A c \in Clusters : /\ fatOnDisk'[c] # 0 => fat_buffer[c] # 0
                          /\ fatOnDisk[c] # 0 => fatOnDisk'[c] # 0
  BY DEF FirstInv, Flushed
<1>2. FirstClusterOnDisk'
  BY <1>1, FirstType, QuietFiles DEF FirstInv, FirstClusterOnDisk
<1> QED BY <1>1, <1>2

LEMMA FirstStep == ASSUME NeverDeletes, DiskInv, Next PROVE FirstInv'
<1> USE DEF DiskInv, disk, regs, ghost, Return
<1>1. CASE Call
  <2>1. ASSUME NEW c, NEW at \in {"create", "open"}, Start(c, at) PROVE FirstInv'
    BY <2>1, QuietFirst, QuietFiles DEF Start
  <2>2. ASSUME NEW n \in Names, CallDelete(n) PROVE FALSE
    BY <2>2 DEF CallDelete, Start, Request, NeverDeletes
  <2> QED BY <1>1, <2>1, <2>2 DEF Call, CallCreate, CallWrite
<1>2. CASE Write
  <2>1. CASE WriteDataExtend
    <3>1. PICK c \in Clusters : fat_buffer' = Link(c)
      BY <2>1 DEF WriteDataExtend
    <3>2. cluster \in Clusters
      BY <2>1, ClusterFacts DEF WriteDataExtend, InLoop, TypeInv, TypeOK
    <3>3. \A d \in Clusters : fat_buffer[d] # 0 => fat_buffer'[d] # 0
      BY <3>1, <3>2, ClusterFacts DEF Link, TypeInv, TypeOK, EndOfChain
    <3>4. FirstClusterOnDisk'
      BY <2>1, QuietFiles DEF WriteDataExtend, FirstInv, FirstClusterOnDisk
    <3> QED
      BY <2>1, <3>3, <3>4 DEF WriteDataExtend, StartFatWrite, FirstInv, Creating
  <2>2. CASE OpenFound \/ OpenFails
    BY <2>2, QuietFirst, QuietFiles DEF OpenFound, OpenFails
  <2>3. CASE WriteDataNext \/ WriteDataFull \/ WriteDataFails
    BY <2>3, QuietFirst, QuietFiles DEF WriteDataNext, WriteDataFull, WriteDataFails
  <2>4. CASE WriteDataDone \/ WriteNothing
    BY <2>4, QuietFirst, QuietFiles DEF WriteDataDone, WriteNothing
  <2>5. CASE UpdateSize \/ UpdateSizeFails
    BY <2>5, QuietFirst, QuietFiles, SizeKeepsFirst DEF UpdateSize, UpdateSizeFails
  <2> QED BY <1>2, <2>1, <2>2, <2>3, <2>4, <2>5 DEF Write
<1>3. CASE Create
  <2>1. CASE CreateAllocate
    <3>1. PICK s \in Slots, c \in Clusters :
            /\ IsFirst(c, FreeClusters)
            /\ slot' = s /\ cluster' = c
            /\ fat_buffer' = [fat_buffer EXCEPT ![c] = EndOfChain]
      BY <2>1 DEF CreateAllocate
    <3>2. fat_buffer[c] = 0 /\ fatOnDisk[c] = 0
      BY <2>1, <3>1 DEF CreateAllocate, IsFirst, FreeClusters, FirstInv
    <3>3. \A d \in Clusters : fat_buffer[d] # 0 => fat_buffer'[d] # 0
      BY <3>1 DEF TypeInv, TypeOK, EndOfChain
    <3>4. fat_buffer'[c] # 0
      BY <3>1 DEF TypeInv, TypeOK, EndOfChain
    <3>5. \A t \in Files : First(t) # c
      BY <3>2, ClusterFacts DEF FirstInv, FirstClusterOnDisk
    <3>6. FirstClusterOnDisk'
      BY <2>1, QuietFiles DEF CreateAllocate, FirstInv, FirstClusterOnDisk
    <3>7. (\A t \in Files : First(t) # cluster)'
      BY <2>1, <3>1, <3>5, QuietFiles DEF CreateAllocate
    <3> QED
      BY <2>1, <3>1, <3>3, <3>4, <3>6, <3>7
      DEF CreateAllocate, StartFatWrite, FirstInv, Creating
  <2>2. CASE CreateFull \/ CreateReadFault
    BY <2>2, QuietFirst, QuietFiles DEF CreateFull, CreateReadFault, ReadFault
  <2>3. ASSUME EntryStored, pc = "entry", UNCHANGED <<fat_buffer, fatOnDisk>>,
               pc' \in {"idle", "data"}
        PROVE  FirstInv'
    <3>1. \A s \in Slots : rootDir'[s] = IF s = slot THEN Entry("file", call.name, cluster, 0)
                                         ELSE rootDir[s]
      BY <2>3 DEF EntryStored, TypeInv, TypeOK
    <3>2. /\ Files' \subseteq Files \cup {slot}
          /\ \A s \in Files' : First(s)' = IF s = slot THEN cluster ELSE First(s)
      BY <3>1 DEF Files, First, Entry
    <3>3. /\ cluster \in Clusters /\ fatOnDisk[cluster] # 0
          /\ \A s \in Files : First(s) # cluster
      BY <2>3 DEF FirstInv, FlushInv, Creating
    <3>4. FirstClusterOnDisk'
      BY <2>3, <3>2, <3>3 DEF FirstInv, FirstClusterOnDisk
    <3> QED BY <2>3, <3>4 DEF FirstInv, Creating
  <2>4. CASE CreateEntry \/ CreateEntryForWrite
    BY <2>3, <2>4 DEF CreateEntry, CreateEntryForWrite
  <2>5. CASE CreateEntryFails
    <3>1. CASE EntryStored
      BY <2>3, <2>5, <3>1 DEF CreateEntryFails
    <3>2. CASE UNCHANGED rootDir
      BY <2>5, <3>2, QuietFirst, QuietFiles DEF CreateEntryFails
    <3> QED BY <2>5, <3>1, <3>2 DEF CreateEntryFails
  <2> QED BY <1>3, <2>1, <2>2, <2>4, <2>5 DEF Create
<1>4. CASE Delete
  BY <1>4, Zenon
  DEF FirstInv, Delete, DeleteChain, DeleteNotFound, DeleteReadFault, DeleteEntry, DeleteEntryFails
<1>5. CASE WriteFatSector
  <2>1. /\ \A c \in Clusters : fatOnDisk'[c] # 0 => fat_buffer'[c] # 0
        /\ FirstClusterOnDisk'
    BY <1>5, DiskFatGrows DEF WriteFatSector
  <2>2. Files' = Files /\ \A s \in Files : First(s)' = First(s)
    BY <1>5, QuietFiles DEF WriteFatSector
  <2> QED BY <1>5, <2>1, <2>2 DEF WriteFatSector, FirstInv, Creating
<1>6. CASE WriteLastFatSector
  <2>1. /\ \A c \in Clusters : fatOnDisk'[c] # 0 => fat_buffer'[c] # 0
        /\ FirstClusterOnDisk'
    BY <1>6, DiskFatGrows DEF WriteLastFatSector
  <2>2. Files' = Files /\ \A s \in Files : First(s)' = First(s)
    BY <1>6, QuietFiles DEF WriteLastFatSector
  <2>3. after \in {"idle", "data", "entry"}
    BY <1>6 DEF WriteLastFatSector, FirstInv, TypeInv, TypeOK
  <2> QED BY <1>6, <2>1, <2>2, <2>3 DEF WriteLastFatSector, FirstInv, Creating
<1>7. CASE WriteFatSectorFails
  <2>1. /\ \A c \in Clusters : fatOnDisk'[c] # 0 => fat_buffer'[c] # 0
        /\ FirstClusterOnDisk'
    BY <1>7, DiskFatGrows DEF WriteFatSectorFails
  <2> QED BY <1>7, <2>1 DEF WriteFatSectorFails, FirstInv, Creating
<1>a. UNCHANGED <<fatOnDisk, rootDir>> => FirstClusterOnDisk'
  BY QuietFiles DEF FirstInv, FirstClusterOnDisk
<1>8. CASE Crash
  BY <1>8, <1>a DEF Crash, FirstInv, Creating
<1>9. CASE Boot
  BY <1>9, <1>a DEF Boot, FirstInv, Creating
<1>10. CASE BootFails
  BY <1>10, <1>a DEF BootFails, FirstInv, Creating
<1> QED
  BY <1>1, <1>2, <1>3, <1>4, <1>5, <1>6, <1>7, <1>8, <1>9, <1>10 DEF Next, Kernel, FatWrite

\* Without deletion, whatever fails, however often the power goes and however
\* little of a FAT of any size had been written: a file's first cluster is
\* taken on the disk and no two files start at the same one.
THEOREM FirstCorrect == ASSUME NeverDeletes PROVE Spec => []FirstClusterOnDisk
<1>1. Init => DiskInv
  <2>1. ASSUME Init PROVE \A s \in Files : First(s) = 0
    BY <2>1 DEF Init, FirstEntries, Files, First, Entry, EndEntry, DeletedEntry
  <2> QED
    BY <2>1, TypeInvInit
    DEF Init, DiskInv, FlushInv, FirstInv, Creating, FirstClusterOnDisk
<1>2. DiskInv /\ [Next]_vars => DiskInv'
  <2>1. FirstInv /\ UNCHANGED vars => FirstInv'
    BY DEF FirstInv, FirstClusterOnDisk, Files, First, Creating, vars, disk, regs, ghost
  <2>2. FlushInv /\ UNCHANGED vars => FlushInv'
    BY DEF FlushInv, vars, disk, regs, ghost
  <2> QED BY <2>1, <2>2, TypeInvStep, FlushStep, FirstStep DEF DiskInv
<1>3. DiskInv => FirstClusterOnDisk
  BY DEF DiskInv, FirstInv
<1> QED BY <1>1, <1>2, <1>3, PTL DEF Spec

-----------------------------------------------------------------------------
(* The walk along a chain                                                  *)

\* A set of numbers has a least one: what stands for induction below.
LEMMA NatHasLeast ==
  ASSUME NEW S \in SUBSET Nat, S # {}
  PROVE  \E p \in S : \A q \in S : p <= q
<1> DEFINE R == OpToRel(<, Nat)
<1>1. \A p, q \in Nat : q < p => <<q, p>> \in R
  BY DEF OpToRel
<1>2. IsWellFoundedOn(R, Nat)
  BY NatLessThanWellFounded
<1> HIDE DEF R
<1>3. PICK p \in S : \A q \in S : ~(<<q, p>> \in R)
  BY <1>2, WFMin
<1>4. ASSUME NEW q \in S PROVE p <= q
  <2>1. p \in Nat /\ q \in Nat
    OBVIOUS
  <2>2. ~(q < p)
    BY <1>1, <1>3, <2>1
  <2> QED BY <2>1, <2>2
<1> QED BY <1>4

\* The cluster after x in the FAT fat; what is no cluster ends the walk.
Follow(fat, x) == IF IsData(x) THEN fat[x] ELSE x
Prefix(fat, c, n, w) ==
  w = [k \in 0..n |-> IF k = 0 THEN c ELSE Follow(fat, w[k-1])]

LEMMA PrefixExists ==
  ASSUME NEW fat, NEW c, NEW n \in Nat
  PROVE  \E w : Prefix(fat, c, n, w)
<1> DEFINE S == {m \in Nat : ~ \E w : Prefix(fat, c, m, w)}
<1>1. SUFFICES ASSUME S # {} PROVE FALSE
  OBVIOUS
<1>2. PICK m \in S : \A q \in S : m <= q
  BY <1>1, NatHasLeast
<1>3. CASE m = 0
  <2>1. Prefix(fat, c, 0, [k \in 0..0 |-> c])
    BY DEF Prefix
  <2> QED BY <1>3, <2>1
<1>4. CASE m # 0
  <2>1. m - 1 \in Nat /\ m - 1 \notin S /\ m \in Nat
    BY <1>2, <1>4
  <2>2. PICK w : Prefix(fat, c, m - 1, w)
    BY <2>1
  <2> DEFINE v == [k \in 0..m |-> IF k = m THEN Follow(fat, w[m-1]) ELSE w[k]]
  <2>3. ASSUME NEW k \in 0..m
        PROVE  v[k] = IF k = 0 THEN c ELSE Follow(fat, v[k-1])
    <3>1. CASE k = m
      BY <2>1, <3>1, <1>4
    <3>2. CASE k # m
      <4>1. k \in 0..(m-1)
        BY <2>1, <3>2
      <4>2. w[k] = IF k = 0 THEN c ELSE Follow(fat, w[k-1])
        BY <2>2, <4>1 DEF Prefix
      <4>3. k # 0 => k - 1 \in 0..m /\ k - 1 # m
        BY <4>1, <2>1
      <4> QED BY <4>1, <4>2, <4>3, <3>2
    <3> QED BY <3>1, <3>2
  <2>4. v = [k \in 0..m |-> IF k = 0 THEN c ELSE Follow(fat, v[k-1])]
    <3> HIDE DEF v
    <3>1. v = [k \in 0..m |-> v[k]]
      BY DEF v
    <3> QED BY <2>3, <3>1
  <2>5. Prefix(fat, c, m, v)
    BY <2>4 DEF Prefix
  <2> QED BY <2>5
<1> QED BY <1>3, <1>4

\* The recursive function Walk is a function: each cluster follows from the last.
LEMMA WalkDef ==
  ASSUME NEW fat, NEW c
  PROVE  /\ Walk(fat, c)[0] = c
         /\ \A k \in 1..LastScan : Walk(fat, c)[k] = Follow(fat, Walk(fat, c)[k-1])
<1>0. LastScan \in Nat
  BY Fat12Assumption DEF Fat12Assumption
<1>1. \E w : Prefix(fat, c, LastScan, w)
  BY <1>0, PrefixExists
<1>2. Walk(fat, c) = CHOOSE w : Prefix(fat, c, LastScan, w)
  BY Zenon DEF Walk, Prefix, Follow
<1>3. Prefix(fat, c, LastScan, Walk(fat, c))
  BY <1>1, <1>2
<1> QED BY <1>0, <1>3 DEF Prefix

Steps == 0..LastScan

LEMMA StepsFacts ==
  /\ LastScan \in Nat /\ LastScan >= 2 /\ Steps \subseteq Nat
  /\ \A k \in Steps : k # 0 => k - 1 \in Steps /\ k \in 1..LastScan
BY Fat12Assumption DEF Fat12Assumption, Steps

\* A walk meets entries of the FAT only.
LEMMA WalkType ==
  ASSUME NEW fat \in [Clusters -> FatEntries], NEW c \in FatEntries
  PROVE  \A k \in Steps : Walk(fat, c)[k] \in FatEntries
<1> DEFINE S == {k \in Steps : Walk(fat, c)[k] \notin FatEntries}
<1> SUFFICES ASSUME S # {} PROVE FALSE
  OBVIOUS
<1>1. S \in SUBSET Nat
  BY StepsFacts
<1>2. PICK m \in S : \A q \in S : m <= q
  BY <1>1, NatHasLeast
<1>3. m # 0
  BY WalkDef
<1>4. m - 1 \in Steps /\ m - 1 \notin S /\ m \in 1..LastScan
  BY <1>2, <1>3, StepsFacts
<1>5. Walk(fat, c)[m - 1] \in FatEntries /\ Walk(fat, c)[m] = Follow(fat, Walk(fat, c)[m - 1])
  BY <1>4, WalkDef
<1> HIDE DEF S
<1>6. Follow(fat, Walk(fat, c)[m - 1]) \in FatEntries
  BY <1>5, ClusterFacts DEF Follow
<1> QED BY <1>2, <1>5, <1>6 DEF S

\* Once it has left the clusters it stays where it is.
LEMMA WalkEnds ==
  ASSUME NEW fat \in [Clusters -> FatEntries], NEW c \in FatEntries,
         NEW k \in Steps, NEW m \in Steps, k <= m, Walk(fat, c)[m] \in Clusters
  PROVE  Walk(fat, c)[k] \in Clusters
<1> DEFINE w == Walk(fat, c)
           S == {j \in Steps : k <= j /\ w[j] \in Clusters}
<1> SUFFICES ASSUME w[k] \notin Clusters PROVE FALSE
  OBVIOUS
<1>1. S \in SUBSET Nat /\ m \in S
  BY StepsFacts
<1>2. PICK j \in S : \A q \in S : j <= q
  BY <1>1, NatHasLeast
<1>3. j # k /\ k <= j /\ j \in Steps /\ w[j] \in Clusters
  OBVIOUS
<1>4. j # 0 /\ k <= j - 1 /\ j - 1 \in Steps /\ j \in 1..LastScan
  BY <1>3, StepsFacts
<1>5. j - 1 \notin S
  BY <1>2, <1>3, <1>4, StepsFacts
<1>6. w[j - 1] \notin Clusters /\ w[j - 1] \in FatEntries /\ w[j] = Follow(fat, w[j - 1])
  BY <1>4, <1>5, WalkDef, WalkType
<1> HIDE DEF w
<1>7. w[j] = w[j - 1]
  BY <1>6, ClusterFacts DEF Follow
<1> QED BY <1>3, <1>6, <1>7

\* Two FATs with the same links along a walk have the same walk.
LEMMA WalkSame ==
  ASSUME NEW fat \in [Clusters -> FatEntries], NEW g, NEW c \in FatEntries, NEW m \in Steps,
         \A k \in Steps : k < m /\ Walk(fat, c)[k] \in Clusters =>
           g[Walk(fat, c)[k]] = fat[Walk(fat, c)[k]]
  PROVE  \A k \in Steps : k <= m => Walk(g, c)[k] = Walk(fat, c)[k]
<1> DEFINE S == {k \in Steps : k <= m /\ Walk(g, c)[k] # Walk(fat, c)[k]}
<1> SUFFICES ASSUME S # {} PROVE FALSE
  OBVIOUS
<1>1. S \in SUBSET Nat
  BY StepsFacts
<1>2. PICK k \in S : \A q \in S : k <= q
  BY <1>1, NatHasLeast
<1>3. k # 0 /\ k \in Steps /\ k <= m
  BY WalkDef
<1>4. k - 1 \in Steps /\ k - 1 < m /\ k \in 1..LastScan
  BY <1>3, StepsFacts
<1>5. k - 1 \notin S
  BY <1>2, <1>4, StepsFacts
<1>6. Walk(g, c)[k - 1] = Walk(fat, c)[k - 1]
  BY <1>4, <1>5, StepsFacts
<1>7. /\ Walk(g, c)[k] = Follow(g, Walk(g, c)[k - 1])
      /\ Walk(fat, c)[k] = Follow(fat, Walk(fat, c)[k - 1])
      /\ Walk(fat, c)[k - 1] \in FatEntries
  BY <1>4, WalkDef, WalkType
<1>8. Follow(g, Walk(fat, c)[k - 1]) = Follow(fat, Walk(fat, c)[k - 1])
  BY <1>4, <1>7, ClusterFacts DEF Follow
<1> QED BY <1>6, <1>7, <1>8

-----------------------------------------------------------------------------
(* The chains of files                                                     *)

\* The cluster at position k of the file in slot s.
At(fat, s, k) == Walk(fat, First(s))[k]

LEMMA FirstEntry == ASSUME TypeInv, NEW s \in Files PROVE First(s) \in FatEntries
BY FirstType DEF FatEntries

\* A cluster at position k > 0 is the one the cluster before it links to.
LEMMA AtBefore ==
  ASSUME TypeInv, NEW fat \in [Clusters -> FatEntries], NEW s \in Files,
         NEW k \in Steps, k # 0, At(fat, s, k) \in Clusters
  PROVE  k - 1 \in Steps /\ At(fat, s, k - 1) \in Clusters /\ fat[At(fat, s, k - 1)] = At(fat, s, k)
<1>1. k - 1 \in Steps /\ k \in 1..LastScan /\ k - 1 <= k
  BY StepsFacts
<1>2. At(fat, s, k - 1) \in Clusters
  BY <1>1, FirstEntry, WalkEnds DEF At
<1>3. At(fat, s, k) = Follow(fat, At(fat, s, k - 1))
  BY <1>1, WalkDef DEF At
<1>4. IsData(At(fat, s, k - 1))
  BY <1>2, ClusterFacts DEF FatEntries
<1> QED BY <1>1, <1>2, <1>3, <1>4 DEF Follow

\* In a sound FAT a cluster has one place in one file: chains neither meet nor
\* come back to themselves.
LEMMA AtOnce ==
  ASSUME TypeInv, NEW fat \in [Clusters -> FatEntries], NoSharing(fat),
         NEW s \in Files, NEW t \in Files, NEW k \in Steps, NEW j \in Steps,
         At(fat, s, k) \in Clusters, At(fat, s, k) = At(fat, t, j)
  PROVE  s = t /\ k = j
<1> DEFINE Clash(a, b) == At(fat, s, a) \in Clusters /\ At(fat, s, a) = At(fat, t, b) /\ ~(s = t /\ a = b)
           S == {a \in Steps : \E b \in Steps : Clash(a, b)}
<1> SUFFICES ASSUME S # {} PROVE FALSE
  OBVIOUS
<1>1. S \in SUBSET Nat
  BY StepsFacts
<1>2. PICK a \in S : \A q \in S : a <= q
  BY <1>1, NatHasLeast
<1>3. PICK b \in Steps : Clash(a, b)
  OBVIOUS
<1>4. a \in Steps
  OBVIOUS
<1> HIDE DEF S
<1>5. At(fat, s, 0) = First(s) /\ At(fat, t, 0) = First(t)
  BY WalkDef DEF At
<1>6. At(fat, s, a) # 0
  BY <1>3, ClusterFacts
<1>7. CASE a = 0 /\ b = 0
  BY <1>3, <1>5, <1>6, <1>7 DEF NoSharing
<1>8. CASE a = 0 /\ b # 0
  <2>1. At(fat, t, b - 1) \in Clusters /\ fat[At(fat, t, b - 1)] = First(s)
    BY <1>3, <1>5, <1>8, AtBefore
  <2> QED BY <2>1, <1>5, <1>6, <1>8 DEF NoSharing
<1>9. CASE a # 0 /\ b = 0
  <2>1. At(fat, s, a - 1) \in Clusters /\ fat[At(fat, s, a - 1)] = First(t)
    BY <1>3, <1>4, <1>5, <1>9, AtBefore
  <2>2. First(t) # 0
    BY <1>3, <1>5, <1>6, <1>9
  <2> QED BY <2>1, <2>2 DEF NoSharing
<1>10. CASE a # 0 /\ b # 0
  <2>1. /\ a - 1 \in Steps /\ At(fat, s, a - 1) \in Clusters /\ fat[At(fat, s, a - 1)] = At(fat, s, a)
        /\ b - 1 \in Steps /\ At(fat, t, b - 1) \in Clusters /\ fat[At(fat, t, b - 1)] = At(fat, s, a)
    BY <1>3, <1>4, <1>10, AtBefore
  <2>2. At(fat, s, a - 1) = At(fat, t, b - 1)
    BY <1>3, <2>1 DEF NoSharing
  <2>3. ~(s = t /\ a - 1 = b - 1)
    BY <1>3, <1>4, StepsFacts
  <2>4. a - 1 \in S
    BY <2>1, <2>2, <2>3 DEF S
  <2> QED BY <1>2, <1>4, <2>1, <2>4, StepsFacts
<1> QED BY <1>7, <1>8, <1>9, <1>10

\* What a chain meets is taken.
LEMMA AtTaken ==
  ASSUME TypeInv, NEW fat \in [Clusters -> FatEntries], LeadsToTaken(fat),
         NEW s \in Files, NEW k \in Steps, At(fat, s, k) \in Clusters
  PROVE  fat[At(fat, s, k)] # 0
<1>1. CASE k = 0
  BY <1>1, WalkDef, ClusterFacts DEF At, LeadsToTaken
<1>2. CASE k # 0
  BY <1>2, AtBefore DEF LeadsToTaken
<1> QED BY <1>1, <1>2

\* A chain has no more positions than there are clusters.
LEMMA AtBound ==
  ASSUME TypeInv, NEW fat \in [Clusters -> FatEntries], NoSharing(fat),
         NEW s \in Files, NEW k \in Steps, At(fat, s, k) \in Clusters
  PROVE  k + 1 \in Steps
<1> DEFINE f == [a \in 0..k |-> At(fat, s, a)]
<1>1. \A a \in 0..k : a \in Steps /\ a <= k
  BY StepsFacts DEF Steps
<1>2. \A a \in 0..k : At(fat, s, a) \in Clusters
  BY <1>1, FirstEntry, WalkEnds DEF At
<1>3. f \in Injection(0..k, Clusters)
  <2>1. \A a, b \in 0..k : At(fat, s, a) = At(fat, s, b) => a = b
    BY <1>1, <1>2, AtOnce
  <2> QED BY <1>2, <2>1 DEF Injection, IsInjective
<1>4. IsFiniteSet(Clusters) /\ Cardinality(Clusters) = LastScan - 1
  BY FS_Interval, StepsFacts DEF Clusters
<1>5. Cardinality(0..k) <= LastScan - 1
  BY <1>3, <1>4, FS_Injection
<1>6. Cardinality(0..k) = k + 1
  <2>1. k \in Nat
    BY StepsFacts
  <2> QED BY <2>1, FS_Interval
<1> QED BY <1>5, <1>6, StepsFacts DEF Steps

\* Two FATs with the same links in a file have the same chain.
LEMMA AtSame ==
  ASSUME TypeInv, NEW fat \in [Clusters -> FatEntries], NEW g, NEW s \in Files, NEW m \in Steps,
         \A k \in Steps : k < m /\ At(fat, s, k) \in Clusters => g[At(fat, s, k)] = fat[At(fat, s, k)]
  PROVE  At(g, s, m) = At(fat, s, m)
<1>1. First(s) \in FatEntries
  BY FirstEntry
<1>2. \A k \in Steps : k <= m => Walk(g, First(s))[k] = Walk(fat, First(s))[k]
  BY <1>1, WalkSame DEF At
<1>3. m <= m
  BY StepsFacts
<1> QED BY <1>2, <1>3 DEF At

\* fat12_create's set_fat_entry changes no chain.
LEMMA TakeWalk ==
  ASSUME TypeInv, NEW fat \in [Clusters -> FatEntries], LeadsToTaken(fat),
         NEW c \in Clusters, fat[c] = 0, NEW g,
         \A x \in Clusters : g[x] = IF x = c THEN EndOfChain ELSE fat[x]
  PROVE  \A s \in Files, k \in Steps : At(g, s, k) = At(fat, s, k)
<1> SUFFICES ASSUME NEW s \in Files, NEW k \in Steps PROVE At(g, s, k) = At(fat, s, k)
  OBVIOUS
<1>1. \A j \in Steps : At(fat, s, j) \in Clusters => g[At(fat, s, j)] = fat[At(fat, s, j)]
  BY AtTaken
<1> QED BY <1>1, AtSame

\* fat12_write's two make one file longer, and no other.
LEMMA LinkWalk ==
  ASSUME TypeInv, NEW fat \in [Clusters -> FatEntries], Sound(fat),
         NEW t \in Files, NEW j \in Steps, NEW b \in Clusters, At(fat, t, j) = b, fat[b] \notin Clusters,
         NEW c \in Clusters, fat[c] = 0, NEW g,
         \A x \in Clusters : g[x] = IF x = c THEN EndOfChain ELSE IF x = b THEN c ELSE fat[x]
  PROVE  /\ \A s \in Files, k \in Steps : s # t \/ k <= j => At(g, s, k) = At(fat, s, k)
         /\ j + 1 \in Steps /\ At(g, t, j + 1) = c
         /\ \A k \in Steps : k > j => At(fat, t, k) \notin Clusters
<1>1. /\ j + 1 \in Steps /\ j + 1 \in 1..LastScan
  BY AtBound, StepsFacts DEF Sound
<1>2. fat[b] # 0 /\ b # c
  BY AtTaken DEF Sound
<1>3. ASSUME NEW s \in Files, NEW k \in Steps, s # t \/ k <= j
      PROVE  At(g, s, k) = At(fat, s, k)
  <2>1. ASSUME NEW i \in Steps, i < k, At(fat, s, i) \in Clusters
        PROVE  g[At(fat, s, i)] = fat[At(fat, s, i)]
    <3>1. At(fat, s, i) # c
      BY <2>1, AtTaken DEF Sound
    <3>2. At(fat, s, i) # b
      <4>1. s = t => i # j
        BY <1>3, <2>1, StepsFacts
      <4> QED BY <4>1, <2>1, AtOnce DEF Sound
    <3> QED BY <2>1, <3>1, <3>2
  <2> QED BY <2>1, AtSame
<1>4. At(g, t, j + 1) = c
  <2>0. j <= j
    BY StepsFacts
  <2>1. At(g, t, j) = b
    BY <1>3, <2>0
  <2>2. At(g, t, j + 1) = Follow(g, At(g, t, j))
    <3>1. (j + 1) - 1 = j
      BY StepsFacts
    <3> QED BY <1>1, <3>1, WalkDef DEF At
  <2>3. IsData(b) /\ g[b] = c
    BY <1>2, ClusterFacts DEF FatEntries
  <2> QED BY <2>1, <2>2, <2>3 DEF Follow
<1>5. ASSUME NEW k \in Steps, k > j PROVE At(fat, t, k) \notin Clusters
  <2>1. j + 1 <= k
    BY <1>5, StepsFacts
  <2>2. At(fat, t, j + 1) \notin Clusters
    BY <1>1, AtBefore, StepsFacts
  <2> QED BY <1>1, <2>1, <2>2, FirstEntry, WalkEnds DEF At
<1> QED BY <1>1, <1>3, <1>4, <1>5

-----------------------------------------------------------------------------
(* What a file holds                                                       *)

\* The first len sectors of the file in slot s are those of the text v.
Holds(fat, s, v, len) ==
  /\ len \in Steps
  /\ \A k \in 1..len : /\ At(fat, s, k - 1) \in DiskClusters
                       /\ dataArea[At(fat, s, k - 1)] = <<v, k>>

HasText(fat, s, text) ==
  \E v \in Values \cup {NoName}, len \in 0..MaxLen :
    text = Text(v, len) /\ rootDir[s].size = len /\ Holds(fat, s, v, len)

\* What is promised of a name with one entry is what that entry holds.
Kept(fat) ==
  \A n \in Names, s \in Files :
    promise[n] # Unknown /\ Entries(n) = {s} => HasText(fat, s, promise[n])

\* Without deletion the sizes of such entries are covered by clusters.
CoveredAt(fat, s) ==
  /\ rootDir[s].size \in Steps
  /\ \A k \in Steps : k < rootDir[s].size => At(fat, s, k) \in Clusters
Covered(fat) ==
  NeverDeletes => \A s \in Files : Entries(rootDir[s].name) = {s} => CoveredAt(fat, s)

\* fat12_write has come to cluster, the one after the done sectors it has written,
\* in a file of the name it was called with.
Writing(fat) ==
  \E t \in Entries(call.name) : Holds(fat, t, call.val, done) /\ At(fat, t, done) = cluster

\* Nothing follows the end of the directory.
DirOrder ==
  \A s, t \in Slots : t < s /\ rootDir[t].state = "end" => rootDir[s].state = "end"

\* The call is in fat12_write.
InWrite == pc \in {"data", "size"} \/ (pc = "fat" /\ after = "data")

ReadInv ==
  /\ DirOrder
  /\ faults <= MaxFaults
  /\ promise = [n \in Names |-> promise[n]]
  /\ pc # "off" => Kept(fat_buffer) /\ Covered(fat_buffer)
  /\ pc = "off" \/ (pc = "fat" /\ MaxCrashes > 0) => Kept(fatOnDisk) /\ Covered(fatOnDisk)
  /\ InWrite => Writing(fat_buffer)
  /\ ~InWrite => done = 0
  /\ Creating => IsFirst(slot, Vacant)
  /\ pc \notin {"off", "idle"} => call.name \in Names /\ promise[call.name] = Unknown

\* A power loss forgets the links made since write_fat_table last succeeded: for
\* disks where power fails, the theorems are about operations that do not.
Steady == MaxCrashes = 0 \/ (FatSectors = 1 /\ MaxFaults = 0)
Durable == NeverDeletes /\ Steady

AllInv == IInv /\ FlushInv /\ ReadInv

LEMMA EntriesFiles == \A n : Entries(n) \subseteq Files /\ Files \subseteq Slots
BY DEF Entries, Files

LEMMA DiskAreClusters == DiskClusters \subseteq Clusters
BY Fat12Assumption DEF Fat12Assumption, DiskClusters, Clusters

\* Where fat12_write is in its file.
LEMMA WritingAt ==
  ASSUME TypeInv, Writing(fat_buffer)
  PROVE  /\ done \in Steps
         /\ \E t \in Entries(call.name) :
              /\ t \in Files /\ Holds(fat_buffer, t, call.val, done)
              /\ At(fat_buffer, t, done) = cluster
BY EntriesFiles DEF Writing, Holds

-----------------------------------------------------------------------------
(* What a step leaves as it was                                            *)

LEMMA FilesSame ==
  ASSUME UNCHANGED rootDir
  PROVE  /\ Files' = Files /\ \A n : Entries(n)' = Entries(n)
         /\ \A s : First(s)' = First(s)
         /\ \A fat, s, k : At(fat, s, k)' = At(fat, s, k)
BY DEF Files, Entries, First, At

LEMMA HoldsSame ==
  ASSUME UNCHANGED <<rootDir, dataArea>>
  PROVE  \A fat, s, v, len : Holds(fat, s, v, len)' <=> Holds(fat, s, v, len)
BY FilesSame DEF Holds

LEMMA KeptSame ==
  ASSUME TypeInv, ReadInv, NEW fat, Kept(fat), UNCHANGED <<rootDir, dataArea>>,
         promise' = promise \/ \E n \in Names : promise' = [promise EXCEPT ![n] = Unknown]
  PROVE  Kept(fat)'
<1>1. \A n \in Names : promise'[n] # Unknown => promise'[n] = promise[n]
  BY DEF ReadInv
<1>2. \A s, text : HasText(fat, s, text) => HasText(fat, s, text)'
  BY HoldsSame DEF HasText
<1> QED BY <1>1, <1>2, FilesSame DEF Kept

LEMMA CoveredSame ==
  ASSUME NEW fat, Covered(fat), UNCHANGED rootDir
  PROVE  Covered(fat)'
BY FilesSame DEF Covered, CoveredAt

-----------------------------------------------------------------------------
(* What a step that writes data, links or entries does to the files        *)

\* A sector written where the call is spoils no file of another name.
LEMMA KeptData ==
  ASSUME TypeInv, NEW fat \in [Clusters -> FatEntries], NoSharing(fat), Kept(fat),
         NEW t \in Entries(call.name), done \in Steps, At(fat, t, done) = cluster,
         cluster \in Clusters, promise[call.name] = Unknown,
         UNCHANGED <<rootDir, promise>>,
         \A x \in DiskClusters : x # cluster => dataArea'[x] = dataArea[x]
  PROVE  Kept(fat)'
<1>1. ASSUME NEW n \in Names, NEW s \in Files, promise[n] # Unknown, Entries(n) = {s},
             NEW k \in Steps, At(fat, s, k) \in Clusters
      PROVE  At(fat, s, k) # cluster
  <2>1. t \in Files /\ s # t
    BY <1>1 DEF Entries
  <2> QED BY <1>1, <2>1, AtOnce
<1>2. ASSUME NEW n \in Names, NEW s \in Files, promise[n] # Unknown, Entries(n) = {s},
             NEW v, NEW len, Holds(fat, s, v, len)
      PROVE  Holds(fat, s, v, len)'
  <2>1. ASSUME NEW k \in 1..len
        PROVE  At(fat, s, k - 1) \in DiskClusters /\ dataArea'[At(fat, s, k - 1)] = <<v, k>>
    <3>1. k - 1 \in Steps
      BY <1>2, StepsFacts DEF Holds, Steps
    <3>2. At(fat, s, k - 1) \in DiskClusters /\ dataArea[At(fat, s, k - 1)] = <<v, k>>
      BY <1>2 DEF Holds
    <3>3. At(fat, s, k - 1) # cluster
      BY <1>1, <1>2, <3>1, <3>2, DiskAreClusters
    <3> QED BY <3>2, <3>3
  <2> QED BY <1>2, <2>1, FilesSame DEF Holds
<1>3. ASSUME NEW n \in Names, NEW s \in Files, promise[n] # Unknown, Entries(n) = {s}
      PROVE  HasText(fat, s, promise[n])'
  BY <1>2, <1>3 DEF Kept, HasText
<1> QED BY <1>3, FilesSame DEF Kept

\* It adds a sector to the file the call writes.
LEMMA HoldsData ==
  ASSUME TypeInv, NEW fat \in [Clusters -> FatEntries], NoSharing(fat),
         NEW t \in Files, NEW v, v = call.val, NEW d, d = done, Holds(fat, t, v, d),
         At(fat, t, d) = cluster, DataStored, UNCHANGED rootDir
  PROVE  d + 1 \in Steps /\ Holds(fat, t, v, d + 1)'
<1>1. d \in Steps /\ cluster \in DiskClusters /\ cluster \in Clusters
  BY DiskAreClusters DEF Holds, DataStored
<1>2. d + 1 \in Steps /\ d \in Nat
  BY <1>1, AtBound, StepsFacts
<1>3. dataArea'[cluster] = <<v, d + 1>> /\ \A x \in DiskClusters : x # cluster => dataArea'[x] = dataArea[x]
  BY <1>1 DEF DataStored, TypeInv, TypeOK
<1>4. ASSUME NEW k \in 1..(d + 1)
      PROVE  At(fat, t, k - 1) \in DiskClusters /\ dataArea'[At(fat, t, k - 1)] = <<v, k>>
  <2>1. CASE k = d + 1
    <3>1. k - 1 = d
      BY <1>2, <2>1
    <3> QED BY <1>1, <1>3, <2>1, <3>1
  <2>2. CASE k # d + 1
    <3>1. k \in 1..d /\ k - 1 \in Steps /\ k - 1 # d
      BY <1>1, <1>2, <2>2, StepsFacts DEF Steps
    <3>2. At(fat, t, k - 1) \in DiskClusters /\ dataArea[At(fat, t, k - 1)] = <<v, k>>
      BY <3>1 DEF Holds
    <3>3. At(fat, t, k - 1) # cluster
      BY <1>1, <3>1, AtOnce
    <3> QED BY <1>3, <3>2, <3>3
  <2> QED BY <2>1, <2>2
<1> QED BY <1>2, <1>4, FilesSame DEF Holds

\* The same files in another FAT.
LEMMA HoldsFat ==
  ASSUME NEW fat, NEW g, NEW s, NEW v, NEW len, UNCHANGED rootDir, Holds(fat, s, v, len)',
         \A k \in Steps : k < len => At(g, s, k) = At(fat, s, k)
  PROVE  Holds(g, s, v, len)'
<1>1. len \in Steps
  BY DEF Holds
<1>2. \A k \in 1..len : k - 1 \in Steps /\ k - 1 < len
  BY <1>1, StepsFacts DEF Steps
<1>3. \A k \in 1..len : At(g, s, k - 1)' = At(fat, s, k - 1)'
  BY <1>2, FilesSame
<1> QED BY <1>1, <1>3 DEF Holds

LEMMA KeptFat ==
  ASSUME NEW fat, NEW g, UNCHANGED rootDir, Kept(fat)', NEW m, promise'[m] = Unknown,
         \A s \in Files : s \notin Entries(m) => \A k \in Steps : At(g, s, k) = At(fat, s, k)
  PROVE  Kept(g)'
<1>1. ASSUME NEW n \in Names, NEW s \in Files', promise'[n] # Unknown, Entries(n)' = {s}
      PROVE  HasText(g, s, promise[n])'
  <2>1. s \in Files /\ s \notin Entries(m)
    BY <1>1, FilesSame DEF Entries
  <2>2. \A v, len : Holds(fat, s, v, len)' => Holds(g, s, v, len)'
    BY <2>1, HoldsFat
  <2>3. HasText(fat, s, promise[n])'
    BY <1>1 DEF Kept
  <2> QED BY <2>2, <2>3 DEF HasText
<1> QED BY <1>1 DEF Kept

LEMMA CoveredFat ==
  ASSUME NEW fat, NEW g, UNCHANGED rootDir, Covered(fat),
         \A s \in Files, k \in Steps : At(fat, s, k) \in Clusters => At(g, s, k) = At(fat, s, k)
  PROVE  Covered(g)'
<1>1. ASSUME NEW s \in Files, CoveredAt(fat, s) PROVE CoveredAt(g, s)'
  BY <1>1, FilesSame DEF CoveredAt
<1> QED BY <1>1, FilesSame DEF Covered

\* fat12_update_size.
LEMMA SizeFacts ==
  ASSUME TypeInv, SizeStored
  PROVE  \E s0 \in Entries(call.name) :
           /\ \A s \in Slots : rootDir'[s].size = IF s = s0 THEN done ELSE rootDir[s].size
           /\ \A s \in Slots : rootDir'[s].state = rootDir[s].state /\ rootDir'[s].name = rootDir[s].name
           /\ Files' = Files /\ \A n : Entries(n)' = Entries(n)
           /\ \A s \in Files : \A fat, k : At(fat, s, k)' = At(fat, s, k)
<1>1. PICK s0 \in Slots : IsFirst(s0, Matches(call.name)) /\ rootDir' = [rootDir EXCEPT ![s0].size = done]
  BY DEF SizeStored
<1>2. s0 \in Entries(call.name)
  BY <1>1 DEF IsFirst, Matches, Entries, Files
<1>3. \A s \in Slots : /\ rootDir'[s].size = IF s = s0 THEN done ELSE rootDir[s].size
                       /\ rootDir'[s].state = rootDir[s].state
                       /\ rootDir'[s].name = rootDir[s].name
                       /\ rootDir'[s].first = rootDir[s].first
  BY <1>1 DEF TypeInv, TypeOK, DirEntries
<1>4. Files' = Files
  BY <1>3 DEF Files
<1>5. \A n : Entries(n)' = Entries(n)
  BY <1>3, <1>4, EntriesFiles DEF Entries
<1>6. \A s \in Files : First(s)' = First(s)
  BY <1>3, EntriesFiles DEF First
<1> QED BY <1>2, <1>3, <1>4, <1>5, <1>6 DEF At

LEMMA KeptSize ==
  ASSUME TypeInv, ReadInv, SizeStored, UNCHANGED dataArea, NEW fat, Kept(fat), Covered(fat), Writing(fat),
         call.name \in Names,
         \A n \in Names : n # call.name => promise'[n] = promise[n],
         promise'[call.name] # Unknown => promise'[call.name] = Text(call.val, done)
  PROVE  Kept(fat)' /\ Covered(fat)'
<1>1. PICK s0 \in Entries(call.name) :
        /\ \A s \in Slots : rootDir'[s].size = IF s = s0 THEN done ELSE rootDir[s].size
        /\ Files' = Files /\ \A n : Entries(n)' = Entries(n)
        /\ \A s \in Files : \A g, k : At(g, s, k)' = At(g, s, k)
  BY SizeFacts
<1>2. PICK t \in Entries(call.name) : Holds(fat, t, call.val, done)
  BY DEF Writing
<1>3. \A s \in Files : \A v, len : Holds(fat, s, v, len) => Holds(fat, s, v, len)'
  BY <1>1 DEF Holds
<1>4. ASSUME NEW n \in Names, NEW s \in Files, promise'[n] # Unknown, Entries(n) = {s}
      PROVE  HasText(fat, s, promise[n])'
  <2>1. CASE n = call.name
    <3>1. s = s0 /\ s = t
      BY <1>4, <2>1, <1>1, <1>2
    <3>2. rootDir'[s].size = done
      BY <1>1, <3>1, EntriesFiles
    <3>3. call.val \in Values \cup {NoName} /\ done \in 0..MaxLen
      BY DEF TypeInv, TypeOK, Calls
    <3>4. promise'[n] = Text(call.val, done)
      BY <1>4, <2>1
    <3>5. \A v, d : v = call.val /\ d = done => Holds(fat, s, v, d)'
      BY <1>2, <1>3, <3>1
    <3> QED BY <3>2, <3>3, <3>4, <3>5 DEF HasText, Text
  <2>2. CASE n # call.name
    <3>1. s # s0 /\ s \in Slots /\ promise'[n] = promise[n]
      BY <1>4, <2>2, <1>1, EntriesFiles DEF Entries
    <3>2. HasText(fat, s, promise[n])
      BY <1>4, <3>1 DEF Kept
    <3> QED BY <1>1, <1>3, <3>1, <3>2 DEF HasText
  <2> QED BY <2>1, <2>2
<1>5. Kept(fat)'
  BY <1>1, <1>4 DEF Kept
<1>6. ASSUME NeverDeletes, NEW s \in Files, Entries(rootDir'[s].name) = {s} PROVE CoveredAt(fat, s)'
  <2>1. CASE s = s0
    <3>1. s = t
      BY <1>1, <1>2, <1>6, <2>1, SizeFacts, EntriesFiles DEF Entries
    <3>2. done \in Steps /\ \A k \in Steps : k < done => k + 1 \in 1..done /\ (k + 1) - 1 = k
      BY <1>2, StepsFacts DEF Holds, Steps
    <3>3. \A k \in Steps : k < done => At(fat, s, k) \in Clusters
      BY <1>2, <3>1, <3>2, DiskAreClusters DEF Holds
    <3> QED BY <1>1, <2>1, <3>2, <3>3, EntriesFiles DEF CoveredAt
  <2>2. CASE s # s0
    <3>1. rootDir'[s].name = rootDir[s].name
      BY SizeFacts, EntriesFiles
    <3>2. CoveredAt(fat, s)
      BY <1>6, <3>1 DEF Covered
    <3> QED BY <1>1, <2>2, <3>2, EntriesFiles DEF CoveredAt
  <2> QED BY <2>1, <2>2
<1>7. Covered(fat)'
  BY <1>1, <1>6 DEF Covered
<1> QED BY <1>5, <1>7

\* fat12_create's entry.
LEMMA EntryFacts ==
  ASSUME TypeInv, EntryStored, slot \in Slots \ Files
  PROVE  /\ \A s \in Slots : rootDir'[s] = IF s = slot THEN Entry("file", call.name, cluster, 0) ELSE rootDir[s]
         /\ Files' = Files \cup {slot}
         /\ \A n : Entries(n)' = IF n = call.name THEN Entries(n) \cup {slot} ELSE Entries(n)
         /\ \A s : s = slot => First(s)' = cluster
         /\ \A s \in Files : \A fat, k : At(fat, s, k)' = At(fat, s, k)
<1>1. \A s \in Slots : rootDir'[s] = IF s = slot THEN Entry("file", call.name, cluster, 0) ELSE rootDir[s]
  BY DEF EntryStored, TypeInv, TypeOK
<1>2. Files' = Files \cup {slot}
  BY <1>1 DEF Files, Entry
<1>3. ASSUME NEW n PROVE Entries(n)' = IF n = call.name THEN Entries(n) \cup {slot} ELSE Entries(n)
  BY <1>1, <1>2, EntriesFiles DEF Entries, Entry
<1>4. \A s \in Files : First(s)' = First(s)
  BY <1>1, EntriesFiles DEF First
<1>5. \A s : s = slot => First(s)' = cluster
  BY <1>1 DEF First, Entry
<1> QED BY <1>1, <1>2, <1>3, <1>4, <1>5 DEF At

LEMMA KeptEntry ==
  ASSUME TypeInv, EntryStored, slot \in Slots \ Files, UNCHANGED dataArea,
         NEW fat, Kept(fat), Covered(fat), call.name \in Names,
         \A n \in Names : n # call.name => promise'[n] = promise[n],
         promise'[call.name] # Unknown => promise'[call.name] = Text(NoName, 0)
  PROVE  Kept(fat)' /\ Covered(fat)'
<1>1. rootDir'[slot].size = 0 /\ rootDir'[slot].name = call.name
  BY EntryFacts DEF Entry
<1>2. \A s \in Files : s \in Slots /\ s # slot /\ rootDir'[s] = rootDir[s]
  BY EntryFacts, EntriesFiles
<1>3. \A s \in Files : \A v, len : Holds(fat, s, v, len) => Holds(fat, s, v, len)'
  BY EntryFacts DEF Holds
<1>4. ASSUME NEW n \in Names, NEW s \in Files', promise'[n] # Unknown, Entries(n)' = {s}
      PROVE  HasText(fat, s, promise[n])'
  <2>1. CASE n = call.name
    <3>1. s = slot
      BY <1>4, <2>1, EntryFacts
    <3>2. Holds(fat, s, NoName, 0)'
      BY StepsFacts DEF Holds, Steps
    <3>3. promise'[n] = Text(NoName, 0) /\ 0 \in 0..MaxLen
      BY <1>4, <2>1, Fat12Assumption DEF Fat12Assumption
    <3> QED BY <1>1, <3>1, <3>2, <3>3 DEF HasText, Text
  <2>2. CASE n # call.name
    <3>1. s \in Files /\ Entries(n) = {s} /\ promise'[n] = promise[n]
      BY <1>4, <2>2, EntryFacts, EntriesFiles
    <3>2. HasText(fat, s, promise[n])
      BY <1>4, <3>1 DEF Kept
    <3> QED BY <1>2, <1>3, <3>1, <3>2 DEF HasText
  <2> QED BY <2>1, <2>2
<1>5. Kept(fat)'
  BY <1>4 DEF Kept
<1>6. ASSUME NeverDeletes, NEW s \in Files', Entries(rootDir[s].name)' = {s} PROVE CoveredAt(fat, s)'
  <2>1. CASE s = slot
    <3>1. \A k \in Steps : ~(k < 0)
      BY StepsFacts
    <3> QED BY <1>1, <2>1, <3>1, StepsFacts DEF CoveredAt, Steps
  <2>2. CASE s # slot
    <3>1. s \in Files /\ rootDir'[s] = rootDir[s]
      BY <1>2, <2>2, EntryFacts
    <3>2. Entries(rootDir[s].name) = {s}
      BY <1>6, <2>2, <3>1, EntryFacts
    <3>3. CoveredAt(fat, s)
      BY <1>6, <3>1, <3>2 DEF Covered
    <3> QED BY <3>1, <3>3, EntryFacts DEF CoveredAt
  <2> QED BY <2>1, <2>2
<1>7. Covered(fat)'
  BY <1>6 DEF Covered
<1> QED BY <1>5, <1>7

-----------------------------------------------------------------------------
(* The steps                                                               *)

\* What the files are worth in the FAT in memory.
Good == DirOrder /\ Kept(fat_buffer) /\ Covered(fat_buffer)

LEMMA GoodSame ==
  ASSUME TypeInv, ReadInv, pc # "off", UNCHANGED <<fat_buffer, rootDir, dataArea>>,
         promise' = promise \/ \E n \in Names : promise' = [promise EXCEPT ![n] = Unknown]
  PROVE  Good'
<1>1. Kept(fat_buffer) /\ Covered(fat_buffer)
  BY DEF ReadInv
<1>2. Kept(fat_buffer)' /\ Covered(fat_buffer)'
  BY <1>1, KeptSame, CoveredSame
<1>3. DirOrder'
  BY DEF ReadInv, DirOrder
<1> QED BY <1>2, <1>3 DEF Good

LEMMA FaultCount ==
  ASSUME ReadInv, TypeInv, faults' = faults \/ Fault
  PROVE  faults' <= MaxFaults
BY Fat12Assumption DEF Fat12Assumption, Fault, ReadInv, TypeInv, TypeOK

PromiseFn == promise = [n \in Names |-> promise[n]]

LEMMA PromiseSame ==
  ASSUME ReadInv, promise' = promise \/ \E n, x : promise' = [promise EXCEPT ![n] = x]
  PROVE  PromiseFn'
<1>1. CASE promise' = promise
  BY <1>1 DEF PromiseFn, ReadInv
<1>2. ASSUME NEW n, NEW x, promise' = [promise EXCEPT ![n] = x] PROVE PromiseFn'
  BY <1>2 DEF PromiseFn, ReadInv
<1> QED BY <1>1, <1>2

\* A step that returns.
LEMMA ReturnRead ==
  ASSUME Good', faults' <= MaxFaults, PromiseFn', Return
  PROVE  ReadInv'
BY DEF Good, PromiseFn, Return, ClearRegs, ReadInv, InWrite, Creating

\* A step that goes on to another place before fat12_write, without a cluster.
LEMMA OnRead ==
  ASSUME Good', faults' <= MaxFaults, PromiseFn', pc' \in {"open", "create", "delete"}, done' = 0,
         call'.name \in Names, promise'[call'.name] = Unknown
  PROVE  ReadInv'
BY DEF Good, PromiseFn, ReadInv, InWrite, Creating

\* A step in fat12_write.
LEMMA WriteRead ==
  ASSUME Good', faults' <= MaxFaults, PromiseFn', pc' \in {"data", "size"}, Writing(fat_buffer)',
         call'.name \in Names, promise'[call'.name] = Unknown
  PROVE  ReadInv'
BY DEF Good, PromiseFn, ReadInv, InWrite, Creating

LEMMA CallRead == ASSUME AllInv, Steady, Call PROVE ReadInv'
<1> USE DEF AllInv, IInv
<1>1. ASSUME NEW c, c.name \in Names, NEW at \in {"open", "create", "delete"}, Start(c, at)
      PROVE  ReadInv'
  <2>1. pc = "idle" /\ pc' = at /\ call' = c /\ promise' = [promise EXCEPT ![c.name] = Unknown]
    BY <1>1 DEF Start, Doubt
  <2>2. done = 0 /\ done' = done
    BY <1>1, <2>1 DEF Start, ReadInv, InWrite
  <2>3. Good' /\ faults' <= MaxFaults /\ PromiseFn'
    BY <1>1, <2>1, GoodSame, FaultCount, PromiseSame DEF Start, disk
  <2>4. promise'[call'.name] = Unknown
    BY <1>1, <2>1 DEF ReadInv
  <2> QED BY <1>1, <2>1, <2>2, <2>3, <2>4, OnRead
<1>2. ASSUME NEW n \in Names, CallCreate(n) PROVE ReadInv'
  BY <1>1, <1>2 DEF CallCreate, Request
<1>3. ASSUME NEW n \in Names, CallDelete(n) PROVE ReadInv'
  BY <1>1, <1>3 DEF CallDelete, Request
<1>4. ASSUME NEW n \in Names, NEW v \in Values, NEW len \in 0..MaxLen, CallWrite(n, v, len)
      PROVE  ReadInv'
  BY <1>1, <1>4 DEF CallWrite, Request
<1> QED BY <1>2, <1>3, <1>4 DEF Call

\* What the steps of fat12_write know.
LEMMA InWriteFacts ==
  ASSUME AllInv, pc \in {"data", "size"}
  PROVE  /\ fat_buffer \in [Clusters -> FatEntries] /\ Sound(fat_buffer)
         /\ Kept(fat_buffer) /\ Covered(fat_buffer) /\ Writing(fat_buffer)
         /\ call.name \in Names /\ promise[call.name] = Unknown
         /\ done \in Steps
<1>1. fat_buffer \in [Clusters -> FatEntries] /\ Sound(fat_buffer)
  BY DEF AllInv, IInv, TypeInv, TypeOK, SharingInv, NoSharedClusters, ReferencedAllocated, Sound
<1>2. Writing(fat_buffer)
  BY DEF AllInv, ReadInv, InWrite
<1>3. done \in Steps
  BY <1>2, WritingAt DEF AllInv, IInv
<1> QED BY <1>1, <1>2, <1>3 DEF AllInv, ReadInv

\* Data goes to the cluster the call has come to, whatever becomes of the rest.
LEMMA DataGood ==
  ASSUME AllInv, pc = "data", cluster \in Clusters, UNCHANGED <<rootDir, promise>>,
         DataStored \/ UNCHANGED dataArea
  PROVE  \A fat : fat = fat_buffer => Kept(fat)' /\ Covered(fat)'
<1>1. Sound(fat_buffer) /\ Kept(fat_buffer) /\ Covered(fat_buffer)
  BY InWriteFacts
<1>2. PICK t \in Entries(call.name) : At(fat_buffer, t, done) = cluster
  BY InWriteFacts DEF Writing
<1>3. \A x \in DiskClusters : x # cluster => dataArea'[x] = dataArea[x]
  BY DEF DataStored, AllInv, IInv, TypeInv, TypeOK
<1>4. ASSUME NEW fat, fat = fat_buffer PROVE Kept(fat)'
  BY <1>1, <1>2, <1>3, <1>4, InWriteFacts, KeptData DEF AllInv, IInv, Sound
<1>5. ASSUME NEW fat, fat = fat_buffer PROVE Covered(fat)'
  BY <1>1, <1>5, CoveredSame
<1> QED BY <1>4, <1>5

LEMMA InLoopCluster ==
  TypeInv /\ InLoop => cluster \in Clusters
BY ClusterFacts DEF InLoop, TypeInv, TypeOK

LEMMA SameDirOrder == ReadInv /\ UNCHANGED rootDir => DirOrder'
BY DEF ReadInv, DirOrder

LEMMA NextRead == ASSUME AllInv, Steady, WriteDataNext PROVE ReadInv'
<1> USE DEF AllInv, IInv
<1>1. /\ pc = "data" /\ pc' = "data" /\ DataStored /\ done' = done + 1 /\ cluster' = fat_buffer[cluster]
      /\ UNCHANGED <<fat_buffer, rootDir, call, faults, promise>> /\ cluster \in Clusters
  BY InLoopCluster DEF WriteDataNext, ghost
<1>2. Good' /\ faults' <= MaxFaults /\ PromiseFn'
  BY <1>1, DataGood, FaultCount, PromiseSame, SameDirOrder DEF Good
<1>3. PICK t \in Entries(call.name) : Holds(fat_buffer, t, call.val, done) /\ At(fat_buffer, t, done) = cluster
  BY <1>1, InWriteFacts DEF Writing
<1>4. t \in Files
  BY <1>3, EntriesFiles
<1>5. \A v, d : v = call.val /\ d = done => d + 1 \in Steps /\ Holds(fat_buffer, t, v, d + 1)'
  <2>1. ASSUME NEW fat, fat = fat_buffer, NEW v, v = call.val, NEW d, d = done
        PROVE  d + 1 \in Steps /\ Holds(fat, t, v, d + 1)'
    BY <1>1, <1>3, <1>4, <2>1, InWriteFacts, HoldsData DEF Sound
  <2> QED BY <1>1, <2>1
<1>6. \A d : d = done => At(fat_buffer, t, d + 1) = cluster'
  <2>1. ASSUME NEW d, d = done PROVE At(fat_buffer, t, d + 1) = cluster'
    <3>0. d + 1 \in Steps /\ d \in Nat
      BY <1>1, <1>5, <2>1, InWriteFacts, StepsFacts
    <3>1. d + 1 \in 1..LastScan /\ (d + 1) - 1 = d
      BY <3>0, StepsFacts
    <3>2. At(fat_buffer, t, d + 1) = Follow(fat_buffer, At(fat_buffer, t, d))
      BY <3>1, WalkDef DEF At
    <3>3. IsData(cluster)
      BY <1>1, ClusterFacts DEF FatEntries
    <3> QED BY <1>1, <1>3, <2>1, <3>2, <3>3 DEF Follow
  <2> QED BY <2>1
<1>7. Writing(fat_buffer)'
  <2>1. Entries(call.name)' = Entries(call.name)
    BY <1>1, FilesSame
  <2>2. ASSUME NEW v, v = call.val, NEW d, d = done
        PROVE  Holds(fat_buffer, t, v, d + 1)' /\ At(fat_buffer, t, d + 1)' = cluster'
    BY <1>1, <1>5, <1>6, <2>2, FilesSame
  <2>3. Holds(fat_buffer, t, call.val, done)' /\ At(fat_buffer, t, done)' = cluster'
    BY <1>1, <2>2
  <2> QED BY <1>3, <2>1, <2>3 DEF Writing
<1> QED BY <1>1, <1>2, <1>7, InWriteFacts, WriteRead

\* While the power may fail, the disk's FAT is the one in memory but for the
\* links of the write_fat_table that is under way.
LEMMA DiskFat ==
  ASSUME AllInv, Steady, pc \notin {"off", "fat"}, MaxCrashes > 0
  PROVE  fatOnDisk = fat_buffer
<1>1. faults = 0
  BY Fat12Assumption
  DEF Fat12Assumption, Steady, AllInv, IInv, ReadInv, TypeInv, TypeOK
<1> QED BY <1>1 DEF AllInv, FlushInv

\* A step that goes on to write_fat_table.
LEMMA FatRead ==
  ASSUME Good', faults' <= MaxFaults, PromiseFn', pc' = "fat",
         MaxCrashes > 0 => (Kept(fatOnDisk) /\ Covered(fatOnDisk))',
         after' = "data" => Writing(fat_buffer)',
         after' # "data" => done' = 0,
         after' = "entry" => IsFirst(slot, Vacant)',
         call'.name \in Names, promise'[call'.name] = Unknown
  PROVE  ReadInv'
BY DEF Good, PromiseFn, ReadInv, InWrite, Creating

LEMMA ExtendRead == ASSUME AllInv, Steady, WriteDataExtend PROVE ReadInv'
<1> USE DEF AllInv, IInv
<1>1. PICK c \in Clusters : IsFirst(c, FreeClusters) /\ fat_buffer' = Link(c) /\ cluster' = c
  BY DEF WriteDataExtend
<1>2. /\ pc = "data" /\ pc' = "fat" /\ after' = "data" /\ DataStored /\ done' = done + 1
      /\ NeedsCluster /\ cluster \in Clusters
      /\ UNCHANGED <<fatOnDisk, rootDir, call, faults, promise>>
  BY InLoopCluster DEF WriteDataExtend, StartFatWrite, ghost
<1>3. PICK t \in Entries(call.name) : Holds(fat_buffer, t, call.val, done) /\ At(fat_buffer, t, done) = cluster
  BY <1>2, InWriteFacts DEF Writing
<1>4. /\ t \in Files /\ fat_buffer \in [Clusters -> FatEntries] /\ Sound(fat_buffer) /\ done \in Steps
      /\ call.name \in Names /\ promise[call.name] = Unknown
  BY <1>2, <1>3, EntriesFiles, InWriteFacts
<1>5. fat_buffer[c] = 0 /\ fat_buffer[cluster] \notin Clusters
  BY <1>1, <1>2, <1>4, ClusterFacts DEF IsFirst, FreeClusters, NeedsCluster
<1>6. \A x \in Clusters : fat_buffer'[x] = IF x = c THEN EndOfChain
                                           ELSE IF x = cluster THEN c ELSE fat_buffer[x]
  BY <1>1, <1>2, <1>4 DEF Link
<1>7. ASSUME NEW fat, fat = fat_buffer, NEW g, g = fat_buffer', NEW j, j = done
      PROVE  /\ \A s \in Files, k \in Steps : s # t \/ k <= j => At(g, s, k) = At(fat, s, k)
             /\ j + 1 \in Steps /\ At(g, t, j + 1) = c
             /\ \A k \in Steps : k > j => At(fat, t, k) \notin Clusters
  BY <1>2, <1>3, <1>4, <1>5, <1>6, <1>7, LinkWalk
<1>8. ASSUME NEW fat, fat = fat_buffer, NEW g, g = fat_buffer' PROVE Kept(g)' /\ Covered(g)'
  <2>1. Kept(fat)' /\ Covered(fat)
    BY <1>2, <1>8, DataGood, InWriteFacts
  <2>2. done \in Nat /\ Steps \subseteq Nat
    BY <1>4, StepsFacts
  <2>3. Kept(g)'
    <3>1. \A s \in Files : s \notin Entries(call.name) => \A k \in Steps : At(g, s, k) = At(fat, s, k)
      BY <1>3, <1>7, <1>8
    <3>2. promise'[call.name] = Unknown
      BY <1>2, <1>4
    <3> QED BY <1>2, <2>1, <3>1, <3>2, KeptFat
  <2>4. Covered(g)'
    <3>1. \A s \in Files, k \in Steps : At(fat, s, k) \in Clusters => At(g, s, k) = At(fat, s, k)
      BY <1>7, <1>8, <2>2
    <3> QED BY <1>2, <2>1, <3>1, CoveredFat
  <2> QED BY <2>3, <2>4
<1>9. Good'
  BY <1>2, <1>8, SameDirOrder DEF Good
<1>10. ASSUME MaxCrashes > 0 PROVE (Kept(fatOnDisk) /\ Covered(fatOnDisk))'
  <2>1. fatOnDisk' = fat_buffer
    BY <1>2, <1>10, DiskFat
  <2> QED BY <1>2, <2>1, DataGood
<1>11. Writing(fat_buffer)'
  <2>1. ASSUME NEW fat, fat = fat_buffer, NEW g, g = fat_buffer', NEW v, v = call.val, NEW d, d = done
        PROVE  Holds(g, t, v, d + 1)' /\ At(g, t, d + 1)' = cluster'
    <3>1. d + 1 \in Steps /\ Holds(fat, t, v, d + 1)'
      BY <1>2, <1>3, <1>4, <2>1, HoldsData DEF Sound
    <3>2. \A k \in Steps : k < d + 1 => k <= d
      BY <1>4, <2>1, StepsFacts
    <3>3. \A k \in Steps : k < d + 1 => At(g, t, k) = At(fat, t, k)
      BY <1>4, <1>7, <2>1, <3>2
    <3>4. Holds(g, t, v, d + 1)'
      BY <1>2, <3>1, <3>3, HoldsFat
    <3>5. At(g, t, d + 1) = c
      BY <1>7, <2>1
    <3> QED BY <1>1, <1>2, <3>4, <3>5, FilesSame
  <2>2. Holds(fat_buffer, t, call.val, done)' /\ At(fat_buffer, t, done)' = cluster'
    BY <1>2, <2>1
  <2>3. Entries(call.name)' = Entries(call.name)
    BY <1>2, FilesSame
  <2> QED BY <1>3, <2>2, <2>3 DEF Writing
<1>12. faults' <= MaxFaults /\ PromiseFn'
  BY <1>2, FaultCount, PromiseSame
<1> QED BY <1>2, <1>4, <1>9, <1>10, <1>11, <1>12, FatRead

LEMMA SizeDirOrder == ASSUME TypeInv, ReadInv, SizeStored PROVE DirOrder'
<1>1. \A s \in Slots : rootDir'[s].state = rootDir[s].state
  BY SizeFacts
<1> QED BY <1>1 DEF ReadInv, DirOrder

\* fat12_open comes to the first cluster of the file.
LEMMA OpenRead == ASSUME AllInv, Steady, OpenFound PROVE ReadInv'
<1> USE DEF AllInv, IInv
<1>1. PICK t \in Slots : IsFirst(t, Matches(call.name)) /\ cluster' = rootDir[t].first
  BY DEF OpenFound
<1>2. /\ pc = "open" /\ pc' = "data" /\ UNCHANGED <<fat_buffer, rootDir, dataArea, call, done, faults, promise>>
  BY DEF OpenFound, disk, ghost
<1>3. t \in Entries(call.name) /\ done = 0 /\ call.name \in Names /\ promise[call.name] = Unknown
  BY <1>1, <1>2 DEF IsFirst, Matches, Entries, Files, ReadInv, InWrite
<1>4. At(fat_buffer, t, 0) = cluster'
  BY <1>1, WalkDef DEF At, First
<1>5. \A v : Holds(fat_buffer, t, v, 0)
  BY StepsFacts DEF Holds, Steps
<1>6. ASSUME NEW fat, fat = fat_buffer, NEW v, NEW d, d = 0
      PROVE  Holds(fat, t, v, d)' /\ At(fat, t, d)' = cluster'
  BY <1>2, <1>4, <1>5, <1>6, HoldsSame, FilesSame
<1>7. Writing(fat_buffer)'
  <2>1. Entries(call.name)' = Entries(call.name)
    BY <1>2, FilesSame
  <2>2. Holds(fat_buffer, t, call.val, done)' /\ At(fat_buffer, t, done)' = cluster'
    BY <1>2, <1>3, <1>6
  <2> QED BY <1>3, <2>1, <2>2 DEF Writing
<1>8. Good' /\ faults' <= MaxFaults /\ PromiseFn'
  BY <1>2, GoodSame, FaultCount, PromiseSame
<1> QED BY <1>2, <1>3, <1>7, <1>8, WriteRead

\* fat12_update_size: the size is what the chain holds.
LEMMA SizeRead ==
  ASSUME AllInv, Steady, pc = "size", SizeStored, UNCHANGED <<fat_buffer, dataArea>>,
         promise' = promise \/
           promise' = [promise EXCEPT ![call.name] =
                         IF done = call.len THEN Text(call.val, done) ELSE Unknown]
  PROVE  Good'
<1> USE DEF AllInv, IInv
<1>1. /\ Kept(fat_buffer) /\ Covered(fat_buffer) /\ Writing(fat_buffer)
      /\ call.name \in Names /\ promise[call.name] = Unknown
  BY InWriteFacts
<1>2. /\ \A n \in Names : n # call.name => promise'[n] = promise[n]
      /\ promise'[call.name] # Unknown => promise'[call.name] = Text(call.val, done)
  BY <1>1 DEF ReadInv
<1>3. ASSUME NEW fat, fat = fat_buffer PROVE Kept(fat)' /\ Covered(fat)'
  BY <1>1, <1>2, <1>3, KeptSize
<1> QED BY <1>3, SizeDirOrder DEF Good

LEMMA WritingSame ==
  ASSUME Writing(fat_buffer), UNCHANGED <<fat_buffer, rootDir, dataArea, call, done, cluster>>
  PROVE  Writing(fat_buffer)'
<1>1. PICK t \in Entries(call.name) : Holds(fat_buffer, t, call.val, done) /\ At(fat_buffer, t, done) = cluster
  BY DEF Writing
<1>2. ASSUME NEW fat, fat = fat_buffer, NEW v, v = call.val, NEW d, d = done
      PROVE  Holds(fat, t, v, d)' /\ At(fat, t, d)' = cluster
  BY <1>1, <1>2, HoldsSame, FilesSame
<1>3. Holds(fat_buffer, t, call.val, done)' /\ At(fat_buffer, t, done)' = cluster'
  BY <1>2
<1>4. Entries(call.name)' = Entries(call.name)
  BY FilesSame
<1> QED BY <1>1, <1>3, <1>4 DEF Writing

\* SYSCALL_WRITE_FILE.
LEMMA WriteStepRead == ASSUME AllInv, Steady, Write PROVE ReadInv'
<1> USE DEF AllInv, IInv
<1>1. CASE OpenFails
  <2>1. pc = "open" /\ pc' = "create" /\ UNCHANGED <<fat_buffer, rootDir, dataArea, call, done, promise>>
    BY <1>1 DEF OpenFails, disk, regs
  <2>2. done = 0 /\ call.name \in Names /\ promise[call.name] = Unknown
    BY <2>1 DEF ReadInv, InWrite
  <2>3. Good' /\ faults' <= MaxFaults /\ PromiseFn'
    BY <1>1, <2>1, GoodSame, FaultCount, PromiseSame DEF OpenFails
  <2> QED BY <2>1, <2>2, <2>3, OnRead
<1>2. CASE WriteDataFull \/ WriteDataFails
  <2>1. /\ pc = "data" /\ Return /\ UNCHANGED <<fat_buffer, rootDir, promise>> /\ cluster \in Clusters
        /\ DataStored \/ UNCHANGED dataArea
        /\ faults' = faults \/ Fault
    BY <1>2, InLoopCluster DEF WriteDataFull, WriteDataFails, ghost
  <2>2. Good' /\ faults' <= MaxFaults /\ PromiseFn'
    BY <2>1, DataGood, FaultCount, PromiseSame, SameDirOrder DEF Good
  <2> QED BY <2>1, <2>2, ReturnRead
<1>3. CASE WriteDataDone
  <2>1. pc = "data" /\ pc' = "size" /\ UNCHANGED <<fat_buffer, rootDir, dataArea, call, done, cluster, faults, promise>>
    BY <1>3 DEF WriteDataDone, disk, regs, ghost
  <2>2. Good' /\ faults' <= MaxFaults /\ PromiseFn'
    BY <2>1, GoodSame, FaultCount, PromiseSame
  <2>3. Writing(fat_buffer)'
    BY <2>1, InWriteFacts, WritingSame
  <2> QED BY <2>1, <2>2, <2>3, InWriteFacts, WriteRead
<1>4. CASE WriteNothing
  <2>1. pc = "data" /\ Return /\ UNCHANGED <<fat_buffer, rootDir, dataArea, faults, promise>>
    BY <1>4 DEF WriteNothing, disk, ghost
  <2>2. Good' /\ faults' <= MaxFaults /\ PromiseFn'
    BY <2>1, GoodSame, FaultCount, PromiseSame
  <2> QED BY <2>1, <2>2, ReturnRead
<1>5. CASE UpdateSize
  <2>1. Good'
    BY <1>5, SizeRead DEF UpdateSize
  <2>2. Return /\ faults' <= MaxFaults /\ PromiseFn'
    BY <1>5, FaultCount, PromiseSame DEF UpdateSize
  <2> QED BY <2>1, <2>2, ReturnRead
<1>6. CASE UpdateSizeFails
  <2>1. pc = "size" /\ Return /\ UNCHANGED <<fat_buffer, dataArea, promise>> /\ (faults' = faults \/ Fault)
    BY <1>6 DEF UpdateSizeFails
  <2>2. CASE SizeStored
    <3>1. Good'
      BY <2>1, <2>2, SizeRead
    <3> QED BY <2>1, <3>1, FaultCount, PromiseSame, ReturnRead
  <2>3. CASE UNCHANGED rootDir
    <3>1. Good'
      BY <2>1, <2>3, GoodSame
    <3> QED BY <2>1, <3>1, FaultCount, PromiseSame, ReturnRead
  <2> QED BY <1>6, <2>2, <2>3 DEF UpdateSizeFails
<1> QED BY <1>1, <1>2, <1>3, <1>4, <1>5, <1>6, OpenRead, NextRead, ExtendRead DEF Write

\* fat12_create takes a cluster no chain meets.
LEMMA AllocateRead == ASSUME AllInv, Steady, CreateAllocate PROVE ReadInv'
<1> USE DEF AllInv, IInv
<1>1. PICK s0 \in Slots, c \in Clusters :
        /\ IsFirst(s0, Vacant) /\ IsFirst(c, FreeClusters) /\ slot' = s0
        /\ fat_buffer' = [fat_buffer EXCEPT ![c] = EndOfChain]
  BY DEF CreateAllocate
<1>2. /\ pc = "create" /\ pc' = "fat" /\ after' = "entry"
      /\ UNCHANGED <<fatOnDisk, rootDir, dataArea, call, done, faults, promise>>
  BY DEF CreateAllocate, StartFatWrite, disk, ghost
<1>3. /\ done = 0 /\ call.name \in Names /\ promise[call.name] = Unknown
      /\ Kept(fat_buffer) /\ Covered(fat_buffer)
  BY <1>2 DEF ReadInv, InWrite
<1>4. fat_buffer \in [Clusters -> FatEntries] /\ LeadsToTaken(fat_buffer) /\ fat_buffer[c] = 0
  BY <1>1, <1>2 DEF TypeInv, TypeOK, SharingInv, ReferencedAllocated, IsFirst, FreeClusters
<1>5. \A x \in Clusters : fat_buffer'[x] = IF x = c THEN EndOfChain ELSE fat_buffer[x]
  BY <1>1, <1>4
<1>6. ASSUME NEW fat, fat = fat_buffer, NEW g, g = fat_buffer'
      PROVE  Kept(fat)' /\ Covered(fat)' /\ Kept(g)' /\ Covered(g)'
  <2>1. Kept(fat)' /\ Covered(fat)' /\ Covered(fat)
    BY <1>2, <1>3, <1>6, KeptSame, CoveredSame
  <2>2. \A s \in Files, k \in Steps : At(g, s, k) = At(fat, s, k)
    BY <1>4, <1>5, <1>6, TakeWalk
  <2>3. Kept(g)'
    <3>1. promise'[call.name] = Unknown
      BY <1>2, <1>3
    <3> QED BY <1>2, <2>1, <2>2, <3>1, KeptFat
  <2>4. Covered(g)'
    BY <1>2, <2>1, <2>2, CoveredFat
  <2> QED BY <2>1, <2>3, <2>4
<1>7. Good'
  BY <1>2, <1>6, SameDirOrder DEF Good
<1>8. ASSUME MaxCrashes > 0 PROVE (Kept(fatOnDisk) /\ Covered(fatOnDisk))'
  <2>1. fatOnDisk' = fat_buffer
    BY <1>2, <1>8, DiskFat
  <2> QED BY <1>6, <2>1
<1>9. IsFirst(slot, Vacant)'
  BY <1>1, <1>2 DEF IsFirst, Vacant
<1>10. faults' <= MaxFaults /\ PromiseFn'
  BY <1>2, FaultCount, PromiseSame
<1> QED BY <1>2, <1>3, <1>7, <1>8, <1>9, <1>10, FatRead

\* Its entry takes the first vacant slot: nothing comes after the end.
LEMMA EntryRead ==
  ASSUME AllInv, Steady, pc = "entry", EntryStored, UNCHANGED <<fat_buffer, dataArea>>,
         promise' = promise \/
           promise' = [promise EXCEPT ![call.name] =
                         IF Matches(call.name) = {} THEN Text(NoName, 0) ELSE Unknown]
  PROVE  Good' /\ slot \in Slots \ Files
<1> USE DEF AllInv, IInv
<1>1. IsFirst(slot, Vacant) /\ Kept(fat_buffer) /\ Covered(fat_buffer)
      /\ call.name \in Names /\ promise[call.name] = Unknown
  BY DEF ReadInv, Creating
<1>2. slot \in Slots \ Files
  BY <1>1 DEF IsFirst, Vacant, Files
<1>3. /\ \A n \in Names : n # call.name => promise'[n] = promise[n]
      /\ promise'[call.name] # Unknown => promise'[call.name] = Text(NoName, 0)
  BY <1>1 DEF ReadInv
<1>4. ASSUME NEW fat, fat = fat_buffer PROVE Kept(fat)' /\ Covered(fat)'
  BY <1>1, <1>2, <1>3, <1>4, KeptEntry
<1>5. DirOrder'
  <2>1. \A s \in Slots : rootDir'[s].state = IF s = slot THEN "file" ELSE rootDir[s].state
    BY <1>2, EntryFacts DEF Entry
  <2>2. ASSUME NEW s \in Slots, NEW t \in Slots, t < s, rootDir'[t].state = "end"
        PROVE  rootDir'[s].state = "end"
    <3>1. t # slot /\ rootDir[t].state = "end"
      BY <2>1, <2>2
    <3>2. t \in Vacant
      BY <3>1 DEF Vacant
    <3>3. slot <= t /\ slot \in Slots /\ Slots \subseteq Nat
      BY <1>1, <1>2, <3>2 DEF IsFirst, Slots
    <3>4. s # slot
      BY <2>2, <3>3
    <3> QED BY <2>1, <2>2, <3>1, <3>4 DEF ReadInv, DirOrder
  <2> QED BY <2>2 DEF DirOrder
<1> QED BY <1>2, <1>4, <1>5 DEF Good

LEMMA CreateStepRead == ASSUME AllInv, Steady, Create PROVE ReadInv'
<1> USE DEF AllInv, IInv
<1>1. CASE CreateFull \/ CreateReadFault
  <2>1. pc = "create" /\ Return /\ UNCHANGED <<fat_buffer, rootDir, dataArea, promise>> /\ (faults' = faults \/ Fault)
    BY <1>1 DEF CreateFull, CreateReadFault, ReadFault, disk, ghost
  <2>2. Good' /\ faults' <= MaxFaults /\ PromiseFn'
    BY <2>1, GoodSame, FaultCount, PromiseSame
  <2> QED BY <2>1, <2>2, ReturnRead
<1>2. CASE CreateEntry
  <2>1. Good'
    BY <1>2, EntryRead DEF CreateEntry
  <2>2. Return /\ faults' <= MaxFaults /\ PromiseFn'
    BY <1>2, FaultCount, PromiseSame DEF CreateEntry
  <2> QED BY <2>1, <2>2, ReturnRead
<1>3. CASE CreateEntryFails
  <2>1. pc = "entry" /\ Return /\ UNCHANGED <<fat_buffer, dataArea, promise>> /\ Fault
    BY <1>3 DEF CreateEntryFails
  <2>2. CASE EntryStored
    <3>1. Good'
      BY <2>1, <2>2, EntryRead
    <3> QED BY <2>1, <3>1, FaultCount, PromiseSame, ReturnRead
  <2>3. CASE UNCHANGED rootDir
    <3>1. Good'
      BY <2>1, <2>3, GoodSame
    <3> QED BY <2>1, <3>1, FaultCount, PromiseSame, ReturnRead
  <2> QED BY <1>3, <2>2, <2>3 DEF CreateEntryFails
<1>4. CASE CreateEntryForWrite
  <2>1. /\ pc = "entry" /\ pc' = "data" /\ EntryStored
        /\ UNCHANGED <<fat_buffer, dataArea, call, slot, cluster, done, faults, promise>>
    BY <1>4 DEF CreateEntryForWrite, regs, ghost
  <2>2. Good' /\ slot \in Slots \ Files
    BY <2>1, EntryRead
  <2>3. done = 0 /\ call.name \in Names /\ promise[call.name] = Unknown
    BY <2>1 DEF ReadInv, InWrite
  <2>4. \A s : s = slot => First(s)' = cluster
    BY <2>1, <2>2, EntryFacts
  <2>5. ASSUME NEW fat, NEW v, NEW d, d = 0, NEW s, s = slot
        PROVE  Holds(fat, s, v, d)' /\ At(fat, s, d)' = cluster
    <3>1. At(fat, s, d)' = First(s)'
      BY <2>5, WalkDef DEF At
    <3>2. Holds(fat, s, v, d)'
      BY <2>5, StepsFacts DEF Holds, Steps
    <3> QED BY <2>4, <2>5, <3>1, <3>2
  <2>6. slot \in Entries(call.name)'
    BY <2>1, <2>2, EntryFacts
  <2>7. Writing(fat_buffer)'
    <3>1. ASSUME NEW s, s = slot
          PROVE  Holds(fat_buffer, s, call.val, done)' /\ At(fat_buffer, s, done)' = cluster'
      BY <2>1, <2>3, <2>5, <3>1
    <3> QED BY <2>1, <2>6, <3>1 DEF Writing
  <2>8. faults' <= MaxFaults /\ PromiseFn'
    BY <2>1, FaultCount, PromiseSame
  <2> QED BY <2>1, <2>2, <2>3, <2>7, <2>8, WriteRead
<1> QED BY <1>1, <1>2, <1>3, <1>4, AllocateRead DEF Create

\* write_fat_table, power losses and boots.
LEMMA DiskStepRead ==
  ASSUME AllInv, Steady, FatWrite \/ Crash \/ Boot \/ BootFails
  PROVE  ReadInv'
<1> USE DEF AllInv, IInv
<1>a. pc = "fat" => /\ after \in {"data", "entry"} /\ (after = "data" => Writing(fat_buffer))
                    /\ (after = "entry" => done = 0 /\ IsFirst(slot, Vacant))
                    /\ call.name \in Names /\ promise[call.name] = Unknown
  BY DEF SharingInv, ReadInv, InWrite, Creating
<1>b. UNCHANGED <<rootDir, slot>> => (IsFirst(slot, Vacant) => IsFirst(slot, Vacant)')
  BY DEF IsFirst, Vacant
<1>1. CASE WriteFatSector
  <2>1. /\ pc = "fat" /\ pc' = "fat" /\ after' = after
        /\ UNCHANGED <<fat_buffer, rootDir, dataArea, call, slot, cluster, done, faults, promise>>
    BY <1>1 DEF WriteFatSector, ghost
  <2>2. ~(MaxCrashes > 0)
    BY <1>1, Fat12Assumption DEF Fat12Assumption, WriteFatSector, Steady, TypeInv, TypeOK
  <2>3. Good' /\ faults' <= MaxFaults /\ PromiseFn'
    BY <2>1, GoodSame, FaultCount, PromiseSame
  <2>4. /\ after' = "data" => Writing(fat_buffer)'
        /\ after' = "entry" => done' = 0 /\ IsFirst(slot, Vacant)'
    BY <1>a, <1>b, <2>1, WritingSame
  <2> QED BY <1>a, <2>1, <2>2, <2>3, <2>4, FatRead
<1>2. CASE WriteLastFatSector
  <2>1. /\ pc = "fat" /\ pc' = after
        /\ UNCHANGED <<fat_buffer, rootDir, dataArea, call, slot, cluster, done, faults, promise>>
    BY <1>2 DEF WriteLastFatSector, ghost
  <2>2. Good' /\ faults' <= MaxFaults /\ PromiseFn'
    BY <2>1, GoodSame, FaultCount, PromiseSame
  <2>3. CASE after = "data"
    <3>1. Writing(fat_buffer)'
      BY <1>a, <2>1, <2>3, WritingSame
    <3> QED BY <1>a, <2>1, <2>2, <2>3, <3>1, WriteRead
  <2>4. CASE after = "entry"
    <3>1. IsFirst(slot, Vacant)' /\ done' = 0 /\ call'.name \in Names /\ promise'[call'.name] = Unknown
      BY <1>a, <1>b, <2>1, <2>4
    <3> QED BY <2>1, <2>2, <2>4, <3>1 DEF Good, PromiseFn, ReadInv, InWrite, Creating
  <2> QED BY <1>a, <2>1, <2>3, <2>4
<1>3. CASE WriteFatSectorFails
  <2>1. pc = "fat" /\ Return /\ UNCHANGED <<fat_buffer, rootDir, dataArea, promise>> /\ Fault
    BY <1>3 DEF WriteFatSectorFails
  <2>2. Good' /\ faults' <= MaxFaults /\ PromiseFn'
    BY <2>1, GoodSame, FaultCount, PromiseSame
  <2> QED BY <2>1, <2>2, ReturnRead
<1>4. CASE Crash
  <2>1. /\ pc # "off" /\ pc' = "off" /\ ClearRegs /\ UNCHANGED <<fatOnDisk, rootDir, dataArea, faults, promise>>
        /\ MaxCrashes > 0
    BY <1>4, Fat12Assumption DEF Fat12Assumption, Crash, disk, TypeInv, TypeOK
  <2>2. Kept(fatOnDisk) /\ Covered(fatOnDisk)
    <3>1. CASE pc = "fat"
      BY <2>1, <3>1 DEF ReadInv
    <3>2. CASE pc # "fat"
      <4>1. fatOnDisk = fat_buffer
        BY <2>1, <3>2, DiskFat
      <4>2. Kept(fat_buffer) /\ Covered(fat_buffer)
        BY <2>1 DEF ReadInv
      <4> QED BY <4>1, <4>2
    <3> QED BY <3>1, <3>2
  <2>3. ASSUME NEW fat, fat = fatOnDisk PROVE Kept(fat)' /\ Covered(fat)'
    BY <2>1, <2>2, <2>3, KeptSame, CoveredSame
  <2>4. Kept(fatOnDisk)' /\ Covered(fatOnDisk)'
    BY <2>1, <2>3
  <2>5. DirOrder' /\ faults' <= MaxFaults /\ PromiseFn'
    BY <2>1, SameDirOrder, FaultCount, PromiseSame
  <2> QED BY <2>1, <2>4, <2>5 DEF ClearRegs, PromiseFn, ReadInv, InWrite, Creating
<1>5. CASE Boot
  <2>1. /\ pc = "off" /\ pc' = "idle" /\ fat_buffer' = fatOnDisk
        /\ UNCHANGED <<fatOnDisk, rootDir, dataArea, done, faults, promise>>
    BY <1>5 DEF Boot, disk, regs, ghost
  <2>2. Kept(fatOnDisk) /\ Covered(fatOnDisk) /\ done = 0
    BY <2>1 DEF ReadInv, InWrite
  <2>3. ASSUME NEW fat, fat = fatOnDisk PROVE Kept(fat)' /\ Covered(fat)'
    BY <2>1, <2>2, <2>3, KeptSame, CoveredSame
  <2>4. Kept(fat_buffer)' /\ Covered(fat_buffer)'
    BY <2>1, <2>3
  <2>5. DirOrder' /\ faults' <= MaxFaults /\ PromiseFn'
    BY <2>1, SameDirOrder, FaultCount, PromiseSame
  <2> QED BY <2>1, <2>2, <2>4, <2>5 DEF PromiseFn, ReadInv, InWrite, Creating
<1>6. CASE BootFails
  <2>1. /\ pc = "off" /\ pc' = "off" /\ Fault
        /\ UNCHANGED <<fatOnDisk, rootDir, dataArea, done, promise>>
    BY <1>6 DEF BootFails, disk, regs
  <2>2. Kept(fatOnDisk) /\ Covered(fatOnDisk) /\ done = 0
    BY <2>1 DEF ReadInv, InWrite
  <2>3. ASSUME NEW fat, fat = fatOnDisk PROVE Kept(fat)' /\ Covered(fat)'
    BY <2>1, <2>2, <2>3, KeptSame, CoveredSame
  <2>4. Kept(fatOnDisk)' /\ Covered(fatOnDisk)'
    BY <2>1, <2>3
  <2>5. DirOrder' /\ faults' <= MaxFaults /\ PromiseFn'
    BY <2>1, SameDirOrder, FaultCount, PromiseSame
  <2> QED BY <2>1, <2>2, <2>4, <2>5 DEF PromiseFn, ReadInv, InWrite, Creating
<1> QED BY <1>1, <1>2, <1>3, <1>4, <1>5, <1>6 DEF FatWrite

LEMMA ReadInit == ASSUME Init PROVE ReadInv
<1>1. PICK e \in FirstEntries : rootDir = [s \in Slots |-> IF s = 1 THEN e ELSE EndEntry]
  BY DEF Init
<1>2. \A s \in Slots : rootDir[s].size = 0 /\ (s # 1 => rootDir[s].state = "end")
  BY <1>1 DEF FirstEntries, Entry, EndEntry, DeletedEntry
<1>3. DirOrder
  <2>1. \A s, t \in Slots : t < s => s # 1
    BY Fat12Assumption DEF Fat12Assumption, Slots
  <2> QED BY <1>2, <2>1 DEF DirOrder
<1>4. \A fat : Covered(fat)
  <2>1. \A k \in Steps : ~(k < 0)
    BY StepsFacts
  <2> QED BY <1>2, <2>1, EntriesFiles, StepsFacts DEF Covered, CoveredAt, Steps
<1>5. \A fat : Kept(fat)
  BY DEF Init, Kept
<1>6. 0 <= MaxFaults
  BY Fat12Assumption DEF Fat12Assumption
<1> QED BY <1>3, <1>4, <1>5, <1>6 DEF Init, ReadInv, InWrite, Creating

\* A step that changes nothing.
LEMMA SharingQuiet == SharingInv /\ UNCHANGED vars => SharingInv'
BY DEF SharingInv, NoSharedClusters, ReferencedAllocated, NoSharing, LeadsToTaken,
       Unclaimed, Files, First, Creating, vars, disk, regs, ghost

LEMMA ReadQuiet == ASSUME TypeInv, ReadInv, UNCHANGED vars PROVE ReadInv'
<1>1. UNCHANGED <<fat_buffer, fatOnDisk, rootDir, dataArea, pc, after, call, slot, done, faults, promise, cluster>>
  BY DEF vars, disk, regs, ghost
<1>2. Writing(fat_buffer) => Writing(fat_buffer)'
  BY <1>1, WritingSame
<1>3. ASSUME NEW fat PROVE (Kept(fat) => Kept(fat)') /\ (Covered(fat) => Covered(fat)')
  BY <1>1, KeptSame, CoveredSame
<1>4. /\ Kept(fat_buffer) => Kept(fat_buffer)'
      /\ Covered(fat_buffer) => Covered(fat_buffer)'
      /\ Kept(fatOnDisk) => Kept(fatOnDisk)'
      /\ Covered(fatOnDisk) => Covered(fatOnDisk)'
  BY <1>1, <1>3
<1>5. DirOrder' /\ PromiseFn'
  BY <1>1, SameDirOrder, PromiseSame
<1>6. IsFirst(slot, Vacant) => IsFirst(slot, Vacant)'
  BY <1>1 DEF IsFirst, Vacant
<1> QED BY <1>1, <1>2, <1>4, <1>5, <1>6 DEF ReadInv, InWrite, Creating, PromiseFn

\* The inductive invariant of reading.
THEOREM AllCorrect == ASSUME Durable PROVE Spec => []AllInv
<1>1. /\ Steady /\ Whole /\ NeverDeletes
      /\ \A n \in Names : ~CallDelete(n)
  BY DEF Durable, Steady, NeverDeletes, Whole, CallDelete, Start, Request
<1>2. Init => AllInv
  BY TypeInvInit, SharingInit, ReadInit DEF Init, AllInv, IInv, FlushInv
<1>3. AllInv /\ [Next]_vars => AllInv'
  <2>1. ASSUME AllInv, UNCHANGED vars PROVE AllInv'
    <3>1. TypeInv' /\ FlushInv'
      BY <2>1, TypeInvStep DEF AllInv, IInv, FlushInv, vars, disk, regs, ghost
    <3>2. SharingInv' /\ ReadInv'
      BY <2>1, SharingQuiet, ReadQuiet DEF AllInv, IInv
    <3> QED BY <3>1, <3>2 DEF AllInv, IInv
  <2>2. ASSUME AllInv, Next PROVE AllInv'
    <3>1. TypeInv' /\ FlushInv'
      BY <2>2, TypeInvStep, FlushStep DEF AllInv, IInv
    <3>2. SharingInv'
      BY <1>1, <2>2, CallSharing, WriteSharing, CreateSharing, DeleteSharing, DiskSharing
      DEF AllInv, Next, Kernel
    <3>3. ReadInv'
      BY <1>1, <2>2, CallRead, WriteStepRead, CreateStepRead, DeleteSharing, DiskStepRead
      DEF AllInv, Next, Kernel
    <3> QED BY <3>1, <3>2, <3>3 DEF AllInv, IInv
  <2> QED BY <2>1, <2>2
<1> QED BY <1>2, <1>3, PTL DEF Spec

-----------------------------------------------------------------------------
(* What the invariant means for those who read                             *)

LEMMA OneEntry ==
  ASSUME NEW n, Cardinality(Entries(n)) = 1
  PROVE  \E s \in Files : Entries(n) = {s}
<1>1. IsFiniteSet(Slots)
  BY Fat12Assumption, FS_Interval DEF Fat12Assumption, Slots
<1>2. IsFiniteSet(Entries(n))
  BY <1>1, EntriesFiles, FS_Subset
<1>3. PICK s : Entries(n) = {s}
  BY <1>2, FS_Singleton
<1> QED BY <1>3, EntriesFiles

\* A file that holds a text is read as that text.
LEMMA ReadHolds ==
  ASSUME NEW fat, NEW s, NEW v, NEW len, Holds(fat, s, v, len), rootDir[s].size = len
  PROVE  ReadWith(fat, s) = Text(v, len)
<1> DEFINE w == Walk(fat, rootDir[s].first)
           K == {k \in 0..(LastScan - 1) : IsData(w[k]) /\ k < len}
<1>1. len \in Nat /\ len <= LastScan /\ LastScan \in Nat
  BY StepsFacts DEF Holds, Steps
<1>2. \A k \in 1..len : w[k - 1] \in DiskClusters /\ dataArea[w[k - 1]] = <<v, k>>
  BY DEF Holds, At, First
<1> HIDE DEF w
<1>3. K = 0..(len - 1)
  <2>1. ASSUME NEW k \in 0..(len - 1) PROVE k \in 0..(LastScan - 1) /\ IsData(w[k]) /\ k < len
    <3>1. k + 1 \in 1..len /\ (k + 1) - 1 = k /\ k \in 0..(LastScan - 1) /\ k < len
      BY <1>1
    <3>2. w[k] \in DiskClusters
      BY <1>2, <3>1
    <3>3. IsData(w[k])
      BY <3>2, DiskAreClusters, ClusterFacts DEF FatEntries
    <3> QED BY <3>1, <3>3
  <2>2. \A k \in K : k \in 0..(len - 1)
    BY <1>1
  <2> QED BY <2>1, <2>2
<1>4. Cardinality(K) = len
  <2> HIDE DEF K
  <2>1. Cardinality(0..(len - 1)) = len
    BY <1>1, FS_Interval
  <2> QED BY <1>3, <2>1
<1>5. ReadWith(fat, s) = [k \in 1..len |-> IF w[k - 1] \in DiskClusters THEN dataArea[w[k - 1]] ELSE Blank]
  BY <1>4 DEF ReadWith, w
<1> QED BY <1>2, <1>5 DEF Text

\* The only entry of a name is the one fat12_open finds.
LEMMA OpenFinds ==
  ASSUME TypeInv, DirOrder, NEW n, NEW s \in Files, Entries(n) = {s}
  PROVE  IsFirst(s, Matches(n))
<1>1. s \in Slots /\ Slots \subseteq Nat /\ rootDir[s].name = n /\ rootDir[s].state = "file"
  BY DEF Slots, Files, Entries
<1>2. ASSUME NEW t \in 1..s PROVE rootDir[t].state # "end"
  <2>1. t \in Slots /\ (t = s \/ t < s)
    BY <1>1, Fat12Assumption DEF Fat12Assumption, Slots
  <2> QED BY <1>1, <2>1 DEF DirOrder
<1>3. \A y \in Matches(n) : y = s
  BY DEF Matches, Entries, Files
<1> QED BY <1>1, <1>2, <1>3 DEF Matches, IsFirst

\* Readers get what is promised.
LEMMA KeptRead ==
  ASSUME TypeInv, DirOrder, Kept(fat_buffer)
  PROVE  ReadBack
<1>1. ASSUME NEW n \in Names, promise[n] # Unknown, Cardinality(Entries(n)) = 1
      PROVE  Readable(fat_buffer, n, promise[n])
  <2>1. PICK s \in Files : Entries(n) = {s}
    BY <1>1, OneEntry
  <2>2. HasText(fat_buffer, s, promise[n])
    BY <1>1, <2>1 DEF Kept
  <2>3. ReadWith(fat_buffer, s) = promise[n]
    BY <2>2, ReadHolds DEF HasText
  <2>4. IsFirst(s, Matches(n)) /\ s \in Slots
    BY <2>1, OpenFinds, EntriesFiles
  <2> QED BY <2>3, <2>4 DEF Readable
<1> QED BY <1>1 DEF ReadBack

\* A name that has one entry, and for which the last call that touched it came to
\* its end, reads back as what that call left there, whatever was done to other
\* files, however full the disk, and whatever failed meanwhile.
THEOREM ReadBackCorrect == ASSUME Durable PROVE Spec => []ReadBack
<1>1. ASSUME AllInv PROVE ReadBack
  <2>1. ASSUME pc = "idle" PROVE TypeInv /\ DirOrder /\ Kept(fat_buffer)
    BY <1>1, <2>1 DEF AllInv, IInv, ReadInv
  <2>2. pc # "idle" => ReadBack
    BY DEF ReadBack
  <2> QED BY <2>1, <2>2, KeptRead
<1> QED BY <1>1, AllCorrect, PTL

\* The size in the only entry of a name never exceeds the chain of the file, so
\* reading it ends for want of size and not of clusters.
THEOREM SizeCorrect == ASSUME Durable PROVE Spec => []SizeCovered
<1>1. ASSUME AllInv PROVE SizeCovered
  <2>1. ASSUME pc # "off", NEW s \in Files, Cardinality(Entries(rootDir[s].name)) = 1
        PROVE  rootDir[s].size <= Cardinality(ChainSet(fat_buffer, rootDir[s].first))
    <3> DEFINE size == rootDir[s].size
               C == ChainSet(fat_buffer, rootDir[s].first)
               f == [k \in 0..(size - 1) |-> At(fat_buffer, s, k)]
    <3>1. Entries(rootDir[s].name) = {s}
      <4>1. s \in Entries(rootDir[s].name)
        BY DEF Entries
      <4> QED BY <2>1, <4>1, OneEntry
    <3>2. CoveredAt(fat_buffer, s)
      BY <1>1, <2>1, <3>1 DEF AllInv, ReadInv, Covered, Durable
    <3>3. size \in Nat /\ \A k \in 0..(size - 1) : k \in Steps /\ At(fat_buffer, s, k) \in Clusters
      <4>1. size \in Steps /\ size \in Nat /\ LastScan \in Nat
        BY <3>2, StepsFacts DEF CoveredAt
      <4>2. \A k \in 0..(size - 1) : k \in Steps /\ k < size
        BY <4>1 DEF Steps
      <4> QED BY <3>2, <4>1, <4>2 DEF CoveredAt
    <3>4. \A k \in 0..(size - 1) : At(fat_buffer, s, k) \in C
      BY <3>3 DEF ChainSet, At, First, Steps
    <3>5. f \in Injection(0..(size - 1), C)
      <4>1. fat_buffer \in [Clusters -> FatEntries] /\ NoSharing(fat_buffer)
        BY <1>1, <2>1 DEF AllInv, IInv, TypeInv, TypeOK, SharingInv, NoSharedClusters
      <4>2. \A j, k \in 0..(size - 1) : At(fat_buffer, s, j) = At(fat_buffer, s, k) => j = k
        BY <1>1, <3>3, <4>1, AtOnce DEF AllInv, IInv
      <4> HIDE DEF size, C
      <4> QED BY <3>4, <4>2 DEF Injection, IsInjective
    <3>6. IsFiniteSet(C)
      <4>1. IsFiniteSet(Clusters)
        BY StepsFacts, FS_Interval DEF Clusters
      <4> QED BY <4>1, FS_Subset DEF ChainSet
    <3> HIDE DEF size, C, f
    <3>7. Cardinality(0..(size - 1)) <= Cardinality(C)
      BY <3>5, <3>6, FS_Injection
    <3>8. Cardinality(0..(size - 1)) = size
      BY <3>3, FS_Interval
    <3> QED BY <3>7, <3>8 DEF size, C
  <2> QED BY <2>1 DEF SizeCovered
<1> QED BY <1>1, AllCorrect, PTL

-----------------------------------------------------------------------------
(* What is lost                                                            *)

Room == IF Creating THEN 1 ELSE 0

\* fat12_create has a cluster that no file has until the entry is written; any
\* other such cluster is the work of a failure or a power loss.
LeakInv ==
  /\ pc # "off" => Cardinality(Lost(fat_buffer)) <= faults + crashes + Room
  /\ pc = "off" \/ (pc = "fat" /\ MaxCrashes > 0) => Cardinality(Lost(fatOnDisk)) <= faults + crashes

LEMMA LostMeans ==
  \A fat, c : c \in Lost(fat) <=>
    c \in Clusters /\ fat[c] # 0 /\ \A s \in Files, k \in Steps : At(fat, s, k) # c
BY DEF Lost, ChainSet, At, First, Steps

LEMMA LostThen ==
  \A fat, c : c \in Lost(fat)' <=>
    c \in Clusters /\ fat[c] # 0 /\ \A s \in Files', k \in Steps : At(fat, s, k)' # c
BY DEF Lost, ChainSet, At, First, Steps

LEMMA LostSize ==
  /\ \A fat : IsFiniteSet(Lost(fat)) /\ Cardinality(Lost(fat)) \in Nat
  /\ \A fat, X : X \subseteq Lost(fat) => Cardinality(X) \in Nat /\ Cardinality(X) <= Cardinality(Lost(fat))
<1>1. IsFiniteSet(Clusters)
  BY StepsFacts, FS_Interval DEF Clusters
<1>2. \A fat : Lost(fat) \subseteq Clusters
  BY LostMeans
<1>3. \A fat : IsFiniteSet(Lost(fat))
  BY <1>1, <1>2, FS_Subset
<1> QED BY <1>3, FS_Subset, FS_CardinalityType

\* What is lost depends on where the files start and on the FAT.
LEMMA LostSame ==
  ASSUME Files' = Files, \A s \in Files : First(s)' = First(s)
  PROVE  \A fat : Lost(fat)' = Lost(fat)
<1>1. \A s \in Files : \A fat, k : At(fat, s, k)' = At(fat, s, k)
  BY DEF At
<1>2. ASSUME NEW fat PROVE \A c : c \in Lost(fat)' <=> c \in Lost(fat)
  BY <1>1, LostMeans, LostThen
<1>3. ASSUME NEW fat PROVE Lost(fat)' = Lost(fat)
  BY <1>2
<1> QED BY <1>3

\* A call that ends, or goes on to a step that is not write_fat_table.
LEMMA QuietLeak ==
  ASSUME TypeInv, LeakInv, pc # "off", UNCHANGED <<fat_buffer, crashes>>,
         Files' = Files, \A s \in Files : First(s)' = First(s),
         pc' \notin {"off", "fat"}, faults' = faults \/ Fault, Creating' => Creating,
         Creating /\ ~Creating' => Fault
  PROVE  LeakInv'
<1>1. Lost(fat_buffer)' = Lost(fat_buffer)
  <2>1. \A fat : fat = fat_buffer => Lost(fat)' = Lost(fat)
    BY LostSame
  <2> QED BY <2>1
<1>2. faults \in Nat /\ crashes \in Nat /\ Cardinality(Lost(fat_buffer)) \in Nat
  BY LostSize DEF TypeInv, TypeOK
<1>3. faults + crashes + Room <= faults' + crashes' + Room'
  BY <1>2 DEF Fault, Room
<1>4. Cardinality(Lost(fat_buffer)) <= faults + crashes + Room
  BY DEF LeakInv
<1>5. Cardinality(Lost(fat_buffer))' <= (faults + crashes + Room)'
  <2>1. Room \in Nat /\ Room' \in Nat /\ faults' \in Nat
    BY <1>2 DEF Room, Fault
  <2>2. Cardinality(Lost(fat_buffer))' = Cardinality(Lost(fat_buffer))
    BY <1>1
  <2>3. \A a, b, d \in Nat : a <= b /\ b <= d => a <= d
    OBVIOUS
  <2>4. crashes' \in Nat
    BY <1>2
  <2>5. faults + crashes + Room \in Nat /\ faults' + crashes' + Room' \in Nat
    <3>1. \A a, b, d \in Nat : a + b + d \in Nat
      OBVIOUS
    <3> QED BY ONLY <1>2, <2>1, <2>4, <3>1
  <2>6. Cardinality(Lost(fat_buffer)) <= faults' + crashes' + Room'
    BY ONLY <1>2, <1>3, <1>4, <2>3, <2>5
  <2> QED BY ONLY <2>2, <2>6
<1> QED BY <1>5 DEF LeakInv

\* A chain that grows loses nothing.
LEMMA ExtendLeak == ASSUME AllInv, Steady, LeakInv, WriteDataExtend PROVE LeakInv'
<1> USE DEF AllInv, IInv
<1>1. PICK c \in Clusters : IsFirst(c, FreeClusters) /\ fat_buffer' = Link(c)
  BY DEF WriteDataExtend
<1>2. /\ pc = "data" /\ pc' = "fat" /\ after' = "data" /\ NeedsCluster /\ cluster \in Clusters
      /\ UNCHANGED <<fatOnDisk, rootDir, faults, crashes>>
  BY InLoopCluster DEF WriteDataExtend, StartFatWrite, ghost
<1>3. PICK t \in Entries(call.name) : At(fat_buffer, t, done) = cluster
  BY <1>2, InWriteFacts DEF Writing
<1>4. t \in Files /\ fat_buffer \in [Clusters -> FatEntries] /\ Sound(fat_buffer) /\ done \in Steps
  BY <1>2, <1>3, EntriesFiles, InWriteFacts
<1>5. fat_buffer[c] = 0 /\ fat_buffer[cluster] \notin Clusters
  BY <1>1, <1>2, <1>4, ClusterFacts DEF IsFirst, FreeClusters, NeedsCluster
<1>6. \A x \in Clusters : fat_buffer'[x] = IF x = c THEN EndOfChain
                                           ELSE IF x = cluster THEN c ELSE fat_buffer[x]
  BY <1>1, <1>2, <1>4 DEF Link
<1>7. ASSUME NEW fat, fat = fat_buffer, NEW g, g = fat_buffer', NEW j, j = done
      PROVE  /\ \A s \in Files, k \in Steps : s # t \/ k <= j => At(g, s, k) = At(fat, s, k)
             /\ j + 1 \in Steps /\ At(g, t, j + 1) = c
             /\ \A k \in Steps : k > j => At(fat, t, k) \notin Clusters
  BY <1>2, <1>3, <1>4, <1>5, <1>6, <1>7, LinkWalk
<1>8. fat_buffer[cluster] # 0
  BY <1>2, <1>3, <1>4, AtTaken DEF Sound
<1>9. ASSUME NEW g, g = fat_buffer' PROVE Lost(g)' \subseteq Lost(fat_buffer)
  <2>1. \A s \in Files, k \in Steps : At(fat_buffer, s, k) \in Clusters => At(g, s, k) = At(fat_buffer, s, k)
    BY <1>4, <1>7, <1>9, StepsFacts
  <2>2. Lost(g)' = Lost(g)
    BY <1>2, QuietFiles, LostSame
  <2>3. ASSUME NEW x \in Lost(g) PROVE x \in Lost(fat_buffer)
    <3>1. x \in Clusters /\ g[x] # 0 /\ \A s \in Files, k \in Steps : At(g, s, k) # x
      BY LostMeans
    <3>2. x # c
      BY <1>4, <1>7, <1>9, <3>1
    <3>3. fat_buffer[x] # 0
      BY <1>6, <1>8, <1>9, <3>1, <3>2
    <3> QED BY <2>1, <3>1, <3>3, LostMeans
  <2> QED BY <2>2, <2>3
<1>10. Lost(fat_buffer)' \subseteq Lost(fat_buffer)
  BY <1>9
<1>11. /\ Cardinality(Lost(fat_buffer)) \in Nat /\ Cardinality(Lost(fat_buffer))' \in Nat
       /\ Cardinality(Lost(fat_buffer))' <= Cardinality(Lost(fat_buffer))
  BY <1>10, LostSize
<1>12. Cardinality(Lost(fat_buffer)) <= faults + crashes /\ Room' = 0 /\ faults \in Nat /\ crashes \in Nat
  BY <1>2 DEF LeakInv, Room, Creating, TypeInv, TypeOK
<1>13. MaxCrashes > 0 => Cardinality(Lost(fatOnDisk))' <= (faults + crashes)'
  <2>1. ASSUME MaxCrashes > 0, NEW fat, fat = fat_buffer PROVE Lost(fat)' = Lost(fat)
    BY <1>2, QuietFiles, LostSame
  <2>2. MaxCrashes > 0 => Lost(fatOnDisk)' = Lost(fat_buffer)
    BY <1>2, <2>1, DiskFat
  <2> QED BY <1>2, <1>12, <2>2
<1>14. Cardinality(Lost(fat_buffer))' <= (faults + crashes + Room)'
  BY <1>2, <1>11, <1>12
<1> QED BY <1>2, <1>13, <1>14 DEF LeakInv

\* What fat12_create takes is lost until the entry is there.
LEMMA AllocateLeak == ASSUME AllInv, Steady, LeakInv, CreateAllocate PROVE LeakInv'
<1> USE DEF AllInv, IInv
<1>1. PICK c \in Clusters : IsFirst(c, FreeClusters) /\ fat_buffer' = [fat_buffer EXCEPT ![c] = EndOfChain]
  BY DEF CreateAllocate
<1>2. /\ pc = "create" /\ pc' = "fat" /\ UNCHANGED <<fatOnDisk, rootDir, faults, crashes>>
  BY DEF CreateAllocate, StartFatWrite, disk, ghost
<1>3. fat_buffer \in [Clusters -> FatEntries] /\ LeadsToTaken(fat_buffer) /\ fat_buffer[c] = 0
  BY <1>1, <1>2 DEF TypeInv, TypeOK, SharingInv, ReferencedAllocated, IsFirst, FreeClusters
<1>4. \A x \in Clusters : fat_buffer'[x] = IF x = c THEN EndOfChain ELSE fat_buffer[x]
  BY <1>1, <1>3
<1>5. ASSUME NEW g, g = fat_buffer' PROVE Lost(g)' \subseteq Lost(fat_buffer) \cup {c}
  <2>1. \A s \in Files, k \in Steps : At(g, s, k) = At(fat_buffer, s, k)
    BY <1>3, <1>4, <1>5, TakeWalk
  <2>2. Lost(g)' = Lost(g)
    BY <1>2, QuietFiles, LostSame
  <2> QED BY <1>4, <1>5, <2>1, <2>2, LostMeans
<1>6. Lost(fat_buffer)' \subseteq Lost(fat_buffer) \cup {c}
  BY <1>5
<1>7. /\ Cardinality(Lost(fat_buffer)) \in Nat /\ IsFiniteSet(Lost(fat_buffer))
      /\ Cardinality(Lost(fat_buffer) \cup {c}) \in {Cardinality(Lost(fat_buffer)), Cardinality(Lost(fat_buffer)) + 1}
      /\ IsFiniteSet(Lost(fat_buffer) \cup {c})
  BY LostSize, FS_AddElement
<1>8. Cardinality(Lost(fat_buffer))' \in Nat /\ Cardinality(Lost(fat_buffer))' <= Cardinality(Lost(fat_buffer)) + 1
  <2>1. /\ Cardinality(Lost(fat_buffer)') <= Cardinality(Lost(fat_buffer) \cup {c})
        /\ Cardinality(Lost(fat_buffer)') \in Nat
    BY <1>6, <1>7, FS_Subset, FS_CardinalityType
  <2> QED BY <1>7, <2>1
<1>9. /\ Cardinality(Lost(fat_buffer)) <= faults + crashes /\ Room' <= 1 /\ Room' >= 1
      /\ faults \in Nat /\ crashes \in Nat
  <2>1. ~Creating /\ Creating'
    BY <1>2 DEF Creating, CreateAllocate, StartFatWrite
  <2> QED BY <1>2, <2>1 DEF LeakInv, Room, TypeInv, TypeOK
<1>10. MaxCrashes > 0 => Cardinality(Lost(fatOnDisk))' <= (faults + crashes)'
  <2>1. ASSUME NEW fat, fat = fat_buffer PROVE Lost(fat)' = Lost(fat)
    BY <1>2, QuietFiles, LostSame
  <2>2. MaxCrashes > 0 => Lost(fatOnDisk)' = Lost(fat_buffer)
    BY <1>2, <2>1, DiskFat
  <2> QED BY <1>2, <1>9, <2>2
<1>11. Room' = 1
  BY <1>9 DEF Room
<1>12. Cardinality(Lost(fat_buffer))' <= (faults + crashes + Room)'
  BY <1>2, <1>7, <1>8, <1>9, <1>11
<1> QED BY <1>2, <1>10, <1>12 DEF LeakInv

\* With the entry it is found again.
LEMMA EntryLeak ==
  ASSUME AllInv, Steady, LeakInv, pc = "entry", EntryStored, UNCHANGED <<fat_buffer, crashes>>,
         faults' = faults \/ Fault, pc' \in {"idle", "data"}
  PROVE  LeakInv'
<1> USE DEF AllInv, IInv
<1>1. /\ slot \in Slots \ Files /\ cluster \in Clusters /\ fat_buffer[cluster] # 0
      /\ \A s \in Files : First(s) # cluster
      /\ \A x \in Clusters : fat_buffer[x] # cluster
      /\ fat_buffer \in [Clusters -> FatEntries] /\ Creating
  BY DEF SharingInv, Unclaimed, ReadInv, Creating, IsFirst, Vacant, Files, TypeInv, TypeOK
<1>2. ASSUME NEW s \in Files, NEW k \in Steps PROVE At(fat_buffer, s, k) # cluster
  <2>1. CASE k = 0
    BY <1>1, <2>1, WalkDef DEF At
  <2>2. CASE k # 0
    BY <1>1, <2>2, AtBefore
  <2> QED BY <2>1, <2>2
<1>3. cluster \in Lost(fat_buffer)
  BY <1>1, <1>2, LostMeans
<1>4. ASSUME NEW fat, fat = fat_buffer PROVE Lost(fat)' \subseteq Lost(fat_buffer) \ {cluster}
  <2>1. \A s \in Files, k \in Steps : s \in Files' /\ At(fat, s, k)' = At(fat, s, k)
    BY <1>1, EntryFacts
  <2>2. ASSUME NEW s, s = slot PROVE s \in Files' /\ At(fat, s, 0)' = cluster
    <3>1. First(s)' = cluster /\ s \in Files'
      BY <1>1, <2>2, EntryFacts
    <3>2. At(fat, s, 0)' = First(s)'
      BY WalkDef DEF At
    <3> QED BY <3>1, <3>2
  <2>3. 0 \in Steps
    BY StepsFacts DEF Steps
  <2>4. cluster \notin Lost(fat)'
    BY <2>2, <2>3, LostThen
  <2>5. Lost(fat)' \subseteq Lost(fat)
    BY <2>1, LostMeans, LostThen
  <2> QED BY <1>4, <2>4, <2>5
<1>5. Lost(fat_buffer)' \subseteq Lost(fat_buffer) \ {cluster}
  BY <1>4
<1>6. /\ Cardinality(Lost(fat_buffer) \ {cluster}) = Cardinality(Lost(fat_buffer)) - 1
      /\ IsFiniteSet(Lost(fat_buffer) \ {cluster})
      /\ Cardinality(Lost(fat_buffer)) \in Nat
      /\ Cardinality(Lost(fat_buffer) \ {cluster}) \in Nat
  BY <1>3, LostSize, FS_RemoveElement, FS_CardinalityType
<1>7. /\ Cardinality(Lost(fat_buffer)') <= Cardinality(Lost(fat_buffer) \ {cluster})
      /\ Cardinality(Lost(fat_buffer)') \in Nat
  BY <1>5, <1>6, FS_Subset, FS_CardinalityType
<1>8. /\ Cardinality(Lost(fat_buffer)) <= faults + crashes + 1
      /\ faults \in Nat /\ crashes \in Nat
  BY <1>1 DEF LeakInv, Room, TypeInv, TypeOK
<1>9. Cardinality(Lost(fat_buffer)') <= faults + crashes
  BY <1>6, <1>7, <1>8
<1>10. faults' \in Nat /\ faults <= faults' /\ Room' = 0 /\ crashes' = crashes
  BY <1>8 DEF Fault, Room, Creating
<1>11. Cardinality(Lost(fat_buffer)') <= faults' + crashes' + Room'
  BY <1>7, <1>8, <1>9, <1>10
<1> QED BY <1>11 DEF LeakInv

\* The other steps.
LEMMA LeakStep == ASSUME AllInv, Steady, LeakInv, Next PROVE LeakInv'
<1> USE DEF AllInv, IInv
<1>a. ASSUME pc # "off", UNCHANGED <<fat_buffer, rootDir, crashes>>, pc' \notin {"off", "fat"},
             faults' = faults \/ Fault, Creating' => Creating, Creating /\ ~Creating' => Fault
      PROVE  LeakInv'
  BY <1>a, QuietFiles, QuietLeak
<1>b. faults \in Nat /\ crashes \in Nat
  BY DEF TypeInv, TypeOK
<1>1. CASE Call
  <2>1. ASSUME NEW x, NEW at \in {"create", "delete", "open"}, Start(x, at) PROVE LeakInv'
    BY <1>a, <2>1 DEF Start, disk, Creating
  <2> QED BY <1>1, <2>1 DEF Call, CallCreate, CallDelete, CallWrite
<1>2. CASE Write
  <2>1. CASE OpenFound \/ OpenFails
    BY <1>a, <2>1 DEF OpenFound, OpenFails, disk, regs, ghost, Creating
  <2>2. CASE WriteDataNext \/ WriteDataFull \/ WriteDataFails
    BY <1>a, <2>2 DEF WriteDataNext, WriteDataFull, WriteDataFails, Return, ghost, Creating
  <2>3. CASE WriteDataDone \/ WriteNothing
    BY <1>a, <2>3 DEF WriteDataDone, WriteNothing, Return, disk, regs, ghost, Creating
  <2>4. ASSUME SizeStored, pc = "size", pc' = "idle", faults' = faults \/ Fault, UNCHANGED <<fat_buffer, crashes>>
        PROVE  LeakInv'
    BY <2>4, SizeKeepsFirst, QuietLeak DEF Creating
  <2>5. CASE UpdateSize
    BY <2>4, <2>5 DEF UpdateSize, Return
  <2>6. CASE UpdateSizeFails
    BY <1>a, <2>4, <2>6 DEF UpdateSizeFails, Return, Creating
  <2> QED BY <1>2, <2>1, <2>2, <2>3, <2>5, <2>6, ExtendLeak DEF Write
<1>3. CASE Create
  <2>1. CASE CreateFull \/ CreateReadFault
    BY <1>a, <2>1 DEF CreateFull, CreateReadFault, ReadFault, Return, disk, ghost, Creating
  <2>2. CASE CreateEntry \/ CreateEntryForWrite
    BY <2>2, EntryLeak DEF CreateEntry, CreateEntryForWrite, Return, regs, ghost
  <2>3. CASE CreateEntryFails
    <3>1. CASE EntryStored
      BY <2>3, <3>1, EntryLeak DEF CreateEntryFails, Return
    <3>2. CASE UNCHANGED rootDir
      BY <1>a, <2>3, <3>2 DEF CreateEntryFails, Return, Creating
    <3> QED BY <2>3, <3>1, <3>2 DEF CreateEntryFails
  <2> QED BY <1>3, <2>1, <2>2, <2>3, AllocateLeak DEF Create
<1>4. CASE WriteFatSector
  <2>1. /\ pc = "fat" /\ UNCHANGED <<fat_buffer, rootDir, pc, after, faults, crashes>>
        /\ ~(MaxCrashes > 0)
    BY <1>4, Fat12Assumption DEF Fat12Assumption, WriteFatSector, Steady, TypeInv, TypeOK, ghost
  <2>2. \A fat : fat = fat_buffer => Lost(fat)' = Lost(fat)
    BY <2>1, QuietFiles, LostSame
  <2>3. Lost(fat_buffer)' = Lost(fat_buffer) /\ Room' = Room
    BY <2>1, <2>2 DEF Room, Creating
  <2>4. Cardinality(Lost(fat_buffer)) <= faults + crashes + Room
    BY <2>1 DEF LeakInv
  <2>5. Cardinality(Lost(fat_buffer))' <= (faults + crashes + Room)'
    BY <2>1, <2>3, <2>4
  <2> QED BY <2>1, <2>5 DEF LeakInv
<1>5. CASE WriteLastFatSector
  <2>1. after \in {"entry", "data"}
    BY <1>5 DEF WriteLastFatSector, SharingInv
  <2> QED BY <1>a, <1>5, <2>1 DEF WriteLastFatSector, ghost, Creating
<1>6. CASE WriteFatSectorFails
  BY <1>a, <1>6 DEF WriteFatSectorFails, Return, Creating
<1>c. \A fat : fat = fatOnDisk /\ UNCHANGED rootDir => Lost(fat)' = Lost(fat)
  BY QuietFiles, LostSame
<1>7. CASE Crash
  <2>1. /\ pc # "off" /\ pc' = "off" /\ UNCHANGED <<fatOnDisk, rootDir, faults>> /\ crashes' = crashes + 1
        /\ MaxCrashes > 0
    BY <1>7, Fat12Assumption DEF Fat12Assumption, Crash, disk, TypeInv, TypeOK
  <2>2. Cardinality(Lost(fatOnDisk)) <= faults + crashes + 1
    <3>1. CASE pc = "fat"
      <4>1. Cardinality(Lost(fatOnDisk)) <= faults + crashes
        BY <2>1, <3>1 DEF LeakInv
      <4> QED BY <1>b, <4>1, LostSize
    <3>2. CASE pc # "fat"
      <4>1. fatOnDisk = fat_buffer
        BY <2>1, <3>2, DiskFat
      <4>2. Cardinality(Lost(fat_buffer)) <= faults + crashes + Room
        BY <2>1 DEF LeakInv
      <4>3. CASE Room = 1
        BY <4>1, <4>2, <4>3
      <4>4. CASE Room = 0
        <5>1. Cardinality(Lost(fatOnDisk)) <= faults + crashes
          BY <1>b, <4>1, <4>2, <4>4
        <5> QED BY <1>b, <5>1, LostSize
      <4> QED BY <4>3, <4>4 DEF Room
    <3> QED BY <3>1, <3>2
  <2>3. Lost(fatOnDisk)' = Lost(fatOnDisk)
    BY <1>c, <2>1
  <2>4. Cardinality(Lost(fatOnDisk))' <= (faults + crashes)'
    BY <1>b, <2>1, <2>2, <2>3
  <2> QED BY <2>1, <2>4 DEF LeakInv
<1>8. CASE Boot
  <2>1. /\ pc = "off" /\ pc' = "idle" /\ fat_buffer' = fatOnDisk /\ UNCHANGED <<rootDir, faults, crashes>>
    BY <1>8 DEF Boot, disk, ghost
  <2>2. Cardinality(Lost(fatOnDisk)) <= faults + crashes /\ Room' = 0
    BY <2>1 DEF LeakInv, Room, Creating
  <2>3. Lost(fat_buffer)' = Lost(fatOnDisk)
    BY <1>c, <2>1
  <2>4. Cardinality(Lost(fat_buffer))' <= (faults + crashes + Room)'
    BY <1>b, <2>1, <2>2, <2>3
  <2> QED BY <2>1, <2>4 DEF LeakInv
<1>9. CASE BootFails
  <2>1. pc = "off" /\ pc' = "off" /\ UNCHANGED <<fatOnDisk, rootDir, crashes>> /\ faults' = faults + 1
    BY <1>9 DEF BootFails, disk, Fault
  <2>2. Cardinality(Lost(fatOnDisk)) <= faults + crashes /\ Cardinality(Lost(fatOnDisk)) \in Nat
    BY <2>1, LostSize DEF LeakInv
  <2>3. Lost(fatOnDisk)' = Lost(fatOnDisk)
    BY <1>c, <2>1
  <2>4. Cardinality(Lost(fatOnDisk))' <= (faults + crashes)'
    BY <1>b, <2>1, <2>2, <2>3
  <2> QED BY <2>1, <2>4 DEF LeakInv
<1> QED
  BY <1>1, <1>2, <1>3, <1>4, <1>5, <1>6, <1>7, <1>8, <1>9, DeleteSharing DEF Next, Kernel, FatWrite

\* However many operations fail, each costs at most one cluster, and so does each
\* power loss; no call that succeeds, and none that is refused for want of a
\* slot or a cluster, costs any.
THEOREM LeakCorrect == ASSUME Durable PROVE Spec => []LeakBounded
<1>1. Init => LeakInv
  <2>1. ASSUME Init PROVE Lost(fatOnDisk) = {}
    BY <2>1, LostMeans DEF Init
  <2>2. ASSUME Init PROVE LeakInv
    <3>1. Cardinality(Lost(fatOnDisk)) = 0
      BY <2>1, <2>2, FS_EmptySet
    <3> QED BY <2>2, <3>1 DEF Init, LeakInv
  <2> QED BY <2>2
<1>2. AllInv /\ LeakInv /\ [Next]_vars => LeakInv'
  <2>1. LeakInv /\ UNCHANGED vars => LeakInv'
    <3> SUFFICES ASSUME LeakInv, UNCHANGED vars PROVE LeakInv'
      OBVIOUS
    <3>1. \A fat : Lost(fat)' = Lost(fat)
      BY QuietFiles, LostSame DEF vars, disk
    <3>2. Lost(fat_buffer)' = Lost(fat_buffer) /\ Lost(fatOnDisk)' = Lost(fatOnDisk)
      BY <3>1 DEF vars, disk
    <3> QED BY <3>2 DEF LeakInv, Room, Creating, vars, disk, regs, ghost
  <2> QED BY <2>1, LeakStep DEF Durable
<1>3. ASSUME AllInv, LeakInv PROVE LeakBounded
  <2>1. faults \in Nat /\ crashes \in Nat
    BY <1>3 DEF AllInv, IInv, TypeInv, TypeOK
  <2>2. ASSUME pc = "idle" PROVE Room = 0 /\ Cardinality(Lost(fat_buffer)) <= faults + crashes + Room
    BY <1>3, <2>2 DEF LeakInv, Room, Creating
  <2> QED BY <2>1, <2>2 DEF LeakBounded
<1> QED BY <1>1, <1>2, <1>3, AllCorrect, PTL DEF Spec

-----------------------------------------------------------------------------
(* Deletion                                                                *)

\* fat12_delete between the chain, which it frees first, and the entry.
Removing == pc = "unlink" \/ (pc = "fat" /\ after = "unlink")

\* Sound for the files but the one in slot d.
SoundBut(fat, d) ==
  /\ \A s, t \in Files \ {d} : s # t /\ First(s) # 0 => First(s) # First(t)
  /\ \A s \in Files \ {d} : First(s) # 0 =>
       fat[First(s)] # 0 /\ \A c \in Clusters : fat[c] # First(s)
  /\ \A c, e \in Clusters : c # e /\ fat[c] \in Clusters => fat[c] # fat[e]
  /\ \A c \in Clusters : fat[c] \in Clusters => fat[fat[c]] # 0

\* What a deletion relies on and leaves, as long as no disk operation fails.
DeleteInv ==
  faults = 0 =>
    /\ ReadInv
    /\ pc = "delete" => Sound(fat_buffer)
    /\ Removing => slot \in Entries(call.name) /\ SoundBut(fat_buffer, slot)
    /\ pc = "delete" \/ Removing => ~NeverDeletes
    /\ pc # "delete" /\ ~Removing => SharingInv

LEMMA ChainMeans ==
  ASSUME NEW fat, NEW s, NEW x \in Clusters
  PROVE  x \in ChainSet(fat, First(s)) <=> \E k \in Steps : At(fat, s, k) = x
BY DEF ChainSet, At, Steps

\* Freeing the chain of one file keeps the others apart and as they are.
LEMMA FreeOne ==
  ASSUME TypeInv, NEW fat \in [Clusters -> FatEntries], Sound(fat), NEW d \in Files, NEW g,
         \A x \in Clusters : g[x] = IF x \in ChainSet(fat, First(d)) THEN 0 ELSE fat[x]
  PROVE  /\ SoundBut(g, d)
         /\ \A s \in Files \ {d}, k \in Steps : At(g, s, k) = At(fat, s, k)
<1> DEFINE Chain == ChainSet(fat, First(d))
<1>1. \A x \in Clusters : x \in Chain <=> \E k \in Steps : At(fat, d, k) = x
  BY ChainMeans
<1> HIDE DEF Chain
<1>2. \A x \in Clusters : g[x] = IF x \in Chain THEN 0 ELSE fat[x]
  BY DEF Chain
<1>3. ASSUME NEW s \in Files \ {d}, NEW k \in Steps, At(fat, s, k) \in Clusters
      PROVE  At(fat, s, k) \notin Chain
  BY <1>1, <1>3, AtOnce DEF Sound
<1>4. \A s \in Files \ {d} : First(s) # 0 => First(s) \in Clusters /\ First(s) \notin Chain
  <2>1. \A s : At(fat, s, 0) = First(s)
    BY WalkDef DEF At
  <2>2. 0 \in Steps
    BY StepsFacts DEF Steps
  <2> QED BY <1>3, <2>1, <2>2, FirstType
<1>5. ASSUME NEW c \in Clusters, fat[c] \in Clusters, fat[c] \in Chain
      PROVE  c \in Chain
  <2>1. PICK k \in Steps : At(fat, d, k) = fat[c]
    BY <1>1, <1>5
  <2>2. CASE k = 0
    <3>1. fat[c] = First(d) /\ First(d) # 0
      BY <1>5, <2>1, <2>2, WalkDef, ClusterFacts DEF At
    <3> QED BY <3>1 DEF Sound, NoSharing
  <2>3. CASE k # 0
    <3>1. k - 1 \in Steps /\ At(fat, d, k - 1) \in Clusters /\ fat[At(fat, d, k - 1)] = fat[c]
      BY <1>5, <2>1, <2>3, AtBefore
    <3>2. At(fat, d, k - 1) = c
      BY <1>5, <3>1 DEF Sound, NoSharing
    <3> QED BY <1>1, <3>1, <3>2
  <2> QED BY <2>2, <2>3
<1>6. 0 \notin Clusters
  BY ClusterFacts
<1>7. SoundBut(g, d)
  <2>1. \A s, t \in Files \ {d} : s # t /\ First(s) # 0 => First(s) # First(t)
    BY DEF Sound, NoSharing
  <2>2. ASSUME NEW s \in Files \ {d}, First(s) # 0
        PROVE  g[First(s)] # 0 /\ \A c \in Clusters : g[c] # First(s)
    <3>1. fat[First(s)] # 0 /\ \A c \in Clusters : fat[c] # First(s)
      BY <2>2 DEF Sound, NoSharing, LeadsToTaken
    <3> QED BY <1>2, <1>4, <2>2, <3>1
  <2>3. ASSUME NEW c \in Clusters, NEW e \in Clusters, c # e, g[c] \in Clusters
        PROVE  g[c] # g[e]
    BY <1>2, <1>6, <2>3 DEF Sound, NoSharing
  <2>4. ASSUME NEW c \in Clusters, g[c] \in Clusters PROVE g[g[c]] # 0
    <3>1. c \notin Chain /\ g[c] = fat[c]
      BY <1>2, <1>6, <2>4
    <3>2. fat[c] \notin Chain /\ fat[fat[c]] # 0
      BY <1>5, <2>4, <3>1 DEF Sound, LeadsToTaken
    <3> QED BY <1>2, <2>4, <3>1, <3>2
  <2> QED BY <2>1, <2>2, <2>3, <2>4 DEF SoundBut
<1>8. ASSUME NEW s \in Files \ {d}, NEW k \in Steps PROVE At(g, s, k) = At(fat, s, k)
  <2>1. \A j \in Steps : At(fat, s, j) \in Clusters => g[At(fat, s, j)] = fat[At(fat, s, j)]
    BY <1>2, <1>3
  <2> QED BY <2>1, AtSame
<1> QED BY <1>7, <1>8

\* The mark in the entry.
LEMMA RemoveFacts ==
  ASSUME TypeInv, EntryDeleted, slot \in Entries(call.name)
  PROVE  /\ \A s \in Slots : rootDir'[s].state = IF s = slot THEN "deleted" ELSE rootDir[s].state
         /\ \A s \in Slots \ {slot} : rootDir'[s] = rootDir[s]
         /\ Files' = Files \ {slot}
         /\ \A n : Entries(n)' = IF n = call.name THEN Entries(n) \ {slot} ELSE Entries(n)
         /\ \A s \in Files \ {slot} : First(s)' = First(s) /\ \A fat, k : At(fat, s, k)' = At(fat, s, k)
<1>1. \A s \in Slots : rootDir'[s] = IF s = slot THEN [rootDir[s] EXCEPT !.state = "deleted"] ELSE rootDir[s]
  BY DEF EntryDeleted, TypeInv, TypeOK
<1>2. slot \in Slots /\ rootDir[slot].name = call.name /\ slot \in Files
  BY EntriesFiles DEF Entries
<1>3. \A s \in Slots : rootDir'[s].state = IF s = slot THEN "deleted" ELSE rootDir[s].state
  BY <1>1 DEF TypeInv, TypeOK, DirEntries
<1>4. \A s \in Slots \ {slot} : rootDir'[s] = rootDir[s]
  BY <1>1
<1>5. Files' = Files \ {slot}
  BY <1>3 DEF Files
<1>6. ASSUME NEW n PROVE Entries(n)' = IF n = call.name THEN Entries(n) \ {slot} ELSE Entries(n)
  BY <1>2, <1>4, <1>5, EntriesFiles DEF Entries
<1>7. \A s \in Files \ {slot} : First(s)' = First(s)
  BY <1>4, EntriesFiles DEF First
<1> QED BY <1>3, <1>4, <1>5, <1>6, <1>7 DEF At

LEMMA RemoveSound ==
  ASSUME TypeInv, EntryDeleted, slot \in Entries(call.name), NEW fat, SoundBut(fat, slot)
  PROVE  Sound(fat)'
<1>1. Files' = Files \ {slot} /\ \A s \in Files' : First(s)' = First(s)
  BY RemoveFacts
<1>2. NoSharing(fat)'
  BY <1>1 DEF SoundBut, NoSharing
<1>3. LeadsToTaken(fat)'
  BY <1>1 DEF SoundBut, LeadsToTaken
<1> QED BY <1>2, <1>3 DEF Sound

LEMMA RemoveKept ==
  ASSUME TypeInv, EntryDeleted, slot \in Entries(call.name), NEW fat, Kept(fat),
         UNCHANGED <<dataArea, promise>>, promise[call.name] = Unknown
  PROVE  Kept(fat)'
<1>1. ASSUME NEW n \in Names, NEW s \in Files', promise[n] # Unknown, Entries(n)' = {s}
      PROVE  HasText(fat, s, promise[n])'
  <2>1. s \in Files \ {slot} /\ Entries(n) = {s} /\ rootDir'[s] = rootDir[s]
    BY <1>1, RemoveFacts, EntriesFiles
  <2>2. HasText(fat, s, promise[n])
    BY <1>1, <2>1 DEF Kept
  <2>3. \A v, len : Holds(fat, s, v, len) => Holds(fat, s, v, len)'
    BY <2>1, RemoveFacts DEF Holds
  <2> QED BY <2>1, <2>2, <2>3 DEF HasText
<1> QED BY <1>1 DEF Kept

\* When a call has come to its end without a failure, the soundness of the FAT
\* in memory is all there is to it.
LEMMA IdleSharing ==
  ASSUME TypeInv', FlushInv', faults' = 0, pc' = "idle", Sound(fat_buffer)'
  PROVE  SharingInv'
<1>1. fatOnDisk' = fat_buffer'
  BY DEF FlushInv
<1>2. NoSharing(fat_buffer)' /\ LeadsToTaken(fat_buffer)'
  BY DEF Sound
<1>3. NoSharing(fatOnDisk)' /\ LeadsToTaken(fatOnDisk)'
  BY <1>1, <1>2 DEF NoSharing, LeadsToTaken
<1> QED
  BY <1>2, <1>3 DEF SharingInv, NoSharedClusters, ReferencedAllocated, Creating, TypeInv

-----------------------------------------------------------------------------
(* The steps of a deletion                                                 *)

LEMMA StartDelete ==
  ASSUME AllInv, Steady, NEW n \in Names, CallDelete(n), faults = 0
  PROVE  DeleteInv'
<1>1. /\ pc = "idle" /\ pc' = "delete" /\ "delete" \in Ops
      /\ UNCHANGED <<fat_buffer, rootDir>>
  BY DEF CallDelete, Start, Request, disk
<1>2. Sound(fat_buffer)
  BY <1>1 DEF AllInv, IInv, SharingInv, NoSharedClusters, ReferencedAllocated, Sound
<1>3. Sound(fat_buffer)'
  BY <1>1, <1>2 DEF Sound, NoSharing, LeadsToTaken, Files, First
<1>4. ReadInv'
  BY CallRead DEF Call
<1> QED BY <1>1, <1>3, <1>4 DEF DeleteInv, Removing, NeverDeletes

LEMMA ChainDelete ==
  ASSUME TypeInv, DeleteInv, MaxCrashes = 0, DeleteChain, faults = 0
  PROVE  DeleteInv'
<1>1. PICK d \in Slots :
        /\ IsFirst(d, Matches(call.name)) /\ slot' = d
        /\ fat_buffer' = [c \in Clusters |-> IF c \in Freed(d) THEN 0 ELSE fat_buffer[c]]
  BY DEF DeleteChain
<1>2. /\ pc = "delete" /\ pc' = "fat" /\ after' = "unlink"
      /\ UNCHANGED <<fatOnDisk, rootDir, dataArea, call, done, faults, promise>>
  BY DEF DeleteChain, StartFatWrite, disk, ghost
<1>3. d \in Entries(call.name) /\ d \in Files
  BY <1>1 DEF IsFirst, Matches, Entries, Files
<1>4. /\ ReadInv /\ Sound(fat_buffer) /\ ~NeverDeletes /\ fat_buffer \in [Clusters -> FatEntries]
      /\ done = 0 /\ call.name \in Names /\ promise[call.name] = Unknown /\ Kept(fat_buffer)
  BY <1>2 DEF DeleteInv, ReadInv, InWrite, TypeInv, TypeOK
<1>5. \A x \in Clusters : fat_buffer'[x] = IF x \in ChainSet(fat_buffer, First(d)) THEN 0 ELSE fat_buffer[x]
  BY <1>1 DEF Freed, First
<1>6. ASSUME NEW fat, fat = fat_buffer, NEW g, g = fat_buffer'
      PROVE  /\ SoundBut(g, d)
             /\ \A s \in Files \ {d}, k \in Steps : At(g, s, k) = At(fat, s, k)
  BY <1>3, <1>4, <1>5, <1>6, FreeOne
<1>7. ASSUME NEW fat, fat = fat_buffer, NEW g, g = fat_buffer' PROVE Kept(g)'
  <2>1. Kept(fat)'
    BY <1>2, <1>4, <1>7, KeptSame
  <2>2. \A s \in Files : s \notin Entries(call.name) => \A k \in Steps : At(g, s, k) = At(fat, s, k)
    BY <1>3, <1>6, <1>7
  <2>3. promise'[call.name] = Unknown
    BY <1>2, <1>4
  <2> QED BY <1>2, <2>1, <2>2, <2>3, KeptFat
<1>8. Good' /\ faults' <= MaxFaults /\ PromiseFn'
  BY <1>2, <1>4, <1>7, SameDirOrder, FaultCount, PromiseSame DEF Good, Covered
<1>9. ReadInv'
  BY <1>2, <1>4, <1>8, FatRead
<1>10. SoundBut(fat_buffer, slot)'
  <2>1. SoundBut(fat_buffer', d)
    BY <1>6
  <2> QED BY <1>1, <1>2, <2>1 DEF SoundBut, Files, First
<1>11. (slot \in Entries(call.name))'
  BY <1>1, <1>2, <1>3, FilesSame
<1> QED BY <1>2, <1>4, <1>9, <1>10, <1>11 DEF DeleteInv, Removing

\* write_fat_table on the way to the entry.
LEMMA FatDelete ==
  ASSUME TypeInv, DeleteInv, MaxCrashes = 0, Removing, faults = 0,
         WriteFatSector \/ WriteLastFatSector
  PROVE  DeleteInv'
<1>1. /\ pc = "fat" /\ after = "unlink"
      /\ (pc' = "fat" /\ after' = "unlink") \/ pc' = "unlink"
      /\ UNCHANGED <<fat_buffer, rootDir, dataArea, call, slot, done, faults, promise>>
  BY DEF Removing, WriteFatSector, WriteLastFatSector, ghost
<1>2. /\ ReadInv /\ slot \in Entries(call.name) /\ SoundBut(fat_buffer, slot) /\ ~NeverDeletes
      /\ done = 0 /\ call.name \in Names /\ promise[call.name] = Unknown
  BY <1>1 DEF DeleteInv, ReadInv, InWrite
<1>3. Good' /\ faults' <= MaxFaults /\ PromiseFn'
  BY <1>1, <1>2, GoodSame, FaultCount, PromiseSame
<1>4. ReadInv'
  BY <1>1, <1>2, <1>3 DEF Good, PromiseFn, ReadInv, InWrite, Creating
<1>5. SoundBut(fat_buffer, slot)'
  BY <1>1, <1>2 DEF SoundBut, Files, First
<1>6. (slot \in Entries(call.name))'
  BY <1>1, <1>2, FilesSame
<1> QED BY <1>1, <1>2, <1>4, <1>5, <1>6 DEF DeleteInv, Removing

LEMMA EntryDelete ==
  ASSUME TypeInv, DeleteInv, TypeInv', FlushInv', DeleteEntry, faults = 0
  PROVE  DeleteInv'
<1>1. /\ pc = "unlink" /\ pc' = "idle" /\ Return /\ EntryDeleted
      /\ UNCHANGED <<fat_buffer, dataArea, faults, promise>>
  BY DEF DeleteEntry, Return, ghost
<1>2. /\ ReadInv /\ slot \in Entries(call.name) /\ SoundBut(fat_buffer, slot) /\ ~NeverDeletes
      /\ promise[call.name] = Unknown /\ Kept(fat_buffer) /\ DirOrder
  BY <1>1 DEF DeleteInv, Removing, ReadInv
<1>3. ASSUME NEW fat, fat = fat_buffer PROVE Sound(fat)' /\ Kept(fat)'
  BY <1>1, <1>2, <1>3, RemoveSound, RemoveKept
<1>4. Sound(fat_buffer)'
  <2>1. ASSUME NEW fat, fat = fat_buffer, Sound(fat)' PROVE Sound(fat_buffer)'
    BY <1>1, <2>1 DEF Sound, NoSharing, LeadsToTaken
  <2> QED BY <1>3, <2>1
<1>5. DirOrder'
  <2>1. \A s \in Slots : rootDir'[s].state = IF s = slot THEN "deleted" ELSE rootDir[s].state
    BY <1>1, <1>2, RemoveFacts
  <2>2. rootDir[slot].state = "file"
    BY <1>2 DEF Entries, Files
  <2>3. \A s, t \in Slots : t < s /\ rootDir'[t].state = "end" => rootDir'[s].state = "end"
    BY <1>2, <2>1, <2>2 DEF DirOrder
  <2> QED BY <2>3 DEF DirOrder
<1>6. Good'
  BY <1>1, <1>2, <1>3, <1>5 DEF Good, Covered
<1>7. ReadInv'
  BY <1>1, <1>2, <1>6, FaultCount, PromiseSame, ReturnRead
<1>8. SharingInv'
  BY <1>1, <1>4, IdleSharing
<1> QED BY <1>1, <1>7, <1>8 DEF DeleteInv, Removing

LEMMA NotFoundDelete ==
  ASSUME TypeInv, DeleteInv, TypeInv', FlushInv', DeleteNotFound, faults = 0
  PROVE  DeleteInv'
<1>1. /\ pc = "delete" /\ pc' = "idle" /\ Return
      /\ UNCHANGED <<fat_buffer, rootDir, dataArea, faults, promise>>
  BY DEF DeleteNotFound, Return, disk, ghost
<1>2. ReadInv /\ Sound(fat_buffer)
  BY <1>1 DEF DeleteInv
<1>3. Sound(fat_buffer)'
  BY <1>1, <1>2 DEF Sound, NoSharing, LeadsToTaken, Files, First
<1>4. ReadInv'
  BY <1>1, <1>2, GoodSame, FaultCount, PromiseSame, ReturnRead
<1>5. SharingInv'
  BY <1>1, <1>3, IdleSharing
<1> QED BY <1>1, <1>4, <1>5 DEF DeleteInv, Removing

\* Failures are counted, so none has happened before a state without any.
LEMMA FaultsGrow ==
  ASSUME TypeInv, Next, faults' = 0
  PROVE  faults = 0 /\ ~Fault
<1>1. faults' = faults \/ Fault
  BY Zenon
  DEF Next, Call, CallCreate, CallDelete, CallWrite, Start, Kernel, Write, OpenFound, OpenFails,
      WriteDataNext, WriteDataExtend, WriteDataFull, WriteDataFails, WriteDataDone, WriteNothing,
      UpdateSize, UpdateSizeFails, Create, CreateAllocate, CreateFull, CreateReadFault, ReadFault,
      CreateEntry, CreateEntryForWrite, CreateEntryFails, Delete, DeleteChain, DeleteNotFound,
      DeleteReadFault, DeleteEntry, DeleteEntryFails, FatWrite, WriteFatSector, WriteLastFatSector,
      WriteFatSectorFails, Crash, Boot, BootFails, ghost
<1> QED BY <1>1 DEF Fault, TypeInv, TypeOK

\* The steps where a deletion is.
LEMMA DeletePc ==
  ASSUME TypeInv, Next, MaxCrashes = 0, ~Fault
  PROVE  /\ pc = "delete" => DeleteChain \/ DeleteNotFound
         /\ Removing => DeleteEntry \/ WriteFatSector \/ WriteLastFatSector
<1>1. ~Crash
  BY DEF Crash, TypeInv, TypeOK
<1>2. ASSUME pc \in {"delete", "unlink", "fat"}
      PROVE  ~Call /\ ~Write /\ ~Boot /\ ~BootFails
  BY <1>2
  DEF Call, CallCreate, CallDelete, CallWrite, Start, Write, OpenFound, OpenFails,
      WriteDataNext, WriteDataExtend, WriteDataFull, WriteDataFails, WriteDataDone, WriteNothing,
      UpdateSize, UpdateSizeFails, Boot, BootFails
<1>3. ASSUME pc \in {"delete", "unlink", "fat"}
      PROVE  ~Create
  BY <1>3
  DEF Create, CreateAllocate, CreateFull, CreateReadFault,
      CreateEntry, CreateEntryForWrite, CreateEntryFails
<1>4. ~DeleteReadFault /\ ~DeleteEntryFails /\ ~WriteFatSectorFails
  BY DEF DeleteReadFault, ReadFault, DeleteEntryFails, WriteFatSectorFails
<1>5. ASSUME pc \in {"delete", "unlink", "fat"}
      PROVE  DeleteChain \/ DeleteNotFound \/ DeleteEntry \/ WriteFatSector \/ WriteLastFatSector
  BY <1>1, <1>2, <1>3, <1>4, <1>5 DEF Next, Kernel, Delete, FatWrite
<1> QED
  BY <1>5 DEF DeleteChain, DeleteNotFound, DeleteEntry, WriteFatSector, WriteLastFatSector, Removing

LEMMA DeleteStep ==
  ASSUME MaxCrashes = 0, TypeInv, FlushInv, DeleteInv, Next, TypeInv', FlushInv'
  PROVE  DeleteInv'
<1>0. SUFFICES ASSUME faults' = 0 PROVE DeleteInv'
  BY DEF DeleteInv
<1>1. faults = 0 /\ ~Fault
  BY <1>0, FaultsGrow
<1>2. CASE pc = "delete"
  BY <1>1, <1>2, DeletePc, ChainDelete, NotFoundDelete
<1>3. CASE Removing
  BY <1>1, <1>3, DeletePc, FatDelete, EntryDelete
<1>4. CASE pc # "delete" /\ ~Removing
  <2>1. AllInv /\ IInv /\ Steady /\ Whole
    BY <1>1, <1>4 DEF DeleteInv, AllInv, IInv, Steady, Whole
  <2>2. ASSUME NEW n \in Names, CallDelete(n) PROVE DeleteInv'
    BY <1>1, <2>1, <2>2, StartDelete
  <2>3. ASSUME \A n \in Names : ~CallDelete(n) PROVE DeleteInv'
    <3>1. SharingInv'
      BY <2>1, <2>3, CallSharing, WriteSharing, CreateSharing, DeleteSharing, DiskSharing
      DEF Next, Kernel
    <3>2. ReadInv'
      BY <2>1, CallRead, WriteStepRead, CreateStepRead, DeleteSharing, DiskStepRead
      DEF Next, Kernel
    <3>3. pc' # "delete" /\ ~Removing'
      BY <3>1 DEF SharingInv, Removing
    <3> QED BY <3>1, <3>2, <3>3 DEF DeleteInv
  <2> QED BY <2>2, <2>3
<1> QED BY <1>2, <1>3, <1>4

LEMMA DeleteAlways == ASSUME MaxCrashes = 0 PROVE Spec => [](TypeInv /\ FlushInv /\ DeleteInv)
<1>1. Init => TypeInv /\ FlushInv /\ DeleteInv
  BY TypeInvInit, SharingInit, ReadInit DEF Init, FlushInv, DeleteInv, Removing
<1>2. TypeInv /\ FlushInv /\ DeleteInv /\ [Next]_vars => (TypeInv /\ FlushInv /\ DeleteInv)'
  <2>1. ASSUME TypeInv, FlushInv, DeleteInv, UNCHANGED vars PROVE DeleteInv'
    <3>1. pc' = pc /\ (Removing' <=> Removing) /\ UNCHANGED <<faults, fat_buffer, rootDir, slot, call>>
      BY <2>1 DEF vars, disk, regs, ghost, Removing
    <3>2. SharingInv => SharingInv'
      BY <2>1, SharingQuiet DEF IInv
    <3>3. ReadInv => ReadInv'
      BY <2>1, ReadQuiet
    <3>4. (Sound(fat_buffer) => Sound(fat_buffer)') /\ (SoundBut(fat_buffer, slot) => SoundBut(fat_buffer, slot)')
      BY <3>1 DEF Sound, NoSharing, LeadsToTaken, SoundBut, Files, First
    <3>5. slot \in Entries(call.name) => (slot \in Entries(call.name))'
      BY <3>1, FilesSame
    <3> QED BY <2>1, <3>1, <3>2, <3>3, <3>4, <3>5 DEF DeleteInv
  <2>2. FlushInv /\ UNCHANGED vars => FlushInv'
    BY DEF FlushInv, vars, disk, regs, ghost
  <2> QED BY <2>1, <2>2, TypeInvStep, FlushStep, DeleteStep
<1> QED BY <1>1, <1>2, PTL DEF Spec

\* With deletion, as long as neither the disk nor the power fails: when a call has
\* returned, no cluster is shared or free while a file leads to it, and files hold
\* what was written to them, whatever other files were deleted and however often
\* their clusters were used again.
THEOREM DeletedCorrect == ASSUME MaxCrashes = 0 PROVE Spec => []SoundUntilFault
<1>1. ASSUME TypeInv, DeleteInv PROVE SoundUntilFault
  <2>1. ASSUME pc = "idle", faults = 0 PROVE SharingInv /\ ReadInv
    BY <1>1, <2>1 DEF DeleteInv, Removing
  <2>2. ASSUME pc = "idle", ReadInv PROVE ReadBack
    BY <1>1, <2>2, KeptRead DEF ReadInv
  <2> QED BY <2>1, <2>2 DEF SoundUntilFault, SharingInv
<1> QED BY <1>1, DeleteAlways, PTL
============================================================================
