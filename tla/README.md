# SantOS in TLA+

TLA+ models of the SantOS kernel, its shell and its editor: what their parts
promise, checked with TLC on small instances and, for most of what the runs
check, proved with TLAPS for every size. `PROJECT.json` lists the runs, the lines
of code each definition stands for, the mutants that show each property can fail,
the hazards of the code and the theorems.

## The system

SantOS is a kernel in C for x86_64, its boot loaders, and a few programs. One
program runs at a time, in the kernel's address space; it enters the kernel
through `int 0x80`, whose gate turns interrupts off. Three interrupts exist:
the timer (1 kHz), the keyboard and the floppy controller. There are no
threads, so concurrency is between the program (or the call it made) and the
handlers, and between the machine and its power supply.

| Part | Files | State | Operations |
|---|---|---|---|
| FAT12 file system | `src/fat12.c` | FAT in memory; FAT, directory and data on the floppy | init, open, read, write, create, delete, update_size, listings |
| System calls | `src/syscall.c`, `src/syscall_asm.asm` | one saved screen | READ_FILE, WRITE_FILE, CREATE_FILE, GETCHAR, EXEC_PROGRAM, forwarding calls |
| Kernel heap | `src/heap.c` | free list, block headers | malloc, calloc, free, realloc, heap_stats |
| Keyboard | `src/keyboard.c` | ring of characters, modifiers | IRQ1 handler, available, getchar |
| Floppy controller | `src/fdc.c` | IRQ6 flag, motor, DMA buffer | reset, seek, read_sectors, write_sectors |
| Timer | `src/timer.c` | ticks | IRQ0 handler, wait, sleep |
| Physical memory | `src/memory.c` | page bitmap, count of free pages | init, alloc_page(s), free_page(s), E820 parsing |
| Virtual memory | `src/vmm.c` | page tables | map, unmap, ranges, lookup |
| ATA | `src/ata.c` | none | detect, read, write, by polling |
| Loader, exec | `src/loader.c`, `programs/lib/stdio.c` | program image at a fixed address | load_program, execute, exec with a saved caller |
| Kernel start | `kernel.c` | active disk | the order of initialisation |
| Shell | `programs/shell/shell.c` | line, history, variables, block collector, stream buffer | line editor, blocks, scripts, pipelines |
| SEdit, sasm | `programs/sedit`, `programs/sasm` | text buffer, cursor; output buffer | edit, load, save; assemble |

(Paths are those below the repository's root, which is `src/` here.) The
components not modelled, and why, are in `PROJECT.json`.

How they interact: the shell and the programs call the kernel; file calls go to
the FAT12 driver, which reads and writes single sectors through the floppy
driver and waits for its interrupt; GETCHAR sleeps until the keyboard's handler
has put a character into the ring; the loader takes memory from the heap and
files from the FAT12 driver; page tables come from physical memory.

What is hard to test, and what must hold:

* **File system.** An operation of the floppy fails in the middle of a call,
  and the calls after it go on with what memory holds; power fails between two
  sector writes; names, slots and clusters are reused. No cluster may belong to
  two files, what was written must read back, and space must not leak.
* **Heap.** Splitting at boundaries, long sequences of calls. Blocks must tile
  the heap, the free list must be exact, callers' regions must be apart.
* **Keyboard.** The handler between any two steps of getchar; a full ring; a key
  between the test and the `hlt`; prefixes and modifiers that outlive their key.
* **Floppy.** Time-outs against late interrupts; a command left in the middle. A
  call that succeeds must have done its work, and every call must return.
* **Memory.** Contiguous allocation under fragmentation; rollback of ranges.
* **Shell.** Pipelines in scripts in pipelines over one global stream; early ends
  of both; a script that starts itself; a line on the screen edited in its middle;
  two arrays of variables in step. Whatever a line takes it must give back.
* **Editor.** Lines split, merged and shifted at the limits of the array; loads
  and saves that lose a part. The array must stay the text the user edits.

## Modules

| Module | Models | Notes |
|---|---|---|
| `Fat12` | FAT12 driver under CREATE_FILE, WRITE_FILE, READ_FILE; fat12_delete, fat12_init | TLC instances in `Fat12MC`, theorems in `Fat12Proofs` |
| `HeapSpec` | what callers of the heap rely on | abstract |
| `Heap` | `src/heap.c` | implements `HeapSpec`; theorems in `HeapProofs` |
| `Pmem` | `src/memory.c`, the choice of the region in `kernel.c` | memory maps for TLC in `PmemMC`, theorems in `VmmProofs` |
| `AddressSpace` | what callers of the memory manager rely on | abstract |
| `Vmm` | `src/vmm.c` on top of `Pmem` | implements `AddressSpace`; TLC instances in `VmmMC`, theorems in `VmmProofs` |
| `KeyQueue` | what readers of the keyboard rely on | abstract |
| `Keyboard` | `src/keyboard.c`, GETCHAR, the interrupt flag | implements `KeyQueue`; theorems in `KeyboardProofs` |
| `SectorStore` | what the file system relies on when it reads and writes sectors | abstract |
| `Fdc` | `src/fdc.c`, the controller it drives, IRQ6 and the timer's interrupt | implements `SectorStore`; calls for TLC in `FdcMC`, theorems in `FdcProofs` |
| `TextBuffer` | one text with a point in it | abstract |
| `SEdit` | `SEdit.c` | implements `TextBuffer`; first files for TLC in `SEditMC`, theorems in `SEditProofs` |
| `LineEditor` | the prompt of `shell.c`, vga_putchar | theorems in `LineEditorProofs` |
| `VariableStore` | a map from names to texts | abstract |
| `Variables` | the variables of `shell.c` and their arithmetic | operators; implements `VariableStore` in `Shell` |
| `Interpreter` | lines, pipelines, commands, scripts, blocks and programs of `shell.c` | |
| `Shell` | `Interpreter` and `Variables` together | lines for TLC in `ShellMC`, theorems in `ShellProofs` |

`Fat12` takes from the floppy driver that a sector operation succeeds or fails:
that a call which succeeds has done its work is what `SectorStore` promises and
`Fdc` is checked to keep. A write of `Fat12` that fails may or may not have
reached the medium; `SectorStore` shows the case `Fat12` leaves out, that it
reaches it after the call has returned (never after another call succeeded).

### Fat12

The kernel serves one call at a time, so a call is a state machine over `pc`:
`open`, `create`, `entry`, `data`, `size` for WRITE_FILE, `create`, `entry` for
CREATE_FILE, `delete`, `unlink` for fat12_delete. Each sector written is one
step. `fat` is write_fat_table, one step per FAT sector, which goes on at
`after`. What happens in memory between two sector writes belongs to the step
of the write. A failing read ends the call; a failing write may or may not have
reached the medium. `Crash` may come between any two steps and leaves the disk
as it is; `Boot` is fat12_init.

`fat_buffer` is the FAT in memory and `fatOnDisk` the first copy on the floppy;
the code never writes the second one. Sizes count sectors, with one sector per
cluster as on the floppy the build makes. Clusters from `LastDisk + 1` to
`LastScan` are those find_free_cluster scans and the disk does not have: writes
to them fail. Contents are pairs of a value and a position, so that a sector in
the wrong place shows. `promise` is a ghost: for each name, what the last call
on it, if it was successful, entitles its caller to read back. A call on the
name makes it `Unknown` until the call succeeds.

Deletion is an operation of the driver that no system call reaches yet; the
constant `Ops` says which calls are made.

### Heap

Units of 8 bytes: a header is 3 units, the alignment 2. A block is named by the
address of its header, `size` gives the blocks the heap is cut into, `free_list`
is the list in its order, and `held` (ghost) is the pointers callers hold and how
much they asked for. `align_size` and calloc's product wrap at `SizeRange`. Callers
free only what they hold, so the check of the magic number always succeeds and
is left out. `held` is also the state of `HeapSpec`. `HeapInv` is inductive;
`StatsExact`, the sum heap_stats walks up, follows from it.

### Pmem and Vmm

Everything is counted in pages. `used` is the set of pages whose bit is set,
`memory_start` the address of the bitmap, and `owners` (ghost) counts how often a
page has been handed out. A call is one step, but for pmem_alloc_pages, whose
recursion is `AllocPagesAgain`; `depth` counts its levels, and at `MaxDepth` the
stack is gone. Callers free pages they hold, singly or several at once, and pages
that are free already, which the code tolerates.

A page is known by its number in the bitmap, and that is also its address:
pmem_alloc_page does not add `memory_start`. So the pages pmem_init marks as the
bitmap's (`MarkedPages`) are the first ones of memory, and those where the bitmap
lies (`BitmapPages`) are handed out like any other, as are pages that are in use by
others (`Occupied`) or no memory. The model allows all of it: the memory maps of the
run lead to each. `Spoilt` says that it has happened, and the model ends there, as
what is written to such a page may change the bits or the tables.

`tables` is memory read as page tables, so a table is the contents of a page
that `Pmem` hands out, and pages hold `Garbage` until they are cleared. Mapping
or unmapping one page is a step, a range a loop of them with the rollback of
vmm_map_pages. The processor may keep a translation at any moment (`Translate`),
and forgets it only by a flush. The boot loader's tables are pages 1 to 3. A bitmap
marks them when it takes more than three pages, from 384MB on; with the 128MB of
`make run` page 1, the root, is the first page handed out, and the state is `Spoilt`
at once. What is claimed of translations and tables is claimed until then.

### Keyboard

A key sends codes when pressed and released; the codes wait in `pending` until
interrupts are on. Each code carries, for the properties only, the character the
user means by it. The handler is one step, because it runs with interrupts off;
keyboard_getchar is five: the `sti` of the system call, the test, the `hlt`, the
read of the slot and the step of the index. Any interrupt ends a `hlt`. Keys are
reduced to classes: both modifiers, a letter, a digit, a key beyond the end of
the shift table, an arrow. The build uses no optimisation, so the non-volatile
accesses to the ring keep their place between the volatile ones to its indices.

### Fdc

The driver is a state machine over `drv.pc`: it sends the bytes of a command one
by one (`send`), waits for IRQ6 (`test`, `halt`, `hlt`), asks for the interrupt's
cause (`sense`), and reads results (`result`) until it is `done`; `drv.stage` says
for which command. The two handlers run between any two of these steps while
interrupts are on, before the next step if they are pending, and `sti; hlt` lets
none in between its halves. A call from a program begins with interrupts off, one
from the kernel's start with interrupts on. Each polling loop ends when the
controller is ready, or at any time because it has counted to its end.

The controller is external, modelled as the driver uses it: it takes opcode,
address and parameters (one byte stands for each), executes, raises IRQ6, and
holds results until they are read or it is reset. It may fail a transfer, be
late, or never answer. What it takes a byte for depends on where it is, so bytes
meant for a new command complete the old one if that was left in the middle.
`faults` counts how often the driver gave up on a controller that was ready or at
work.

### SEdit

`lines` is the array and its length line_count; a key is an action, with one for
each branch of its code (`KeyLeft`, `KeyLeftWraps`). `Save` writes what fits in
the editor's buffer, and write_file then reports all of it; `SaveFails` is a
write that stopped somewhere, and leaves old text, new text or some of both (a
sector holds one byte here). The case in which the file system updates the wrong
entry belongs to `Fat12`. `Quit` throws the program's memory away and `Start` loads the file
again, so the state between runs is the file. `lost` (ghost) says that the last
load or save was not of the whole text. A file of more lines than the array holds
is cut (`Loaded`): when its last byte is a newline, load_file ends a line behind the
array, and the byte it writes there is the low one of line_count in this build (gcc
puts line_count directly behind `lines`), so that 1000 lines become 769. `BYTE` is how
many values a byte has. `Text` and the point of `TextBuffer` are
computed from the array and the cursor. `Split` reads a file byte by byte behind
an empty line; `ReadBehind` is the same behind any lines, which is what its proof
needs.

### LineEditor

The array, cursor and history of shell_main, and one row of the screen with the
column of its cursor; `Printed` is the row after a sequence of characters. `entered` (ghost) is the last lines entered. The screen's
cursor never goes up, and rows below are blank, so a row that wraps is replaced
by a blank one. A line that reaches MAX_INPUT - 1 ends the loop without being
run: that too is in the code.

### Interpreter, Variables and Shell

`Meaning` maps a line to its segments, so parsing is left out and what is kept is
what the commands do to the global state: the stream and its length, find_term,
piping, pipe_remaining, the block collector. Functions that call each other are
`frames`: a script's loop, a pipeline's loop. `allocated` counts the blocks of the
heap that grow with the depth of calls: copies of pipelines, of scripts, of their
lines, the loader's buffer; each allocation may fail. The stack of the shell is the
kernel's, which `boot2.asm:405` calls 16KB; nothing checks it, and a script within a
script takes about 2KB of it. `MaxScripts` is how many fit; a line run within more is
`StackOverruns`, after which the model stops. The stream holds whose bytes
are in it, not the bytes; data and terms become `old` when the shell is back at
its prompt (ghost). A file that cannot be read to its end may have left its first
sectors in the stream: `CatLeaves`.

A block's header is copied after strtok has cut the command at its first space,
so `execute_block` finds one word and returns; its loops are not modelled.

`Variables` keeps texts as sequences of characters, as numbers are texts; `DIGITS`
gives the base and `INT_BITS` the width, so that overflow happens.

## Runs

| Run | Question | Result |
|---|---|---|
| `fat12_faults` | what do failing disk operations break? | nothing of: types, no sharing, references are taken, read back, sizes within chains, one cluster lost per failure, memory and disk agree until one fails |
| `fat12_crash` | what does power loss break, with one FAT sector? | nothing of: the inductive strengthening of no sharing, read back of files that no call was working on; every call returns and every boot succeeds in the end |
| `fat12_torn` | and when half a FAT may be on the disk? | first clusters are still taken on the disk and apart |
| `fat12_delete` | does deletion return exactly the file's clusters? | yes, until a disk operation fails; then one cluster is lost at most |
| `fat12_retry` | is what WRITE_FILE reports on the disk? | no: not when an earlier FAT write failed |
| `heap` | is the heap's bookkeeping exact, and does it implement `HeapSpec`? | yes |
| `memory` | are ranges mapped whole or not at all, are translations flushed, is no page lost or held twice? | yes, until a page that is in use is handed out (ranges, counts and accounts until the model ends there) |
| `keyboard` | is the ring a queue, is what arrives what was meant, and does a waiting getchar return? | yes, with one key per modifier, and thanks to the timer |
| `floppy` | does a call that succeeds do its work, however late interrupts are, and does every call return? | yes; that the work is done, until the driver has given up a second time on a controller at work |
| `sedit` | is the array a text, is the cursor visible, and is an unmodified text the one on the disk? | yes; an unmodified text is the file's unless a load or save lost a part |
| `shell_line` | does the screen show the line, and the history the lines entered? | yes, until a line reaches the end of its row |
| `shell` | does every line end, clean up and leave its pipeline; are the variables a map and sums right? | yes, but for scripts that run over the stack and the sum that is the least int |

Properties worth an explanation:

* `ReadBack` compares a walk of the FAT in memory with `promise`, for names that
  have one entry in the directory; names get two because fat12_create does not
  look for the name.
* `LeakBounded` counts the clusters that are taken and that no file leads to
  against the failures so far: zero without failures.
* `TypedAsMeant` compares each character stored with the one meant when the key
  went down, possibly several interrupts and calls earlier.
* `HeldFits` is checked for requests that leave room to round up. For a size
  within 15 of the largest size_t, align_size wraps and malloc returns a block
  of size 0.
* `ScanInBitmap` says why pmem_alloc_pages needs no test for the end of the
  bitmap: all free pages lie at or after the first one, so a run that leaves the
  bitmap would be longer than there are free pages. It rests on `CountExact`.
* `FdcInv` holds `NoStaleTransfer`: a command left by an earlier call never moves
  data through the buffer that now holds this call's.
* `SectorsDone` is the refinement: medium and replies are those of `SectorStore`,
  whose `late` writes are the ones a controller may still do for a failed call.
* `PagesAccounted` says that the bits set are those pmem_init marked and those of
  the pages handed out, each to one caller. It does not say that these pages are
  anybody's to hand out: see `Spoilt`.
* `TlbCoherent` and `TablesAreTree` end where a page in use has been handed out.
* `LineEnds` lets a line end at the prompt, with exit, or by running over the stack.
* `UnmodifiedUnlessLost` compares the array with the file as it would be loaded.
* `CallsCleanUp` counts the blocks each running call must hold; `PipelineOwnData`
  says that whatever a pipeline reads or highlights was put there by its own line.
* `AddsUp` compares the text that add and sub leave, read as a number again, with
  the sum in the width of an int.
* `RangesWhole` is `AddressSpace` under a refinement mapping: while a call runs,
  callers still see the translations it began with.

Bounds. A disk of 3 or 4 clusters with one or two more that do not exist, two
or three slots, writes of up to two sectors: enough for a chain to be extended,
for the disk and the directory to be full, for two names and a shadowed one, and
for a FAT split over two sectors with links across. Two failures, or two power
losses, let a second one hit the recovery from the first. The heap of 25 units
holds up to five blocks, and the request sizes sit on both sides of each
rounding and split boundary. A ring of 3 holds two characters, so it is
empty, partly filled, full and wrapped within four strokes. `fat12_delete` has
one value to write: what it adds is reuse, not content. `memory` has
six maps (`PmemMC`), which give 4 or 8 pages: regions that start inside an area, at the lowest
address and from the fallback; one in which page 2, a boot table, is handed out
first; one whose last page is the bitmap's; one with a page that is no memory; an area
that ends below the region, whose size wraps, and one above 4GB. Of tables with two
entries the four virtual pages need up to three new ones, so a range of three runs out
of memory at any level, starts or ends in the boot loader's huge page, or meets a page
that is mapped. One translation kept is enough for it to
be stale. `floppy` has two tracks of two sectors, so a read spans a track, a
write ends in the middle of its sectors, and seeks go to both; three result
bytes are more than the two of a sense; two `hlt`s let an interrupt come before,
between and after them. `MaxFaults` is 1: see below. `sedit` has an array of
three lines of two characters, a window smaller than either, and a buffer that the
longest texts and one of the first files exceed; another first file has more lines
than the array, and `BYTE` is 4 so that the count it leaves differs from the array's length. `shell_line` has a row that the longest line wraps, a
line that reaches its buffer's end, and a ring of two that wraps. `shell` has
memory for six blocks and a stack for two scripts, so that a script that starts
itself, alone or within a pipeline, fails at each kind of allocation or runs over
the stack; lines of up to five segments of
which four run; blocks of two lines; ints of three bits and two digits;
and three names for
two variables. `MaxNesting`, `MaxPages` and `MaxText` bound how many blocks the user opens
in a block, how long a text the viewer shows is, and how long a variable may be
for the user to lengthen it.

`CHECK_DEADLOCK FALSE` is set for `shell`, because the shell may exit.

Fairness. `Fat12` assumes weak fairness of `Kernel`: the code runs once called.
Callers, failures and power losses get none. `Keyboard` assumes that getchar's
steps are taken, that an interrupt raised while interrupts stay on is taken, and
that the timer ticks; typing and calling are free.
`Fdc` assumes that the driver runs, that a pending IRQ6 is taken and that the
timer ticks; of the controller it assumes nothing, so `CallsReturn` holds even if it
never answers. `Shell` assumes that the interpreter runs on, that a program
started ends and that the user leaves the viewer; what is typed at the prompt is free.

### Where the code does not do what one would expect

Met while modelling. The first is a run that expects a violation; the others
are what the models say or leave out, each with its hazard in `PROJECT.json`.

* A write that is tried again after a failed FAT write succeeds without the link
  ever reaching the disk (`fat12_retry`).
* WRITE_FILE takes any failure of fat12_open for a missing file
  (`src/syscall.c:174`): after a read error it makes a second entry for the name,
  reports success, and the file reads back wrong.
* fat12_create on a full disk succeeds with a cluster that does not exist
  (`src/fat12.c:90`).
* pmem_init marks the first pages as the bitmap's (`src/memory.c:143`), which lies at
  `memory_start` (136); pmem_alloc_page returns page * 4096 (185). So pages of the
  bitmap, of the boot loader's tables, of the kernel and the programs, and pages that
  are no memory are handed out.
* pmem_alloc_pages calls itself for ever when the first free run is too short
  (`src/memory.c:210`); kernel_main cuts the start of a region above 4GB to 32
  bits (`kernel.c:61`), and the size of one that ends below 8MB wraps.
* After two time-outs of commands that were still at work the floppy driver can
  report success for a sector it never wrote: results left over are taken for the
  next command's. That is why `SectorsDone` stops at `MaxFaults`. The motor stays on
  after fdc_init and after a write that fails in its middle (`src/fdc.c:386`), although the
  repository's README speaks of "Automatic motor on/off" (`README.md:327`).
* SEdit cuts a text that is longer than its buffer and says "Saved!"
  (`SEdit.c:230`), leaves a mix of old and new text when a save fails, opens a
  file it cannot read as an empty one (`SEdit.c:294`), and, for a file with too many
  lines, writes behind its array and into line_count (`SEdit.c:209`), which drops
  more lines than it has to. Its own saved files gain an empty line at each load.
* A block of the shell whose body holds a block of another kind never closes
  (`shell.c:132`), and no block ever runs (`shell.c:1148`). A line of a block of 128
  characters or more runs over its buffer.
* A script that starts itself runs over the kernel's stack after about 7 levels of
  2KB (`boot2.asm:405`, `shell.c:487`), down to the DMA buffer at 0x20000 (`src/fdc.c:67`)
  before it has used up a heap of 1MB.
* A line of the prompt that reaches the end of its row is shown wrongly
  (`vga.c:81`); one of 255 characters is dropped.
* The least int is written as "-" (`shell.c:317`), and `$X+=5` appends where the
  shell's Readme says "Add number" (`programs/shell/Readme.MD:56`); there are 32 variables where it
  says 100.

## Proofs

A theorem holds for every value of the constants that satisfies the module's
assumption (`Fat12Assumption`, `HeapAssumption`, ...): positive sizes, and codes
or characters that differ. Where it needs more, that is a named hypothesis, given
with its reason below. The listed runs check the same properties, and each
module's assumption, on small instances.

The shape is the same everywhere. The property is not inductive; an invariant
adds what a call knows between two of its steps; one lemma per action (or per
group that changes the same variables) shows that a step keeps it; the theorem
puts them together. Operators that recurse over data (`Walk`, `Joined`, `Split`,
`Printed`) are recursive functions, and their lemmas go by the least number that
has no proof (`NatHasLeast` and the like), because the induction rules of the
library cannot be instantiated here.

| Module | Theorems | State, of the runs' properties |
|---|---|---|
| `Fat12Proofs` | `TypeCorrect`, `SharingCorrect`, `SharedNever`, `ReferencedNeverFree`, `CoherentCorrect`, `FirstCorrect`, `AllCorrect`, `ReadBackCorrect`, `SizeCorrect`, `LeakCorrect`, `DeletedCorrect` | `TypeOK`, `SharingInv` with its parts `NoSharedClusters` and `ReferencedAllocated`, `FatCoherent`, `FirstClusterOnDisk`, `ReadBack`, `SizeCovered`, `LeakBounded`, `SoundUntilFault` |
| `HeapProofs` | `HeapCorrect`, `FitsCorrect`, `StatsCorrect`, `RegionsCorrect` | `HeapInv`, `HeldFits`, `StatsExact`, and `Regions`, that `Heap` implements `HeapSpec` |
| `VmmProofs` | `PmemCorrect`, `CountCorrect`, `PagesCorrect`, `ScanCorrect`, `RegionCorrect` on `Pmem`; `VmmCorrect`, `TlbCorrect`, `TreeCorrect`, `TablesAccounted`, `RangesCorrect` on `Vmm` | `CountExact`, `PagesAccounted`, `ScanInBitmap`, `TlbCoherent`, `TablesAreTree`, and `RangesWhole`, that `Vmm` implements `AddressSpace` |
| `KeyboardProofs` | `TypeCorrect`, `ReaderCorrect`, `RingCorrect`, `MeantCorrect` | `KeyboardInv`, `TypedAsMeant`, and `RingIsQueue`, that the ring implements `KeyQueue` |
| `FdcProofs` | `IndCorrect`, `FdcCorrect` | `FdcInv` |
| `ShellProofs` | `CallsInvariant`, `CallsCorrect`, `OwnDataCorrect` on `Interpreter`; `VariablesCorrect` on `Shell` | `CallsCleanUp`, `PipelineOwnData`, and `VariablesAreMap`, that the arrays implement `VariableStore` |
| `LineEditorProofs` | `EditorInvariant`, `ShownCorrect`, `HistoryCorrect` | `ScreenShowsLine`, `HistoryRecalled` |
| `SEditProofs` | `EditorInvariant`, `WindowCorrect`, `UnmodifiedCorrect`, `TextCorrect` | `SEditInv`, `UnmodifiedUnlessLost`, and `EditsText`, that `SEdit` implements `TextBuffer` |

**FAT12.** `TypeInv` links `pc` to the registers. `SharingInv` says that both FATs
are sound on their own (the boot after a power loss takes the disk's), that the
cluster fat12_create works with is taken while nothing leads to it, that the FAT is
on the disk before the entry, and that fat12_write extends a chain at its end.
`FlushInv` is how far write_fat_table has come, and gives `FatCoherent` without a
hypothesis. `FirstInv` needs only that the disk's FAT has no cluster the one in
memory has free. `ReadInv` is about walks: `Kept` and `Covered` for the FAT a
reader would use, memory's or, with the power off, the disk's; `Writing`, that
what fat12_write has written so far is where the chain leads; `DirOrder`, that
nothing follows the end of the directory. That a walk is stable under the
changes of another file's chain (`WalkSame`, `LinkWalk`, `TakeWalk`) rests on
soundness. `LeakInv` counts clusters nothing leads to, with `Room` for the one a
running fat12_create has. `DeleteInv` is about disks where files are deleted, until
an operation fails: between the chain and the entry the FAT is sound for all
files but the one that goes (`SoundBut`), because freeing one chain takes no cluster
and no link from another (`FreeOne`); once the entry is marked it is sound again.

* `NoTornFat` (sharing): no deletion, and a FAT of one sector or no power loss.
  Both are needed: a power loss between two FAT sectors leaves a link into a
  cluster the disk has as free, and fat12_delete frees the chain before the entry
  is marked. No system call deletes.
* `NeverDeletes` (first clusters): only the second of these.
* `Durable` (reading, sizes, leaks): no deletion, and either no power loss, with
  any number of failures and FATs of any size, or any number of power losses with
  one FAT sector and no failures. The rest is false: a failed FAT write that is
  never repeated leaves a file's tail only in memory (`fat12_retry`), and the
  power loss after it takes the tail.
* `MaxCrashes = 0` (deletion): no power loss. One between the FAT and the entry
  leaves a file that leads to free clusters, and so does a failing operation,
  which is why the property itself ends at the first.

**Heap.** `HeapInv` is inductive as it stands: it says which block follows which, and
that the free list and the callers' blocks divide them. `FitsCorrect` and
`RegionsCorrect` assume `NoWrap`, no request within 15 of the largest size_t,
where align_size wraps and a block of size 0 is returned. `StatsCorrect` has no
hypothesis: every block before an address adds up to that address (`TilesAddUp`), and
the free ones and the held ones are all of them. The sums are the folds
`heap_stats` and `StatsExact` are written with; that their order does not matter is
`SumTakes`, by the smallest set for which it might.

**Memory.** `PmemInv` adds to the count and the accounts that a running call asks
for at least one page. The step that needs all of it is `AllocPagesFound`: that the
run it takes is inside the bitmap is `RunInBitmap`. `RegionCorrect` is about
`RegionIsRam`, a definition of `VmmProofs` that no run checks: the region lies in an
area of the map if `LargestInReach`, that is if the largest area reaches above 8MB and
starts below 4GB; kernel_main's cut and wrap make it false otherwise. `VInv` says that
some assignment of levels makes the tables a tree (`HasTree`), that whatever the
processor keeps the tables say (`TlbInv`), and how far the loop of a range call is
(`MapInv`, `UndoInv`, `UnmapInv`): every page behind it is as the call wants it, every
other page as it was. It holds until a page in use is handed out (`VSafe`): a boot table
taken for a new one is what `Spoilt` is about, and a step that does not end there
took none. One hypothesis: `Canonical`, no address has bits above the four
indices, which the code ignores too.

**Keyboard.** `ReaderInv` is what getchar knows between its steps: the ring is not
empty, the character it has read is the oldest. The queue of `KeyQueue` is a function
of the ring and its indices, and arithmetic modulo the size is where the work is.
`MeantCorrect` says that the codes the driver has not seen explain the difference between
its flags and the keys held (`Explained`). It assumes `OneKeyPerFlag`: the driver has
one flag for both shift keys and ignores the press of right control, so with both
of a pair the flag is wrong.

**Floppy.** `FdcInv` forbids that a transfer of an earlier call runs with this call's
data. What makes it inductive is `BusOK`: what a controller that was given up on still
has of its command, byte by byte, while the driver writes the next one. The SEEK that
comes first completes a transfer that was left without an address into one with none, so
it never runs as one; by the time the data command is written, nothing of an old
one is left. `DmaOK` says what the DMA channel is set up for.

**Shell.** `CallsInd` says that `allocated` is the weight of the frames: a pipeline holds
the copy of its line, a script its text and perhaps a line of it. `CallsCleanUp` follows
when the prompt is back, and for the unwinding of a failure in between. The stack is
a constant like the heap: the step that overruns it changes nothing but `job`. Its other part is
that no datum of an earlier line is in the stream or the term while a pipeline is among
the frames. `VariablesCorrect` needs that no name is in the arrays twice
(`VariablesOK`); the steps of the interpreter stutter. The prompt and the ring of lines
are `EditorInd` of `LineEditorProofs`: `RowHolds` gives each cell of the row until the
line reaches its end, and `Printed`, taken apart at a backspace and at a character, is
how the redrawing loops give it again.

**SEdit.** `EditorInv` is the types, the window and `UnmodifiedUnlessLost`. That a saved
text reads back is `SplitOfJoined`: `ReadBehind` over the bytes of one line more is one
line more. `TextCorrect` takes the text apart at the cursor: `Off` is where a line starts
in it, `StartsAre` says that these are the starts `TextBuffer` sees, `LineStartIs` and
`EndIs` that the point's line is the cursor's, and `InsertInLine`, `EraseInLine`,
`SplitInLine` and `MergeLines` that a change of the array is one change of the text. A file
of too many lines loads as `LoadedType` says: fewer lines than the array has, which is
where the assumption that `MAX_LINES` is no multiple of `BYTE` comes in. It holds for
1000 and 256, as the rest of the assumption does for the values in the code; there
is no other hypothesis.

Only model-checked:

* `CallsReturn`, `GetcharReturns` and `LineEnds`: liveness and ENABLED are beyond the
  prover.
* `SectorsDone`, that `Fdc` implements `SectorStore`: it stops at `MaxFaults` by its
  own statement, and a proof has to follow the data through the controller.
* `AddsUp`: it compares the text of a number with the fold that reads it
  (`str_to_int`), digit by digit and modulo the width of an integer.

## Plan

1. Proofs: `SectorsDone` step by step.
2. Models of what is left: ATA's polling loops, sasm's scan of a source text,
   the boot loader's walk along the FAT, cd with its two notions of where it is.

The project is kept to about a dozen runs: where a new component needs one, runs
that expect a violation give way first, and what they showed stays in the list
above and among the hazards.

## Not modelled

The screen but for vga_putchar at the prompt, formatting and string functions; the
assembly of the interrupt stubs, beyond the interrupt flag; ATA, FAT16 and FAT32
(unused by the kernel, the last two incomplete); the memory of loaded programs;
sasm, the boot loaders and cd (sequential, planned); listings; the example program
and the build scripts.
