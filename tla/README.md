# DOS64 in TLA+

DOS64 is a 64-bit single-user operating system in the style of DOS: C++ and some
assembly, no protection, no preemption, no threads. These files model the parts of
its kernel and of its programs that keep state, check the models on small instances
with TLC, and prove with TLAPS what the parts promise for every size.

The sources are named as in the repository: `src/kernel/...`, `src/shell/...`.
The comment of a definition says what it stands for; `PROJECT.json` gives the lines.

## 1. Inventory

One processor runs one thing at a time. What makes the system hard is not threads but
the device at the other end of a ring or of a cable, calls that stop half-way, code
that is called back in the middle of a loop, several owners of one notion (which
volume is current), and long sequences of legal calls.

| Component | State it keeps | Operations | Talks to | What is hard | What makes it correct |
|---|---|---|---|---|---|
| Kernel heap, `kernel/memory.h` 190-290 | block list, bump pointer | malloc, free | everyone | reuse after any sequence of calls; sizes near the top of a word | live blocks never overlap, have one owner, lie in the heap |
| FAT32 driver, `kernel/fs/FAT32.h` | two FATs, data sectors, one static sector buffer | mkdir, rename, overwrite_file, remove, open, read_file, list_files, format, mount | block devices; called by the shell and the system calls | a write that fails or a stop between two sectors; the buffer refilled by a callee | the tree stays sound, other files stay as they are, a call loses at most a cluster |
| Software timers, `kernel/timer.h` | array of timers, clock | create, start, stop, cancel, set_callback, tick | callbacks call back | callbacks change the array tick walks | unique ids, no tick counted twice, ticks end |
| Shell and path manager, `kernel/kernel64.cpp`, `kernel/fs/vfs.h` | current volume and directory, FAT32 objects, driver registry, program | the commands | path manager, FAT32, loaders, system calls | three answers to "which volume"; objects made at different moments | no null object is used, cd leads to directories |
| Console and line editing, `kernel/prompt.h` | line, cursor, saved line, place in the history, row of the screen | one per key | history ring of `kernel64.cpp` | order of UP, DOWN and edits; wraps of ring and row | the row shows the line, UP and DOWN recall the last commands |
| Network driver, `shell/drv/netwire.cpp` | two descriptor rings, registers | init, send_packet, receive_packet | the card, through memory | two owners of a descriptor, access by access | frames come out in order, each once |
| Keyboard and mouse, `kernel/drivers/keyboard.h`, `mouse.h`, `kernel/pointer.h` | modifiers, `extended`, position, saved cell | poll, getchar, update | one PS/2 controller for both | bytes of two devices through one port | a press and its lift are both seen; a key means what it means |
| Physical pages, `kernel/memory.h` 32-179 | bitmap, two counters | init, alloc_page, free_page, alloc_pages | boot's memory map | map entries that overlap the kernel; counters | no page has two owners (nothing calls the last three) |
| System calls, `kernel/syscall.h` | current program, memory | the dispatcher | FAT32, heap, path manager | order of calls, exit | what a program asks for it gets once; a line read is the line shown |
| Loaders, `kernel/elf64.h`, `kernel/mzexe.h`, `run_resolved_path` | image, PSP, real-mode memory, trace | load, run | heap, FAT32 | releases on each way out; loop detector | what a load takes it gives back |
| Block devices, `kernel/drivers/ata.h`, `ramdrv.h`, `kernel/fs/vdrive.h` | task file, RAM disk | init, read, write, format | FAT32 | bounded waits, a disk left in the middle of a command; writes refused during a format | a read that succeeds returns the sector asked for; a formatted volume is empty and sound |
| Editor and collections, `shell/gedit.cpp`, `shell/lib/collections.h` | text, containers | edit, save, load; set, get, remove | system calls, heap | rows of fixed length; chains | what is saved is what is shown; a map is a map |
| Boot, video, sound, power, layouts, headers, tools | none between calls | output and set-up | hardware | | not modelled |

`PROJECT.json` lists every component with its status, and every hazard at its line
with the properties that cover it, or the reason why none does.

## 2. Modules

| Module | Models | Composition |
|---|---|---|
| `Heap` | `HeapAllocator`, with explicit addresses that wrap | implements `AbstractHeap` |
| `AbstractHeap` | what callers of malloc and free rely on: live extents, no list | |
| `Fat32` | the calls of `FAT32` that write, one step per sector written | |
| `Timer` | `SystemTimer`, one step of tick's loop at a time, calls of callbacks in between | |
| `Shell` | the commands over two volumes, path manager, mount state, registry | uses trees in place of `Fat32`'s sectors |
| `Prompt` | `PromptSession`, `PromptLine`, the history ring, `Terminal` on one row | implements `CommandRecall` |
| `CommandRecall` | recall of the last commands, with no ring | |
| `NetRing` | the e1000 driver access by access, and the card it relies on | implements `PacketQueue` |
| `PacketQueue` | a bounded first-in first-out queue | |
| `Cpu` | the 16-bit emulator, one instruction at a time, under the loop that runs it | runs what `Programs` loads |
| `Programs` | a file looked up, read, loaded, run and released; system calls for memory and exit | uses `Heap`, action by action |
| `Drive` | what the file system may expect of a disk: sectors that keep what is written, until the disk betrays it | |
| `Ata` | the ATA driver, poll by poll, and the disk it polls | implements `Drive` |
| `Volume` | the two formatting routines, write by write, and mount | writes the volumes `Fat32` starts from |
| `Input` | keyboard and mouse behind one port, modifiers, layouts, the loop of the prompt, SYS_GETLINE | gives `Prompt` its keys |
| `MC*` | instances for TLC | |
| `*Proofs` | theorems of the module of that name; `DiskProofs` those of `Ata` and `Volume`, `CommandProofs` those of `Prompt` and `Programs` | |

Operators marked as mutants change one definition the way a bug in the code would.
They are used by no specification; `PROJECT.json` says which property each breaks.
A module that shares its theorems' module with another has names of its own for the
specification (`FormatSpec` in `Volume`, `ProgramsSpec` and `ProgramsTypeOK` in
`Programs`).

### Heap
`blocks` is the list (oldest first), `current` the bump pointer, `held` who has which
pointer. `MallocReuse`, `MallocExtend` and a refusal are the ways out of malloc,
`Free` clears the flag. Addresses and the rounding to 8 are words modulo `WordSize`.
`free` is called only with pointers that were handed out: what the kernel does.

### Fat32
A call is a sequence of steps, named by `pc` for the write that comes next; `reg` holds
its local variables. A step reads what it needs and writes one sector, or its write
fails, or the machine stops (`Restart`: nothing is repaired at mount). A lookup can
fail on a read (`LookupFails`). `overwrite_file` looks its path up again for the size, and
fails if its own data went over the way there. A sector has slots that hold directory entries, file
data or, once remove has written the FAT buffer into a directory, `Junk`. Sizes count sectors.

What the driver reads in a place it does not understand is its choice of what a byte means, and
two of those have a state of their own. A piece of the FAT or of a file's data in a directory may
read as any entry: `name_match` stops at the first NUL, so that the FAT word 65 at the beginning
of a slot is a file `A`. And the loops over a directory test only the upper bound of a cluster, so
that after a free link they read cluster 0, before `data_start`. A search that passes such a place
may find nothing there, as the model goes on to say, or go `astray`, after which nothing is
claimed. A loop over a directory or a file whose chain has a cycle is `endless`: it never leaves
that state, and `CallsReturn` says that no call enters it.
`LastCluster` may be a cluster that the device lacks, as in the RAM disk's FAT. The paths
of the calls (`Paths`) end in a name: a call on `.` or `..` itself is left out.

### Timer
`pc` is where tick is: between ticks, at the head of its loop, or in a callback. The
calls come when tick is idle or in a callback. `since` and `charged` are history
variables the properties need. The class is complete, but this version of the kernel
does not instantiate it.

### Shell
A typed path is a record: volume prefix, leading slash, components. `Resolve`,
`Appended`, `PathCd` are the path manager's three views of it. `fs`, `ata_if`,
`present`, `disk` are the objects and the hardware behind C:; a detection of the disk
may fail at boot and whenever a command repeats it, and a formatted disk may refuse the read of
its first sector. `fault` records a call on a null object, and which one; `Reboot` is the boot
again, with the disk as it is. A read that fails can also make a lookup pass a file by:
`Lookup` is what may be found for a word, the first variant of its name that opens, or a later
one.
A volume is the tree of its paths. The user gives mkdir and rename names that are not
taken, and components in `Names`; a path with a volume is absolute or the volume
alone. A component is none of `.`, `..` and the letters (`ShellAssumption`); `WithExt` gives
the name a word becomes with an extension. `wraw` and the commands that only print are left
out. Names longer than the 63 characters the registry keeps are left out.

### Prompt
An action per key. `Redrawn` is a change of the line with its redraw: blanks over the
row, prompt, line, backspaces to the cursor, which erase what they pass. What the
buffers hold past their length is not modelled, since nothing reads it. `Enter` runs
the command, which may leave output on the row the prompt is printed on, and starts
the next prompt. Rows below the cursor are blank. A command leaves room for the prompt on
its last row (`OutputsFit`), and no text has a control character in it (`TextsArePlain`).

### NetRing
Each access of `receive_packet` to memory shared with the card is a step (`Poll`,
`Copy`, `ResetDescriptor`, `WriteTail`); init is a step per buffer, and any of its
allocations can fail. The card is external and is what the driver relies on of an
82540EM: it owns the slots from head to tail, stores a frame, then marks it.
Accesses are taken in program order, a reset of the card ends within the driver's
wait, and the ring of an earlier load is memory the card no longer uses.

### Cpu
An instruction is a record with its operands and its length; a word is two bytes of 16
values each, so that carries, halves of registers and signs are those of the code on a
space TLC can enumerate. The block of memory is in the same proportion to a word as in the code:
4096 bytes, which a segment and an offset can pass by almost a segment. Behind it lies the heap:
reads and writes of the instructions that do not look (`Contained`) reach it. What the
emulator does differently from an 8086 is in the model (flags that the arithmetic leaves alone,
REP that is passed over, the addition of DS in LEA, a division that traps in the host, `StepTrap`)
and listed in section 5. Memory is the bytes written so far. Decimal adjustments
(DAA, DAS, AAA, AAS), the date and the time, and programs that write over their own
instructions are left out.

### Programs
`pc` goes through `resolve_runnable_path`, `run_resolved_path`, the loaders and the program.
The heap is the module `Heap` itself, with one client for each pointer the kernel keeps
(`buf`, `mem`, `psp`) and one for programs. Opening can fail, and so can reading, whose
result nobody looks at: `image` is then an earlier file of that size, or nothing. Programs
are linked at fixed addresses inside the heap; `Lost` is the state in which a load, or a
block handed out later, falls on the program or the list of blocks, and the model claims
nothing from there on. The run of a DOS program is one step: `Cpu` is its detail.

### Ata, Drive
`polls` counts the iterations of a wait. The disk (external) takes its time, fails, and
shows busy, request and error; a command it is given out of turn is ignored or ends the
one under way. `Drive` has an array of sectors and one request at a time; a disk may
`Betray` its promise, and only `init` restores it. The refinement says when that is:
`trusted` is true until a wait ends by its count.

### Volume
A sector holds zeroes, a boot record, the beginning of a FAT, what a file system wrote, or
what was there. Each write of a routine (a sector, or a run of equal ones) may be
refused. `Use` is any write of the file system to a volume, so that a later format finds
sectors that are not zero.

### Input
A key is its scancode and whether 0xE0 comes before it. The port holds one byte and says
whose it is; `sending` and `moving` queue behind it, and the keyboard goes on typing while
bytes wait. A key repeats while it is down, and around a grey key the keyboard may send a shift
nobody pressed. A byte carries, as history, the shift keys and the lock as they were when it was
typed: what its key meant. `muddled` is a history variable too: since
the flags last agreed with the keys, something happened that the driver does not follow
(a byte eaten by the wrong driver, both shifts at once, a modifier or a pretended shift after 0xE0,
a lock that repeats).

## 3. Runs

| Run | What it shows | Distinct states |
|---|---|---|
| `heap` | blocks tile the carved heap, never overlap, have one owner; refinement of AbstractHeap | 32 506 |
| `fat32` | mkdir, rename, overwrite in any order with one failure or restart at any write | 19 484 |
| `fat32_remove` | the four calls, an overwrite that may go over a directory on its path among them: sound between calls, root kept, every call returns, none on a chain with a cycle | 157 335 |
| `timer` | callbacks that change the array in the middle of tick; every tick ends | 680 270 |
| `shell` | commands and programs on two volumes, with boots, detections and reads that fail | 204 545 |
| `prompt` | every key, with a ring that wraps and lines longer than the row; refinement of CommandRecall | 60 861 |
| `net` | driver and card on one ring, access by access; refinement of PacketQueue | 65 440 |
| `cpu` | 12 442 program runs: every arithmetic instruction on its own, programs, accesses at the end of memory: results, codes of the outcome, what is written where, and that each run ends | 55 419 |
| `programs` | eleven files run and loaded in any order over one heap, with errors and programs that keep memory | 1 482 719 |
| `ata` | a slow disk that fails and falls out of step; refinement of Drive, every call returns | 32 960 |
| `volume` | the formats at boot and by command, over used volumes, with refused writes | 463 695 |
| `input` | seven keys, two held at once, repeating, one typed before the other is read, while the mouse moves | 2 891 744 |

### What the properties rule out
- **Heap.** `Sound` (tiling, alignment, disjointness, bounds, one owner): a block over
  another's header, or given away while it is held. `Stable`: a block moved.
  `ImplementsPromise`: any visible difference from live extents without a list.
- **Fat32.** `TreeSound`: an entry that leads to a free cluster or to another's, a
  reachable directory without its `.` and `..` or with a second of them, a size larger than the chain, a chain
  that does not end, an entry uncovered behind a directory's end mark. It asks that a
  directory be one cluster, as all are that this driver makes: in a longer one `mkdir`
  writes outside of it (section 5).
  `BystandersKept`: a change to any other file. `LeaksOnlyOnFailure`: a write that cuts
  part of the tree off, or a cluster lost by a call that reports success. `FatsAgree`: copies of the FAT that differ without a failure.
  `SuccessIsTrue`: success without the effect, for mkdir and overwrite. `CallsReturn`, with remove in play: a loop over a
  directory or a file that a chain with a cycle keeps from ending; a link written in the wrong
  order makes one. With
  remove in play an interruption does leave entries that lead to free clusters, since the
  chain is freed first; `SurvivesRemove` is what remains, up to the first search that takes for an
  entry what is none.
- **Timer.** `Sound`, `ChargedOnce`, `TicksEnd`.
- **Shell.** `VolumesReal`: a command on a FAT32 object that is not there, a null interface used
  by anything but a mount after a boot that did not find the disk, or a disk taken for
  formatted. `StateSound`: a driver twice in the registry. `CdLeads`. `FoundIsRun`: another file
  run than the one found for a word, if the second lookup was read whole; if not, one that is no
  variant of the word.
- **Prompt.** `RowShowsLine`, `ImplementsRecall`.
- **NetRing.** `RingSound`: a slot touched by both. `ImplementsQueue`: a frame lost,
  repeated or out of order.
- **Cpu.** `Computes`: a program that halts with something else than an 8086 leaves. Each
  arithmetic, shift, multiply and divide instruction runs alone on every operand of a sample, and
  `Deviations` names the operands for which the emulator is known to differ: nowhere else may it,
  and each of them does. Then combinations (sums of double words, comparisons over PUSHF,
  products by LOOP, copies in both directions, calls within calls). `CodesAreTrue`: a fault, a
  trap, a loop or a timeout reported for another reason. `Contained`: a write behind the block of
  memory by any instruction but PUSH of a register and MOVSB. `Stops`: a run that never ends.
- **Programs.** `TakenBack`: a block kept, or released twice, on any way out of a load.
  `ImageFaithful`: a relocation lost, doubled or misplaced. `StartsFromItsFile`: a second
  run that sees what the first left. `NeverRefused`: a heap used up by runs that each
  give everything back.
- **Ata.** `ImplementsDrive`: data of another sector, or a write that reports success and
  is not there, as long as no wait has ended by its count. `RefusesAfterError`: a call
  that begins, or waits to give its command, while the disk shows an error, and succeeds or changes
  the disk; the write whose own flush met the error has returned true (section 5). `Returns`: a call that polls for ever.
- **Volume.** `FormattedUsable`: a format none of whose writes was refused, after which
  the FATs differ, a mark is missing, or the root holds what was there before.
- **Input.** `Understood`: flags that disagree with the keys although nothing listed under
  `muddled` happened. `Delivers`: a key that gives another character than the one it
  stood for when it was typed, whatever was typed and let go before it was read.
  `EchoShowsLine`: a row of SYS_GETLINE that shows another line than the one read.

### Bounds
- `heap`: four requests around the rounding and a heap of four to six blocks: enough for
  reuse, for a larger free block passed over, and for a heap that fills.
- `fat32*`: six clusters of two sectors, two entries to a sector, FATs of two sectors, so
  that a directory, a file and the FAT each cross a sector, and a directory fills; a fresh
  volume and one a host wrote; one failure or restart per behaviour, at any write. Two
  failures would need a tree already damaged, which is not repaired.
- `timer`: two slots, three timers in all (a slot is reused and the array fills), ticks
  of 0 and 1, and a clock bounded by `MaxTime`. The bound on `MaxId` also bounds the
  timers that callbacks append, but so does `MaxTimers` in the code.
- `shell`: two images of C:, three states of the cable, a path of each form, two
  directories deep, a registry of two entries.
- `prompt`: two letters, lines of two, a ring of two, a row of four with a prompt of two:
  a full line does not fit the row, and a shorter one does.
- `net`: three slots, six frames, two loads: the ring wraps twice, fills, and is set up
  again with frames in it.
- `cpu`: bytes of 16 values and words of 256; operands from 0, 1, 2 and around each sign
  and each width; memory of 4096 bytes with the screen at 2560, an int of 12 bits. `MaxRepeats`
  is 10 in place of 10 000 and `MaxSteps` 40: both are reached.
- `programs`: files of which one has two relocations on a word, one a table that is cut,
  one an address outside the memory; a heap with room for two real-mode memories, a PSP
  and an image of each size, so that it can fill only by programs that keep memory.
- `ata`: two sectors and an address that is not there; two polls to a wait.
- `volume`: a RAM disk smaller than what FATFS writes and a disk larger than it, as in the
  machine; FATs of four and six sectors.
- `input`: a letter, Enter, backspace, both shifts, the lock and an extended key with a meaning,
  around which the keyboard pretends shifts after 0xE0; two keys held; a key is typed when the last
  byte of the one before is in the port or read (`MaxAhead` = 0: a keyboard has room for 16 bytes,
  and the proofs hold for any number); lines of one byte and of three.

`MCShell.cfg` has a VIEW that leaves out `asked`, the history variable that says what
the last command was: properties read it only primed, in the step that sets it.
`MCNetRing.cfg` does not check deadlock, since the bounds on frames and sends use
themselves up. Everywhere else deadlock is checked.

### Fairness
`Fat32`: `WF_vars(Step)`. A call in progress keeps executing, and the waits of the ATA
driver are bounded loops (`ata.h:35`, `ata.h:46`), so that each write ends, in success
or failure: `Returns` of `Ata` is that argument, checked. `Ata`: `WF_vars(Driver)`, the
instructions of the driver; nothing is assumed of the disk, which may stay silent for
ever. `Cpu`: `WF_vars(Step)`, the loop of the emulator. `Timer`: `WF_vars(Tick)`. tick's
loop executes, and callbacks are expected to return. Nothing is assumed of how often
calls begin. The other modules have no liveness property.

## 4. Proofs

All theorems hold for every value of the constants under the module's named ASSUME.

| Theorem | Assumptions beyond it | Argument |
|---|---|---|
| `HeapSound`, with `HeapInside`, `HeapOneOwner`; `HeapStable` | `NoWrap`: no request wraps the end of a block | `Inv`: types, every block carved below `current`, and tiling; each block begins where the previous ends, from which disjointness follows |
| `HeapRefines` | `NoWrap` | live extents are the used blocks; a new one is apart because blocks tile |
| `FatCopiesAgree` | none: failures are counted in the state | `FInv`: while nothing failed the copies agree, or differ in the one entry write_fat is in the middle of |
| `Fat32TreeSound`, `Fat32BystandersKept` | `NoRemove`: no call is a remove; `TreeSound` of the volume the calls start from | `TreeInv`: for some set of directories, each of one cluster and named by one entry, chains apart and `Sound`; and what the running call remembers is still so: its new cluster belongs to nothing, its file is the one the path finds. The set grows when mkdir links its directory. One lemma says that a change outside directories and chains changes nothing of the tree (`KeptSound`), one what a changed entry does (`EditSound`), one what a new one does (`LinkSound`) |
| `Fat32SuccessIsTrue` | `NoRemove`; `PlainMkdir`: no path of a mkdir has `.` or `..` in it; `TreeSound` of the volume the calls start from | `SuccessInv`, over `TreeInv`: the path of a running mkdir leads to the directory it remembers; without failures the sectors overwrite_file has counted hold the new data, and its registers are at the next one of the chain; and a call that returned true left what it promised. A walk by names never passes a directory twice (`WalkOnce`: entries do not share clusters and none leads to the root), so the new entry is not on the way to itself |
| `Fat32LeaksOnlyOnFailure` | `NoRemove`; `TreeSound` of the volume the calls start from | `LeastInv`: the same with the directories of the tree, which are the least set that the root leads to; every entry stays where lookups see it and keeps its chain (`NothingLeaves`), so the directories grow by the one that mkdir links and by no other |
| `Fat32SurvivesRemove` | `TreeSound` of the volume the calls start from; nothing is claimed after a search gone astray | `FenceInv`: there are a set of directories and a set of clusters that what goes wrong stays inside of (below) |
| `TimerSound`, with `TimerUniqueIds`, `TimerNeverAhead`; `TimerChargedOnce` | none | `IInv` adds the clock of a slot: a cancel only moves a timer to a lower slot, and clocks do not decrease towards lower slots |
| `ShellVolumesReal` | none | `MountInv`: an object that was made, by a boot or a mount without fault, has the interface the boot made, and one that is mounted a formatted disk behind it |
| `NetRingSound`, with `NetRingReady`, `NetMarkedAreUnread` | none | `Inv`: how `pc` and the registers go together, and which slots hold frames; slots are compared by their distance from the tail |
| `NetImplementsQueue` | none | the queue is the marked slots from the tail on, less the one copied |
| `AtaTypeOK`, `AtaRefusesAfterError` | none | `Inv`: a disk that moves a sector has one of its own, a request is there while a call is, so that while an error is shown and no command is out the only ways on are `wait_ready`, which fails, and init |
| `AtaImplementsDrive` | none: trust is part of the state | `InStep`: while the disk is trusted, which command it is in goes with where the driver is; a sector on its way to the medium is content already |
| `InputUnderstood`, `InputDelivers` | none: what the driver does not follow is part of the state | `Chain`: what the driver holds, read with the first byte on its way, is what that byte says of the keys; that is what the second starts from, and so on; the last leaves the keys as they are. A key appends bytes that fit the end of the chain (`ConcatChained`), a read takes the first off (`TailChained`) |
| `PromptTypeOK` | none | inductive as it stands |
| `PromptImplementsRecall` | none | the commands kept are the ring read backwards from its head; entering one shifts the others by a place, whatever the wrap |
| `PromptRowShowsLine` | none | `RowInv`: where the line fits, the row from the prompt's column on is prompt and line, and blanks after it; printing a text without wraps is proved once, by induction on its length, and each key prints a few of them |
| `InputTypeOK` | none | `LineTypes`: the line stays below the size the program gave; `Types` and `Queues`: what is on its way are bytes of the keyboard and the rest of a packet |
| `InputEchoShowsLine` | none | `Echo`: what stood before the line is there or taken back whole, and only a backspace that begins the line is in the buffer |
| `ShellStateSound` | none | inductive as it stands, a lemma for each of path, mounts, trees, program and registry |
| `ShellFoundIsRun` | none | a property of the step alone, given types |
| `ShellCdLeads` | `CdPaths` within `AgreedPaths`: `..`, `/`, a volume, or a name without slash that is not `.` | `CwdLeads`: the current directory is a directory of the current volume. The other paths are those for which the path manager and the lookup disagree (section 5) |
| `VolumeFormattedUsable` | `FatfsFits`: a FAT of the size FATFS computes has an entry for each cluster | `WInv`: what the writes so far made of boot record, FATs and root, for as long as none was refused |
| `ProgramsUseTheHeap` | none | each step of `Programs` is a step of `Heap` or leaves it alone, so that the theorems of `Heap` hold of it |
| `ProgramsTakenBack` | none | `RunInv`: the kernel's three clients have a block each, of the size of what it is for, exactly at the labels that hold it |
| `ProgramsStartFromTheirFiles` | none | loading is by segments in order, the last one that covers an address wins, by induction on their number |
| `ProgramsTypes` | `NoWrap` of the heap | types of `Heap`, and of the rest |
| `ProgramsImageFaithful` | none: what a linker promises is the property's own condition `Orderly` | `DosInv`: in the middle of the relocation loop, each word is the file's plus the segment times the number of entries of the table already taken; words that overlap by half are excluded |

`NoRemove` is what the code asks for: `remove` frees a chain before it marks the entry, so
that in the middle of it, and for good if it stops there, `TreeSound` is false, and it
damages the directory it writes (section 5). `Fat32SurvivesRemove` says what is left. That
the tree is sound to begin with is asked because mount accepts any volume; a volume the
driver formats has an empty root (`VolumeFormattedUsable`).

`SurvivesRemove` is not inductive, and neither is anything said of the tree alone: the
buffer `remove` writes back can hide entries behind an end mark, a later write can uncover
them again, the data of an overwrite can go over a directory when the chain it follows was
freed and taken by a mkdir, and a path may then lead through the clusters of anything.
`FenceInv` therefore speaks of every slot of every cluster that has ever been a directory
(`D`), seen by a lookup or not, and of the clusters calls free and take (`K`: the chains of
entries, and what is free). `Fenced` says that no link of the FAT leads out of `K`, that the
root is not in `K`, and that a slot with a directory's entry leads into `D` and a slot with
a name into `K`; `Walks` that the running call is inside as well. This
holds whatever fails, and gives `RootKept`: `remove` frees only what is in `K`. As long as
nothing failed, `Whole` adds that the named entries keep their clusters to themselves
(`Apart`), except the one that a running `remove` is freeing; the clusters it has yet to
free belong to no other. A piece of the FAT written over a directory takes entries away; what it
adds is taken for an entry only by a search gone astray, which ends the claim. This gives
`SoundBetweenCalls`.

`PlainMkdir` cannot be dropped: a volume prepared elsewhere can have a deleted entry before
`n`, the path `n/m/../../n` of a mkdir then passes the place it writes to, and the new `n`,
found first and empty, ends the walk that would show it. The path manager hands `..` on as
it was typed (`vfs.h:59`).
`NoWrap` is not a convenience either: a size near 2^64 wraps and passes the
test for a full heap (`memory.h:240`), and the blocks no longer tile. `FatfsFits` is true of the constants in
the code: `KernelFits` computes it for 1 048 576 sectors, 32 reserved, 8 to a cluster.
The assumptions of `Programs` are the machine's: a byte has 256 values, a paragraph 16
bytes, the real-mode memory is the 2^20 bytes that a segment and an offset can name.

Recursive functions (the text printed so far, segments loaded, entries of a relocation
table, the clusters of a chain, the directories of a path) are reasoned about by induction all the same: the library's induction takes a
predicate, but `WFMin`, that a set with members has a least one, takes a set. `SetInduction`
says of a set of numbers with 0, closed under successor, that it has all of them, and each use
gives it the set of numbers for which a formula holds.

Only model-checked: liveness (`CallsReturn`, `TicksEnd`, `Returns`, `Stops`), which needs
ENABLED; `NeverRefused` of `Programs`, which is about the
sizes of one instance; and the module `Cpu`, which uses `Bitwise`.

## 5. Behaviour recorded here and checked by no run

Memory and files
- A size near 2^64 wraps when it is rounded or added (`memory.h:227`, `memory.h:240`):
  malloc then hands out a block of no size.
- `mkdir` does not look for an existing entry of that name (`FAT32.h:419`): the new
  one hides the old when it comes first, in the place of a deleted entry; and `remove` takes a directory with its content in place.
- `remove` reads the directory sector into the static buffer, refills it with FAT sectors
  in `fat_next` and `write_fat`, and then writes the buffer back as the directory's
  (`FAT32.h:666-672`): with a file of at least one cluster, its neighbours are lost.
- `name_match` (`FAT32.h:118-143`) compares up to the first NUL, and nothing looks whether an entry
  has the form of one: the pieces of the FAT that `remove` leaves in a directory, or a file's data
  written over one, can read as entries, with any cluster. The first FAT word that does is 65, and a
  volume has one as soon as it has 65 clusters.
- The loops over a chain test only for its end (`FAT32.h:146`, `FAT32.h:247`, `FAT32.h:395`,
  `FAT32.h:614`, `FAT32.h:650`): from a free link they go on to cluster 0, which is the sectors before
  the data; a chain with a cycle never ends.
- In a directory of several clusters the sector of a new entry is counted from the first
  cluster (`FAT32.h:234`, the slot along the chain, `FAT32.h:245`): it is written outside the directory.
- `overwrite_file` and `read_file` report success after a failed read of the FAT cut
  them short; SYS_FS_READ then returns the number of bytes asked for.
- `read_file` from a position past the first sector of a cluster skips too much; no
  caller reads from there.

Disks
- "timeout propre" (`ata.h:52`): a wait for data that ends by its count leaves the disk in
  the command. The next call may read or write the wrong sector.
- The error bit of one call makes every later call fail, until `init`. The cache is
  flushed while the disk still stores, and the result of the flush is ignored: a write
  whose flush ends in an error returns true (`ata.h:171-173`).
  A write of several sectors would flush between them; nobody asks for one.
- The RAM disk computes addresses in 32 bits: sectors from 2^23 on wrap. Its FAT has 2048
  entries for 2012 clusters, and its boot record names a backup at sector 6 that is not written.
- `FAT32::format` assumes 1 048 576 sectors on every disk and ignores every result.
  On the RAM disk the root directory lies past the end, and "Format complete. A: is ready."
  (`kernel64.cpp:857`) is printed all the same. `fatfs A:` formats C:
  (`kernel64.cpp:785`, `kernel64.cpp:793`); only `fatfsA:`, without the space, reaches A:.

Shell, console and timers
- `del` and `rename` with A: current change C:. `mount` after a boot that found no
  disk calls a null interface (`kernel64.cpp:457-461`, `kernel64.cpp:999-1002`), though HELP and
  "Use MOUNT first" offer it for that very case.
- A lookup whose read fails passes a file by: the next variant of the name runs in its place.
- `cd` of a path with a leading slash, with a volume, or of `.` goes elsewhere than the
  directory that was looked up (`vfs.h:105`, `vfs.h:115`): `CdLeads` excludes them.
- HELP lists `RMDIR`, which is not dispatched, and `SHUTUP [r]` for what is `shutup -r`.
  A command is hidden by a file of its name in the current directory.
- On a line longer than the row the column wraps to the same row and the line covers
  the prompt: `RowShowsLine` is about lines that fit. Moving the cursor to the left
  erases what it passes from the row, and moving right draws it again.
- A timer created in a used slot keeps the callback of its predecessor
  (`timer.h:64`). A periodic timer that its own callback stops runs again when the
  callback returns (`timer.h:154`). A timer started by a callback may be charged the
  whole tick in progress.

Network
- `send_packet` takes the descriptor at the tail without looking at its state and
  overwrites frames that were not sent (`netwire.cpp:206`); the transmitter of the card is
  never switched on. The buffers of 1516 bytes are shorter than the longest frame.

Keyboard and mouse
- An extended modifier (right Ctrl, AltGr) leaves the 0xE0 flag set: the next key is
  taken for an extended one and lost. So does the shift that a keyboard pretends around a grey
  key, which also sets or clears the flag of the shift keys. The AltGr table of a layout is never used.
- With both shifts held, lifting one clears the flag. A held Caps Lock repeats, and each
  repetition turns the lock over.
- The keyboard's poll drops a byte of the mouse (`keyboard.h:155`), after which packets
  are out of step and nothing brings them back; the second and third byte of a packet are
  read without looking whose they are, in spite of the comment (`mouse.h:75-76`), so that
  a key is lost.
- KEYMAP never releases the layout that was loaded before (`kernel64.cpp:895`), and ignores
  a failed read of the new one.
- The built-in table has the keypad's minus and plus at the codes of the right arrow and
  of page down. A pointer puts back the cell it covered, whatever was printed there since.
- SYS_GETLINE: a size of 0 wraps and never ends; a full line returns without Enter, which
  then ends the next line; a backspace at the beginning is stored as a character.

Programs
- Programs are linked at 0x400000 and drivers at 0x500000 (`shell.ld`, `drv.ld`); the
  kernel's heap begins below and ends above both. A load can fall on the list of blocks or
  on the buffer it is read from. A second driver overwrites the first.
- After a failed `read_file` the shell prints "File read OK" (`kernel64.cpp:638`) and runs what the
  block held before.
- SYS_EXIT sets a code nobody reads and ends nothing. What a program got from SYS_MALLOC and
  kept is never taken back. A program that returns -1 to -3 or -100, -101 is reported as
  one that could not be loaded.
- The emulator differs from an 8086: the immediate of 80, 81, 83, C6 and C7 is read before
  the displacement; shifts, F6 and FE do not step over it; byte shifts by CL or by a number
  act on registers only; LEA adds DS; arithmetic sets neither SF nor OF, so that signed
  jumps read older flags; INC of a word through FF leaves ZF at the wrap; SBB 18 to 1D are
  missing; REP is passed over; F6 DIV divides AL alone; far jumps through memory take the
  operand byte for the address; PUSH SP pushes the value from before.
- ADC of a byte with an immediate (80/2) leaves the carry that comes in out of the one that goes
  out, ADC with an extended one (83/2) leaves CF as it was, and the three SBB with an immediate
  leave the borrow that comes in out of CF (`mzexe.h:715-716`, `mzexe.h:735`, `mzexe.h:753-754`).
  NEG, MUL and IMUL leave CF. Shifts by CL or
  by a number, and SAR, leave CF; a count of zero sets ZF, one of 32 or more is taken modulo 32;
  rotates do nothing.
- DIV and IDIV cut a quotient that does not fit in place of trapping, F6 IDIV does nothing, and
  IDIV of the least number by -1 traps in the processor of the machine itself: the
  kernel stops (`mzexe.h:868`, `syscall.h:222`).
- Addresses do not wrap at the megabyte. Most accesses look whether they are inside the block;
  PUSH and POP of a register, MOVSB and reads of bytes do not (`mzexe.h:213-225`, `mzexe.h:936`), and
  reach up to 65 520 bytes of the heap behind it.
- The relocation of a word at the end of memory, over half of another one, or with a segment that
  wraps, gives what `Orderly` excludes (`mzexe.h:340`).
- The detector stops at 10 000 repetitions, its comment says 1000 (`mzexe.h:1056`); a delay by
  `LOOP $` with a longer count is reported as an infinite loop.

## 6. Plan

Done: heap, FAT32's writes and formats, timers, the shell's volumes, the prompt, the
network ring, the ATA driver, keyboard and mouse, the loading of programs, the emulator.

Next:

1. `Editor`: save and load of a text with rows of fixed length, the confirmation on quit.
2. `Collections`: a map with chains against a function.
3. `Fat32` extended by the calls that only read, and by directories of several clusters.

### Not modelled

- Physical pages: filled at boot, and nothing calls `alloc_page` or `free_page`.
- The editor and the collections: planned. No file of the repository includes the latter.
- Boot, video, sound, power, port access, headers, tools: straight-line set-up and output
  without state of their own between calls.
- The drawing of the pointer, the bytes of names and dates, the texts printed, the
  bitmaps drawn through the graphics calls.
