------------------------------ MODULE Programs ------------------------------
(***************************************************************************)
(* Running a file: cmd_run and cmd_dvcmgr, resolve_runnable_path and       *)
(* run_resolved_path of kernel/kernel64.cpp, the two loaders (ELF64Loader  *)
(* of kernel/elf64.h, MZExeLoader::build_real_mode_image of                *)
(* kernel/mzexe.h) and the system calls of a running program that reach    *)
(* the heap (kernel/syscall.h).                                            *)
(*                                                                         *)
(* Every block comes from the kernel heap, the module Heap, with one       *)
(* client for each pointer run_resolved_path keeps and one for what the    *)
(* programs ask for.  An ELF file is copied to the addresses it names,     *)
(* whatever they hold; they may be inside the heap, as they are in the     *)
(* kernel (link.ld ends the kernel below 0x400000 and the heap, which      *)
(* starts there, is 4 MiB long).  A DOS program gets a memory of its own.  *)
(* The processor that executes it is the module Cpu.                       *)
(***************************************************************************)
EXTENDS Integers, Sequences, FiniteSets, Functions, SequencesExt

CONSTANTS
  HeapStart, HeapSize, WordSize,  \* see Heap
  Disk,          \* path -> file; a path is <<base, extension>>
  Typed,         \* paths given to RUN and DVCMGR
  Sizes,         \* sizes given to SYS_MALLOC
  Returns,       \* values programs return
  LoadArea,      \* addresses programs and drivers are linked at
  Byte,          \* values of a byte
  Paragraph,     \* 16
  RmSize,        \* RM_MEM_SIZE
  PspSize,       \* sizeof(DOSPSP)
  PspSeg,        \* 0x1000
  PspParagraphs, \* 0x10
  PspBytes,      \* offset -> byte, what prepare_dos_environment writes
  RelocSize      \* sizeof(MZReloc)

-----------------------------------------------------------------------------
(***************************************************************************)
(* Files.  An MZ file is a header, of which only the fields the loader     *)
(* reads are kept, and an image; an ELF file is a sequence of segments, of *)
(* which memsz bytes are loaded and Len(data) come from the file.          *)
(***************************************************************************)
Word == Byte * Byte
load_seg == PspSeg + PspParagraphs
linear(seg, off) == (seg % Word) * Paragraph + off

SegEnd(s) == s.vaddr + (IF s.memsz > Len(s.data) THEN s.memsz ELSE Len(s.data))
Extent(s) == s.vaddr..(SegEnd(s) - 1)
AllOf(file) == UNION {Extent(s) : s \in Range(file.segs)}

Bytes == 0..(Byte - 1)
Words == 0..(Word - 1)

MzFile(f) ==
  /\ f.header \in Nat /\ f.image \in Seq(Bytes) /\ f.size = f.header + Len(f.image)
  /\ f.relocs \in Seq([segment : Words, offset : Words]) /\ f.count = Len(f.relocs) /\ f.table \in Nat
  /\ f.cs \in Words /\ f.ip \in Words /\ f.ss \in Words /\ f.sp \in Words

ElfFile(f) ==
  /\ f.segs \in Seq([vaddr : Nat, data : Seq(Bytes), memsz : Nat])
  /\ AllOf(f) \subseteq LoadArea

\* A real-mode address ends where the memory of a DOS program does, the PSP is under the image.
ASSUME ProgramsAssumption ==
  /\ Byte \in Nat \ {0, 1} /\ Paragraph \in Nat \ {0} /\ RelocSize \in Nat
  /\ RmSize \in Nat /\ RmSize <= Word * Paragraph
  /\ PspSize \in Nat /\ PspSeg \in Nat /\ PspParagraphs \in Nat /\ load_seg < Word
  /\ \A off \in DOMAIN PspBytes : off \in 0..(PspParagraphs * Paragraph - 1) /\ PspBytes[off] \in Bytes
  /\ Sizes \subseteq Nat /\ Returns \subseteq Int
  /\ \A p \in DOMAIN Disk :
       /\ Disk[p].size \in Nat
       /\ Disk[p].kind = "mz" => MzFile(Disk[p])
       /\ Disk[p].kind = "elf" => ElfFile(Disk[p])

Kernel == {"buf", "mem", "psp"}
Clients == Kernel \cup {"program"}
Requests == Sizes \cup {RmSize, PspSize} \cup {Disk[p].size : p \in DOMAIN Disk}

VARIABLES blocks, current, held, asked

heap == <<blocks, current, held, asked>>
H == INSTANCE Heap

\* The kernel's heap, Requests included, is one of those Heap is about.
ASSUME ProgramsHeap == H!HeapAssumption

VARIABLES
  pc,
  name,          \* the path resolve_runnable_path found
  driver,        \* is_driver
  image,         \* the file whose bytes are in the buffer
  rm,            \* the memory of the DOS program
  regs,          \* RealModeRegs, what the loader sets
  reloc,         \* relocations applied
  ram,           \* the bytes at LoadArea
  mine,          \* pointers the running program got
  current_program,
  code

run == <<name, driver, image>>
dos == <<rm, regs, reloc>>
programs_vars == <<heap, pc, run, dos, ram, mine, current_program, code>>

NoPath == <<"", "">>
Nothing == [kind |-> "none", size |-> 0]
NoRegs == [cs |-> 0, ip |-> 0, ss |-> 0, sp |-> 0, ds |-> 0, es |-> 0]

ProgramsInit ==
  /\ H!Init
  /\ pc = "idle" /\ name = NoPath /\ driver = FALSE /\ image = Nothing
  /\ rm = <<>> /\ regs = NoRegs /\ reloc = 0
  /\ ram = [a \in LoadArea |-> 0]
  /\ mine = {} /\ code = 0
  /\ current_program = [running |-> FALSE, exit_code |-> 0]

Pointer(c) == CHOOSE p \in held[c] : TRUE
Malloc(c, n) == H!MallocReuse(c, n) \/ H!MallocExtend(c, n)
File == Disk[name]                    \* the file that was opened

Goto(l) == pc' = l
Fails(c) == code' = c /\ Goto("free_buf")
Idle ==
  /\ Goto("idle")
  /\ name' = NoPath /\ driver' = FALSE /\ image' = Nothing
Return(c) == code' = c /\ Idle

-----------------------------------------------------------------------------
(***************************************************************************)
(* resolve_runnable_path: the path as it was typed, then, if it names no   *)
(* extension, with the one preferred, .EXE for RUN, and the other, until   *)
(* one opens.  A read error of the disk makes open fail for a file that    *)
(* exists, so that any of those that exist may be the one.                 *)
(***************************************************************************)
Candidates(path, prefer_sys) ==
  IF path[2] # "" THEN <<path>>
  ELSE <<path, <<path[1], IF prefer_sys THEN ".SYS" ELSE ".ELF">> >>
       \o (IF prefer_sys THEN <<>> ELSE <<<<path[1], ".EXE">>>>)
       \o <<<<path[1], IF prefer_sys THEN ".ELF" ELSE ".SYS">> >>

Command(path, as_driver) ==
  /\ pc = "idle"
  /\ name' \in Range(Candidates(path, as_driver)) \cap DOMAIN Disk
  /\ driver' = as_driver
  /\ code' = 0 /\ Goto("open")
  /\ UNCHANGED <<heap, image, dos, ram, mine, current_program>>

\* run_resolved_path opens the file again.
Open ==
  /\ pc = "open"
  /\ \/ Return(-100)
     \/ File.size = 0 /\ Return(-103)
     \/ File.size # 0 /\ Goto("alloc") /\ UNCHANGED <<run, code>>
  /\ UNCHANGED <<heap, dos, ram, mine, current_program>>

AllocBuf ==
  /\ pc = "alloc"
  /\ \/ Malloc("buf", File.size) /\ Goto("read") /\ UNCHANGED <<run, code>>
     \/ H!MallocFull(File.size) /\ Return(-101)
  /\ UNCHANGED <<dos, ram, mine, current_program>>

\* The result of read_file is not looked at: after an error the loaders are given what the
\* block held before, the bytes of a file of its size read earlier or nothing of the kind.
Read ==
  /\ pc = "read"
  /\ image' \in {Nothing} \cup {f \in Range(Disk) : f.size = File.size}
  /\ Goto(IF driver THEN "driver" ELSE "choose")
  /\ UNCHANGED <<heap, name, driver, dos, ram, mine, current_program, code>>

Choose ==
  /\ pc = "choose"
  /\ Goto(IF image.kind = "mz" THEN "mz" ELSE "elf")
  /\ UNCHANGED <<heap, run, dos, ram, mine, current_program, code>>

-----------------------------------------------------------------------------
(***************************************************************************)
(* build_real_mode_image.                                                  *)
(***************************************************************************)
AllocMem ==
  /\ pc = "mz"
  /\ IF image.header >= image.size
     THEN Fails(-2) /\ UNCHANGED <<heap, rm>>
     ELSE \/ /\ Malloc("mem", RmSize)
             /\ rm' = [a \in 0..(RmSize - 1) |-> 0]
             /\ Goto("psp") /\ UNCHANGED code
          \/ H!MallocFull(RmSize) /\ Fails(-101) /\ UNCHANGED rm
  /\ UNCHANGED <<run, regs, reloc, ram, mine, current_program>>

FreeMem == H!Free("mem", Pointer("mem"))

\* Mutant of AllocPsp: the PSP is given the size of the memory.
AllocPspLarge ==
  /\ pc = "psp"
  /\ \/ Malloc("psp", RmSize) /\ Goto("copy") /\ UNCHANGED code
     \/ H!MallocFull(RmSize) /\ code' = -101 /\ Goto("undo_mem")
  /\ UNCHANGED <<run, dos, ram, mine, current_program>>

AllocPsp ==
  /\ pc = "psp"
  /\ \/ /\ Malloc("psp", PspSize)
        /\ Goto("copy") /\ UNCHANGED code
     \/ H!MallocFull(PspSize) /\ code' = -101 /\ Goto("undo_mem")
  /\ UNCHANGED <<run, dos, ram, mine, current_program>>

prepare_dos_environment(m) ==
  [a \in DOMAIN m |-> LET off == a - linear(PspSeg, 0)
                      IN  IF off \in DOMAIN PspBytes THEN PspBytes[off] ELSE m[a]]

Abandon(c) == code' = c /\ Goto("undo_psp")

CopyImage ==
  /\ pc = "copy"
  /\ LET at == linear(load_seg, 0)
         len == image.size - image.header
         m == prepare_dos_environment(rm)
     IN  IF at + len >= RmSize
         THEN Abandon(-4) /\ rm' = m
         ELSE /\ rm' = [a \in DOMAIN m |-> IF a \in at..(at + len - 1) THEN image.image[a - at + 1] ELSE m[a]]
              /\ Goto("relocate") /\ UNCHANGED code
  /\ reloc' = 0
  /\ UNCHANGED <<heap, run, regs, ram, mine, current_program>>

\* Mutant of Patched: the segment replaces the word.
PatchedPlain(m, a) == [m EXCEPT ![a] = load_seg % Byte, ![a + 1] = load_seg \div Byte]

Patched(m, a) ==
  LET w == (m[a] + Byte * m[a + 1] + load_seg) % Word
  IN  [m EXCEPT ![a] = w % Byte, ![a + 1] = w \div Byte]

Relocate ==
  /\ pc = "relocate" /\ reloc < image.count
  /\ LET entry == image.relocs[reloc + 1]
         a == linear(load_seg + entry.segment, entry.offset)
     IN  IF image.table + (reloc + 1) * RelocSize > image.size
         THEN Abandon(-5) /\ UNCHANGED <<rm, reloc>>
         ELSE IF a + 1 >= RmSize
         THEN Abandon(-6) /\ UNCHANGED <<rm, reloc>>
         ELSE rm' = Patched(rm, a) /\ reloc' = reloc + 1 /\ UNCHANGED <<pc, code>>
  /\ UNCHANGED <<heap, run, regs, ram, mine, current_program>>

SetRegisters ==
  /\ pc = "relocate" /\ reloc = image.count
  /\ regs' = [cs |-> (load_seg + image.cs) % Word, ip |-> image.ip,
              ss |-> (load_seg + image.ss) % Word, sp |-> image.sp, ds |-> PspSeg, es |-> PspSeg]
  /\ Goto("execute")
  /\ UNCHANGED <<heap, run, rm, reloc, ram, mine, current_program, code>>

\* The errors of the loader after it has its two blocks.
UndoPsp ==
  /\ pc = "undo_psp"
  /\ H!Free("psp", Pointer("psp"))
  /\ Goto("undo_mem")
  /\ UNCHANGED <<run, dos, ram, mine, current_program, code>>

\* Mutant of UndoMem: the memory of the program is kept.
UndoMemNot ==
  /\ pc = "undo_mem"
  /\ rm' = <<>> /\ regs' = NoRegs /\ reloc' = 0
  /\ Goto("free_buf")
  /\ UNCHANGED <<heap, run, ram, mine, current_program, code>>

UndoMem ==
  /\ pc = "undo_mem"
  /\ FreeMem
  /\ rm' = <<>> /\ regs' = NoRegs /\ reloc' = 0
  /\ Goto("free_buf")
  /\ UNCHANGED <<run, ram, mine, current_program, code>>

\* execute_real_mode_stub: the program exits with a code, or is stopped.
Execute ==
  /\ pc = "execute"
  /\ \/ \E dos_exit \in 0..(Byte - 1) :
          /\ dos_exit \in Returns
          /\ code' = dos_exit
          /\ current_program' = [running |-> FALSE, exit_code |-> dos_exit]
     \/ code' \in {-8, -10, -20, -21, -30} /\ UNCHANGED current_program
  /\ Goto("free_psp")
  /\ UNCHANGED <<heap, run, dos, ram, mine>>

FreePsp ==
  /\ pc = "free_psp"
  /\ H!Free("psp", Pointer("psp"))
  /\ Goto("free_mem")
  /\ UNCHANGED <<run, dos, ram, mine, current_program, code>>

FreeRealMode ==
  /\ pc = "free_mem"
  /\ FreeMem
  /\ rm' = <<>> /\ regs' = NoRegs /\ reloc' = 0
  /\ Goto("free_buf")
  /\ UNCHANGED <<run, ram, mine, current_program, code>>

-----------------------------------------------------------------------------
(***************************************************************************)
(* load_and_run and load_and_call_driver.                                  *)
(***************************************************************************)
\* Mutant of Loaded: what is not in the file is left as it is.
LoadedNoBss(m, s) ==
  [a \in DOMAIN m |-> IF a \in Extent(s) /\ a - s.vaddr < Len(s.data) THEN s.data[a - s.vaddr + 1] ELSE m[a]]

Loaded(m, s) ==
  [a \in DOMAIN m |-> IF a \notin Extent(s) THEN m[a]
                      ELSE IF a - s.vaddr < Len(s.data) THEN s.data[a - s.vaddr + 1] ELSE 0]

\* The memory after each of the segments, in their order.
Stages(m, segs) ==
  LET after[k \in 0..Len(segs)] == IF k = 0 THEN m ELSE Loaded(after[k - 1], segs[k])
  IN  after

LoadAll(m, segs) == Stages(m, segs)[Len(segs)]

\* The heap's list of blocks, or a block in use, is at an address the file is loaded to.
Hit(file) ==
  \E i \in DOMAIN blocks :
    LET b == blocks[i]
        size == H!Header + (IF b.used THEN b.size ELSE 0)
    IN  AllOf(file) \cap (b.addr..(b.addr + size - 1)) # {}

Refusal(file) ==
  IF file.kind # "elf" THEN -1
  ELSE IF file.type # 2 \/ (driver /\ file.machine # 62) THEN -2
  ELSE IF file.machine # 62 THEN -3
  ELSE 0

Load ==
  /\ pc \in {"elf", "driver"}
  /\ IF Refusal(image) # 0
     THEN Fails(Refusal(image)) /\ UNCHANGED <<ram, mine, current_program>>
     ELSE /\ Goto(IF Hit(image) THEN "lost" ELSE "running")
          /\ ram' = IF driver THEN LoadAll(LoadAll(ram, image.segs), image.segs) ELSE LoadAll(ram, image.segs)
          /\ current_program' = IF driver THEN current_program ELSE [running |-> TRUE, exit_code |-> 0]
          /\ UNCHANGED <<mine, code>>
  /\ UNCHANGED <<heap, run, dos>>

\* The heap, or the program, was written over: the model follows the machine no further.
Lost == pc = "lost" /\ UNCHANGED programs_vars

(***************************************************************************)
(* A program between its entry and its return: it writes its own memory    *)
(* and calls the kernel, a driver by the table of KernelAPI.               *)
(***************************************************************************)
Touch ==
  /\ pc = "running"
  /\ \E a \in AllOf(image) : ram' = [ram EXCEPT ![a] = Byte - 1]
  /\ UNCHANGED <<heap, pc, run, dos, mine, current_program, code>>

\* The block may lie over the program itself.
SYS_MALLOC ==
  /\ pc = "running"
  /\ UNCHANGED <<run, dos, ram, current_program, code>>
  /\ \E n \in Sizes :
       \/ /\ Malloc("program", n)
          /\ mine' = mine \cup (held'["program"] \ held["program"])
          /\ Goto(IF Hit(image)' THEN "lost" ELSE "running")
       \/ H!MallocFull(n) /\ UNCHANGED <<pc, mine>>

\* Mutant of SYS_FREE: the program may use and free the block again.
SYS_FREE_Again ==
  /\ pc = "running"
  /\ \E p \in mine : H!Free("program", p)
  /\ UNCHANGED <<pc, run, dos, ram, mine, current_program, code>>

SYS_FREE ==
  /\ pc = "running"
  /\ \E p \in mine : H!Free("program", p) /\ mine' = mine \ {p}
  /\ UNCHANGED <<pc, run, dos, ram, current_program, code>>

\* The system call ends nothing: the program goes on.
SYS_EXIT ==
  /\ pc = "running"
  /\ \E n \in Returns : current_program' = [running |-> FALSE, exit_code |-> n]
  /\ UNCHANGED <<heap, pc, run, dos, ram, mine, code>>

Leave ==
  /\ pc = "running"
  /\ code' \in Returns /\ Goto("free_buf")
  /\ mine' = {}
  /\ UNCHANGED <<heap, run, dos, ram, current_program>>

FreeBuf ==
  /\ pc = "free_buf"
  /\ H!Free("buf", Pointer("buf"))
  /\ Idle
  /\ UNCHANGED <<dos, ram, mine, current_program, code>>

ProgramsNext ==
  \/ \E path \in Typed, as_driver \in BOOLEAN : Command(path, as_driver)
  \/ Open
  \/ AllocBuf
  \/ Read
  \/ Choose
  \/ AllocMem
  \/ AllocPsp
  \/ CopyImage
  \/ Relocate
  \/ SetRegisters
  \/ UndoPsp
  \/ UndoMem
  \/ Execute
  \/ FreePsp
  \/ FreeRealMode
  \/ Load
  \/ Lost
  \/ Touch
  \/ SYS_MALLOC
  \/ SYS_FREE
  \/ SYS_EXIT
  \/ Leave
  \/ FreeBuf

ProgramsSpec == ProgramsInit /\ [][ProgramsNext]_programs_vars

-----------------------------------------------------------------------------
(***************************************************************************)
(* Properties.                                                             *)
(***************************************************************************)
Labels == {"idle", "open", "alloc", "read", "choose", "mz", "psp", "copy", "relocate", "execute",
           "undo_psp", "undo_mem", "free_psp", "free_mem", "free_buf", "elf", "driver", "running", "lost"}

\* Type invariant.
ProgramsTypeOK ==
  /\ H!TypeOK
  /\ pc \in Labels /\ driver \in BOOLEAN
  /\ mine \subseteq held["program"]
  /\ DOMAIN ram = LoadArea
  /\ code \in Int /\ reloc \in Nat

Holding == [buf |-> Labels \ {"idle", "open", "alloc"},
            mem |-> {"psp", "copy", "relocate", "execute", "undo_psp", "undo_mem", "free_psp", "free_mem"},
            psp |-> {"copy", "relocate", "execute", "undo_psp", "free_psp"}]

\* The kernel holds the image, the PSP and the memory of a DOS program exactly while it needs
\* them, one block each: every way out of a load, errors included, gives all of them back, once
\* (run_resolved_path, kernel64.cpp 633-696; build_real_mode_image, mzexe.h 301-336).
TakenBack ==
  \A c \in Kernel : Cardinality(held[c]) = IF pc \in Holding[c] THEN 1 ELSE 0

\* The byte a file has at an address: that of the last segment that covers it.
Content(file, a) ==
  LET over == {k \in DOMAIN file.segs : a \in Extent(file.segs[k])}
      s == file.segs[CHOOSE k \in over : \A j \in over : j <= k]
  IN  IF a - s.vaddr < Len(s.data) THEN s.data[a - s.vaddr + 1] ELSE 0

\* A program or driver whose file was read starts from that file, with cleared memory after
\* it, whatever ran there before and whatever it left: in particular a second run does not see
\* the variables of the first (elf64.h 125-141, 171-193).
StartsFromItsFile ==
  [][/\ pc \in {"elf", "driver"} /\ pc' = "running" /\ image = File
     => \A a \in AllOf(File) : ram'[a] = Content(File, a)]_programs_vars

Shifted(w, n) == (w + n * load_seg) % Word

\* Where the k-th entry of the table says a segment is.
Spot(f, k) == linear(load_seg, 0) + linear(f.relocs[k].segment, f.relocs[k].offset)

\* A linker's file: the words to relocate and the entry point are in the image, and no two of
\* the words overlap by half.
Orderly(f) ==
  /\ \A k \in 1..f.count : Spot(f, k) + 1 < linear(load_seg, 0) + Len(f.image)
  /\ \A j, k \in 1..f.count : Spot(f, j) # Spot(f, k) + 1
  /\ linear(f.cs, f.ip) < Len(f.image)

\* When a DOS program starts, each word it has a relocation for is the word of the file plus the
\* segment it was loaded at, once for each entry, every other byte of the image is that of
\* the file, its PSP is whole, and CS:IP is the entry point in the image (mzexe.h 302-357).
ImageFaithful ==
  pc = "execute" /\ image = File /\ Orderly(File) =>
    LET at == linear(load_seg, 0)
        f == File
        times(a) == Cardinality({k \in 1..f.count : Spot(f, k) = a})
        patched == {Spot(f, k) : k \in 1..f.count}
        byte(a) == f.image[a - at + 1]
    IN  /\ \A a \in patched :
             rm[a] + Byte * rm[a + 1] = Shifted(byte(a) + Byte * byte(a + 1), times(a))
        /\ \A a \in at..(at + Len(f.image) - 1) :
             a \notin patched /\ a - 1 \notin patched => rm[a] = byte(a)
        /\ \A off \in DOMAIN PspBytes : rm[linear(PspSeg, off)] = PspBytes[off]
        /\ linear(regs.cs, regs.ip) = at + linear(f.cs, f.ip)

\* While programs keep nothing of what they ask for, no file is ever refused for lack of
\* memory, however often and in whatever order files are run: malloc hands out blocks whole, so
\* a second run of a DOS program may find its memory taken by its image and carve another, but
\* not a third (memory.h 227-252 with kernel64.cpp 633-697).  The heap of the kernel is four times RM_MEM_SIZE; this
\* holds for one with room for two such memories, a PSP and an image of each size.
NeverRefused ==
  code = -101 => held["program"] # {}
=============================================================================
