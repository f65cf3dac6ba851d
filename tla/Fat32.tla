-------------------------------- MODULE Fat32 --------------------------------
(***************************************************************************)
(* The FAT32 driver: class FAT32 of kernel/fs/FAT32.h, one step per sector *)
(* written to the disk.                                                    *)
(*                                                                         *)
(* The kernel is single-threaded, so operations do not overlap, but any    *)
(* write may fail, any read may fail, and the machine may stop between two *)
(* writes: every operation is a sequence of steps, each of which writes    *)
(* one sector.  What a step reads it reads at once with its write.  There  *)
(* is no journal and no repair at mount time, so the disk a restart finds  *)
(* is the one the last write left.                                         *)
(*                                                                         *)
(* The disk is the two copies of the FAT and the data sectors, numbered    *)
(* from data_start.  A data sector is a function from its Slots: sixteen   *)
(* directory entries of 32 bytes in the code.  The same slots of a file's  *)
(* sector hold its data, so that a directory entry written into a file, or *)
(* a piece of the FAT written into a directory, is visible as such.        *)
(* Sizes count sectors.                                                    *)
(***************************************************************************)
EXTENDS Integers, Sequences, FiniteSets, Functions

CONSTANTS
  Names,         \* 8.3 names
  StoredName,    \* name -> the 8.3 name make_dir_entry stores for it
  Data,          \* contents of a file sector
  SlotCount,     \* directory entries in a sector
  SectorsPerCluster,
  LastCluster,   \* the last entry of the FAT sectors
  SectorCount,   \* data sectors the device has
  FatPerSector,  \* FAT entries in a FAT sector
  WordsPerSlot,  \* FAT entries in the 32 bytes of a directory entry
  Disks,         \* the volumes to start from: records fat, data
  Requests,      \* the calls the shell and the programs make
  MaxFaults      \* bound on failed reads and writes and on restarts

Clusters == 2 .. LastCluster
Sectors  == 0 .. SectorCount - 1
Slots    == 1 .. SlotCount
Root     == 2

FreeCluster == 0
EndOfChain  == LastCluster + 1     \* 0x0FFFFFF8 and above
FatEntry    == {FreeCluster, EndOfChain} \cup Clusters

Dot    == "."
DotDot == ".."

Entry(n, c, dir, size) ==
  [kind |-> "entry", name |-> n, cluster |-> c, dir |-> dir, size |-> size]
End     == [kind |-> "end"]        \* name[0] = 0x00
Deleted == [kind |-> "deleted"]    \* name[0] = 0xE5
Junk    == [kind |-> "junk"]       \* bytes of the FAT: see Astray
Content(d) == [kind |-> "data", data |-> d]

EmptySector   == [i \in Slots |-> End]
FileSector(d) == [i \in Slots |-> Content(d)]

\* The paths of the calls: what they name in the end is neither . nor ..
Paths == {p \in Seq(Names \cup {Dot, DotDot}) : p # <<>> /\ p[Len(p)] \in Names}

ASSUME Fat32Assumption ==
  /\ SlotCount \in Nat \ {0} /\ SectorsPerCluster \in Nat \ {0}
  /\ SectorsPerCluster * SlotCount >= 2
  /\ LastCluster \in Nat /\ Root <= LastCluster /\ SectorCount \in Nat
  /\ FatPerSector \in Nat \ {0} /\ WordsPerSlot \in Nat \ {0}
  /\ Dot \notin Names /\ DotDot \notin Names /\ StoredName \in [Names -> Names]
  /\ MaxFaults \in Nat
  /\ \A d \in Disks : d.fat \in [Clusters -> FatEntry]

ASSUME RequestsAssumption ==
  \A q \in Requests :
    /\ q.op \in {"mkdir", "rename", "overwrite", "remove"} /\ q.path \in Paths
    /\ q.op = "rename" => q.name \in Names
    /\ q.op = "overwrite" => q.data \in Data /\ q.size \in Nat

VARIABLES
  fat1, fat2,   \* the two copies of the FAT
  data,         \* the data sectors
  req,          \* the call being executed, or the last one
  pc,           \* the write it is about to do, or how it went wrong
  reg,          \* its local variables
  ret,          \* what it returned
  faults        \* failures so far

disk == <<fat1, fat2, data>>
vars == <<fat1, fat2, data, req, pc, reg, ret, faults>>

-----------------------------------------------------------------------------
(***************************************************************************)
(* Reading the volume.                                                     *)
(***************************************************************************)
Lba(c) == (c - 2) * SectorsPerCluster

(***************************************************************************)
(* The clusters a loop over fat_next visits from c, in order, up to a link *)
(* that leads to none.  A chain with a cycle, on which a loop does not end *)
(* by itself (Circles), is cut.                                            *)
(***************************************************************************)
ChainIn(fat, c) ==
  LET follow[s \in Seq(Clusters)] ==
        LET next == fat[s[Len(s)]] IN
        IF next \in Clusters /\ Len(s) < LastCluster THEN follow[Append(s, next)] ELSE s
  IN  IF c \in Clusters THEN follow[<<c>>] ELSE <<>>

Chain(c) == ChainIn(fat1, c)

(***************************************************************************)
(* Entry number k (from 0) of a directory: where the loops of find_in_dir, *)
(* find_free_slot, rename and remove read it, following the chain.         *)
(***************************************************************************)
PerCluster == SectorsPerCluster * SlotCount

PlacesOf(chain) ==
  [k \in 0 .. Len(chain) * PerCluster - 1 |->
     << Lba(chain[k \div PerCluster + 1]) + (k % PerCluster) \div SlotCount,
        (k % SlotCount) + 1 >>]

Place(dir, k) == PlacesOf(Chain(dir))[k]

At(p) == data[p[1]][p[2]]

EntryAt(dir, k) == At(Place(dir, k))

ReadAll(places) == [k \in DOMAIN places |-> At(places[k])]

Entries(dir) == ReadAll(PlacesOf(Chain(dir)))

\* The least of a set of indices, or -1.
Least(S) == IF S = {} THEN -1 ELSE CHOOSE k \in S : \A j \in S : k <= j

(***************************************************************************)
(* find_in_dir: the first entry of that name before the end mark, or -1.   *)
(***************************************************************************)
BeforeEnd(es, k) == \A j \in 0 .. k : es[j] # End

Named(es, name) ==
  {k \in DOMAIN es : es[k].kind = "entry" /\ es[k].name = name /\ BeforeEnd(es, k)}

FindInDir(dir, name) == Least(Named(Entries(dir), name))

(***************************************************************************)
(* find_free_slot: the first end mark or deleted entry, or -1.             *)
(***************************************************************************)

FreeSlots(es) == {k \in DOMAIN es : es[k] \in {End, Deleted}}

FindFreeSlot(dir) == Least(FreeSlots(Entries(dir)))

\* Mutant of AllocCluster: it takes the first entry without testing it.
AllocClusterAny  == Least(Clusters)

(***************************************************************************)
(* alloc_cluster: the first free entry of the FAT sectors, or -1 (0 in the *)
(* code).  The last FAT sector may have entries for clusters the device    *)
(* does not have.                                                          *)
(***************************************************************************)
AllocCluster == Least({c \in Clusters : fat1[c] = FreeCluster})

(***************************************************************************)
(* get_parent_cluster: the directory the last component of a path is in,   *)
(* or 0.  One step of a walk is a function of the directory, which TLC     *)
(* applies to a cluster and not to the expression of the whole way there.  *)
(***************************************************************************)
ClusterIfDir(dir, k) ==
  IF k >= 0 /\ EntryAt(dir, k).dir THEN EntryAt(dir, k).cluster ELSE 0

Subdirectory(name) ==
  [dir \in Clusters \cup {0} |->
     IF dir = 0 THEN 0 ELSE ClusterIfDir(dir, FindInDir(dir, name))]

Enter(dir, name) == Subdirectory(name)[dir]

ParentCluster(path) ==
  LET dir[i \in 0 .. Len(path) - 1] == IF i = 0 THEN Root ELSE Enter(dir[i - 1], path[i])
  IN  dir[Len(path) - 1]

Leaf(path) == path[Len(path)]

(***************************************************************************)
(* Where the entry a path leads to is: its directory and its index there   *)
(* (open, is_directory and the search loops of rename, remove and          *)
(* overwrite_file).  The index is -1 when there is none.                   *)
(***************************************************************************)
EntryNamed(name) ==
  [dir \in Clusters \cup {0} |-> <<dir, IF dir = 0 THEN -1 ELSE FindInDir(dir, name)>>]

LocateIn(dir, name) == EntryNamed(name)[dir]

Locate(path) == LocateIn(ParentCluster(path), Leaf(path))

EntryOf(t) == EntryAt(t[1], t[2])

Lookup(path) == EntryOf(Locate(path))

(***************************************************************************)
(* What the model does not follow.  name_match compares up to the first    *)
(* zero byte, and a search takes the bytes of a slot as they are: a piece  *)
(* of the FAT, or a file's data, that has come to lie in a directory may   *)
(* read as an entry with the name looked for and any cluster, as an end    *)
(* mark or as a deleted entry.  And the loops over a directory, which test *)
(* the upper bound of a cluster number only, go on from a free link to     *)
(* cluster 0, the sectors before data_start.  A search that passes such a  *)
(* place, on its way to entry t[2] of the directory t[1] or to its end, may*)
(* find none of it (the model then takes it for no entry) or go astray.    *)
(***************************************************************************)
LastLink(c) == LET chain == Chain(c) IN fat1[chain[Len(chain)]]

Passed(es, k) == {j \in DOMAIN es : BeforeEnd(es, j) /\ (k >= 0 => j < k)}

RunsOff(t) == t[2] = -1 /\ \A k \in DOMAIN Entries(t[1]) : EntryAt(t[1], k) # End

Astray(t) ==
  \/ \E es \in {Entries(t[1])} : \E k \in Passed(es, t[2]) : es[k].kind \in {"junk", "data"}
  \/ RunsOff(t) /\ LastLink(t[1]) = FreeCluster

\* A loop that nothing ends before the chain does never ends on a chain with a cycle.
Circles(c) == c \in Clusters /\ LastLink(c) \in Clusters
Endless(t) == RunsOff(t) /\ Circles(t[1])

\* Where the searches for the components of a path end.  mkdir looks up all but the last.
Searches(q) ==
  {t \in {Locate(SubSeq(q.path, 1, i)) :
             i \in 1 .. (IF q.op = "mkdir" THEN Len(q.path) - 1 ELSE Len(q.path))} : t[1] # 0}

Found(path)       == Locate(path)[2] >= 0
IsFile(path)      == Found(path) /\ ~Lookup(path).dir
IsDirectory(path) == Found(path) /\ Lookup(path).dir

-----------------------------------------------------------------------------
(***************************************************************************)
(* Calls and returns.                                                      *)
(***************************************************************************)
NoReg == [cluster |-> 0, dir |-> 0, sector |-> 0, index |-> 0, cleared |-> FALSE]

Init ==
  /\ \E d \in Disks : fat1 = d.fat /\ fat2 = d.fat /\ data = d.data
  /\ req = [op |-> "none", path |-> <<>>]
  /\ pc = "idle" /\ reg = NoReg /\ ret = "none" /\ faults = 0

Return(r) ==
  /\ pc' = "idle" /\ reg' = NoReg /\ ret' = r
  /\ UNCHANGED req

Call(q, r, first) ==
  /\ req' = q /\ ret' = "none" /\ reg' = r /\ pc' = first
  /\ UNCHANGED <<disk, faults>>

Refuse(q) ==
  /\ req' = q /\ ret' = "failed"
  /\ UNCHANGED <<disk, faults, pc, reg>>

Fault == faults < MaxFaults /\ faults' = faults + 1

WentWrong == {"astray", "endless"}

\* A call that goes wrong: nothing ends it, and the model claims nothing after one gone astray.
GoWrong(q, how) ==
  /\ req' = q /\ ret' = "none" /\ pc' = how
  /\ UNCHANGED <<disk, faults, reg>>

\* The loops of the beginning of a call: the lookups, and the one of overwrite_file that adds
\* up the clusters of its file.
Hangs(q) ==
  \/ \E t \in Searches(q) : Endless(t)
  \/ q.op = "overwrite" /\ IsFile(q.path) /\ Circles(Lookup(q.path).cluster)

BeginWrong(q) ==
  /\ pc = "idle"
  /\ Hangs(q) \/ \E t \in Searches(q) : Astray(t)
  /\ GoWrong(q, IF Hangs(q) THEN "endless" ELSE "astray")

Goto(next) ==
  /\ pc' = next
  /\ UNCHANGED <<req, reg, ret, faults>>

\* Mutant of WriteFails: the outcome of the write is ignored.
WriteFailsUnnoticed == Fault /\ Return("ok") /\ UNCHANGED disk

(***************************************************************************)
(* A write that fails leaves the sector alone, and the call returns false. *)
(***************************************************************************)
WriteFails == Fault /\ Return("failed") /\ UNCHANGED disk

\* Mutants of the two halves of write_fat: nothing is written.
WriteFat1Lost(c, v) == UNCHANGED disk
WriteFat2Lost(c)    == UNCHANGED disk

(***************************************************************************)
(* The first half of write_fat updates the entry in FAT1.  The second half *)
(* writes the sector just written to FAT1 over the same sector of FAT2,    *)
(* and ignores the outcome.                                                *)
(***************************************************************************)
WriteFat1(c, v) ==
  /\ fat1' = [fat1 EXCEPT ![c] = v]
  /\ UNCHANGED <<fat2, data>>

SameFatSector(c, d) == c \div FatPerSector = d \div FatPerSector

WriteFat2(c) ==
  /\ fat2' = [d \in Clusters |-> IF SameFatSector(c, d) THEN fat1[d] ELSE fat2[d]]
  /\ UNCHANGED <<fat1, data>>

WriteSector(lba, sector) ==
  /\ lba \in Sectors
  /\ data' = [data EXCEPT ![lba] = sector]
  /\ UNCHANGED <<fat1, fat2>>

(***************************************************************************)
(* write_dir_entry: the sector of entry k is counted from the FIRST        *)
(* cluster of the directory, without following the chain.                  *)
(***************************************************************************)
DirEntryLba(dir, k) == Lba(dir) + k \div SlotCount

WriteDirEntry(dir, k, e) ==
  /\ DirEntryLba(dir, k) \in Sectors
  /\ WriteSector(DirEntryLba(dir, k),
                 [data[DirEntryLba(dir, k)] EXCEPT ![(k % SlotCount) + 1] = e])

-----------------------------------------------------------------------------
(***************************************************************************)
(* mkdir                                                                   *)
(***************************************************************************)

MkdirBegin(q) ==
  /\ pc = "idle" /\ q.op = "mkdir" /\ ~Hangs(q)
  /\ LET parent == ParentCluster(q.path)
         new    == AllocCluster
     IN  IF parent = 0 \/ new = -1
           THEN Refuse(q)
           ELSE Call(q, [NoReg EXCEPT !.cluster = new, !.dir = parent], "mkdir_fat1")

\* Mutant of MkdirFat1: the new cluster is marked with a link to itself.
MkdirFat1Self ==
  /\ pc = "mkdir_fat1"
  /\ \/ WriteFat1(reg.cluster, reg.cluster) /\ Goto("mkdir_fat2")
     \/ WriteFails

MkdirFat1 ==
  /\ pc = "mkdir_fat1"
  /\ \/ WriteFat1(reg.cluster, EndOfChain) /\ Goto("mkdir_fat2")
     \/ WriteFails

MkdirFat2 ==
  /\ pc = "mkdir_fat2"
  /\ \/ WriteFat2(reg.cluster) /\ Goto("mkdir_zero")
     \/ Fault /\ pc' = "mkdir_zero" /\ UNCHANGED <<disk, req, reg, ret>>

\* zero_cluster, sector by sector.  The device refuses a sector it does not have.
MkdirZero ==
  /\ pc = "mkdir_zero"
  /\ LET lba == Lba(reg.cluster) + reg.sector IN
       \/ /\ WriteSector(lba, EmptySector)
          /\ reg' = [reg EXCEPT !.sector = @ + 1]
          /\ pc' = IF reg.sector + 1 = SectorsPerCluster THEN "mkdir_dot" ELSE pc
          /\ UNCHANGED <<req, ret, faults>>
       \/ lba \notin Sectors /\ Return("failed") /\ UNCHANGED <<disk, faults>>
       \/ WriteFails

MkdirDot ==
  /\ pc = "mkdir_dot"
  /\ \/ WriteDirEntry(reg.cluster, 0, Entry(Dot, reg.cluster, TRUE, 0)) /\ Goto("mkdir_dotdot")
     \/ WriteFails

MkdirDotDot ==
  /\ pc = "mkdir_dotdot"
  /\ \/ WriteDirEntry(reg.cluster, 1, Entry(DotDot, reg.dir, TRUE, 0)) /\ Goto("mkdir_entry")
     \/ WriteFails

MkdirEntry ==
  /\ pc = "mkdir_entry" /\ ~Endless(<<reg.dir, FindFreeSlot(reg.dir)>>)
  /\ LET k == FindFreeSlot(reg.dir)
         e == Entry(StoredName[Leaf(req.path)], reg.cluster, TRUE, 0)
     IN  \/ /\ k >= 0
            /\ WriteDirEntry(reg.dir, k, e)
            /\ Return("ok") /\ UNCHANGED faults
         \/ /\ k < 0 \/ DirEntryLba(reg.dir, k) \notin Sectors
            /\ Return("failed") /\ UNCHANGED <<disk, faults>>
         \/ WriteFails

(***************************************************************************)
(* rename: one write, in the sector the entry was read from.  The entry is *)
(* rebuilt from the new name, its cluster, its kind and its size.          *)
(***************************************************************************)
RenameBegin(q) ==
  /\ pc = "idle" /\ q.op = "rename" /\ ~Hangs(q)
  /\ LET t == Locate(q.path) IN
       IF t[2] >= 0
         THEN Call(q, [NoReg EXCEPT !.dir = t[1], !.index = t[2]], "rename_entry")
         ELSE Refuse(q)

\* Mutant of Overlay: the sector is not read first.
OverlayBlank(p, e) == [EmptySector EXCEPT ![p[2]] = e]

Overlay(p, e) == [data[p[1]] EXCEPT ![p[2]] = e]

RenameEntry ==
  /\ pc = "rename_entry"
  /\ LET p   == Place(reg.dir, reg.index)
         old == At(p)
         new == Entry(StoredName[req.name], old.cluster, old.dir, old.size)
     IN  \/ WriteSector(p[1], Overlay(p, new)) /\ Return("ok") /\ UNCHANGED faults
         \/ WriteFails

(***************************************************************************)
(* overwrite_file: the data first, cluster by cluster, then the size.      *)
(***************************************************************************)
Capacity(c) == Len(Chain(c)) * SectorsPerCluster

OverwriteBegin(q) ==
  /\ pc = "idle" /\ q.op = "overwrite" /\ ~Hangs(q)
  /\ IF IsFile(q.path) /\ q.size <= Capacity(Lookup(q.path).cluster)
       THEN Call(q, [NoReg EXCEPT !.cluster = Lookup(q.path).cluster],
                 IF q.size = 0 THEN "overwrite_size" ELSE "overwrite_data")
       ELSE Refuse(q)

\* The registers after a sector of data: index counts the sectors written, sector
\* is the one within the cluster, and after the last of a cluster comes fat_next.
LastOfCluster(r) == r.sector + 1 = SectorsPerCluster

\* Mutant of Advance: the chain is not followed.
AdvanceInPlace(r) ==
  [r EXCEPT !.index = @ + 1, !.sector = IF LastOfCluster(r) THEN 0 ELSE @ + 1]

Advance(r) ==
  IF LastOfCluster(r)
    THEN [r EXCEPT !.index = @ + 1, !.sector = 0, !.cluster = fat1[@]]
    ELSE [r EXCEPT !.index = @ + 1, !.sector = @ + 1]

OverwriteData ==
  /\ pc = "overwrite_data"
  /\ \/ /\ WriteSector(Lba(reg.cluster) + reg.sector, FileSector(req.data))
        /\ reg' = Advance(reg)
        /\ pc' = IF reg'.index = req.size \/ reg'.cluster \notin Clusters
                   THEN "overwrite_size" ELSE pc
        /\ UNCHANGED <<req, ret, faults>>
     \/ WriteFails

\* fat_next returns an end of chain when its read fails: the data loop ends
\* early, and the call goes on to write the size.
OverwriteCutShort ==
  /\ pc = "overwrite_data" /\ reg.index > 0 /\ reg.sector = 0
  /\ Fault
  /\ pc' = "overwrite_size"
  /\ UNCHANGED <<disk, req, reg, ret>>

\* The path is looked up again: the data may have gone over the directories it leads through.
OverwriteSize ==
  /\ pc = "overwrite_size" /\ ~\E t \in Searches(req) : Endless(t)
  /\ \E t \in {Locate(req.path)} :
       LET p == Place(t[1], t[2])
       IN  \/ /\ t[2] >= 0
              /\ WriteSector(p[1], Overlay(p, [At(p) EXCEPT !.size = req.size]))
              /\ Return("ok") /\ UNCHANGED faults
           \/ t[2] < 0 /\ Return("failed") /\ UNCHANGED <<disk, faults>>
           \/ WriteFails

(***************************************************************************)
(* remove: frees the chain, then marks the entry.  fat_next and write_fat  *)
(* read the FAT into the static sector_buf that the directory sector was   *)
(* read into: after them the buffer holds a sector of the FAT, and that is *)
(* what the last write puts, with one byte changed, where the directory    *)
(* sector was.  Each entry of the image starts with a FAT word: a free one *)
(* (0) reads as the end mark; what any other reads as is left open (Junk). *)
(*                                                                         *)
(* Its locals: cluster is the next one to free, sector the cluster whose   *)
(* FAT sector is in the buffer (0: still the directory sector), cleared    *)
(* whether the buffer shows that cluster as free.                          *)
(***************************************************************************)
RemoveBegin(q) ==
  /\ pc = "idle" /\ q.op = "remove" /\ ~Hangs(q)
  /\ LET t == Locate(q.path) IN
       IF t[2] >= 0
         THEN LET first == EntryOf(t).cluster IN
              Call(q, [NoReg EXCEPT !.dir = t[1], !.index = t[2], !.cluster = first],
                   IF first \in Clusters THEN "remove_fat1" ELSE "remove_entry")
         ELSE Refuse(q)

\* fat_next, then the first half of write_fat.  Nothing fails; the read of fat_next
\* fails, which it reports as an end of chain; write_fat fails, at its read or at its
\* write, which remove ignores.
RemoveFat1 ==
  /\ pc = "remove_fat1"
  /\ LET c    == reg.cluster
         next == fat1[c]
         buffered(n, cleared) ==
           [cluster |-> n, dir |-> reg.dir, sector |-> c, index |-> reg.index,
            cleared |-> cleared]
     IN  \/ /\ WriteFat1(c, FreeCluster)
            /\ reg' = buffered(next, TRUE)
            /\ pc' = "remove_fat2" /\ UNCHANGED faults
         \/ /\ WriteFat1(c, FreeCluster)
            /\ reg' = buffered(EndOfChain, TRUE)
            /\ pc' = "remove_fat2" /\ Fault
         \/ /\ \E cleared \in BOOLEAN : reg' = buffered(next, cleared)
            /\ pc' = IF next \in Clusters THEN "remove_fat1" ELSE "remove_entry"
            /\ Fault /\ UNCHANGED disk
  /\ UNCHANGED <<req, ret>>

RemoveFat2 ==
  /\ pc = "remove_fat2"
  /\ pc' = IF reg.cluster \in Clusters THEN "remove_fat1" ELSE "remove_entry"
  /\ \/ WriteFat2(reg.sector) /\ UNCHANGED faults
     \/ Fault /\ UNCHANGED disk
  /\ UNCHANGED <<req, reg, ret>>

FatImage(c, cleared) ==
  LET first == (c \div FatPerSector) * FatPerSector IN
  [i \in Slots |->
     LET w == first + (i - 1) * WordsPerSlot IN
       IF w > LastCluster \/ (w = c /\ cleared) \/ (w \in Clusters /\ fat1[w] = FreeCluster)
         THEN End ELSE Junk]

RemoveEntry ==
  /\ pc = "remove_entry"
  /\ LET p      == Place(reg.dir, reg.index)
         buffer == IF reg.sector = 0 THEN data[p[1]] ELSE FatImage(reg.sector, reg.cleared)
     IN  \/ /\ WriteSector(p[1], [buffer EXCEPT ![p[2]] = Deleted])
            /\ Return("ok") /\ UNCHANGED faults
         \/ WriteFails

(***************************************************************************)
(* The machine stops in the middle of a call and starts again.  mount only *)
(* reads the boot sector.                                                  *)
(***************************************************************************)
Restart ==
  /\ pc \notin {"idle", "astray"}
  /\ Fault
  /\ Return("stopped")
  /\ UNCHANGED disk

(***************************************************************************)
(* A read fails while the call looks its path up: it returns false.        *)
(***************************************************************************)
LookupFails(q) ==
  /\ pc = "idle"
  /\ Fault
  /\ req' = q /\ ret' = "failed"
  /\ UNCHANGED <<disk, pc, reg>>

Begin ==
  \E q \in Requests :
    LookupFails(q) \/ BeginWrong(q) \/ MkdirBegin(q) \/ RenameBegin(q) \/ OverwriteBegin(q) \/ RemoveBegin(q)

Mkdir     == MkdirFat1 \/ MkdirFat2 \/ MkdirZero \/ MkdirDot \/ MkdirDotDot \/ MkdirEntry
Overwrite == OverwriteData \/ OverwriteCutShort \/ OverwriteSize
Remove    == RemoveFat1 \/ RemoveFat2 \/ RemoveEntry

Step == Mkdir \/ RenameEntry \/ Overwrite \/ Remove

\* The search for a free slot, and the second lookup of overwrite_file.
LaterSearches ==
  CASE pc = "mkdir_entry"    -> {<<reg.dir, FindFreeSlot(reg.dir)>>}
    [] pc = "overwrite_size" -> Searches(req)
    [] OTHER                 -> {}

GoesWrong ==
  /\ \E t \in LaterSearches : Endless(t) \/ Astray(t)
  /\ GoWrong(req, IF \E t \in LaterSearches : Endless(t) THEN "endless" ELSE "astray")

StaysWrong == pc \in WentWrong /\ UNCHANGED vars

Next == Begin \/ Step \/ GoesWrong \/ StaysWrong \/ Restart

Spec == Init /\ [][Next]_vars

\* A call keeps running: the processor does not stop between two instructions
\* for ever, and the ATA driver's waits are bounded.
FairSpec == Spec /\ WF_vars(Step)

-----------------------------------------------------------------------------
(***************************************************************************)
(* Properties.                                                             *)
(***************************************************************************)
SlotValue ==
  {End, Deleted, Junk} \cup {Content(d) : d \in Data}
    \cup [kind : {"entry"}, name : Names \cup {Dot, DotDot}, cluster : Clusters \cup {0},
          dir : BOOLEAN, size : Nat]

\* Type invariant of the volume and of the registers of a call.
TypeOK ==
  /\ fat1 \in [Clusters -> FatEntry] /\ fat2 \in [Clusters -> FatEntry]
  /\ DOMAIN data = Sectors
  /\ \A l \in Sectors : DOMAIN data[l] = Slots /\ \A i \in Slots : data[l][i] \in SlotValue
  /\ req.op \in {"none", "mkdir", "rename", "overwrite", "remove"}
  /\ reg.cluster \in 0 .. EndOfChain /\ reg.dir \in 0 .. LastCluster
  /\ ret \in {"none", "ok", "failed", "stopped"}
  /\ (ret = "none" /\ req.op # "none") <=> pc # "idle"
  /\ faults \in 0 .. MaxFaults

(***************************************************************************)
(* The entries of a directory that lookups see, without . and ..           *)
(***************************************************************************)
VisibleIn(es) ==
  {k \in DOMAIN es : es[k].kind = "entry" /\ es[k].name \notin {Dot, DotDot} /\ BeforeEnd(es, k)}

Visible(dir) == VisibleIn(Entries(dir))

SubdirsIn(es) == {es[k].cluster : k \in {j \in VisibleIn(es) : es[j].dir}}

\* The clusters the device has.
OnDevice == {c \in Clusters : Lba(c) + SectorsPerCluster - 1 \in Sectors}

\* The directories of the tree, as their first clusters: what the root leads to.
Leads == UNION {{d} \X (SubdirsIn(Entries(d)) \cap Clusters) : d \in OnDevice}

ClosedUnder(leads, S) == Root \in S /\ \A l \in leads : l[1] \in S => l[2] \in S

LedTo(leads) == {d \in Clusters : \A S \in SUBSET Clusters : ClosedUnder(leads, S) => d \in S}

\* (The bound variable has TLC evaluate Leads once, in the next state too.)
Directories == UNION {LedTo(leads) : leads \in {Leads}}

\* The entries of the tree, as pairs of a directory and an index.
Tree == UNION {{<<d, k>> : k \in Visible(d)} : d \in Directories}

ChainOf(t) == Range(Chain(EntryOf(t).cluster))

\* The cluster a running mkdir has marked and not linked yet, or had when it went wrong.
InFlight ==
  IF pc \in {"mkdir_fat2", "mkdir_zero", "mkdir_dot", "mkdir_dotdot", "mkdir_entry"} \cup WentWrong
    THEN {reg.cluster} ELSE {}

\* Clusters marked in the FAT that neither an entry of the tree nor a running mkdir holds.
Held   == {Root} \cup InFlight \cup UNION {ChainOf(t) : t \in Tree}
Leaked == {c \in Clusters : fat1[c] # FreeCluster} \ Held

\* No entry leads to a free cluster: a lookup never enters, and a later
\* allocation never takes, a cluster some entry still uses.  mkdir keeps this in
\* every state, restarts included, because it marks the cluster before it links it.
NoDangling ==
  \A t \in Tree : /\ EntryOf(t).dir => EntryOf(t).cluster \in Clusters
                  /\ \A c \in ChainOf(t) : fat1[c] # FreeCluster

\* No cluster belongs to two entries, or to an entry and the root directory.
NoCrossLink ==
  /\ \A t, u \in Tree : t # u => ChainOf(t) \cap ChainOf(u) = {}
  /\ \A t \in Tree : ChainOf(t) \cap Range(Chain(Root)) = {}

\* Without failures the volume is sound between calls, in spite of the directory
\* sectors remove damages: what it damages hides entries, and never makes one lead
\* to a free cluster or to another file's.  (remove frees the chain before it marks
\* the entry, so an interrupted one leaves an entry that leads to free clusters.)
SoundBetweenCalls == pc = "idle" /\ faults = 0 => NoDangling /\ NoCrossLink

\* A directory that a lookup can reach is complete: it begins with . leading to
\* itself and .. leading to the directory it is in, and has no other entry of these
\* names; the root, which is in none, has neither.  The entry in the parent must be
\* the last of the six writes of mkdir.
CompleteDirectories ==
  /\ \A t \in Tree : EntryOf(t).dir =>
       LET d == EntryOf(t).cluster IN
         /\ EntryAt(d, 0) = Entry(Dot, d, TRUE, 0)
         /\ EntryAt(d, 1) = Entry(DotDot, t[1], TRUE, 0)
  /\ \A d \in Directories : \A k \in (IF d = Root THEN 0 ELSE 2) .. PerCluster - 1 :
       EntryAt(d, k).kind = "entry" => EntryAt(d, k).name \notin {Dot, DotDot}

\* The size of a file never exceeds what its chain holds, however an overwrite is
\* interrupted: reading it never runs off the chain.
SizeFits ==
  \A t \in Tree : ~EntryOf(t).dir => EntryOf(t).size <= Capacity(EntryOf(t).cluster)

\* A directory is one cluster, which the device has, and after its end mark there is
\* nothing: an entry that takes the place of the mark uncovers no other.
DirectoriesWhole ==
  \A d \in Directories :
    /\ d \in OnDevice /\ fat1[d] = EndOfChain
    /\ \A k \in 1 .. PerCluster - 1 : EntryAt(d, k - 1) = End => EntryAt(d, k) = End

\* The chain of a file ends, and is not cut.
ChainsEnd ==
  \A t \in Tree : LET chain == Chain(EntryOf(t).cluster) IN
    chain # <<>> => fat1[chain[Len(chain)]] = EndOfChain

\* The tree is sound after every single write of mkdir, rename and overwrite, with a failure or a
\* restart at any of them (FAT32.h:355-413, 419-464, 604-634).
TreeSound ==
  /\ TypeOK /\ NoDangling /\ NoCrossLink /\ CompleteDirectories /\ SizeFits
  /\ DirectoriesWhole /\ ChainsEnd

\* Without failures the two copies of the FAT agree, except between the two halves
\* of write_fat.
FatsAgree ==
  faults = 0 /\ pc \notin {"mkdir_fat2", "remove_fat2"} => fat1 = fat2

\* A successful mkdir put a directory of that name where lookups of the parent
\* see it (step 5 of mkdir, "Créer l'entrée dans le répertoire parent",
\* FAT32.h:451).
MkdirLinks ==
  ret = "ok" /\ req.op = "mkdir" =>
    LET dir == ParentCluster(req.path) IN
    \E k \in Visible(dir) :
      EntryAt(dir, k).name = StoredName[Leaf(req.path)] /\ EntryAt(dir, k).dir

\* Without failures a successful overwrite wrote all the data and the size
\* ("Écraser un fichier existant", FAT32.h:355).  (A failed read of the FAT cuts
\* the data loop short, and the call still reports success.)
OverwriteWrites ==
  ret = "ok" /\ req.op = "overwrite" /\ faults = 0 =>
    LET e     == Lookup(req.path)
        chain == Chain(e.cluster)
    IN  /\ e.size = req.size
        /\ \A i \in 0 .. req.size - 1 :
             data[Lba(chain[i \div SectorsPerCluster + 1]) + (i % SectorsPerCluster)]
               = FileSector(req.data)

\* Success means that the call did what it says.
SuccessIsTrue == MkdirLinks /\ OverwriteWrites

\* However calls are interrupted, the root directory keeps its cluster: no entry ever
\* leads to it, so that no remove frees it and no mkdir takes it.
RootKept == fat1[Root] = EndOfChain

\* What is left of soundness when remove is among the calls (FAT32.h:642-681), for as long as
\* no search has gone astray in a directory that remove damaged.
SurvivesRemove == SoundBetweenCalls /\ RootKept

\* The entry a running rename or overwrite is about.
Targets == IF req.op \in {"rename", "overwrite", "remove"} /\ pc \notin {"idle"} \cup WentWrong
             THEN {Locate(req.path)} ELSE {}

\* The sectors of a file's data.
SectorsOf(t) ==
  {Lba(c) + s : c \in ChainOf(t), s \in 0 .. SectorsPerCluster - 1} \cap Sectors

\* What a step does to an entry that is not its target, and what a rename does to its own.
Untouched(t) ==
  LET p == Place(t[1], t[2]) IN
    /\ data'[p[1]][p[2]] = EntryOf(t)
    /\ \A c \in ChainOf(t) : fat1'[c] = fat1[c]
    /\ ~EntryOf(t).dir => \A l \in SectorsOf(t) : data'[l] = data[l]

OnlyRenamed(t) ==
  LET p == Place(t[1], t[2])
      e == EntryOf(t)
  IN  /\ [data'[p[1]][p[2]] EXCEPT !.name = e.name] = e
      /\ ~e.dir => \A l \in SectorsOf(t) : data'[l] = data[l]

Bystanding ==
  /\ \A t \in Tree \ Targets : Untouched(t)
  /\ req.op = "rename" => \A t \in Targets : OnlyRenamed(t)

\* A call touches nothing but what it is about: the entry, the chain and the data
\* of every other file stay as they are through each of its writes, failures and
\* restarts; a rename keeps even its own file's cluster, kind and size.
BystandersKept == [][Bystanding]_vars

OnlyFailuresLose ==
  \/ UNCHANGED <<disk, InFlight>>      \* what Leaked depends on
  \/ LET lost == Leaked' \ Leaked IN
     lost \subseteq InFlight /\ (lost # {} => ret' \in {"failed", "stopped"})

\* A call loses at most one cluster, the one a mkdir has just marked, and only if it
\* fails or is interrupted: no write of any call cuts a cluster off the tree.
LeaksOnlyOnFailure == [][OnlyFailuresLose]_vars

\* Every call that does not go astray returns: no call, whole or interrupted, leaves a chain with
\* a cycle, on which a lookup, the search for a free slot or the loop over a file's clusters
\* would run for ever (FAT32.h:105, 146, 247, 367).
CallsReturn == (pc \notin {"idle", "astray"}) ~> (pc \in {"idle", "astray"})
=============================================================================
