------------------------------- MODULE Volume -------------------------------
(***************************************************************************)
(* Making a volume: RamDiskFormatter::format of kernel/drivers/ramdrv.h    *)
(* for A: at boot, FAT32::format of kernel/fs/FAT32.h for the command      *)
(* FATFS, and mount.  The routines write one sector or a run of sectors at *)
(* a time and look at no result.                                           *)
(*                                                                         *)
(* A sector holds zeroes, a boot record, the marks that begin a FAT, what  *)
(* a file system wrote later or what was there before.                     *)
(***************************************************************************)
EXTENDS Integers, Sequences

CONSTANTS
  DriveSectors,     \* volume -> sectors of its disk
  Ram,              \* the volume on the RAM disk
  EntriesPerSector, \* entries of the FAT in a sector: 128
  RamReserved,      \* 4
  FatfsTotal,       \* 1048576: the size FAT32::format assumes
  FatfsReserved,    \* 32
  FatfsSpc,         \* sectors per cluster: 8
  Backup            \* sector of the second boot record: 6

ASSUME VolumeAssumption ==
  /\ Ram \in DOMAIN DriveSectors
  /\ \A v \in DOMAIN DriveSectors : DriveSectors[v] \in Nat \ {0}
  /\ {EntriesPerSector, RamReserved, FatfsTotal, FatfsReserved, FatfsSpc, Backup} \subseteq Nat \ {0}

Volumes == DOMAIN DriveSectors

VARIABLES
  sector,    \* volume -> address -> what the sector holds
  mounted,   \* volume -> the boot record FAT32 works with, or NoBoot
  routine,   \* "ram" or "fatfs"
  step,      \* its next write, or Done
  target,    \* the volume being formatted
  fresh,     \* history: volumes formatted and not used since
  refused    \* history: volumes of which the last format had a write refused

format_vars == <<sector, mounted, routine, step, target, fresh, refused>>

Holds(k) == [kind |-> k]
NoBoot == Holds("none")
Done == 0

AddressesOf(v) == 0..(DriveSectors[v] - 1)

-----------------------------------------------------------------------------
(***************************************************************************)
(* Geometry.                                                               *)
(***************************************************************************)
CeilDiv(n, d) == (n + d - 1) \div d

\* The data sectors of RamDiskFormatter are all that follow the reserved ones.
ram_fat_size == CeilDiv(DriveSectors[Ram] - RamReserved, EntriesPerSector)

\* FAT32::format computes the size again with the FATs taken off.
FatFor(sectors) == CeilDiv(sectors \div FatfsSpc, EntriesPerSector)
fatfs_fat_size ==
  LET first == FatFor(FatfsTotal - FatfsReserved)
  IN  FatFor(FatfsTotal - FatfsReserved - 2 * first)

Boot(reserved, fat_size, spc, total) ==
  [kind |-> "boot", reserved |-> reserved, fat_size |-> fat_size, spc |-> spc, total |-> total]

fat_start(b) == b.reserved
fat2_start(b) == b.reserved + b.fat_size
data_start(b) == b.reserved + 2 * b.fat_size
cluster_to_lba(b, c) == data_start(b) + (c - 2) * b.spc

RamBoot == Boot(RamReserved, ram_fat_size, 1, DriveSectors[Ram])
FatfsBoot == Boot(FatfsReserved, fatfs_fat_size, FatfsSpc, FatfsTotal)

\* C: has a volume made elsewhere and in use, of the geometry FAT32::format would give it.
FormatInit ==
  /\ sector = [v \in Volumes |-> [a \in AddressesOf(v) |-> IF v # Ram /\ a = 0 THEN FatfsBoot ELSE Holds("used")]]
  /\ mounted = [v \in Volumes |-> IF v = Ram THEN NoBoot ELSE FatfsBoot]
  /\ routine = "ram" /\ step = Done /\ target = Ram /\ fresh = {} /\ refused = {}

-----------------------------------------------------------------------------
(***************************************************************************)
(* The writes of the two routines, in their order: <<addresses, content>>. *)
(***************************************************************************)
Run(first, n) == first..(first + n - 1)

Fats(b) ==
  << <<{fat_start(b)}, Holds("marks")>>, <<{fat2_start(b)}, Holds("marks")>> >>

RamWrites ==
  LET b == RamBoot
  IN  << <<AddressesOf(Ram), Holds("zero")>>,
         <<{0}, b>>,
         <<{fat_start(b)}, Holds("zero")>>, <<{fat2_start(b)}, Holds("zero")>>,
         Fats(b)[1], Fats(b)[2],
         <<{data_start(b)}, Holds("zero")>> >>

\* Mutant of FatfsWrites: the second FAT is not cleared.
FatfsWritesOneFat ==
  LET b == FatfsBoot
  IN  << <<{0}, b>>, <<{Backup}, b>>, <<{1}, Holds("info")>>,
         <<Run(fat_start(b), b.fat_size), Holds("zero")>>,
         Fats(b)[1], Fats(b)[2],
         <<Run(data_start(b), FatfsSpc), Holds("zero")>> >>

FatfsWrites ==
  LET b == FatfsBoot
  IN  << <<{0}, b>>, <<{Backup}, b>>, <<{1}, Holds("info")>>,
         <<Run(fat_start(b), b.fat_size), Holds("zero")>>,
         <<Run(fat2_start(b), b.fat_size), Holds("zero")>>,
         Fats(b)[1], Fats(b)[2],
         <<Run(data_start(b), FatfsSpc), Holds("zero")>> >>

Writes == IF routine = "ram" THEN RamWrites ELSE FatfsWrites

\* A disk refuses what is past its end (RamDisk::write), and a write of C: may fail.
Write ==
  /\ step \in DOMAIN Writes
  /\ LET w == Writes[step]
         there == w[1] \cap AddressesOf(target)
     IN  \E fails \in {{}} \cup (IF target = Ram THEN {} ELSE {{a} : a \in there}) :
           /\ sector' = [sector EXCEPT ![target] =
                           [a \in AddressesOf(target) |-> IF a \in there \ fails THEN w[2] ELSE @[a]]]
           /\ refused' = IF w[1] \subseteq there \ fails THEN refused ELSE refused \cup {target}
  /\ step' = step + 1
  /\ UNCHANGED <<mounted, routine, target, fresh>>

\* mount takes the record it finds in sector 0.  If it cannot read it the volume is unmounted.
Mount ==
  /\ step = Len(Writes) + 1
  /\ mounted' = [mounted EXCEPT ![target] = sector[target][0]]
  /\ fresh' = fresh \cup {target} /\ step' = Done
  /\ UNCHANGED <<sector, routine, target, refused>>

MountFails ==
  /\ step = Len(Writes) + 1 /\ target # Ram
  /\ mounted' = [mounted EXCEPT ![target] = NoBoot]
  /\ step' = Done
  /\ UNCHANGED <<sector, routine, target, fresh, refused>>

Start(r, v) ==
  /\ step = Done
  /\ routine' = r /\ target' = v /\ step' = 1
  /\ refused' = refused \ {v} /\ fresh' = fresh \ {v}

\* init: the RAM disk is formatted and mounted first.
BootRam == mounted[Ram] = NoBoot /\ Start("ram", Ram) /\ UNCHANGED <<sector, mounted>>

\* FATFS, confirmed.  The RAM disk is the target when its letter is glued to the command word
\* (Shell!Target).
cmd_fatfs(v) ==
  /\ mounted[Ram] # NoBoot
  /\ Start("fatfs", v)
  /\ UNCHANGED <<sector, mounted>>

\* The file system fills a volume it has mounted, FATs and data.
Use(v) ==
  /\ step = Done /\ mounted[v] # NoBoot /\ v \in fresh
  /\ sector' = [sector EXCEPT ![v] =
                  [a \in AddressesOf(v) |-> IF a >= fat_start(mounted[v]) THEN Holds("used") ELSE @[a]]]
  /\ fresh' = fresh \ {v}
  /\ UNCHANGED <<mounted, routine, step, target, refused>>

FormatNext ==
  \/ Write
  \/ Mount
  \/ MountFails
  \/ BootRam
  \/ \E v \in Volumes : cmd_fatfs(v) \/ Use(v)

FormatSpec == FormatInit /\ [][FormatNext]_format_vars

-----------------------------------------------------------------------------
(***************************************************************************)
(* Properties.                                                             *)
(***************************************************************************)
Smaller(a, b) == IF a < b THEN a ELSE b

\* The volume a record describes is on the disk and empty: two equal FATs with an entry for
\* every cluster of the disk, and a root directory of zeroes.
Usable(v, b) ==
  LET s == sector[v]
      root == Run(cluster_to_lba(b, 2), b.spc)
      clusters == (Smaller(b.total, DriveSectors[v]) - data_start(b)) \div b.spc
  IN  /\ b.kind = "boot"
      /\ root \subseteq AddressesOf(v)
      /\ \A a \in root : s[a] = Holds("zero")
      /\ \A i \in 0..(b.fat_size - 1) :
           /\ s[fat_start(b) + i] = Holds(IF i = 0 THEN "marks" ELSE "zero")
           /\ s[fat2_start(b) + i] = s[fat_start(b) + i]
      /\ clusters + 2 <= b.fat_size * EntriesPerSector

\* A format of which no write was refused leaves a volume that can be used, whatever the
\* volume held before and whichever of the two routines made it (ramdrv.h 54-144, FAT32.h
\* 466-601, read back by mount 686-702).
FormattedUsable ==
  \A v \in fresh \ refused : Usable(v, mounted[v])
=============================================================================
