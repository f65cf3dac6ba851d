------------------------------- MODULE MCFat32 -------------------------------
(***************************************************************************)
(* Instances of Fat32 for TLC.  A volume of six clusters, the last of      *)
(* which the device does not have (the RAM disk's FAT has such entries),   *)
(* with four entries to a cluster so that a directory fills up.  A cluster *)
(* is two sectors of two entries, or one of four.  The names are the       *)
(* strings "A", "B", "F" and "LONGNAME1", which the driver stores cut to   *)
(* eight characters.                                                       *)
(***************************************************************************)
EXTENDS Fat32, TLC

MCNames == {"A", "B", "F", "LONGNAME1", "LONGNAME"}
MCStoredName == [n \in MCNames |-> IF n = "LONGNAME1" THEN "LONGNAME" ELSE n]
MCData == {"old", "new"}

FatWith(marks) == [c \in Clusters |->
                     IF c \in DOMAIN marks THEN marks[c] ELSE FreeCluster]

DirSector(entries) == [i \in Slots |-> IF i <= Len(entries) THEN entries[i] ELSE End]

DataWith(sectors) == [l \in Sectors |->
                        IF l \in DOMAIN sectors THEN sectors[l] ELSE EmptySector]

\* A freshly formatted volume.
Fresh == [fat |-> FatWith(2 :> EndOfChain), data |-> DataWith(0 :> EmptySector)]

OldFile(c) == [l \in Lba(c) .. Lba(c) + SectorsPerCluster - 1 |-> FileSector("old")]

\* Files A (two clusters) and F (empty, no cluster), as a host writes them.
WithFiles ==
  [fat  |-> FatWith(2 :> EndOfChain @@ 3 :> 4 @@ 4 :> EndOfChain),
   data |-> DataWith(0 :> DirSector(<<Entry("A", 3, FALSE, 2 * SectorsPerCluster), Entry("F", 0, FALSE, 0)>>)
                     @@ OldFile(3) @@ OldFile(4))]

MkdirsTo(paths)  == [op : {"mkdir"}, path : paths]
RenamesOf(paths, names) == [op : {"rename"}, path : paths, name : names]
Overwrites(paths, sizes) ==
  [op : {"overwrite"}, path : paths, data : {"new"}, size : sizes]
RemovesOf(paths) == [op : {"remove"}, path : paths]

TreeRequests ==
  MkdirsTo({<<"B">>, <<"B", "A">>}) \cup RenamesOf({<<"A">>}, {"F", "LONGNAME1"})
    \cup Overwrites({<<"A">>}, {1, 3, 4, 5}) \cup Overwrites({<<"F">>}, {1})

\* The overwrite goes through a directory that its own data may have written over.
RemoveRequests ==
  MkdirsTo({<<"B">>}) \cup RemovesOf({<<"A">>, <<"B">>, <<"F">>})
    \cup Overwrites({<<"B", "..", "A">>}, {1}) \cup RenamesOf({<<"A">>}, {"F"})

HostDisks  == {Fresh, WithFiles}
FilesDisk  == {WithFiles}
=============================================================================
