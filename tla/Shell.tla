-------------------------------- MODULE Shell --------------------------------
(***************************************************************************)
(* The command interpreter (kernel/kernel64.cpp) and the path manager      *)
(* (kernel/fs/vfs.h) over two volumes: the RAM disk A:, formatted at each  *)
(* boot, and the disk C:, which may be absent or not formatted.            *)
(*                                                                         *)
(* Which volume a command works on is decided in three places: the path    *)
(* manager keeps a current volume and directory, current_fs maps the       *)
(* volume to a FAT32 object, and the command uses that object or the       *)
(* object of C:.  The FAT32 driver drops the volume prefix of the paths it *)
(* is given.  A volume is the tree of its paths; what a call does to the   *)
(* sectors is the subject of Fat32.  A program that a command started may  *)
(* change directory before it returns to the shell.                        *)
(*                                                                         *)
(* A typed path is a volume prefix, a leading slash and components.        *)
(***************************************************************************)
EXTENDS Integers, Sequences, FiniteSets, SequencesExt

CONSTANTS
  Names,       \* components of paths
  Paths,       \* paths the user types: their components are in Names
  CdPaths,     \* paths the user gives to cd
  NewNames,    \* new names the user gives to rename
  ProgramCds,  \* paths programs pass to SYS_SETCWD
  WithExt,     \* <<name, extension>> -> name, for the names without a dot
  Disks,       \* what there may be on the cable: "absent", "blank" or "fat"
  Images,      \* trees of C: as the host wrote them
  DriverSlots, \* entries of g_loaded_drivers, 16 in the code
  MaxDirs,     \* bound on the directories of a volume
  MaxDepth     \* bound on the components of the current directory

Letters  == {"A", "B", "C"}    \* B stands for the letters that name no volume
NoVolume == "none"

Components == Names \cup {".", ".."} \cup Letters
TypedPaths ==
  [vol : Letters \cup {NoVolume}, abs : BOOLEAN, parts : Seq(Names \cup {".", ".."})]

\* The tree of a volume: a node's parent is a directory, and no node is both a file and a
\* directory.
Nodes(t)  == t.dirs \cup t.files
IsTree(t) ==
  /\ <<>> \in t.dirs /\ t.dirs \cap t.files = {}
  /\ \A p \in Nodes(t) \ {<<>>} : Front(p) \in t.dirs
Trees     == [dirs : SUBSET Seq(Names), files : SUBSET Seq(Names)]

ASSUME ShellAssumption ==
  /\ Names \cap ({".", ".."} \cup Letters) = {}
  /\ Paths \cup CdPaths \cup ProgramCds \subseteq TypedPaths
  /\ NewNames \subseteq Names /\ \A x \in DOMAIN WithExt : WithExt[x] \in Names
  /\ \A x, y \in DOMAIN WithExt : WithExt[x] # y[1]
  /\ Disks \subseteq {"absent", "blank", "fat"}
  /\ \A t \in Images : t \in Trees /\ IsTree(t)
  /\ DriverSlots \in Nat \ {0} /\ MaxDirs \in Nat /\ MaxDepth \in Nat

VARIABLES
  volume, cwd,   \* the path manager
  fs,            \* the FAT32 object of C:: "null", "unmounted" or "mounted"
  ata_if,        \* whether the disk interface of C: was made, at boot
  present,       \* whether the driver's last IDENTIFY found the disk
  disk,          \* the disk: "absent", "blank" or "fat"
  tree,          \* volume -> its directories and files, as sets of paths
  program,       \* the file being run, and its name if it is a driver
  drivers,       \* g_loaded_drivers: the names registered
  fault,         \* the null object a method was called on: "none", "volume", "interface"
  asked          \* history: the last command, its path, what it found and whether the
                 \* reads of the last lookup were all answered

mounts == <<fs, ata_if, present, disk>>
vars   == <<volume, cwd, mounts, tree, program, drivers, fault, asked>>

NoProgram == [file |-> <<>>, driver |-> <<>>]
AtPrompt  == program = NoProgram /\ fault = "none"

-----------------------------------------------------------------------------
(***************************************************************************)
(* The path manager.                                                       *)
(***************************************************************************)
Plain(path) == path.vol = NoVolume /\ ~path.abs

IsUp(path)     == Plain(path) /\ path.parts = <<"..">>
IsRoot(path)   == path.vol = NoVolume /\ path.abs /\ path.parts = <<>>
IsVolume(path) == path.vol # NoVolume /\ ~path.abs /\ path.parts = <<>>

\* resolve: the components; FAT32 drops the volume in front of them.
Resolve(path) == IF Plain(path) THEN cwd \o path.parts ELSE path.parts

\* What cd appends to the current directory: a leading slash is ignored, a volume is
\* not.
Appended(path) == IF path.vol = NoVolume THEN path.parts ELSE <<path.vol>> \o path.parts

Up == IF cwd = <<>> THEN <<>> ELSE Front(cwd)

PathCd(path) ==
  /\ volume' = IF IsVolume(path) THEN path.vol ELSE volume
  /\ cwd' = IF IsUp(path) THEN Up
            ELSE IF IsRoot(path) \/ IsVolume(path) THEN <<>>
            ELSE cwd \o Appended(path)
  /\ Len(cwd') <= MaxDepth

-----------------------------------------------------------------------------
(***************************************************************************)
(* current_fs, and what its object finds.                                  *)
(***************************************************************************)
VolumeOf(letter) == IF letter = "A" THEN "A" ELSE "C"
Current          == VolumeOf(volume)
Object(v)        == IF v = "A" THEN "mounted" ELSE fs

RequireFsNot == TRUE    \* mutant of RequireFs: no test
RequireFs    == fs = "mounted"

\* What fs->mount may make of the object: sector 0 of a formatted disk may not be read.
Mounts == IF disk = "fat" THEN {"mounted"} ELSE {}

Reads(v) == Object(v) = "mounted" /\ (v = "C" => present)

Empty == [dirs |-> {<<>>}, files |-> {}]

\* The entry a component leads to: . and .. are entries of directories below the root.
Enter(t, at, c) ==
  IF c = "." THEN {at} \ {<<>>}
  ELSE IF c = ".." THEN {Front(p) : p \in {at} \ {<<>>}}
  ELSE {Append(at, c)} \cap Nodes(t)

\* The nodes after each component, as sets of at most one, and the node a path leads to.
EnterFrom(t, at, c) == UNION {Enter(t, d, c) : d \in at \cap t.dirs}

Along(t, parts) ==
  LET at[i \in 0 .. Len(parts)] ==
        IF i = 0 THEN {<<>>} ELSE EnterFrom(t, at[i - 1], parts[i])
  IN  at

Seen(v)        == IF Reads(v) THEN tree[v] ELSE Empty
Walk(v, parts) == Along(Seen(v), parts)[Len(parts)]

IsDirectory(v, parts) == parts # <<>> /\ Walk(v, parts) \cap tree[v].dirs # {}
Opens(path) == Walk(Current, Resolve(path)) \cap tree[Current].files # {}

-----------------------------------------------------------------------------
(***************************************************************************)
(* Boot.  IDENTIFY may fail, and then there is neither interface nor       *)
(* object.  A disk that is not formatted, or whose sector 0 is not read,   *)
(* leaves the interface made and no object.                                *)
(***************************************************************************)
Nothing == [cmd |-> "none", path |-> <<>>, found |-> <<>>, whole |-> TRUE]

Init ==
  /\ volume = "C" /\ cwd = <<>>
  /\ disk \in Disks
  /\ present \in {FALSE, disk # "absent"}
  /\ ata_if = present
  /\ fs \in {"null"} \cup IF present THEN Mounts ELSE {}
  /\ \E image \in Images :
       tree = [v \in {"A", "C"} |-> IF v = "C" /\ disk = "fat" THEN image ELSE Empty]
  /\ program = NoProgram /\ drivers = <<>> /\ fault = "none" /\ asked = Nothing

\* reboot, or the reset that a fault leaves: the boot again, with the disk as it is.
Reboot ==
  /\ volume' = "C" /\ cwd' = <<>>
  /\ present' \in {FALSE, disk # "absent"}
  /\ ata_if' = present'
  /\ fs' \in {"null"} \cup IF present' THEN Mounts ELSE {}
  /\ tree' = [tree EXCEPT !["A"] = Empty]
  /\ program' = NoProgram /\ drivers' = <<>> /\ fault' = "none" /\ asked' = Nothing
  /\ UNCHANGED disk

Asks(cmd, path) == asked' = [cmd |-> cmd, path |-> path, found |-> <<>>, whole |-> TRUE]

-----------------------------------------------------------------------------
(***************************************************************************)
(* cd                                                                      *)
(***************************************************************************)
Special(path) == IsUp(path) \/ IsRoot(path) \/ (Plain(path) /\ path.parts = <<".">>)

\* Mutant of Leads: the target is looked up on C:.
LeadsOnC(path) == IsDirectory("C", Resolve(path))
Leads(path)    == IsDirectory(Current, Resolve(path))

MayCd(path) ==
  \/ IsVolume(path) /\ path.vol = "A"
  \/ IsVolume(path) /\ path.vol = "C" /\ fs # "null"
  \/ Special(path)
  \/ ~IsVolume(path) /\ Leads(path)

Cd(path) ==
  /\ AtPrompt /\ RequireFs /\ MayCd(path)
  /\ PathCd(path)
  /\ Asks("cd", path)
  /\ UNCHANGED <<mounts, tree, program, drivers, fault>>

\* A path that ends in a name, which is neither of the entries . and .. of a directory.
Named(path) == path.parts # <<>> /\ Last(path.parts) \in Names

(***************************************************************************)
(* mkdir works on the current volume.  Its own test of the object has an   *)
(* empty body: require_fs is all that stands between it and a null object. *)
(* The user does not give a name that is taken, nor . and .. to mkdir, del *)
(* and rename.                                                             *)
(***************************************************************************)
Made(v, parts) ==
  \E d \in Walk(v, Front(parts)) \cap tree[v].dirs :
    /\ Reads(v) /\ Cardinality(tree[v].dirs) < MaxDirs
    /\ tree' = [tree EXCEPT ![v].dirs = @ \cup {Append(d, Last(parts))}]

Mkdir(path) ==
  /\ AtPrompt /\ RequireFs
  /\ Named(path) /\ Walk(Current, Resolve(path)) = {}
  /\ fault' = IF Object(Current) = "null" THEN "volume" ELSE fault
  /\ Made(Current, Resolve(path)) \/ UNCHANGED tree     \* or it fails, for lack of room
  /\ Asks("mkdir", path)
  /\ UNCHANGED <<volume, cwd, mounts, program, drivers>>

(***************************************************************************)
(* del and rename work on C:, with a path resolved from the current        *)
(* directory.  del takes directories as well, and may lose other entries   *)
(* of the directory (Fat32!RemoveEntry).                                   *)
(***************************************************************************)
Siblings(t, p) == {q \in Nodes(t) \ {<<>>, p} : Front(q) = Front(p)}
Below(t, S)    == {q \in Nodes(t) : \E p \in S : IsPrefix(p, q)}

Removed(t, p) ==
  {[dirs |-> t.dirs \ Below(t, S \cup {p}), files |-> t.files \ Below(t, S \cup {p})] :
     S \in SUBSET Siblings(t, p)}

Moved(S, p, q) ==
  {IF IsPrefix(p, r) THEN q \o SubSeq(r, Len(p) + 1, Len(r)) ELSE r : r \in S}

Del(path) ==
  /\ AtPrompt /\ RequireFs /\ Named(path)
  /\ \E p \in Walk("C", Resolve(path)) :
       \E t \in Removed(tree["C"], p) : tree' = [tree EXCEPT !["C"] = t]
  /\ Asks("del", path)
  /\ UNCHANGED <<volume, cwd, mounts, program, drivers, fault>>

Rename(path, name) ==
  /\ AtPrompt /\ RequireFs /\ Named(path)
  /\ \E p \in Walk("C", Resolve(path)) :
       LET q == Append(Front(p), name) IN
       /\ q \notin Nodes(tree["C"])     \* the user gives a free name
       /\ tree' = [tree EXCEPT !["C"] = [dirs  |-> Moved(@.dirs, p, q),
                                         files |-> Moved(@.files, p, q)]]
  /\ Asks("rename", path)
  /\ UNCHANGED <<volume, cwd, mounts, program, drivers, fault>>

(***************************************************************************)
(* fatfs, confirmed.  The blank that follows the command word is left in   *)
(* front of the argument, and cmd_fatfs looks for the colon in second      *)
(* place: a volume is seen only when it is glued to the word.              *)
(***************************************************************************)
Target(letter, glued) == IF glued /\ letter # NoVolume THEN letter ELSE "C"

Fatfs(letter, glued) ==
  LET v == Target(letter, glued) IN
    /\ AtPrompt /\ v # "B" /\ Object(v) # "null"
    /\ v = "C" => present
    /\ tree' = [tree EXCEPT ![v] = Empty]
    /\ IF v = "C"
         THEN fs' \in {"mounted", "unmounted"} /\ disk' = "fat"   \* the sector read back may fail
         ELSE UNCHANGED <<fs, disk>>
    /\ Asks("fatfs", <<>>)
    /\ UNCHANGED <<volume, cwd, ata_if, present, program, drivers, fault>>

(***************************************************************************)
(* mount: the driver is made anew and looks for the disk.  If it is there  *)
(* the FAT32 object of C: is made anew and mounted through the interface   *)
(* made at boot: a null one if the boot did not find the disk.             *)
(***************************************************************************)
Mount ==
  /\ AtPrompt
  /\ present' \in {FALSE, disk # "absent"}
  /\ IF present'
       THEN /\ fault' = IF ata_if THEN fault ELSE "interface"
            /\ fs' \in {"unmounted"} \cup IF ata_if THEN Mounts ELSE {}
       ELSE UNCHANGED <<fs, fault>>
  /\ Asks("mount", <<>>)
  /\ UNCHANGED <<volume, cwd, ata_if, disk, tree, program, drivers>>

(***************************************************************************)
(* Programs.  A bare word is first looked for as a program, as it is and   *)
(* with .ELF, .SYS and .EXE; run tries .ELF, .EXE and .SYS, and dvcmgr     *)
(* .SYS and .ELF.  A read of C: that fails makes a lookup go on to the     *)
(* next variant.                                                           *)
(***************************************************************************)
Variant(path, order, k) ==
  IF k = 0 THEN path
           ELSE [path EXCEPT !.parts = Append(Front(@), WithExt[<<Last(@), order[k]>>])]

Openable(path, order) ==
  {k \in 0 .. Len(order) :
     /\ k > 0 => <<Last(path.parts), order[k]>> \in DOMAIN WithExt
     /\ Opens(Variant(path, order, k))}

\* What a lookup may find: the first of the variants that opens, or a later one when a
\* read fails on the way.
Whole            == IF Current = "A" THEN {TRUE} ELSE BOOLEAN
First(S)         == {k \in S : \A i \in S : k <= i}
Lookup(path, order, whole) ==
  LET found == Openable(path, order)
  IN  {Variant(path, order, k) : k \in IF whole THEN First(found) ELSE found}

SearchOrder == <<"ELF", "SYS", "EXE">>
RunOrder    == <<"ELF", "EXE", "SYS">>
DriverOrder == <<"SYS", "ELF">>

File(path) == [file |-> <<Current, Resolve(path)>>, driver |-> <<>>]

Run(path) ==
  /\ AtPrompt /\ RequireFs /\ path.parts # <<>>
  /\ \E whole \in Whole : \E p \in Lookup(path, RunOrder, whole) : program' = File(p)
  /\ Asks("run", path)
  /\ UNCHANGED <<volume, cwd, mounts, tree, drivers, fault>>

\* Mutant of Word: the name goes to run as it was typed.
WordAsTyped(path, found) == path
Word(path, found)        == found

BareWord(path) ==
  /\ AtPrompt /\ RequireFs /\ Plain(path) /\ Len(path.parts) = 1
  /\ \E search, whole \in Whole : \E found \in Lookup(path, SearchOrder, search) :
       /\ \E p \in Lookup(Word(path, found), RunOrder, whole) : program' = File(p)
       /\ asked' = [cmd |-> "word", path |-> path, found |-> found, whole |-> whole]
  /\ UNCHANGED <<volume, cwd, mounts, tree, drivers, fault>>

Dvcmgr(path) ==
  /\ AtPrompt /\ RequireFs /\ path.parts # <<>>
  /\ \E whole \in Whole : \E p \in Lookup(path, DriverOrder, whole) :
       program' = [File(p) EXCEPT !.driver = <<p>>]
  /\ Asks("dvcmgr", path)
  /\ UNCHANGED <<volume, cwd, mounts, tree, drivers, fault>>

ProgramCd(path) ==
  /\ program # NoProgram
  /\ PathCd(path)
  /\ UNCHANGED <<mounts, tree, program, drivers, fault, asked>>

\* Mutant of Register: the names are not compared.
RegisterAgain(names) == IF Len(drivers) < DriverSlots THEN drivers \o names ELSE drivers

\* register_loaded_driver; a name already there has its exit code replaced.
Register(names) ==
  IF Range(names) \subseteq Range(drivers) \/ Len(drivers) = DriverSlots
    THEN drivers ELSE drivers \o names

\* A negative code is a load that failed, and registers nothing.
ProgramReturns(code) ==
  /\ program # NoProgram
  /\ program' = NoProgram
  /\ drivers' = IF code >= 0 THEN Register(program.driver) ELSE drivers
  /\ UNCHANGED <<volume, cwd, mounts, tree, fault, asked>>

-----------------------------------------------------------------------------
Next ==
  \/ \E path \in CdPaths : Cd(path)
  \/ \E path \in Paths : Mkdir(path) \/ Del(path) \/ Run(path) \/ BareWord(path) \/ Dvcmgr(path)
  \/ \E path \in Paths, name \in NewNames : Rename(path, name)
  \/ \E letter \in {"A", NoVolume}, glued \in BOOLEAN : Fatfs(letter, glued)
  \/ Mount \/ Reboot
  \/ \E path \in ProgramCds : ProgramCd(path)
  \/ \E code \in {-1, 0} : ProgramReturns(code)

Spec == Init /\ [][Next]_vars

-----------------------------------------------------------------------------
\* The types; a volume is a tree.
Located(file)  == file = <<>> \/ (Len(file) = 2 /\ file[1] \in {"A", "C"})

TypeOK ==
  /\ volume \in Letters
  /\ cwd \in Seq(Components) /\ Len(cwd) <= MaxDepth
  /\ fs \in {"null", "unmounted", "mounted"} /\ disk \in {"absent", "blank", "fat"}
  /\ ata_if \in BOOLEAN /\ present \in BOOLEAN
  /\ fault \in {"none", "volume", "interface"}
  /\ tree \in [{"A", "C"} -> Trees] /\ \A v \in {"A", "C"} : IsTree(tree[v])
  /\ Located(program.file)
  /\ program.driver \in Seq(TypedPaths) /\ Len(program.driver) <= 1
  /\ program.driver # <<>> => program.file # <<>>
  /\ drivers \in Seq(TypedPaths) /\ Len(drivers) <= DriverSlots

\* Null objects and unmounted disks.  Each of cd, mkdir, del, rename, run, dvcmgr, fatfs
\* and mount tests another variable than the one it goes on to use (kernel64.cpp:531,
\* 1086 and 997), and driver, interface and FAT32 object are made at different moments
\* (kernel64.cpp:439-461).  Through boots, detections and reads that fail, and through
\* formats: no command calls a FAT32 object that was not made; the one null object
\* a command can call is the disk interface, by a mount after a boot that did not find
\* the disk; and a volume on which commands work has an interface and a formatted disk.
VolumesReal ==
  /\ fault # "volume"
  /\ fault = "interface" => ~ata_if
  /\ fs = "mounted" => ata_if /\ disk = "fat"

\* The current directory is one of the current volume.
CwdLeads == Walk(Current, cwd) \cap tree[Current].dirs # {}

\* From a directory that exists, the user's cd with a relative path, .., / or a volume
\* goes to one that exists: cmd_cd looks up the resolved path on the current volume, the
\* path manager appends the typed one (vfs.h:104).  A path with a leading slash or a
\* volume, and ".", are out: the two disagree on them.
CdLeads ==
  [][program = NoProgram /\ CwdLeads /\ <<volume, cwd>>' # <<volume, cwd>> => CwdLeads']_vars

\* A bare word runs the very file that was found for it, although the search and cmd_run
\* try the extensions in two orders, if no read of the second lookup fails; if one does,
\* it still runs one of the word's own variants (kernel64.cpp:1352-1408).
FoundIsRun ==
  [][program = NoProgram /\ program' # NoProgram /\ asked'.cmd = "word"
       => /\ asked'.whole => program' = File(asked'.found)
          /\ \E p \in Lookup(asked'.path, SearchOrder, FALSE) : program' = File(p)]_vars

\* No name is registered twice, however often its driver is loaded again and even when
\* the table is full (kernel64.cpp:699).
DriversOnce == IsInjective(drivers)

\* The volumes stay trees and the registry stays a set, through every command and every program
\* that changes the current directory.
StateSound == TypeOK /\ DriversOnce
=============================================================================
