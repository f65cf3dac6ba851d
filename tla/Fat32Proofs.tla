----------------------------- MODULE Fat32Proofs -----------------------------
(***************************************************************************)
(* Proofs about Fat32.  First, without failures the two copies of the FAT  *)
(* agree between calls to write_fat, for every volume and every set of     *)
(* calls.  Then, a sound tree stays sound through every write, failure and *)
(* restart of the calls that remove nothing, and each of them touches only *)
(* what it is about.  Last, with remove among the calls, what it damages   *)
(* stays inside a fence: a set of directories and a set of clusters that   *)
(* calls free and take, which no chain leaves.                             *)
(*                                                                         *)
(* The second part speaks of a FAT fat, data sectors dat and a set D of    *)
(* directories as parameters: what a write does is a lemma about (fat,     *)
(* dat) and (fat, datN), and the steps apply it to the variables and their *)
(* primes.  Sound(fat, dat, D) is what TreeSound says, with the            *)
(* directories named instead of computed; D grows when mkdir links one.    *)
(***************************************************************************)
EXTENDS Fat32, SequenceTheorems, FiniteSetTheorems, WellFoundedInduction, TLAPS

\* Where a call is between the two halves of write_fat.
Halfway == {"mkdir_fat2", "remove_fat2"}

FatTypes == fat1 \in [Clusters -> FatEntry] /\ fat2 \in [Clusters -> FatEntry]

\* The copies agree but, halfway, for the sector that was just written to FAT1.
AgreeOutside(c) == \A d \in Clusters : ~SameFatSector(c, d) => fat1[d] = fat2[d]

Agreement ==
  /\ pc \notin Halfway => fat1 = fat2
  /\ pc = "mkdir_fat2" => AgreeOutside(reg.cluster)
  /\ pc = "remove_fat2" => AgreeOutside(reg.sector)

FInv ==
  /\ FatTypes
  /\ faults \in Nat
  /\ faults = 0 => Agreement

\* A volume starts with equal copies.
LEMMA InitFInv == Init => FInv
<1> SUFFICES ASSUME Init PROVE FInv
  OBVIOUS
<1>1. PICK d \in Disks : fat1 = d.fat /\ fat2 = d.fat
  BY DEF Init
<1>2. FatTypes
  BY <1>1, Fat32Assumption DEF FatTypes
<1> QED
  BY <1>1, <1>2 DEF Init, FInv, Agreement, Halfway

\* A step outside write_fat leaves both copies alone.
Elsewhere ==
  /\ fat1' = fat1 /\ fat2' = fat2
  /\ pc \notin Halfway /\ pc' \notin Halfway
  /\ faults' = faults \/ faults' = faults + 1

\* Such a step keeps the invariant.
LEMMA ElsewhereStep ==
  ASSUME FInv, Elsewhere
  PROVE  FInv'
<1>1. faults' \in Nat /\ (faults' = 0 => faults = 0)
  BY DEF FInv, Elsewhere
<1> QED
  BY <1>1 DEF FInv, FatTypes, Agreement, Elsewhere, Halfway

\* So does a step that is a failure, or comes after one.
LEMMA FailedStep ==
  ASSUME FInv, Fault, FatTypes'
  PROVE  FInv'
<1>1. faults' \in Nat /\ faults' # 0
  BY DEF FInv, Fault
<1> QED
  BY <1>1 DEF FInv

\* The two values the calls write into the FAT.
LEMMA EntryValues == FreeCluster \in FatEntry /\ EndOfChain \in FatEntry
  BY DEF FatEntry

\* The first half of write_fat: the copies agree outside the sector written.
LEMMA FirstHalf ==
  ASSUME FInv, NEW c, NEW v \in FatEntry, WriteFat1(c, v)
  PROVE  /\ FatTypes'
         /\ pc \notin Halfway /\ faults = 0 => AgreeOutside(c)'
<1>1. /\ fat1' = [fat1 EXCEPT ![c] = v] /\ fat2' = fat2
  BY DEF WriteFat1
<1>2. FatTypes'
  BY <1>1 DEF FInv, FatTypes
<1>3. ASSUME NEW d \in Clusters, ~SameFatSector(c, d) PROVE fat1'[d] = fat1[d]
  <2>1. c # d
    BY <1>3 DEF SameFatSector
  <2> QED
    BY <2>1, <1>1 DEF FInv, FatTypes
<1>4. ASSUME pc \notin Halfway, faults = 0 PROVE AgreeOutside(c)'
  BY <1>1, <1>3, <1>4 DEF FInv, Agreement, AgreeOutside, SameFatSector
<1> QED
  BY <1>2, <1>4

\* The second half makes them agree.
LEMMA SecondHalf ==
  ASSUME FInv, NEW c, WriteFat2(c)
  PROVE  FatTypes' /\ (AgreeOutside(c) => fat1' = fat2')
<1>1. /\ fat1' = fat1
      /\ fat2' = [d \in Clusters |-> IF SameFatSector(c, d) THEN fat1[d] ELSE fat2[d]]
  BY DEF WriteFat2
<1>2. FatTypes'
  BY <1>1 DEF FInv, FatTypes
<1>3. ASSUME AgreeOutside(c) PROVE \A d \in Clusters : fat1'[d] = fat2'[d]
  BY <1>1, <1>3 DEF AgreeOutside
<1>4. (\A d \in Clusters : fat1'[d] = fat2'[d]) => fat1' = fat2'
  BY <1>2 DEF FatTypes
<1> QED
  BY <1>2, <1>3, <1>4

-----------------------------------------------------------------------------
(***************************************************************************)
(* The steps.                                                              *)
(***************************************************************************)

\* A call that goes wrong leaves the disk and its registers as they are.
LEMMA WrongStep ==
  ASSUME (\E q \in Requests : BeginWrong(q)) \/ GoesWrong
  PROVE  /\ fat1' = fat1 /\ fat2' = fat2 /\ data' = data /\ faults' = faults /\ reg' = reg
         /\ pc' \in WentWrong /\ ret' = "none"
         /\ \/ pc = "idle" /\ req' \in Requests
            \/ pc \in {"mkdir_entry", "overwrite_size"} /\ req' = req
<1>1. CASE \E q \in Requests : BeginWrong(q)
  BY <1>1 DEF BeginWrong, GoWrong, WentWrong, disk
<1>2. CASE GoesWrong
  <2>1. pc \in {"mkdir_entry", "overwrite_size"}
    BY <1>2 DEF GoesWrong, LaterSearches
  <2>2. QED
    BY <1>2, <2>1 DEF GoesWrong, GoWrong, WentWrong, disk
<1>3. QED
  BY <1>1, <1>2

LEMMA WrongKeeps ==
  ASSUME FInv, (\E q \in Requests : BeginWrong(q)) \/ GoesWrong
  PROVE  FInv'
BY WrongStep, ElsewhereStep DEF Elsewhere, Halfway, WentWrong

\* The calls begin, or are refused, without writing.
LEMMA BeginStep ==
  ASSUME FInv, Begin
  PROVE  FInv'
<1>1. PICK q \in Requests :
        LookupFails(q) \/ BeginWrong(q) \/ MkdirBegin(q) \/ RenameBegin(q) \/ OverwriteBegin(q)
          \/ RemoveBegin(q)
  BY DEF Begin
<1>0. CASE BeginWrong(q)
  BY <1>0, WrongKeeps
<1> USE DEF Elsewhere, Halfway, Call, Refuse, Fault, disk
<1>2. CASE LookupFails(q)
  BY <1>2, ElsewhereStep DEF LookupFails
<1>3. CASE MkdirBegin(q)
  BY <1>3, ElsewhereStep DEF MkdirBegin
<1>4. CASE RenameBegin(q)
  BY <1>4, ElsewhereStep DEF RenameBegin
<1>5. CASE OverwriteBegin(q)
  BY <1>5, ElsewhereStep DEF OverwriteBegin
<1>6. CASE RemoveBegin(q)
  BY <1>6, ElsewhereStep DEF RemoveBegin
<1> QED
  BY <1>0, <1>1, <1>2, <1>3, <1>4, <1>5, <1>6

\* A failed write ends the call.
LEMMA WriteFailsStep ==
  ASSUME FInv, WriteFails
  PROVE  FInv'
  BY FailedStep DEF WriteFails, disk, FInv, FatTypes

\* mkdir writes the FAT in two halves, and then only data sectors.
LEMMA MkdirStep ==
  ASSUME FInv, Mkdir
  PROVE  FInv'
<1>1. ASSUME MkdirFat1 PROVE FInv'
  <2>1. CASE WriteFat1(reg.cluster, EndOfChain) /\ Goto("mkdir_fat2")
    <3>1. PICK c : c = reg.cluster
      OBVIOUS
    <3>2. FatTypes' /\ (faults = 0 => AgreeOutside(c)')
      BY <1>1, <2>1, <3>1, EntryValues, FirstHalf DEF MkdirFat1, Halfway
    <3>3. pc' = "mkdir_fat2" /\ reg'.cluster = c /\ faults' = faults
      BY <2>1, <3>1 DEF Goto
    <3> QED
      BY <3>2, <3>3 DEF FInv, Agreement, Halfway, AgreeOutside
  <2> QED
    BY <1>1, <2>1, WriteFailsStep DEF MkdirFat1
<1>2. ASSUME MkdirFat2 PROVE FInv'
  <2>1. CASE WriteFat2(reg.cluster) /\ Goto("mkdir_zero")
    <3>1. FatTypes' /\ (AgreeOutside(reg.cluster) => fat1' = fat2')
      BY <2>1, SecondHalf
    <3>2. pc = "mkdir_fat2" /\ pc' = "mkdir_zero" /\ faults' = faults
      BY <1>2, <2>1 DEF MkdirFat2, Goto
    <3> QED
      BY <3>1, <3>2 DEF FInv, Agreement, Halfway
  <2>2. CASE Fault /\ UNCHANGED disk
    BY <2>2, FailedStep DEF disk, FInv, FatTypes
  <2> QED
    BY <1>2, <2>1, <2>2 DEF MkdirFat2, disk
<1>3. ASSUME MkdirZero PROVE FInv'
  BY <1>3, ElsewhereStep, WriteFailsStep DEF MkdirZero, Elsewhere, Halfway, WriteSector, Return, disk
<1>4. ASSUME MkdirDot PROVE FInv'
  BY <1>4, ElsewhereStep, WriteFailsStep
     DEF MkdirDot, Elsewhere, Halfway, WriteDirEntry, WriteSector, Goto, disk
<1>5. ASSUME MkdirDotDot PROVE FInv'
  BY <1>5, ElsewhereStep, WriteFailsStep
     DEF MkdirDotDot, Elsewhere, Halfway, WriteDirEntry, WriteSector, Goto, disk
<1>6. ASSUME MkdirEntry PROVE FInv'
  BY <1>6, ElsewhereStep, WriteFailsStep
     DEF MkdirEntry, Elsewhere, Halfway, WriteDirEntry, WriteSector, Return, disk
<1> QED
  BY <1>1, <1>2, <1>3, <1>4, <1>5, <1>6 DEF Mkdir

\* rename and overwrite_file write data sectors only.
LEMMA DataStep ==
  ASSUME FInv, RenameEntry \/ Overwrite
  PROVE  FInv'
<1> USE DEF Elsewhere, Halfway, WriteSector, Return, disk
<1>1. ASSUME RenameEntry PROVE FInv'
  BY <1>1, ElsewhereStep, WriteFailsStep DEF RenameEntry
<1>2. ASSUME OverwriteData PROVE FInv'
  BY <1>2, ElsewhereStep, WriteFailsStep DEF OverwriteData
<1>3. ASSUME OverwriteCutShort PROVE FInv'
  BY <1>3, ElsewhereStep DEF OverwriteCutShort, Fault
<1>4. ASSUME OverwriteSize PROVE FInv'
  BY <1>4, ElsewhereStep, WriteFailsStep DEF OverwriteSize
<1> QED
  BY <1>1, <1>2, <1>3, <1>4 DEF Overwrite

\* remove frees each cluster of the chain in two halves.
LEMMA RemoveStep ==
  ASSUME FInv, Remove
  PROVE  FInv'
<1>1. ASSUME RemoveFat1 PROVE FInv'
  <2>1. PICK c : c = reg.cluster
    OBVIOUS
  <2>2. ASSUME WriteFat1(c, FreeCluster), pc' = "remove_fat2", faults' = faults,
               reg'.sector = c
        PROVE  FInv'
    <3>1. FatTypes' /\ (faults = 0 => AgreeOutside(c)')
      BY <1>1, <2>2, EntryValues, FirstHalf DEF RemoveFat1, Halfway
    <3> QED
      BY <3>1, <2>2 DEF FInv, Agreement, Halfway, AgreeOutside
  <2>3. ASSUME WriteFat1(c, FreeCluster), Fault PROVE FInv'
    BY <2>3, EntryValues, FirstHalf, FailedStep
  <2>4. ASSUME Fault, UNCHANGED disk PROVE FInv'
    BY <2>4, FailedStep DEF disk, FInv, FatTypes
  <2>5. \/ /\ WriteFat1(c, FreeCluster) /\ pc' = "remove_fat2" /\ faults' = faults
           /\ reg'.sector = c
        \/ WriteFat1(c, FreeCluster) /\ Fault
        \/ Fault /\ UNCHANGED disk
    BY <1>1, <2>1 DEF RemoveFat1
  <2> QED
    BY <2>2, <2>3, <2>4, <2>5
<1>2. ASSUME RemoveFat2 PROVE FInv'
  <2>1. CASE WriteFat2(reg.sector) /\ UNCHANGED faults
    <3>1. FatTypes' /\ (AgreeOutside(reg.sector) => fat1' = fat2')
      BY <2>1, SecondHalf
    <3>2. pc = "remove_fat2" /\ pc' \notin Halfway
      BY <1>2 DEF RemoveFat2, Halfway
    <3> QED
      BY <3>1, <3>2, <2>1 DEF FInv, Agreement, Halfway
  <2>2. CASE Fault /\ UNCHANGED disk
    BY <2>2, FailedStep DEF disk, FInv, FatTypes
  <2> QED
    BY <1>2, <2>1, <2>2 DEF RemoveFat2
<1>3. ASSUME RemoveEntry PROVE FInv'
  BY <1>3, ElsewhereStep, WriteFailsStep
     DEF RemoveEntry, Elsewhere, Halfway, WriteSector, Return, disk
<1> QED
  BY <1>1, <1>2, <1>3 DEF Remove

-----------------------------------------------------------------------------
\* Every reachable state satisfies the inductive invariant.
THEOREM FatInvariant == Spec => []FInv
<1>1. FInv /\ [Next]_vars => FInv'
  <2>1. ASSUME FInv, Restart PROVE FInv'
    BY <2>1, FailedStep DEF Restart, disk, FInv, FatTypes
  <2>2. ASSUME FInv, UNCHANGED vars PROVE FInv'
    BY <2>2 DEF vars, FInv, FatTypes, Agreement, AgreeOutside, Halfway
  <2> QED
    BY <2>1, <2>2, BeginStep, MkdirStep, DataStep, RemoveStep, WrongKeeps
       DEF Next, Step, StaysWrong
<1> QED
  BY InitFInv, <1>1, PTL DEF Spec

\* Without failures the copies of the FAT agree between the calls to write_fat, for
\* every volume, every geometry and every sequence of calls.
THEOREM FatCopiesAgree == Spec => []FatsAgree
<1>1. FInv => FatsAgree
  BY DEF FInv, Agreement, Halfway, FatsAgree
<1> QED
  BY <1>1, FatInvariant, PTL

(***************************************************************************)
(* Induction over the naturals, for a set in place of a predicate.         *)
(***************************************************************************)
Less == {ss \in Nat \X Nat : ss[1] < ss[2]}

LEMMA SetInduction ==
  ASSUME NEW S, 0 \in S, \A n \in Nat : n \in S => n + 1 \in S
  PROVE  Nat \subseteq S
<1> SUFFICES ASSUME Nat \ S # {} PROVE FALSE
  OBVIOUS
<1>1. IsWellFoundedOn(Less, Nat)
  BY NatLessThanWellFounded DEF OpToRel, Less
<1>2. PICK x \in Nat \ S : \A y \in Nat \ S : ~ (<<y, x>> \in Less)
  BY <1>1, WFMin
<1>3. x # 0 /\ x - 1 \in Nat /\ <<x - 1, x>> \in Less
  BY <1>2 DEF Less
<1>4. x - 1 \in S
  BY <1>2, <1>3
<1>5. (x - 1) + 1 \in S
  BY <1>3, <1>4
<1>6. QED
  BY <1>2, <1>5

\* The least of a set of naturals that has one.
LEMMA LeastIs ==
  ASSUME NEW S \in SUBSET Nat, S # {}
  PROVE  Least(S) \in S /\ \A j \in S : Least(S) <= j
<1>1. IsWellFoundedOn(Less, Nat)
  BY NatLessThanWellFounded DEF OpToRel, Less
<1>2. PICK x \in S : \A y \in S : ~ (<<y, x>> \in Less)
  <2>1. IsWellFoundedOn(Less, S)
    BY <1>1, IsWellFoundedOnSubset
  <2>2. QED
    BY <2>1, WFMin
<1>3. ASSUME NEW y \in S PROVE x <= y
  <2>1. x \in Nat /\ y \in Nat
    OBVIOUS
  <2>2. y < x => <<y, x>> \in Less
    BY <2>1 DEF Less
  <2>3. ~ (y < x)
    BY <1>2, <2>2
  <2>4. QED
    BY <2>1, <2>3
<1>4. QED
  BY <1>3 DEF Least

-----------------------------------------------------------------------------
(***************************************************************************)
(* Chains.  What follow computes exists, and is the one sequence of links  *)
(* from c to the end.                                                      *)
(***************************************************************************)
Links(fat, s) == \A i \in 1 .. Len(s) - 1 : fat[s[i]] = s[i + 1]

From(fat, c, s) ==
  s \in Seq(Clusters) /\ s # <<>> /\ s[1] = c /\ Len(s) <= LastCluster /\ Links(fat, s)

Follows(fat, c, s) ==
  From(fat, c, s) /\ (fat[s[Len(s)]] \in Clusters => Len(s) = LastCluster)

Following(fat, f, s) ==
  IF fat[s[Len(s)]] \in Clusters /\ Len(s) < LastCluster
    THEN f[Append(s, fat[s[Len(s)]])] ELSE s

LEMMA FollowExists ==
  ASSUME NEW fat
  PROVE  \E f : f = [s \in Seq(Clusters) |-> Following(fat, f, s)]
<1> DEFINE Good(f, n) == \A s \in Seq(Clusters) : LastCluster <= Len(s) + n => f[s] = Following(fat, f, s)
           Exists == {n \in Nat : \E f : f = [s \in Seq(Clusters) |-> f[s]] /\ Good(f, n)}
<1>1. 0 \in Exists
  <2> DEFINE f == [s \in Seq(Clusters) |-> s]
  <2>1. \A s \in Seq(Clusters) : Len(s) \in Nat
    OBVIOUS
  <2>2. Good(f, 0)
    BY <2>1, Fat32Assumption DEF Following
  <2>3. f = [s \in Seq(Clusters) |-> f[s]]
    OBVIOUS
  <2> HIDE DEF f, Good
  <2>4. QED
    BY <2>2, <2>3
<1>2. ASSUME NEW n \in Nat, n \in Exists PROVE n + 1 \in Exists
  <2>1. PICK f : f = [s \in Seq(Clusters) |-> f[s]] /\ Good(f, n)
    BY <1>2
  <2> DEFINE g == [s \in Seq(Clusters) |->
                     IF LastCluster <= Len(s) + n THEN f[s] ELSE Following(fat, f, s)]
  <2>2. ASSUME NEW s \in Seq(Clusters), LastCluster <= Len(s) + (n + 1)
        PROVE  g[s] = Following(fat, g, s)
    <3> DEFINE next == fat[s[Len(s)]]
               t == Append(s, next)
    <3>1. Len(s) \in Nat /\ LastCluster \in Nat
      BY Fat32Assumption
    <3>2. g[s] = Following(fat, f, s)
      BY <2>1
    <3>3. ASSUME next \in Clusters PROVE g[t] = f[t]
      <4>1. t \in Seq(Clusters) /\ Len(t) = Len(s) + 1
        BY <3>3, AppendProperties
      <4> HIDE DEF t
      <4>2. LastCluster <= Len(t) + n
        BY <4>1, <3>1, <2>2
      <4>3. QED
        BY <4>1, <4>2
    <3> HIDE DEF g
    <3>4. QED
      BY <3>2, <3>3 DEF Following
  <2>3. g = [s \in Seq(Clusters) |-> g[s]]
    OBVIOUS
  <2> HIDE DEF g
  <2>4. Good(g, n + 1)
    BY <2>2
  <2> HIDE DEF Good
  <2>5. QED
    BY <2>3, <2>4
<1>3. LastCluster \in Exists
  <2> HIDE DEF Exists
  <2>1. QED
    BY <1>1, <1>2, SetInduction, Fat32Assumption
<1>4. PICK f : f = [s \in Seq(Clusters) |-> f[s]] /\ Good(f, LastCluster)
  BY <1>3
<1>5. \A s \in Seq(Clusters) : f[s] = Following(fat, f, s)
  <2>1. \A s \in Seq(Clusters) : LastCluster <= Len(s) + LastCluster
    BY Fat32Assumption
  <2>2. QED
    BY <1>4, <2>1
<1>6. QED
  BY <1>4, <1>5

LEMMA ChainFollows ==
  ASSUME NEW fat, NEW c \in Clusters
  PROVE  Follows(fat, c, ChainIn(fat, c))
<1> DEFINE f == CHOOSE f : f = [s \in Seq(Clusters) |-> Following(fat, f, s)]
<1>1. f = [s \in Seq(Clusters) |-> Following(fat, f, s)]
  BY FollowExists, Zenon
<1>2. ChainIn(fat, c) = f[<<c>>]
  BY Zenon DEF ChainIn, Following
<1> HIDE DEF f
<1> DEFINE Ends == {n \in Nat : \A s : From(fat, c, s) /\ LastCluster <= Len(s) + n => Follows(fat, c, f[s])}
<1>3. 0 \in Ends
  <2> SUFFICES ASSUME NEW s, From(fat, c, s), LastCluster <= Len(s) + 0 PROVE Follows(fat, c, f[s])
    OBVIOUS
  <2>1. Len(s) \in Nat /\ LastCluster \in Nat /\ s \in Seq(Clusters)
    BY Fat32Assumption DEF From
  <2>2. Len(s) = LastCluster
    BY <2>1 DEF From
  <2>3. f[s] = s
    BY <1>1, <2>1, <2>2 DEF Following
  <2>4. QED
    BY <2>2, <2>3 DEF Follows
<1>4. ASSUME NEW n \in Nat, n \in Ends PROVE n + 1 \in Ends
  <2> SUFFICES ASSUME NEW s, From(fat, c, s), LastCluster <= Len(s) + (n + 1)
               PROVE  Follows(fat, c, f[s])
    OBVIOUS
  <2> DEFINE next == fat[s[Len(s)]]
             t == Append(s, next)
  <2>1. Len(s) \in Nat \ {0} /\ LastCluster \in Nat /\ s \in Seq(Clusters)
    BY Fat32Assumption DEF From
  <2>2. CASE next \in Clusters /\ Len(s) < LastCluster
    <3>1. f[s] = f[t]
      BY <1>1, <2>1, <2>2 DEF Following
    <3>2. t \in Seq(Clusters) /\ Len(t) = Len(s) + 1 /\ t # <<>> /\ t[Len(s) + 1] = next
          /\ \A i \in 1 .. Len(s) : t[i] = s[i]
      BY <2>1, <2>2, AppendProperties
    <3> HIDE DEF t
    <3>3. Links(fat, t)
      <4> SUFFICES ASSUME NEW i \in 1 .. Len(t) - 1 PROVE fat[t[i]] = t[i + 1]
        BY DEF Links
      <4>1. i \in 1 .. Len(s)
        BY <2>1, <3>2
      <4>2. CASE i = Len(s)
        BY <2>1, <3>2, <4>1, <4>2
      <4>3. CASE i # Len(s)
        <5>1. i \in 1 .. Len(s) - 1 /\ i + 1 \in 1 .. Len(s)
          BY <2>1, <4>1, <4>3
        <5>2. QED
          BY <3>2, <4>1, <5>1 DEF From, Links
      <4>4. QED
        BY <4>2, <4>3
    <3>4. From(fat, c, t)
      BY <2>1, <2>2, <3>2, <3>3 DEF From
    <3>5. LastCluster <= Len(t) + n
      BY <2>1, <3>2
    <3>6. QED
      BY <1>4, <3>1, <3>4, <3>5
  <2>3. CASE ~ (next \in Clusters /\ Len(s) < LastCluster)
    <3>1. f[s] = s
      BY <1>1, <2>1, <2>3 DEF Following
    <3>2. next \in Clusters => Len(s) = LastCluster
      BY <2>1, <2>3 DEF From
    <3>3. QED
      BY <3>1, <3>2 DEF Follows
  <2>4. QED
    BY <2>2, <2>3
<1>5. LastCluster \in Ends
  <2> HIDE DEF Ends
  <2>1. QED
    BY <1>3, <1>4, SetInduction, Fat32Assumption
<1>6. From(fat, c, <<c>>) /\ LastCluster <= Len(<<c>>) + LastCluster
  BY Fat32Assumption DEF From, Links, Clusters
<1>7. QED
  BY <1>2, <1>5, <1>6

LEMMA FollowsUnique ==
  ASSUME NEW fat, NEW c, NEW r, NEW s, Follows(fat, c, r), Follows(fat, c, s)
  PROVE  r = s
<1>1. /\ Len(r) \in Nat \ {0} /\ Len(s) \in Nat \ {0} /\ LastCluster \in Nat
      /\ r \in Seq(Clusters) /\ s \in Seq(Clusters)
      /\ Len(r) <= LastCluster /\ Len(s) <= LastCluster
  BY Fat32Assumption DEF Follows, From
<1> DEFINE Same == {n \in Nat : n + 1 \in 1 .. Len(r) /\ n + 1 \in 1 .. Len(s) => r[n + 1] = s[n + 1]}
<1>2. 0 \in Same
  BY DEF Follows, From
<1>3. ASSUME NEW n \in Nat, n \in Same PROVE n + 1 \in Same
  <2> SUFFICES ASSUME n + 2 \in 1 .. Len(r), n + 2 \in 1 .. Len(s) PROVE r[n + 2] = s[n + 2]
    OBVIOUS
  <2>1. n + 1 \in 1 .. Len(r) - 1 /\ n + 1 \in 1 .. Len(s) - 1 /\ (n + 1) + 1 = n + 2
    BY <1>1
  <2>2. r[n + 1] = s[n + 1]
    BY <1>3, <2>1
  <2>3. fat[r[n + 1]] = r[(n + 1) + 1] /\ fat[s[n + 1]] = s[(n + 1) + 1]
    BY <2>1 DEF Follows, From, Links
  <2>4. QED
    BY <2>1, <2>2, <2>3
<1>4. \A i \in 1 .. Len(r) : i \in 1 .. Len(s) => r[i] = s[i]
  <2>1. Nat \subseteq Same
    <3> HIDE DEF Same
    <3>1. QED
      BY <1>2, <1>3, SetInduction
  <2>2. \A i \in 1 .. Len(r) : i - 1 \in Nat /\ (i - 1) + 1 = i
    BY <1>1
  <2>3. QED
    BY <2>1, <2>2
<1>5. Len(r) = Len(s)
  <2>1. CASE Len(r) < Len(s)
    <3>1. Len(r) \in 1 .. Len(s) - 1 /\ Len(r) \in 1 .. Len(r) /\ Len(r) \in 1 .. Len(s)
          /\ Len(r) + 1 \in 1 .. Len(s)
      BY <1>1, <2>1
    <3>2. fat[r[Len(r)]] = s[Len(r) + 1] /\ s[Len(r) + 1] \in Clusters
      BY <1>1, <1>4, <3>1 DEF Follows, From, Links
    <3>3. QED
      BY <1>1, <2>1, <3>2 DEF Follows
  <2>2. CASE Len(s) < Len(r)
    <3>1. Len(s) \in 1 .. Len(r) - 1 /\ Len(s) \in 1 .. Len(s) /\ Len(s) \in 1 .. Len(r)
          /\ Len(s) + 1 \in 1 .. Len(r)
      BY <1>1, <2>2
    <3>2. fat[s[Len(s)]] = r[Len(s) + 1] /\ r[Len(s) + 1] \in Clusters
      BY <1>1, <1>4, <3>1 DEF Follows, From, Links
    <3>3. QED
      BY <1>1, <2>2, <3>2 DEF Follows
  <2>3. QED
    BY <1>1, <2>1, <2>2
<1>6. QED
  BY <1>1, <1>4, <1>5

-----------------------------------------------------------------------------
(***************************************************************************)
(* Where the entries of a directory of one cluster are.                    *)
(***************************************************************************)
Indices == 0 .. PerCluster - 1
Within  == 0 .. SectorsPerCluster - 1

SectorOf(c, k) == Lba(c) + k \div SlotCount
SlotOf(k)      == (k % SlotCount) + 1

DirOf(dat, c) == [k \in Indices |-> dat[SectorOf(c, k)][SlotOf(k)]]

LEMMA Bigger ==
  ASSUME NEW a \in Nat, NEW b \in Nat, NEW n \in Nat, a < b
  PROVE  /\ a * n + n <= b * n
         /\ n * a + n <= n * b
<1>1. PICK m \in Nat : b = a + 1 + m
  <2>1. b - a - 1 \in Nat /\ b = a + 1 + (b - a - 1)
    OBVIOUS
  <2>2. QED
    BY <2>1
<1>2. b * n = a * n + n + m * n /\ m * n \in Nat
  BY <1>1
<1>3. n * b = b * n /\ n * a = a * n
  OBVIOUS
<1>4. a * n \in Nat
  OBVIOUS
<1>5. QED
  BY <1>2, <1>3, <1>4

LEMMA Placing ==
  ASSUME NEW k \in Indices
  PROVE  /\ k \in Nat /\ k \div SlotCount \in Within /\ SlotOf(k) \in Slots
         /\ k = SlotCount * (k \div SlotCount) + (k % SlotCount)
         /\ k \div PerCluster = 0 /\ k % PerCluster = k
<1>1. SlotCount \in Nat \ {0} /\ SectorsPerCluster \in Nat \ {0}
  BY Fat32Assumption
<1>2. PerCluster \in Nat /\ PerCluster = SectorsPerCluster * SlotCount
  BY <1>1 DEF PerCluster
<1>3. k \in Nat /\ k < PerCluster
  BY <1>2 DEF Indices
<1>8. k = SlotCount * (k \div SlotCount) + (k % SlotCount)
  BY <1>1, <1>3
<1> DEFINE q == k \div SlotCount
           r == k % SlotCount
<1>4. k = SlotCount * q + r /\ q \in Nat /\ r \in 0 .. SlotCount - 1
  BY <1>1, <1>3
<1>5. k \div PerCluster = 0 /\ k % PerCluster = k
  BY <1>2, <1>3
<1> HIDE DEF q, r
<1>6. q < SectorsPerCluster
  <2> SUFFICES ASSUME SectorsPerCluster <= q PROVE FALSE
    BY <1>1, <1>4
  <2>1. SlotCount * q >= SectorsPerCluster * SlotCount
    <3>1. CASE q = SectorsPerCluster
      <4>1. SlotCount * q = SectorsPerCluster * SlotCount
        BY <3>1, <1>1
      <4>2. SlotCount * q \in Int
        BY <1>1, <1>4
      <4>3. QED
        BY <4>1, <4>2
    <3>2. CASE SectorsPerCluster < q
      <4>1. SlotCount * SectorsPerCluster + SlotCount <= SlotCount * q
        BY <3>2, <1>1, <1>4, Bigger
      <4>2. SlotCount * SectorsPerCluster = SectorsPerCluster * SlotCount
            /\ SlotCount * SectorsPerCluster \in Nat /\ SlotCount * q \in Nat
        BY <1>1, <1>4
      <4>3. QED
        BY <4>1, <4>2, <1>1
    <3>3. QED
      BY <3>1, <3>2, <1>1, <1>4
  <2>2. SlotCount * q \in Nat
    BY <1>1, <1>4
  <2>3. QED
    BY <2>1, <2>2, <1>2, <1>3, <1>4
<1>7. q \in Within /\ r + 1 \in Slots
  BY <1>1, <1>4, <1>6 DEF Within, Slots
<1>9. k \div SlotCount \in Within /\ SlotOf(k) \in Slots
  BY <1>7, Zenon DEF q, r, SlotOf
<1>10. QED
  BY <1>3, <1>5, <1>8, <1>9, Zenon

LEMMA SamePlace ==
  ASSUME NEW j \in Indices, NEW k \in Indices,
         j \div SlotCount = k \div SlotCount, SlotOf(j) = SlotOf(k)
  PROVE  j = k
<1>1. j % SlotCount \in Int /\ k % SlotCount \in Int
  BY Fat32Assumption, Placing
<1>2. j % SlotCount = k % SlotCount
  BY <1>1 DEF SlotOf
<1> DEFINE P(q, r) == SlotCount * q + r
<1>3. /\ j = P(j \div SlotCount, j % SlotCount)
      /\ k = P(k \div SlotCount, k % SlotCount)
  BY Placing
<1> HIDE DEF P
<1>4. P(j \div SlotCount, j % SlotCount) = P(k \div SlotCount, k % SlotCount)
  BY <1>2
<1>5. QED
  BY <1>3, <1>4, Zenon

LEMMA LbaIs ==
  ASSUME NEW c \in Clusters
  PROVE  c \in Nat /\ Lba(c) \in Nat /\ Lba(c) = (c - 2) * SectorsPerCluster
<1>1. c \in Nat /\ c >= 2 /\ SectorsPerCluster \in Nat
  BY Fat32Assumption DEF Clusters
<1>2. c - 2 \in Nat
  BY <1>1
<1>3. (c - 2) * SectorsPerCluster \in Nat
  BY <1>1, <1>2
<1>4. QED
  BY <1>1, <1>3 DEF Lba

LEMMA LbaApart ==
  ASSUME NEW c \in Clusters, NEW d \in Clusters, NEW s \in Within, NEW t \in Within,
         Lba(c) + s = Lba(d) + t
  PROVE  c = d /\ s = t
<1>0. SectorsPerCluster \in Nat /\ s \in Nat /\ t \in Nat
      /\ s < SectorsPerCluster /\ t < SectorsPerCluster
  BY Fat32Assumption DEF Within
<1>1. ASSUME NEW a \in Clusters, NEW b \in Clusters, a < b PROVE Lba(a) + SectorsPerCluster <= Lba(b)
  <2>1. a - 2 \in Nat /\ b - 2 \in Nat /\ a - 2 < b - 2
    BY <1>1, Fat32Assumption DEF Clusters
  <2>2. (a - 2) * SectorsPerCluster + SectorsPerCluster <= (b - 2) * SectorsPerCluster
    BY <2>1, <1>0, Bigger
  <2>3. QED
    BY <2>2 DEF Lba
<1>2. c \in Nat /\ d \in Nat /\ Lba(c) \in Nat /\ Lba(d) \in Nat
  BY LbaIs
<1>3. ~ (c < d) /\ ~ (d < c)
  BY <1>0, <1>1, <1>2
<1>4. c = d
  BY <1>2, <1>3
<1>5. QED
  BY <1>0, <1>2, <1>4

LEMMA DeviceSectors ==
  ASSUME NEW c \in OnDevice, NEW s \in Within
  PROVE  Lba(c) + s \in Sectors
<1>1. c \in Clusters /\ Lba(c) + SectorsPerCluster - 1 \in Sectors
  BY DEF OnDevice
<1>2. Lba(c) \in Nat /\ SectorsPerCluster \in Nat \ {0} /\ SectorCount \in Nat
  BY <1>1, LbaIs, Fat32Assumption
<1>3. QED
  BY <1>1, <1>2 DEF Within, Sectors

LEMMA DeviceEntries ==
  ASSUME NEW c \in OnDevice, NEW k \in Indices
  PROVE  SectorOf(c, k) \in Sectors /\ SlotOf(k) \in Slots
  BY Placing, DeviceSectors DEF SectorOf

\* Two entries at one place are one entry.
LEMMA EntryApart ==
  ASSUME NEW c \in Clusters, NEW d \in Clusters, NEW j \in Indices, NEW k \in Indices,
         SectorOf(c, j) = SectorOf(d, k), SlotOf(j) = SlotOf(k)
  PROVE  c = d /\ j = k
<1>1. j \div SlotCount \in Within /\ k \div SlotCount \in Within
  BY Placing
<1>2. c = d /\ j \div SlotCount = k \div SlotCount
  BY <1>1, LbaApart DEF SectorOf
<1>3. QED
  BY <1>2, SamePlace

\* A chain that ends at once.
LEMMA ChainOfOne ==
  ASSUME NEW fat, NEW c \in Clusters, fat[c] \notin Clusters
  PROVE  ChainIn(fat, c) = <<c>>
<1>1. Follows(fat, c, <<c>>)
  BY Fat32Assumption DEF Follows, From, Links, Clusters
<1>2. QED
  BY <1>1, ChainFollows, FollowsUnique

LEMMA IndicesAre == PerCluster \in Nat \ {0, 1} /\ 0 \in Indices /\ 1 \in Indices
<1>1. SectorsPerCluster * SlotCount \in Nat /\ SectorsPerCluster * SlotCount >= 2
  BY Fat32Assumption
<1>2. QED
  BY <1>1 DEF PerCluster, Indices

\* The places and the entries of a directory of one cluster.
LEMMA OneCluster ==
  ASSUME NEW c \in Clusters, fat1[c] \notin Clusters
  PROVE  /\ Entries(c) = DirOf(data, c)
         /\ \A k \in Indices : /\ EntryAt(c, k) = DirOf(data, c)[k]
                               /\ Place(c, k) = <<SectorOf(c, k), SlotOf(k)>>
<1>1. Chain(c) = <<c>>
  BY ChainOfOne DEF Chain
<1> DEFINE ps == PlacesOf(<<c>>)
<1>2. ps = [k \in Indices |-> <<SectorOf(c, k), SlotOf(k)>>]
  <2>1. 0 .. Len(<<c>>) * PerCluster - 1 = Indices
    BY IndicesAre DEF Indices
  <2>2. \A k \in Indices :
          << Lba(<<c>>[k \div PerCluster + 1]) + (k % PerCluster) \div SlotCount, (k % SlotCount) + 1 >>
            = <<SectorOf(c, k), SlotOf(k)>>
    <3> TAKE k \in Indices
    <3>1. k \div PerCluster = 0 /\ k % PerCluster = k
      BY Placing
    <3>2. QED
      BY <3>1 DEF SectorOf, SlotOf
  <2>3. QED
    BY <2>1, <2>2 DEF PlacesOf
<1> HIDE DEF ps
<1>3. \A k \in Indices : Place(c, k) = <<SectorOf(c, k), SlotOf(k)>>
  BY <1>1, <1>2 DEF Place, ps
<1>4. \A k \in Indices : EntryAt(c, k) = DirOf(data, c)[k]
  BY <1>3 DEF EntryAt, At, DirOf
<1>5. Entries(c) = DirOf(data, c)
  <2>1. Entries(c) = [k \in DOMAIN ps |-> At(ps[k])]
    BY <1>1 DEF Entries, ReadAll, ps
  <2>2. \A k \in Indices : At(ps[k]) = data[SectorOf(c, k)][SlotOf(k)]
    BY <1>2 DEF At
  <2>3. QED
    BY <1>2, <2>1, <2>2 DEF DirOf
<1>6. QED
  BY <1>3, <1>4, <1>5

-----------------------------------------------------------------------------
(***************************************************************************)
(* Sound volumes: a FAT and data sectors, and D their directories, each of *)
(* one cluster.                                                            *)
(***************************************************************************)
Typed(fat, dat) ==
  /\ fat \in [Clusters -> FatEntry] /\ DOMAIN dat = Sectors
  /\ \A l \in Sectors : DOMAIN dat[l] = Slots /\ \A i \in Slots : dat[l][i] \in SlotValue

\* The entries of the directories D, as pairs of a directory and an index.
NodesOf(dat, D) == {t \in D \X Indices : t[2] \in VisibleIn(DirOf(dat, t[1]))}

EntOf(dat, t) == DirOf(dat, t[1])[t[2]]

ChainAt(fat, dat, t) == ChainIn(fat, EntOf(dat, t).cluster)
OwnedBy(fat, dat, t) == Range(ChainAt(fat, dat, t))

DotsOf(dat, d, parent) ==
  DirOf(dat, d)[0] = Entry(Dot, d, TRUE, 0) /\ DirOf(dat, d)[1] = Entry(DotDot, parent, TRUE, 0)

DirsIn(fat, D) == Root \in D /\ D \subseteq OnDevice /\ \A d \in D : fat[d] = EndOfChain

MarksLast(dat, D) ==
  \A d \in D : \A k \in 1 .. PerCluster - 1 : DirOf(dat, d)[k - 1] = End => DirOf(dat, d)[k] = End

AllNamed(dat, D) ==
  \A d \in D \ {Root} : \E t \in NodesOf(dat, D) : EntOf(dat, t).dir /\ EntOf(dat, t).cluster = d

DirsWhole(dat, D) ==
  \A t \in NodesOf(dat, D) : EntOf(dat, t).dir =>
    EntOf(dat, t).cluster \in D /\ DotsOf(dat, EntOf(dat, t).cluster, t[1])

DotsFirst(dat, D) ==
  \A d \in D : \A k \in Indices :
    DirOf(dat, d)[k].kind = "entry" /\ DirOf(dat, d)[k].name \in {Dot, DotDot} => d # Root /\ k \in {0, 1}

AllUsed(fat, dat, D) ==
  \A t \in NodesOf(dat, D) : \A c \in OwnedBy(fat, dat, t) : fat[c] # FreeCluster /\ c # Root

AllApart(fat, dat, D) ==
  \A t, u \in NodesOf(dat, D) : t # u => OwnedBy(fat, dat, t) \cap OwnedBy(fat, dat, u) = {}

FileFits(fat, e) == e.size <= Len(ChainIn(fat, e.cluster)) * SectorsPerCluster

FileEnds(fat, e) ==
  LET chain == ChainIn(fat, e.cluster) IN chain # <<>> => fat[chain[Len(chain)]] = EndOfChain

FilesWhole(fat, dat, D) ==
  \A t \in NodesOf(dat, D) :
    ~EntOf(dat, t).dir => FileFits(fat, EntOf(dat, t)) /\ FileEnds(fat, EntOf(dat, t))

Sound(fat, dat, D) ==
  /\ DirsIn(fat, D) /\ MarksLast(dat, D) /\ AllNamed(dat, D) /\ DirsWhole(dat, D)
  /\ DotsFirst(dat, D)
  /\ AllUsed(fat, dat, D) /\ AllApart(fat, dat, D) /\ FilesWhole(fat, dat, D)

-----------------------------------------------------------------------------
EntryValue == [kind : {"entry"}, name : Names \cup {Dot, DotDot}, cluster : Clusters \cup {0},
               dir : BOOLEAN, size : Nat]

\* A value in a slot that calls itself an entry is one.
LEMMA EntryTypes ==
  ASSUME NEW v \in SlotValue, v.kind = "entry"
  PROVE  v \in EntryValue
<1>1. End.kind # "entry" /\ Deleted.kind # "entry" /\ Junk.kind # "entry"
      /\ \A d \in Data : Content(d).kind # "entry"
  BY DEF End, Deleted, Junk, Content
<1>2. QED
  BY <1>1 DEF SlotValue, EntryValue

LEMMA NoCluster == 0 \notin Clusters /\ EndOfChain \notin Clusters /\ FreeCluster # EndOfChain
  BY Fat32Assumption DEF Clusters, EndOfChain, FreeCluster

LEMMA ChainTypes ==
  ASSUME NEW fat, NEW c \in Clusters \cup {0}
  PROVE  /\ ChainIn(fat, c) \in Seq(Clusters) /\ Range(ChainIn(fat, c)) \subseteq Clusters
         /\ c \in Clusters => c \in Range(ChainIn(fat, c)) /\ ChainIn(fat, c) # <<>>
         /\ c = 0 => ChainIn(fat, c) = <<>> /\ Range(ChainIn(fat, c)) = {}
<1>1. CASE c = 0
  <2>1. ChainIn(fat, c) = <<>>
    BY <1>1, NoCluster DEF ChainIn
  <2>2. Range(<<>>) = {} /\ <<>> \in Seq(Clusters)
    BY DEF Range
  <2>3. QED
    BY <1>1, <2>1, <2>2, NoCluster
<1>2. CASE c \in Clusters
  <2> DEFINE s == ChainIn(fat, c)
  <2>1. s \in Seq(Clusters) /\ s # <<>> /\ s[1] = c
    BY <1>2, ChainFollows DEF Follows, From
  <2> HIDE DEF s
  <2>2. 1 \in DOMAIN s /\ Range(s) \subseteq Clusters
    BY <2>1 DEF Range
  <2>3. c \in Range(s)
    BY <2>1, <2>2 DEF Range
  <2>4. QED
    BY <1>2, <2>1, <2>2, <2>3, NoCluster DEF s
<1>3. QED
  BY <1>1, <1>2

\* A chain is the same in two FATs that agree on it.
LEMMA ChainSame ==
  ASSUME NEW fat, NEW fatN, NEW c \in Clusters \cup {0},
         \A x \in Range(ChainIn(fat, c)) : fatN[x] = fat[x]
  PROVE  ChainIn(fatN, c) = ChainIn(fat, c)
<1>1. CASE c = 0
  BY <1>1, ChainTypes
<1>2. CASE c \in Clusters
  <2> DEFINE s == ChainIn(fat, c)
  <2>1. Follows(fat, c, s)
    BY <1>2, ChainFollows
  <2> HIDE DEF s
  <2>2. \A i \in 1 .. Len(s) : fatN[s[i]] = fat[s[i]]
    BY <2>1 DEF Follows, From, Range, s
  <2>3. Len(s) \in Nat \ {0}
    BY <2>1 DEF Follows, From
  <2>4. \A i \in 1 .. Len(s) - 1 : i \in 1 .. Len(s)
    BY <2>3
  <2>5. Follows(fatN, c, s)
    BY <2>1, <2>2, <2>3, <2>4 DEF Follows, From, Links
  <2>6. Follows(fatN, c, ChainIn(fatN, c))
    BY <1>2, ChainFollows
  <2>7. QED
    BY <2>5, <2>6, FollowsUnique DEF s
<1>3. QED
  BY <1>1, <1>2

\* What follows a cluster of a chain that ends is in the chain.
LEMMA ChainNext ==
  ASSUME NEW fat, NEW c \in Clusters \cup {0}, NEW x \in Range(ChainIn(fat, c)), fat[x] \in Clusters,
         LET s == ChainIn(fat, c) IN fat[s[Len(s)]] = EndOfChain
  PROVE  fat[x] \in Range(ChainIn(fat, c))
<1> DEFINE s == ChainIn(fat, c)
<1>1. c \in Clusters
  BY ChainTypes
<1>2. Follows(fat, c, s)
  BY <1>1, ChainFollows
<1>3. fat[s[Len(s)]] = EndOfChain
  OBVIOUS
<1> HIDE DEF s
<1>4. s \in Seq(Clusters)
  BY <1>2 DEF Follows, From
<1>5. PICK i \in 1 .. Len(s) : x = s[i]
  BY <1>4 DEF Range, s
<1>6. i # Len(s)
  BY <1>3, <1>5, NoCluster
<1>7. i \in 1 .. Len(s) - 1 /\ i + 1 \in 1 .. Len(s)
  BY <1>4, <1>5, <1>6
<1>8. fat[x] = s[i + 1]
  BY <1>2, <1>5, <1>7 DEF Follows, From, Links
<1>9. s[i + 1] \in Range(s)
  BY <1>4, <1>7 DEF Range
<1>10. QED
  BY <1>8, <1>9 DEF s

-----------------------------------------------------------------------------
\* What an entry of the tree is.
LEMMA NodeIs ==
  ASSUME NEW fat, NEW dat, NEW D, Typed(fat, dat), D \subseteq OnDevice, NEW t \in NodesOf(dat, D)
  PROVE  /\ t[1] \in D /\ t[2] \in Indices /\ t = <<t[1], t[2]>>
         /\ t[2] \in VisibleIn(DirOf(dat, t[1]))
         /\ EntOf(dat, t) \in EntryValue /\ EntOf(dat, t).name \notin {Dot, DotDot}
         /\ EntOf(dat, t).cluster \in Clusters \cup {0}
<1>1. t \in D \X Indices /\ t[2] \in VisibleIn(DirOf(dat, t[1]))
  BY DEF NodesOf
<1>2. t[1] \in D /\ t[2] \in Indices /\ t = <<t[1], t[2]>>
  BY <1>1
<1>3. EntOf(dat, t).kind = "entry" /\ EntOf(dat, t).name \notin {Dot, DotDot}
  BY <1>1 DEF VisibleIn, EntOf
<1>4. EntOf(dat, t) \in SlotValue
  <2>1. EntOf(dat, t) = dat[SectorOf(t[1], t[2])][SlotOf(t[2])]
    BY <1>2 DEF EntOf, DirOf
  <2>2. SectorOf(t[1], t[2]) \in Sectors /\ SlotOf(t[2]) \in Slots
    BY <1>2, DeviceEntries
  <2>3. QED
    BY <2>1, <2>2 DEF Typed
<1>5. EntOf(dat, t) \in EntryValue
  BY <1>3, <1>4, EntryTypes
<1>6. EntOf(dat, t).cluster \in Clusters \cup {0}
  BY <1>5 DEF EntryValue
<1>7. QED
  BY <1>1, <1>2, <1>3, <1>5, <1>6

LEMMA DirectoryOwnsItself ==
  ASSUME NEW fat, NEW dat, NEW D, Sound(fat, dat, D), NEW t \in NodesOf(dat, D), EntOf(dat, t).dir
  PROVE  OwnedBy(fat, dat, t) = {EntOf(dat, t).cluster}
<1>1. EntOf(dat, t).cluster \in D
  BY DEF Sound, DirsWhole
<1>2. EntOf(dat, t).cluster \in Clusters /\ fat[EntOf(dat, t).cluster] \notin Clusters
  BY <1>1, NoCluster DEF Sound, DirsIn, OnDevice
<1>3. ChainAt(fat, dat, t) = <<EntOf(dat, t).cluster>>
  BY <1>2, ChainOfOne DEF ChainAt
<1>4. Range(<<EntOf(dat, t).cluster>>) = {EntOf(dat, t).cluster}
  BY DEF Range
<1>5. QED
  BY <1>3, <1>4 DEF OwnedBy

\* A file has no cluster of a directory.
LEMMA FilesApart ==
  ASSUME NEW fat, NEW dat, NEW D, Sound(fat, dat, D), NEW t \in NodesOf(dat, D), ~EntOf(dat, t).dir
  PROVE  OwnedBy(fat, dat, t) \cap D = {}
<1> SUFFICES ASSUME NEW c \in D, c \in OwnedBy(fat, dat, t) PROVE FALSE
  OBVIOUS
<1>1. c # Root
  BY DEF Sound, AllUsed
<1>2. PICK u \in NodesOf(dat, D) : EntOf(dat, u).dir /\ EntOf(dat, u).cluster = c
  BY <1>1 DEF Sound, AllNamed
<1>3. c \in OwnedBy(fat, dat, u) /\ u # t
  BY <1>2, DirectoryOwnsItself
<1>4. QED
  BY <1>3 DEF Sound, AllApart

\* A change outside the directories and the chains of the tree changes nothing of it.
Kept(fat, dat, fatN, datN, D) ==
  /\ \A d \in D : fatN[d] = fat[d] /\ DirOf(datN, d) = DirOf(dat, d)
  /\ \A t \in NodesOf(dat, D) : \A c \in OwnedBy(fat, dat, t) : fatN[c] = fat[c]

LEMMA KeptSound ==
  ASSUME NEW fat, NEW dat, NEW fatN, NEW datN, NEW D, Typed(fat, dat), Sound(fat, dat, D),
         Kept(fat, dat, fatN, datN, D)
  PROVE  /\ Sound(fatN, datN, D)
         /\ NodesOf(datN, D) = NodesOf(dat, D)
         /\ \A t \in NodesOf(dat, D) : /\ EntOf(datN, t) = EntOf(dat, t)
                                       /\ ChainAt(fatN, datN, t) = ChainAt(fat, dat, t)
<1>1. D \subseteq OnDevice
  BY DEF Sound, DirsIn
<1>2. \A t \in D \X Indices : t[1] \in D
  OBVIOUS
<1>3. NodesOf(datN, D) = NodesOf(dat, D)
  BY <1>2 DEF NodesOf, Kept
<1>4. ASSUME NEW t \in NodesOf(dat, D)
      PROVE  /\ EntOf(datN, t) = EntOf(dat, t) /\ ChainAt(fatN, datN, t) = ChainAt(fat, dat, t)
             /\ OwnedBy(fatN, datN, t) = OwnedBy(fat, dat, t)
  <2>1. t[1] \in D /\ EntOf(dat, t).cluster \in Clusters \cup {0}
    BY <1>1, NodeIs
  <2>2. EntOf(datN, t) = EntOf(dat, t)
    BY <2>1 DEF Kept, EntOf
  <2>3. \A x \in Range(ChainIn(fat, EntOf(dat, t).cluster)) : fatN[x] = fat[x]
    BY DEF Kept, OwnedBy, ChainAt
  <2>4. ChainAt(fatN, datN, t) = ChainAt(fat, dat, t)
    BY <2>1, <2>2, <2>3, ChainSame DEF ChainAt
  <2>5. QED
    BY <2>2, <2>4 DEF OwnedBy
<1>5. DirsIn(fatN, D) /\ MarksLast(datN, D)
  BY DEF Sound, DirsIn, MarksLast, Kept
<1>6. AllNamed(datN, D)
  BY <1>3, <1>4 DEF Sound, AllNamed
<1>7. DirsWhole(datN, D)
  <2> SUFFICES ASSUME NEW t \in NodesOf(dat, D), EntOf(dat, t).dir
               PROVE  EntOf(dat, t).cluster \in D /\ DotsOf(datN, EntOf(dat, t).cluster, t[1])
    BY <1>3, <1>4 DEF DirsWhole
  <2>1. EntOf(dat, t).cluster \in D /\ DotsOf(dat, EntOf(dat, t).cluster, t[1])
    BY DEF Sound, DirsWhole
  <2>2. QED
    BY <2>1 DEF DotsOf, Kept
<1>8. AllUsed(fatN, datN, D)
  <2> SUFFICES ASSUME NEW t \in NodesOf(dat, D), NEW c \in OwnedBy(fat, dat, t)
               PROVE  fatN[c] # FreeCluster /\ c # Root
    BY <1>3, <1>4 DEF AllUsed
  <2>1. fatN[c] = fat[c]
    BY DEF Kept
  <2>2. QED
    BY <2>1 DEF Sound, AllUsed
<1>9. AllApart(fatN, datN, D)
  BY <1>3, <1>4 DEF Sound, AllApart
<1>10. FilesWhole(fatN, datN, D)
  <2> SUFFICES ASSUME NEW t \in NodesOf(dat, D), ~EntOf(dat, t).dir
               PROVE  FileFits(fatN, EntOf(dat, t)) /\ FileEnds(fatN, EntOf(dat, t))
    BY <1>3, <1>4 DEF FilesWhole
  <2> DEFINE s == ChainIn(fat, EntOf(dat, t).cluster)
  <2>1. FileFits(fat, EntOf(dat, t)) /\ FileEnds(fat, EntOf(dat, t))
    BY DEF Sound, FilesWhole
  <2>2. ChainIn(fatN, EntOf(dat, t).cluster) = s
    BY <1>4 DEF ChainAt
  <2>3. s \in Seq(Clusters)
    BY <1>1, NodeIs, ChainTypes
  <2>4. s # <<>> => fatN[s[Len(s)]] = fat[s[Len(s)]]
    <3> SUFFICES ASSUME s # <<>> PROVE fatN[s[Len(s)]] = fat[s[Len(s)]]
      OBVIOUS
    <3>1. s[Len(s)] \in Range(s)
      <4> HIDE DEF s
      <4>1. Len(s) \in DOMAIN s
        BY <2>3
      <4>2. QED
        BY <4>1 DEF Range
    <3>2. QED
      BY <3>1 DEF Kept, OwnedBy, ChainAt
  <2> HIDE DEF s
  <2>5. QED
    BY <2>1, <2>2, <2>4 DEF FileFits, FileEnds, s
<1>11. DotsFirst(datN, D)
  BY DEF Sound, DotsFirst, Kept
<1>12. QED
  BY <1>3, <1>4, <1>5, <1>6, <1>7, <1>8, <1>9, <1>10, <1>11 DEF Sound

-----------------------------------------------------------------------------
(***************************************************************************)
(* Writes.                                                                 *)
(***************************************************************************)

DirSectors(D) == {Lba(d) + s : d \in D, s \in Within}

\* A sector written outside the directories.
LEMMA FarWrite ==
  ASSUME NEW dat, NEW datN, NEW D \in SUBSET OnDevice, NEW l,
         \A m \in Sectors \ {l} : datN[m] = dat[m],
         l \notin DirSectors(D)
  PROVE  \A d \in D : DirOf(datN, d) = DirOf(dat, d)
<1> TAKE d \in D
<1>1. \A k \in Indices : datN[SectorOf(d, k)] = dat[SectorOf(d, k)]
  <2> TAKE k \in Indices
  <2>1. SectorOf(d, k) \in Sectors /\ SectorOf(d, k) # l
    BY DeviceEntries, Placing DEF SectorOf, DirSectors
  <2>2. QED
    BY <2>1
<1>2. QED
  BY <1>1 DEF DirOf

Written(dat, c, k, e) ==
  [dat EXCEPT ![SectorOf(c, k)] = [dat[SectorOf(c, k)] EXCEPT ![SlotOf(k)] = e]]

\* An entry written changes that entry and no other.
LEMMA EntryWrite ==
  ASSUME NEW fat, NEW dat, Typed(fat, dat), NEW c \in OnDevice, NEW k \in Indices, NEW e
  PROVE  \A d \in OnDevice : \A j \in Indices :
           DirOf(Written(dat, c, k, e), d)[j] = IF d = c /\ j = k THEN e ELSE DirOf(dat, d)[j]
<1> TAKE d \in OnDevice
<1> TAKE j \in Indices
<1> DEFINE datN == Written(dat, c, k, e)
           l == SectorOf(c, k)
           m == SectorOf(d, j)
<1>1. l \in Sectors /\ SlotOf(k) \in Slots /\ m \in Sectors /\ SlotOf(j) \in Slots
  BY DeviceEntries
<1>2. d = c /\ j = k => l = m /\ SlotOf(j) = SlotOf(k)
  OBVIOUS
<1>3. l = m /\ SlotOf(j) = SlotOf(k) => d = c /\ j = k
  BY EntryApart DEF OnDevice
<1>4. DirOf(datN, d)[j] = datN[m][SlotOf(j)] /\ DirOf(dat, d)[j] = dat[m][SlotOf(j)]
  BY DEF DirOf
<1>5. datN = [dat EXCEPT ![l] = [dat[l] EXCEPT ![SlotOf(k)] = e]]
  BY DEF Written
<1>6. DOMAIN dat = Sectors /\ DOMAIN dat[l] = Slots
  BY <1>1 DEF Typed
<1> HIDE DEF datN, l, m
<1>7. datN[m] = IF m = l THEN [dat[l] EXCEPT ![SlotOf(k)] = e] ELSE dat[m]
  BY <1>1, <1>5, <1>6
<1>8. m = l => datN[m][SlotOf(j)] = IF SlotOf(j) = SlotOf(k) THEN e ELSE dat[m][SlotOf(j)]
  BY <1>1, <1>6, <1>7
<1>9. datN[m][SlotOf(j)] = IF d = c /\ j = k THEN e ELSE dat[m][SlotOf(j)]
  BY <1>2, <1>3, <1>7, <1>8
<1>10. QED
  BY <1>4, <1>9 DEF datN

LEMMA TypedWrite ==
  ASSUME NEW fat, NEW dat, Typed(fat, dat), NEW l \in Sectors, NEW sector,
         DOMAIN sector = Slots, \A i \in Slots : sector[i] \in SlotValue
  PROVE  Typed(fat, [dat EXCEPT ![l] = sector])
<1> DEFINE datN == [dat EXCEPT ![l] = sector]
<1>1. DOMAIN datN = Sectors /\ \A m \in Sectors : datN[m] = IF m = l THEN sector ELSE dat[m]
  BY DEF Typed
<1> HIDE DEF datN
<1>2. Typed(fat, datN)
  BY <1>1 DEF Typed
<1>3. QED
  BY <1>2 DEF datN

LEMMA TypedEntry ==
  ASSUME NEW fat, NEW dat, Typed(fat, dat), NEW c \in OnDevice, NEW k \in Indices, NEW e \in SlotValue
  PROVE  Typed(fat, Written(dat, c, k, e))
<1> DEFINE sector == [dat[SectorOf(c, k)] EXCEPT ![SlotOf(k)] = e]
<1>1. SectorOf(c, k) \in Sectors /\ SlotOf(k) \in Slots
  BY DeviceEntries
<1>2. DOMAIN sector = Slots /\ \A i \in Slots : sector[i] \in SlotValue
  BY <1>1 DEF Typed
<1> HIDE DEF sector
<1>3. QED
  BY <1>1, <1>2, TypedWrite DEF Written, sector

-----------------------------------------------------------------------------
(***************************************************************************)
(* What a written entry does to the tree.                                  *)
(***************************************************************************)
IsNode(v) == v.kind = "entry" /\ v.name \notin {Dot, DotDot}

LEMMA VisibleAre ==
  ASSUME NEW dat, NEW c
  PROVE  VisibleIn(DirOf(dat, c)) =
           {k \in Indices : IsNode(DirOf(dat, c)[k]) /\ \A j \in 0 .. k : DirOf(dat, c)[j] # End}
<1>1. DOMAIN DirOf(dat, c) = Indices
  BY DEF DirOf
<1>2. QED
  BY <1>1 DEF VisibleIn, IsNode, BeforeEnd

LEMMA Prefix ==
  ASSUME NEW k \in Indices
  PROVE  0 .. k \subseteq Indices /\ k \in 0 .. k /\ k \in Nat
  BY IndicesAre DEF Indices

\* An entry that changes its name or its size: rename, and the end of overwrite_file.
LEMMA EditSound ==
  ASSUME NEW fat, NEW dat, NEW D, Typed(fat, dat), Sound(fat, dat, D),
         NEW t \in NodesOf(dat, D), NEW e \in EntryValue, e.name \notin {Dot, DotDot},
         e.cluster = EntOf(dat, t).cluster, e.dir = EntOf(dat, t).dir,
         ~e.dir => FileFits(fat, e)
  PROVE  /\ Sound(fat, Written(dat, t[1], t[2], e), D)
         /\ NodesOf(Written(dat, t[1], t[2], e), D) = NodesOf(dat, D)
<1> DEFINE datN == Written(dat, t[1], t[2], e)
           old == EntOf(dat, t)
<1>1. D \subseteq OnDevice /\ t[1] \in D /\ t[2] \in Indices /\ t = <<t[1], t[2]>>
      /\ old \in EntryValue /\ old.name \notin {Dot, DotDot}
  BY NodeIs DEF Sound, DirsIn
<1>2. \A d \in D, j \in Indices :
        DirOf(datN, d)[j] = IF d = t[1] /\ j = t[2] THEN e ELSE DirOf(dat, d)[j]
  BY <1>1, EntryWrite
<1> HIDE DEF datN
<1>3. IsNode(e) /\ IsNode(old) /\ e # End /\ old # End
  BY <1>1 DEF IsNode, EntryValue, End
<1>4. old = DirOf(dat, t[1])[t[2]]
  BY DEF EntOf
<1>5. \A d \in D, j \in Indices :
        /\ DirOf(datN, d)[j] = End <=> DirOf(dat, d)[j] = End
        /\ IsNode(DirOf(datN, d)[j]) <=> IsNode(DirOf(dat, d)[j])
  BY <1>2, <1>3, <1>4
<1>6. \A d \in D : VisibleIn(DirOf(datN, d)) = VisibleIn(DirOf(dat, d))
  <2> TAKE d \in D
  <2>1. \A k \in Indices : (\A j \in 0 .. k : DirOf(datN, d)[j] # End)
                           <=> (\A j \in 0 .. k : DirOf(dat, d)[j] # End)
    BY <1>5, Prefix
  <2>2. QED
    BY <1>5, <2>1, VisibleAre
<1>7. NodesOf(datN, D) = NodesOf(dat, D)
  <2>1. \A u \in D \X Indices : u[1] \in D
    OBVIOUS
  <2>2. QED
    BY <1>6, <2>1 DEF NodesOf
<1>8. \A u \in NodesOf(dat, D) :
        /\ u[1] \in D /\ u[2] \in Indices
        /\ EntOf(datN, u) = IF u = t THEN e ELSE EntOf(dat, u)
        /\ EntOf(datN, u).dir = EntOf(dat, u).dir /\ EntOf(datN, u).cluster = EntOf(dat, u).cluster
  <2> TAKE u \in NodesOf(dat, D)
  <2>1. u[1] \in D /\ u[2] \in Indices /\ u = <<u[1], u[2]>>
    BY <1>1, NodeIs
  <2>2. u = t <=> u[1] = t[1] /\ u[2] = t[2]
    BY <1>1, <2>1
  <2>3. EntOf(datN, u) = IF u = t THEN e ELSE EntOf(dat, u)
    BY <1>2, <2>1, <2>2 DEF EntOf
  <2>4. QED
    BY <2>1, <2>3
<1>9. \A u \in NodesOf(dat, D) : /\ ChainAt(fat, datN, u) = ChainAt(fat, dat, u)
                                 /\ OwnedBy(fat, datN, u) = OwnedBy(fat, dat, u)
  BY <1>8 DEF ChainAt, OwnedBy
<1>10. DirsIn(fat, D)
  BY DEF Sound
<1>11. MarksLast(datN, D)
  <2>1. \A k \in 1 .. PerCluster - 1 : k \in Indices /\ k - 1 \in Indices
    BY IndicesAre DEF Indices
  <2>2. QED
    BY <1>5, <2>1 DEF Sound, MarksLast
<1>12. AllNamed(datN, D)
  BY <1>7, <1>8 DEF Sound, AllNamed
<1>13. DirsWhole(datN, D)
  <2> SUFFICES ASSUME NEW u \in NodesOf(dat, D), EntOf(dat, u).dir
               PROVE  EntOf(dat, u).cluster \in D /\ DotsOf(datN, EntOf(dat, u).cluster, u[1])
    BY <1>7, <1>8 DEF DirsWhole
  <2> DEFINE c == EntOf(dat, u).cluster
  <2>1. c \in D /\ DotsOf(dat, c, u[1])
    BY DEF Sound, DirsWhole
  <2> HIDE DEF c
  <2>2. DirOf(dat, c)[0].name \in {Dot, DotDot} /\ DirOf(dat, c)[1].name \in {Dot, DotDot}
    BY <2>1 DEF DotsOf, Entry
  <2>3. DirOf(datN, c)[0] = DirOf(dat, c)[0] /\ DirOf(datN, c)[1] = DirOf(dat, c)[1]
    BY <1>1, <1>2, <1>4, <2>1, <2>2, IndicesAre
  <2>4. QED
    BY <2>1, <2>3 DEF DotsOf, c
<1>14. AllUsed(fat, datN, D) /\ AllApart(fat, datN, D)
  BY <1>7, <1>9 DEF Sound, AllUsed, AllApart
<1>15. FilesWhole(fat, datN, D)
  <2> SUFFICES ASSUME NEW u \in NodesOf(dat, D), ~EntOf(datN, u).dir
               PROVE  FileFits(fat, EntOf(datN, u)) /\ FileEnds(fat, EntOf(datN, u))
    BY <1>7 DEF FilesWhole
  <2>1. FileFits(fat, EntOf(dat, u)) /\ FileEnds(fat, EntOf(dat, u))
    BY <1>8 DEF Sound, FilesWhole
  <2>2. FileEnds(fat, EntOf(datN, u))
    BY <2>1, <1>8 DEF FileEnds
  <2>3. FileFits(fat, EntOf(datN, u))
    BY <2>1, <1>8
  <2>4. QED
    BY <2>2, <2>3
<1>16. DotsFirst(datN, D)
  BY <1>2, <1>1 DEF Sound, DotsFirst
<1>17. QED
  BY <1>7, <1>10, <1>11, <1>12, <1>13, <1>14, <1>15, <1>16 DEF Sound, datN

\* A directory that gets its entry: the end of mkdir.
Blank(dat, c, parent) ==
  DotsOf(dat, c, parent) /\ \A k \in Indices \ {0, 1} : DirOf(dat, c)[k] = End

Unowned(fat, dat, D, c) == \A t \in NodesOf(dat, D) : c \notin OwnedBy(fat, dat, t)

LEMMA LinkSound ==
  ASSUME NEW fat, NEW dat, NEW D, Typed(fat, dat), Sound(fat, dat, D),
         NEW p \in D, NEW c \in OnDevice \ D, fat[c] = EndOfChain, Unowned(fat, dat, D, c),
         Blank(dat, c, p), NEW n \in Names,
         NEW k \in Indices, DirOf(dat, p)[k] \in {End, Deleted},
         \A j \in 0 .. k - 1 : DirOf(dat, p)[j] \notin {End, Deleted}
  PROVE  Sound(fat, Written(dat, p, k, Entry(n, c, TRUE, 0)), D \cup {c})
<1> DEFINE e == Entry(n, c, TRUE, 0)
           datN == Written(dat, p, k, e)
           D2 == D \cup {c}
           new == <<p, k>>
<1>1. D \subseteq OnDevice /\ D2 \subseteq OnDevice /\ c # p /\ Root \in D
  BY DEF Sound, DirsIn
<1>2. \A d \in D2, j \in Indices :
        DirOf(datN, d)[j] = IF d = p /\ j = k THEN e ELSE DirOf(dat, d)[j]
  <2>1. p \in OnDevice
    BY <1>1
  <2> HIDE DEF e
  <2>2. \A d \in OnDevice, j \in Indices :
          DirOf(datN, d)[j] = IF d = p /\ j = k THEN e ELSE DirOf(dat, d)[j]
    BY <2>1, EntryWrite
  <2>3. QED
    BY <1>1, <2>2
<1>3. e.cluster = c /\ e.dir /\ IsNode(e) /\ e # End
  <2>1. n \notin {Dot, DotDot}
    BY Fat32Assumption
  <2>2. QED
    BY <2>1 DEF Entry, IsNode, End
<1> HIDE DEF datN, e
<1>4. ~IsNode(End) /\ ~IsNode(Deleted)
  BY DEF IsNode, End, Deleted
<1>5. VisibleIn(DirOf(datN, c)) = {}
  <2>1. \A j \in Indices : DirOf(datN, c)[j] = DirOf(dat, c)[j]
    BY <1>1, <1>2
  <2>2. ~IsNode(DirOf(dat, c)[0]) /\ ~IsNode(DirOf(dat, c)[1])
    BY DEF Blank, DotsOf, Entry, IsNode
  <2>3. \A j \in Indices : ~IsNode(DirOf(dat, c)[j])
    BY <2>2, <1>4 DEF Blank
  <2>4. QED
    BY <2>1, <2>3, VisibleAre
<1>6. \A d \in D \ {p} : VisibleIn(DirOf(datN, d)) = VisibleIn(DirOf(dat, d))
  <2> TAKE d \in D \ {p}
  <2>1. \A j \in Indices : DirOf(datN, d)[j] = DirOf(dat, d)[j]
    BY <1>2
  <2>2. /\ DirOf(datN, d) = [j \in Indices |-> DirOf(datN, d)[j]]
        /\ DirOf(dat, d) = [j \in Indices |-> DirOf(dat, d)[j]]
    BY DEF DirOf
  <2>3. DirOf(datN, d) = DirOf(dat, d)
    BY <2>1, <2>2
  <2>4. QED
    BY <2>3
<1>7. \A i, j \in Indices : i < j /\ DirOf(dat, p)[i] = End => DirOf(dat, p)[j] = End
  <2> SUFFICES ASSUME NEW i \in Indices, DirOf(dat, p)[i] = End
               PROVE  \A j \in Indices : i < j => DirOf(dat, p)[j] = End
    OBVIOUS
  <2> DEFINE After == {m \in Nat : i + m \in Indices => DirOf(dat, p)[i + m] = End}
  <2>1. i \in Nat /\ PerCluster \in Nat
    BY Prefix, IndicesAre
  <2>2. 0 \in After
    BY <2>1
  <2>3. ASSUME NEW m \in Nat, m \in After PROVE m + 1 \in After
    <3> SUFFICES ASSUME i + (m + 1) \in Indices PROVE DirOf(dat, p)[i + (m + 1)] = End
      OBVIOUS
    <3>1. i + m \in Indices /\ i + (m + 1) \in 1 .. PerCluster - 1 /\ (i + (m + 1)) - 1 = i + m
      BY <2>1 DEF Indices
    <3>2. DirOf(dat, p)[i + m] = End
      BY <2>3, <3>1
    <3>3. QED
      BY <3>1, <3>2 DEF Sound, MarksLast
  <2>4. Nat \subseteq After
    <3> HIDE DEF After
    <3>1. QED
      BY <2>2, <2>3, SetInduction
  <2>5. \A j \in Indices : i < j => j - i \in Nat /\ i + (j - i) = j
    BY <2>1 DEF Indices
  <2>6. QED
    BY <2>4, <2>5
<1>8. VisibleIn(DirOf(datN, p)) = VisibleIn(DirOf(dat, p)) \cup {k}
  <2>1. \A j \in Indices : DirOf(datN, p)[j] = IF j = k THEN e ELSE DirOf(dat, p)[j]
    BY <1>2
  <2>2. k \in VisibleIn(DirOf(datN, p))
    <3>1. \A j \in 0 .. k : j \in Indices /\ (j = k \/ j \in 0 .. k - 1)
      BY IndicesAre DEF Indices
    <3>2. \A j \in 0 .. k : DirOf(datN, p)[j] # End
      BY <1>3, <2>1, <3>1
    <3>3. QED
      BY <1>3, <2>1, <3>2, VisibleAre
  <2>3. ASSUME NEW i \in Indices, i # k
        PROVE  i \in VisibleIn(DirOf(datN, p)) <=> i \in VisibleIn(DirOf(dat, p))
    <3>1. IsNode(DirOf(datN, p)[i]) <=> IsNode(DirOf(dat, p)[i])
      BY <2>1, <2>3
    <3>2. 0 .. i \subseteq Indices /\ i \in 0 .. i /\ i \in Nat /\ k \in Nat
      BY Prefix
    <3>3. (\A j \in 0 .. i : DirOf(dat, p)[j] # End) => \A j \in 0 .. i : DirOf(datN, p)[j] # End
      BY <1>3, <2>1, <3>2
    <3>4. ASSUME IsNode(DirOf(dat, p)[i]), \A j \in 0 .. i : DirOf(datN, p)[j] # End, NEW m \in 0 .. i
          PROVE  DirOf(dat, p)[m] # End
      <4>1. CASE m # k
        BY <2>1, <3>2, <3>4, <4>1
      <4>2. CASE m = k
        <5>1. k < i
          BY <2>3, <3>2, <4>2
        <5>2. DirOf(dat, p)[i] # End
          BY <1>4, <3>4
        <5>3. QED
          BY <1>7, <4>2, <5>1, <5>2
      <4>3. QED
        BY <4>1, <4>2
    <3>5. QED
      BY <3>1, <3>3, <3>4, VisibleAre
  <2>4. VisibleIn(DirOf(datN, p)) \subseteq Indices /\ VisibleIn(DirOf(dat, p)) \subseteq Indices
    BY VisibleAre
  <2>5. QED
    BY <2>2, <2>3, <2>4
<1>9. new \notin NodesOf(dat, D)
  <2>1. k \notin VisibleIn(DirOf(dat, p))
    BY <1>4, VisibleAre
  <2>2. QED
    BY <2>1 DEF NodesOf
<1>10. NodesOf(datN, D2) = NodesOf(dat, D) \cup {new}
  <2>1. ASSUME NEW u \in NodesOf(datN, D2) PROVE u \in NodesOf(dat, D) \cup {new}
    <3>1. u \in D2 \X Indices /\ u[2] \in VisibleIn(DirOf(datN, u[1]))
      BY DEF NodesOf
    <3>2. u[1] \in D2 /\ u[2] \in Indices /\ u = <<u[1], u[2]>>
      BY <3>1
    <3>3. u[1] # c
      BY <1>5, <3>1
    <3>4. u[2] \in VisibleIn(DirOf(dat, u[1])) \/ u = new
      BY <1>6, <1>8, <3>1, <3>2, <3>3
    <3>5. QED
      BY <3>2, <3>3, <3>4 DEF NodesOf
  <2>2. ASSUME NEW u \in NodesOf(dat, D) PROVE u \in NodesOf(datN, D2)
    <3>1. u \in D \X Indices /\ u[2] \in VisibleIn(DirOf(dat, u[1]))
      BY DEF NodesOf
    <3>2. u[1] \in D /\ u \in D2 \X Indices
      BY <3>1
    <3>3. u[2] \in VisibleIn(DirOf(datN, u[1]))
      BY <1>6, <1>8, <3>1, <3>2
    <3>4. QED
      BY <3>2, <3>3 DEF NodesOf
  <2>3. new \in NodesOf(datN, D2)
    BY <1>8 DEF NodesOf
  <2>4. QED
    BY <2>1, <2>2, <2>3
<1>11. EntOf(datN, new) = e
  BY <1>2 DEF EntOf
<1>12. \A u \in NodesOf(dat, D) :
         /\ u # new /\ u[1] \in D /\ EntOf(datN, u) = EntOf(dat, u)
         /\ ChainAt(fat, datN, u) = ChainAt(fat, dat, u) /\ OwnedBy(fat, datN, u) = OwnedBy(fat, dat, u)
  <2> TAKE u \in NodesOf(dat, D)
  <2>1. u[1] \in D /\ u[2] \in Indices /\ u = <<u[1], u[2]>>
    BY <1>1, NodeIs
  <2>2. u # new
    BY <1>9
  <2>3. EntOf(datN, u) = EntOf(dat, u)
    BY <1>2, <2>1, <2>2 DEF EntOf
  <2>4. QED
    BY <2>1, <2>2, <2>3 DEF ChainAt, OwnedBy
<1>13. OwnedBy(fat, datN, new) = {c}
  <2>1. c \in Clusters /\ fat[c] \notin Clusters
    BY NoCluster DEF OnDevice
  <2>2. ChainAt(fat, datN, new) = <<c>>
    BY <1>3, <1>11, <2>1, ChainOfOne DEF ChainAt
  <2>3. Range(<<c>>) = {c}
    BY DEF Range
  <2>4. QED
    BY <2>2, <2>3 DEF OwnedBy
<1>14. DirsIn(fat, D2)
  BY <1>1 DEF Sound, DirsIn
<1>15. MarksLast(datN, D2)
  <2> SUFFICES ASSUME NEW d \in D2, NEW i \in 1 .. PerCluster - 1, DirOf(datN, d)[i - 1] = End
               PROVE  DirOf(datN, d)[i] = End
    BY DEF MarksLast
  <2>1. i \in Indices /\ i - 1 \in Indices /\ i # 0 /\ i \in Nat /\ k \in Nat
    BY IndicesAre DEF Indices
  <2>2. CASE d = c
    <3>1. DirOf(datN, c)[i] = DirOf(dat, c)[i] /\ DirOf(datN, c)[i - 1] = DirOf(dat, c)[i - 1]
      BY <1>1, <1>2, <2>1
    <3>2. DirOf(dat, c)[0] # End /\ DirOf(dat, c)[1] # End
      BY DEF Blank, DotsOf, Entry, End
    <3>3. i # 1
      BY <2>2, <3>1, <3>2
    <3>4. QED
      BY <2>1, <2>2, <3>1, <3>3 DEF Blank
  <2>3. CASE d \in D /\ ~ (d = p /\ i = k) /\ ~ (d = p /\ i - 1 = k)
    BY <1>2, <2>1, <2>3 DEF Sound, MarksLast
  <2>4. CASE d = p /\ i - 1 = k
    BY <1>2, <1>3, <2>1, <2>4
  <2>5. CASE d = p /\ i = k
    <3>1. i - 1 \in 0 .. k - 1 /\ i - 1 # k
      BY <2>1, <2>5
    <3>2. DirOf(datN, p)[i - 1] = DirOf(dat, p)[i - 1]
      BY <1>2, <2>1, <3>1
    <3>3. QED
      BY <2>5, <3>1, <3>2
  <2>6. QED
    BY <2>2, <2>3, <2>4, <2>5
<1>16. AllNamed(datN, D2)
  <2> SUFFICES ASSUME NEW d \in D2 \ {Root}
               PROVE  \E u \in NodesOf(datN, D2) : EntOf(datN, u).dir /\ EntOf(datN, u).cluster = d
    BY DEF AllNamed
  <2>1. CASE d = c
    BY <1>3, <1>10, <1>11, <2>1
  <2>2. CASE d \in D
    <3>1. PICK u \in NodesOf(dat, D) : EntOf(dat, u).dir /\ EntOf(dat, u).cluster = d
      BY <2>2 DEF Sound, AllNamed
    <3>2. QED
      BY <1>10, <1>12, <3>1
  <2>3. QED
    BY <2>1, <2>2
<1>17. DirsWhole(datN, D2)
  <2>1. \A d \in D2 : DotsOf(datN, d, p) <=> DotsOf(datN, d, p)
    OBVIOUS
  <2>2. ASSUME NEW u \in NodesOf(dat, D), EntOf(dat, u).dir
        PROVE  EntOf(dat, u).cluster \in D2 /\ DotsOf(datN, EntOf(dat, u).cluster, u[1])
    <3> DEFINE d == EntOf(dat, u).cluster
    <3>1. d \in D /\ DotsOf(dat, d, u[1])
      BY <2>2 DEF Sound, DirsWhole
    <3> HIDE DEF d
    <3>2. DirOf(dat, d)[0] \notin {End, Deleted} /\ DirOf(dat, d)[1] \notin {End, Deleted}
      BY <3>1 DEF DotsOf, Entry, End, Deleted
    <3>3. DirOf(datN, d)[0] = DirOf(dat, d)[0] /\ DirOf(datN, d)[1] = DirOf(dat, d)[1]
      BY <1>2, <3>1, <3>2, IndicesAre
    <3>4. QED
      BY <3>1, <3>3 DEF DotsOf, d
  <2>3. DotsOf(datN, c, p)
    <3>1. DirOf(datN, c)[0] = DirOf(dat, c)[0] /\ DirOf(datN, c)[1] = DirOf(dat, c)[1]
      BY <1>1, <1>2, IndicesAre
    <3>2. QED
      BY <3>1 DEF Blank, DotsOf
  <2>4. new[1] = p
    OBVIOUS
  <2>5. QED
    BY <1>3, <1>10, <1>11, <1>12, <2>2, <2>3, <2>4 DEF DirsWhole
<1>18. AllUsed(fat, datN, D2)
  <2>1. fat[c] # FreeCluster /\ c # Root
    BY <1>1, NoCluster
  <2>2. QED
    BY <1>10, <1>12, <1>13, <2>1 DEF Sound, AllUsed
<1>19. AllApart(fat, datN, D2)
  BY <1>10, <1>12, <1>13 DEF Sound, AllApart, Unowned
<1>20. FilesWhole(fat, datN, D2)
  BY <1>3, <1>10, <1>11, <1>12 DEF Sound, FilesWhole
<1>21. DotsFirst(datN, D2)
  <2>1. e.name \notin {Dot, DotDot}
    BY <1>3 DEF IsNode
  <2>2. \A j \in Indices \ {0, 1} : DirOf(datN, c)[j].kind # "entry"
    BY <1>1, <1>2 DEF Blank, End
  <2>3. c # Root
    BY <1>1
  <2>4. \A d \in D : \A j \in Indices :
          DirOf(datN, d)[j] = IF d = p /\ j = k THEN e ELSE DirOf(dat, d)[j]
    BY <1>2
  <2>5. QED
    BY <2>1, <2>2, <2>3, <2>4 DEF Sound, DotsFirst
<1>22. QED
  BY <1>14, <1>15, <1>16, <1>17, <1>18, <1>19, <1>20, <1>21 DEF Sound, datN, e

-----------------------------------------------------------------------------
(***************************************************************************)
(* The properties of Fat32 are about a sound volume.                       *)
(***************************************************************************)
LEMMA DeviceClusters == OnDevice \subseteq Clusters
  BY DEF OnDevice

\* Directories of one cluster.
Short(fat, D) == D \subseteq Clusters /\ \A d \in D : fat[d] \notin Clusters

LEMMA ShortIs ==
  ASSUME NEW D, Short(fat1, D), NEW d \in D
  PROVE  /\ d \in Clusters /\ Entries(d) = DirOf(data, d) /\ Chain(d) = <<d>>
         /\ \A k \in Indices : /\ EntryAt(d, k) = DirOf(data, d)[k]
                               /\ Place(d, k) = <<SectorOf(d, k), SlotOf(k)>>
  BY OneCluster, ChainOfOne DEF Short, Chain

LEMMA DirectoryIs ==
  ASSUME NEW D, DirsIn(fat1, D), NEW d \in D
  PROVE  /\ d \in Clusters /\ Entries(d) = DirOf(data, d) /\ Chain(d) = <<d>>
         /\ \A k \in Indices : /\ EntryAt(d, k) = DirOf(data, d)[k]
                               /\ Place(d, k) = <<SectorOf(d, k), SlotOf(k)>>
<1>1. d \in Clusters /\ fat1[d] \notin Clusters
  BY NoCluster, DeviceClusters DEF DirsIn
<1>2. QED
  BY <1>1, OneCluster, ChainOfOne DEF Chain

\* Directories is the least set with the root that is closed under the entries.
LEMMA DirectoriesAre ==
  /\ Directories = {d \in Clusters : \A S \in SUBSET Clusters : ClosedUnder(Leads, S) => d \in S}
  /\ Directories \subseteq Clusters
<1>1. Directories = LedTo(Leads)
  BY DEF Directories
<1>2. QED
  BY <1>1 DEF LedTo

LEMMA DirectoriesAreIn ==
  ASSUME NEW D, Sound(fat1, data, D)
  PROVE  Directories \subseteq D
<1>1. DirsIn(fat1, D) /\ D \in SUBSET Clusters /\ Root \in D
  BY DeviceClusters DEF Sound, DirsIn
<1>2. ASSUME NEW l \in Leads, l[1] \in D PROVE l[2] \in D
  <2>1. PICK d \in OnDevice : l \in {d} \X (SubdirsIn(Entries(d)) \cap Clusters)
    BY DEF Leads
  <2>2. l[1] = d /\ l[2] \in SubdirsIn(Entries(d))
    BY <2>1
  <2>3. Entries(d) = DirOf(data, d)
    BY <1>1, <1>2, <2>2, DirectoryIs
  <2>4. PICK k \in VisibleIn(DirOf(data, d)) : DirOf(data, d)[k].dir /\ l[2] = DirOf(data, d)[k].cluster
    BY <2>2, <2>3 DEF SubdirsIn
  <2>5. k \in Indices
    BY VisibleAre
  <2>6. <<d, k>> \in NodesOf(data, D) /\ EntOf(data, <<d, k>>) = DirOf(data, d)[k]
    BY <1>2, <2>2, <2>4, <2>5 DEF NodesOf, EntOf
  <2>7. QED
    BY <2>4, <2>6 DEF Sound, DirsWhole
<1>3. \A l \in Leads : l[1] \in D => l[2] \in D
  BY <1>2
<1>4. QED
  BY <1>1, <1>3, DirectoriesAre DEF ClosedUnder

LEMMA TreeIs ==
  ASSUME NEW D, Typed(fat1, data), Sound(fat1, data, D), NEW t \in Tree
  PROVE  /\ t \in NodesOf(data, D) /\ EntryOf(t) = EntOf(data, t)
         /\ Chain(EntryOf(t).cluster) = ChainAt(fat1, data, t)
         /\ ChainOf(t) = OwnedBy(fat1, data, t)
<1>1. PICK d \in Directories : t \in {<<d, k>> : k \in Visible(d)}
  BY DEF Tree
<1>2. PICK k \in Visible(d) : t = <<d, k>>
  BY <1>1
<1>3. d \in D /\ DirsIn(fat1, D)
  BY DirectoriesAreIn DEF Sound
<1>4. Visible(d) = VisibleIn(DirOf(data, d))
  BY <1>3, DirectoryIs DEF Visible
<1>5. k \in Indices
  BY <1>4, VisibleAre
<1>6. t \in NodesOf(data, D)
  BY <1>2, <1>3, <1>4, <1>5 DEF NodesOf
<1>7. EntryOf(t) = EntOf(data, t)
  BY <1>2, <1>3, <1>5, DirectoryIs DEF EntryOf, EntOf
<1>8. QED
  BY <1>6, <1>7 DEF ChainAt, OwnedBy, ChainOf, Chain

LEMMA SoundMeans ==
  ASSUME NEW D, Typed(fat1, data), Sound(fat1, data, D), TypeOK
  PROVE  TreeSound
<1>1. /\ DirsIn(fat1, D) /\ D \subseteq OnDevice /\ Directories \subseteq D
  BY DirectoriesAreIn DEF Sound, DirsIn
<1>2. NoDangling
  <2> SUFFICES ASSUME NEW t \in Tree
               PROVE  /\ EntryOf(t).dir => EntryOf(t).cluster \in Clusters
                      /\ \A c \in ChainOf(t) : fat1[c] # FreeCluster
    BY DEF NoDangling
  <2>1. EntryOf(t).dir => EntryOf(t).cluster \in D
    BY TreeIs DEF Sound, DirsWhole
  <2>2. QED
    BY <1>1, <2>1, TreeIs, DeviceClusters DEF Sound, AllUsed
<1>3. NoCrossLink
  <2>1. Range(Chain(Root)) = {Root}
    <3>1. Chain(Root) = <<Root>>
      BY <1>1, DirectoryIs DEF DirsIn
    <3>2. QED
      BY <3>1 DEF Range
  <2>2. \A t \in Tree : Root \notin ChainOf(t)
    BY TreeIs DEF Sound, AllUsed
  <2>3. \A t, u \in Tree : t # u => ChainOf(t) \cap ChainOf(u) = {}
    BY TreeIs DEF Sound, AllApart
  <2>4. QED
    BY <2>1, <2>2, <2>3 DEF NoCrossLink
<1>4. CompleteDirectories
  <2>1. ASSUME NEW t \in Tree, EntryOf(t).dir
        PROVE  LET d == EntryOf(t).cluster IN
                 /\ EntryAt(d, 0) = Entry(Dot, d, TRUE, 0)
                 /\ EntryAt(d, 1) = Entry(DotDot, t[1], TRUE, 0)
    <3> DEFINE d == EntryOf(t).cluster
    <3>1. d \in D /\ DotsOf(data, d, t[1])
      BY <2>1, TreeIs DEF Sound, DirsWhole
    <3> HIDE DEF d
    <3>2. EntryAt(d, 0) = DirOf(data, d)[0] /\ EntryAt(d, 1) = DirOf(data, d)[1]
      BY <1>1, <3>1, DirectoryIs, IndicesAre
    <3>3. QED
      BY <3>1, <3>2 DEF DotsOf, d
  <2>2. \A d \in Directories : \A k \in Indices : EntryAt(d, k) = DirOf(data, d)[k]
    BY <1>1, DirectoryIs
  <2>3. ASSUME NEW d \in Directories, NEW k \in (IF d = Root THEN 0 ELSE 2) .. PerCluster - 1,
               EntryAt(d, k).kind = "entry"
        PROVE  EntryAt(d, k).name \notin {Dot, DotDot}
    <3>1. k \in Indices /\ (d # Root => k \notin {0, 1})
      BY IndicesAre DEF Indices
    <3>2. QED
      BY <1>1, <2>2, <2>3, <3>1 DEF Sound, DotsFirst
  <2>4. \A d \in Directories : \A k \in (IF d = Root THEN 0 ELSE 2) .. PerCluster - 1 :
          EntryAt(d, k).kind = "entry" => EntryAt(d, k).name \notin {Dot, DotDot}
    BY <2>3
  <2>5. QED
    BY <2>1, <2>4 DEF CompleteDirectories
<1>5. SizeFits
  BY TreeIs DEF SizeFits, Capacity, Sound, FilesWhole, FileFits, ChainAt
<1>6. DirectoriesWhole
  <2> SUFFICES ASSUME NEW d \in Directories
               PROVE  /\ d \in OnDevice /\ fat1[d] = EndOfChain
                      /\ \A k \in 1 .. PerCluster - 1 : EntryAt(d, k - 1) = End => EntryAt(d, k) = End
    BY DEF DirectoriesWhole
  <2>1. d \in D
    BY <1>1
  <2>2. d \in OnDevice /\ fat1[d] = EndOfChain
    BY <1>1, <2>1 DEF DirsIn
  <2>3. \A k \in 1 .. PerCluster - 1 : k \in Indices /\ k - 1 \in Indices
    BY IndicesAre DEF Indices
  <2>4. \A k \in Indices : EntryAt(d, k) = DirOf(data, d)[k]
    BY <1>1, <2>1, DirectoryIs
  <2>5. QED
    BY <2>1, <2>2, <2>3, <2>4 DEF Sound, MarksLast
<1>7. ChainsEnd
  <2> SUFFICES ASSUME NEW t \in Tree
               PROVE  LET chain == Chain(EntryOf(t).cluster) IN
                        chain # <<>> => fat1[chain[Len(chain)]] = EndOfChain
    BY DEF ChainsEnd
  <2>1. t \in NodesOf(data, D) /\ EntryOf(t) = EntOf(data, t)
    BY TreeIs
  <2>2. CASE EntOf(data, t).dir
    <3>1. EntOf(data, t).cluster \in D
      BY <2>1, <2>2 DEF Sound, DirsWhole
    <3>2. Chain(EntryOf(t).cluster) = <<EntryOf(t).cluster>> /\ fat1[EntryOf(t).cluster] = EndOfChain
      BY <1>1, <2>1, <3>1, DirectoryIs DEF DirsIn
    <3>3. QED
      BY <3>2
  <2>3. CASE ~EntOf(data, t).dir
    BY <2>1, <2>3 DEF Sound, FilesWhole, FileEnds, Chain
  <2>4. QED
    BY <2>2, <2>3
<1>8. QED
  BY <1>2, <1>3, <1>4, <1>5, <1>6, <1>7 DEF TreeSound

\* And conversely, with the directories of the tree.
LEMMA MeansSound ==
  ASSUME TreeSound
  PROVE  Typed(fat1, data) /\ Sound(fat1, data, Directories) /\ Directories \subseteq Clusters
<1> DEFINE D == Directories
<1>1. Typed(fat1, data)
  BY DEF TreeSound, TypeOK, Typed
<1>2. Root \in D /\ D \subseteq Clusters
  <2>1. Root \in Clusters
    BY Fat32Assumption DEF Clusters, Root
  <2>2. QED
    BY <2>1, DirectoriesAre DEF ClosedUnder
<1>3. DirsIn(fat1, D)
  BY <1>2 DEF TreeSound, DirectoriesWhole, DirsIn
<1>4. \A d \in D : /\ d \in Clusters /\ Entries(d) = DirOf(data, d)
                   /\ \A k \in Indices : EntryAt(d, k) = DirOf(data, d)[k]
  BY <1>3, DirectoryIs
<1>5. NodesOf(data, D) = Tree
  <2>1. ASSUME NEW t \in NodesOf(data, D) PROVE t \in Tree
    <3>1. t \in D \X Indices /\ t[2] \in VisibleIn(DirOf(data, t[1]))
      BY DEF NodesOf
    <3>2. t[1] \in D /\ t = <<t[1], t[2]>> /\ t[2] \in Visible(t[1])
      BY <1>4, <3>1 DEF Visible
    <3>3. QED
      BY <3>2 DEF Tree
  <2>2. ASSUME NEW t \in Tree PROVE t \in NodesOf(data, D)
    <3>1. PICK d \in D : t \in {<<d, k>> : k \in Visible(d)}
      BY DEF Tree
    <3>2. PICK k \in Visible(d) : t = <<d, k>>
      BY <3>1
    <3>3. k \in VisibleIn(DirOf(data, d)) /\ k \in Indices
      BY <1>4, VisibleAre DEF Visible
    <3>4. QED
      BY <3>2, <3>3 DEF NodesOf
  <2>3. QED
    BY <2>1, <2>2
<1>6. \A t \in Tree : /\ t[1] \in D /\ t[2] \in Indices /\ t[2] \in Visible(t[1])
                      /\ EntryOf(t) = EntOf(data, t) /\ ChainOf(t) = OwnedBy(fat1, data, t)
                      /\ Chain(EntryOf(t).cluster) = ChainAt(fat1, data, t)
  <2> SUFFICES ASSUME NEW t \in NodesOf(data, D)
               PROVE  /\ t[1] \in D /\ t[2] \in Indices /\ t[2] \in Visible(t[1])
                      /\ EntryOf(t) = EntOf(data, t) /\ ChainOf(t) = OwnedBy(fat1, data, t)
                      /\ Chain(EntryOf(t).cluster) = ChainAt(fat1, data, t)
    BY <1>5
  <2>1. t \in D \X Indices /\ t[2] \in VisibleIn(DirOf(data, t[1]))
    BY DEF NodesOf
  <2>2. t[1] \in D /\ t[2] \in Indices /\ t[2] \in Visible(t[1])
    BY <1>4, <2>1 DEF Visible
  <2>3. EntryOf(t) = EntOf(data, t)
    BY <1>4, <2>2 DEF EntryOf, EntOf
  <2>4. QED
    BY <2>2, <2>3 DEF ChainAt, OwnedBy, ChainOf, Chain
<1> DEFINE Targeted == {c \in Clusters : c = Root \/ \E t \in Tree : EntryOf(t).dir /\ EntryOf(t).cluster = c}
<1>7. \A l \in Leads : l[1] \in D => \E t \in Tree : EntryOf(t).dir /\ EntryOf(t).cluster = l[2] /\ l[2] \in Clusters
  <2> SUFFICES ASSUME NEW l \in Leads, l[1] \in D
               PROVE  \E t \in Tree : EntryOf(t).dir /\ EntryOf(t).cluster = l[2] /\ l[2] \in Clusters
    OBVIOUS
  <2>1. PICK d \in OnDevice : l \in {d} \X (SubdirsIn(Entries(d)) \cap Clusters)
    BY DEF Leads
  <2>2. l[1] = d /\ l[2] \in SubdirsIn(Entries(d)) /\ l[2] \in Clusters
    BY <2>1
  <2>3. PICK k \in Visible(d) : Entries(d)[k].dir /\ l[2] = Entries(d)[k].cluster
    BY <2>2 DEF SubdirsIn, Visible
  <2>4. <<d, k>> \in Tree
    BY <2>2 DEF Tree
  <2>5. EntryOf(<<d, k>>) = DirOf(data, d)[k] /\ Entries(d) = DirOf(data, d)
    <3>1. k \in Indices
      BY <1>6, <2>4
    <3>2. QED
      BY <1>4, <2>2, <3>1 DEF EntryOf
  <2>6. QED
    BY <2>2, <2>3, <2>4, <2>5
<1>8. \A t \in Tree : EntryOf(t).dir => EntryOf(t).cluster \in D
  <2> SUFFICES ASSUME NEW t \in Tree, EntryOf(t).dir PROVE EntryOf(t).cluster \in D
    OBVIOUS
  <2> DEFINE c == EntryOf(t).cluster
  <2>1. c \in Clusters
    BY DEF TreeSound, NoDangling
  <2>2. t[1] \in D /\ t[1] \in OnDevice /\ c \in SubdirsIn(Entries(t[1]))
    <3>1. t[1] \in D /\ t[2] \in Indices /\ t[2] \in Visible(t[1])
      BY <1>6
    <3>2. EntryOf(t) = Entries(t[1])[t[2]]
      BY <1>4, <3>1 DEF EntryOf
    <3>3. c \in SubdirsIn(Entries(t[1]))
      BY <3>1, <3>2 DEF SubdirsIn, Visible
    <3>4. QED
      BY <1>3, <3>1, <3>3 DEF DirsIn
  <2> HIDE DEF c
  <2>3. <<t[1], c>> \in Leads
    BY <2>1, <2>2 DEF Leads
  <2>4. \A S \in SUBSET Clusters : Root \in S /\ (\A l \in Leads : l[1] \in S => l[2] \in S) => t[1] \in S
    BY <2>2, DirectoriesAre DEF ClosedUnder
  <2>5. \A S \in SUBSET Clusters : Root \in S /\ (\A l \in Leads : l[1] \in S => l[2] \in S) => c \in S
    <3> TAKE S \in SUBSET Clusters
    <3> HAVE Root \in S /\ (\A l \in Leads : l[1] \in S => l[2] \in S)
    <3>1. t[1] \in S
      BY <2>4
    <3>2. <<t[1], c>>[1] = t[1] /\ <<t[1], c>>[2] = c
      OBVIOUS
    <3>3. QED
      BY <2>3, <3>1, <3>2
  <2>6. QED
    BY <2>1, <2>5, DirectoriesAre DEF ClosedUnder, c
<1>9. AllNamed(data, D)
  <2>1. Targeted \in SUBSET Clusters /\ Root \in Targeted
    BY <1>2
  <2>2. ASSUME NEW l \in Leads, l[1] \in Targeted PROVE l[2] \in Targeted
    <3>1. l[1] \in D
      BY <1>2, <1>8, <2>2
    <3>2. QED
      BY <1>7, <3>1
  <2>3. \A l \in Leads : l[1] \in Targeted => l[2] \in Targeted
    BY <2>2
  <2>4. D \subseteq Targeted
    <3> HIDE DEF Targeted
    <3>1. QED
      BY <2>1, <2>3, DirectoriesAre DEF ClosedUnder
  <2>5. \A d \in D \ {Root} : \E t \in Tree : EntryOf(t).dir /\ EntryOf(t).cluster = d
    BY <2>4
  <2>6. QED
    BY <1>5, <1>6, <2>5 DEF AllNamed
<1> HIDE DEF D
<1>10. MarksLast(data, D)
  <2>1. \A k \in 1 .. PerCluster - 1 : k \in Indices /\ k - 1 \in Indices
    BY IndicesAre DEF Indices
  <2>2. \A d \in D, k \in 1 .. PerCluster - 1 : EntryAt(d, k - 1) = End => EntryAt(d, k) = End
    BY DEF TreeSound, DirectoriesWhole, D
  <2>3. QED
    BY <1>4, <2>1, <2>2 DEF MarksLast
<1>11. DirsWhole(data, D)
  <2> SUFFICES ASSUME NEW t \in Tree, EntryOf(t).dir
               PROVE  EntryOf(t).cluster \in D /\ DotsOf(data, EntryOf(t).cluster, t[1])
    BY <1>5, <1>6 DEF DirsWhole
  <2> DEFINE d == EntryOf(t).cluster
  <2>1. d \in D
    BY <1>8
  <2>2. EntryAt(d, 0) = Entry(Dot, d, TRUE, 0) /\ EntryAt(d, 1) = Entry(DotDot, t[1], TRUE, 0)
    BY DEF TreeSound, CompleteDirectories
  <2> HIDE DEF d
  <2>3. QED
    BY <1>4, <2>1, <2>2, IndicesAre DEF DotsOf, d
<1>12. DotsFirst(data, D)
  <2>0. \A d \in D : \A k \in (IF d = Root THEN 0 ELSE 2) .. PerCluster - 1 :
          EntryAt(d, k).kind = "entry" => EntryAt(d, k).name \notin {Dot, DotDot}
    BY DEF TreeSound, CompleteDirectories, D
  <2> SUFFICES ASSUME NEW d \in D, NEW k \in Indices, DirOf(data, d)[k].kind = "entry",
                      d = Root \/ k \notin {0, 1}
               PROVE  DirOf(data, d)[k].name \notin {Dot, DotDot}
    BY DEF DotsFirst
  <2>1. k \in (IF d = Root THEN 0 ELSE 2) .. PerCluster - 1
    BY IndicesAre DEF Indices
  <2>2. EntryAt(d, k) = DirOf(data, d)[k]
    BY <1>4
  <2>3. QED
    BY <2>0, <2>1, <2>2
<1>13. AllUsed(fat1, data, D)
  <2>1. Root \in Range(Chain(Root))
    <3>1. Chain(Root) = <<Root>>
      BY <1>2, <1>3, DirectoryIs
    <3>2. QED
      BY <3>1 DEF Range
  <2>2. \A t \in Tree : \A c \in ChainOf(t) : fat1[c] # FreeCluster /\ c # Root
    BY <2>1 DEF TreeSound, NoDangling, NoCrossLink
  <2>3. QED
    BY <1>5, <1>6, <2>2 DEF AllUsed
<1>14. AllApart(fat1, data, D)
  BY <1>5, <1>6 DEF TreeSound, NoCrossLink, AllApart
<1>15. FilesWhole(fat1, data, D)
  <2> SUFFICES ASSUME NEW t \in Tree, ~EntryOf(t).dir
               PROVE  FileFits(fat1, EntryOf(t)) /\ FileEnds(fat1, EntryOf(t))
    BY <1>5, <1>6 DEF FilesWhole
  <2>1. FileFits(fat1, EntryOf(t))
    BY DEF TreeSound, SizeFits, Capacity, Chain, FileFits
  <2>2. FileEnds(fat1, EntryOf(t))
    BY DEF TreeSound, ChainsEnd, Chain, FileEnds
  <2>3. QED
    BY <2>1, <2>2
<1>16. QED
  BY <1>1, <1>2, <1>3, <1>9, <1>10, <1>11, <1>12, <1>13, <1>14, <1>15 DEF Sound, D

-----------------------------------------------------------------------------
(***************************************************************************)
(* Lookups.                                                                *)
(***************************************************************************)
NamedIn(dat, d, name) == Named(DirOf(dat, d), name)

EnterIn(dat, d, name) ==
  IF d = 0 THEN 0
  ELSE LET k == Least(NamedIn(dat, d, name)) IN
       IF k >= 0 /\ DirOf(dat, d)[k].dir THEN DirOf(dat, d)[k].cluster ELSE 0

\* The directories a lookup enters, up to the one after n components.
Enters(dat, D, path, w, n) ==
  /\ w = [i \in 0 .. n |-> IF i = 0 THEN Root ELSE EnterIn(dat, w[i - 1], path[i])]
  /\ \A i \in 0 .. n : w[i] \in D \cup {0}

Reaches(dat, D, path, d) ==
  \E w : Enters(dat, D, path, w, Len(path) - 1) /\ w[Len(path) - 1] = d

\* The entry t is what a lookup of path finds.
Finds(dat, D, path, t) ==
  /\ t[1] \in D /\ Reaches(dat, D, path, t[1])
  /\ t[2] = Least(NamedIn(dat, t[1], Leaf(path))) /\ t[2] \in NamedIn(dat, t[1], Leaf(path))

LEMMA NamedAre ==
  ASSUME NEW dat, NEW d, NEW name
  PROVE  /\ NamedIn(dat, d, name) =
              {k \in Indices : DirOf(dat, d)[k].kind = "entry" /\ DirOf(dat, d)[k].name = name
                               /\ \A j \in 0 .. k : DirOf(dat, d)[j] # End}
         /\ NamedIn(dat, d, name) \in SUBSET Nat
         /\ NamedIn(dat, d, name) = {} => Least(NamedIn(dat, d, name)) = -1
         /\ NamedIn(dat, d, name) # {} =>
              /\ Least(NamedIn(dat, d, name)) \in NamedIn(dat, d, name)
              /\ Least(NamedIn(dat, d, name)) >= 0
              /\ \A j \in NamedIn(dat, d, name) : Least(NamedIn(dat, d, name)) <= j
<1> DEFINE S == NamedIn(dat, d, name)
<1>1. DOMAIN DirOf(dat, d) = Indices
  BY DEF DirOf
<1>2. S = {k \in Indices : DirOf(dat, d)[k].kind = "entry" /\ DirOf(dat, d)[k].name = name
                           /\ \A j \in 0 .. k : DirOf(dat, d)[j] # End}
  BY <1>1 DEF NamedIn, Named, BeforeEnd
<1>3. Indices \subseteq Nat
  BY Prefix
<1> HIDE DEF S
<1>4. S \in SUBSET Nat
  BY <1>2, <1>3
<1>5. S = {} => Least(S) = -1
  BY DEF Least
<1>6. S # {} => Least(S) \in S /\ \A j \in S : Least(S) <= j
  BY <1>4, LeastIs
<1>7. S # {} => Least(S) >= 0
  <2>1. S # {} => Least(S) \in Nat
    BY <1>4, <1>6
  <2>2. QED
    BY <2>1
<1>8. QED
  BY <1>2, <1>4, <1>5, <1>6, <1>7 DEF S

\* A lookup stays in the tree.
LEMMA EnterStays ==
  ASSUME NEW fat, NEW dat, NEW D, Sound(fat, dat, D), NEW d \in D \cup {0}, NEW name
  PROVE  EnterIn(dat, d, name) \in D \cup {0}
<1> DEFINE k == Least(NamedIn(dat, d, name))
           e == DirOf(dat, d)[k]
<1> SUFFICES ASSUME d \in D, NamedIn(dat, d, name) # {}, e.dir PROVE e.cluster \in D \cup {0}
  <2>1. NamedIn(dat, d, name) = {} => k = -1
    BY NamedAre
  <2>2. NamedIn(dat, d, name) = {} => ~ (k >= 0)
    BY <2>1
  <2>3. QED
    BY <2>2 DEF EnterIn
<1>1. k \in Indices /\ e.kind = "entry" /\ e.name = name /\ \A j \in 0 .. k : DirOf(dat, d)[j] # End
  BY NamedAre
<1>2. \A j \in NamedIn(dat, d, name) : k <= j
  BY NamedAre
<1>3. CASE name \notin {Dot, DotDot}
  <2>1. k \in VisibleIn(DirOf(dat, d))
    BY <1>1, <1>3, VisibleAre DEF IsNode
  <2> HIDE DEF k
  <2>2. <<d, k>> \in NodesOf(dat, D) /\ EntOf(dat, <<d, k>>) = e
    BY <1>1, <2>1 DEF NodesOf, EntOf
  <2>3. QED
    BY <2>2 DEF Sound, DirsWhole
<1>4. CASE name \in {Dot, DotDot}
  <2>1. d # Root
    BY <1>1, <1>4 DEF Sound, DotsFirst
  <2>2. PICK t \in NodesOf(dat, D) : EntOf(dat, t).dir /\ EntOf(dat, t).cluster = d
    BY <2>1 DEF Sound, AllNamed
  <2>3. DotsOf(dat, d, t[1]) /\ t[1] \in D
    BY <2>2 DEF Sound, DirsWhole, NodesOf
  <2>4. /\ DirOf(dat, d)[0].kind = "entry" /\ DirOf(dat, d)[0].name = Dot /\ DirOf(dat, d)[0].cluster = d
        /\ DirOf(dat, d)[1].kind = "entry" /\ DirOf(dat, d)[1].name = DotDot
        /\ DirOf(dat, d)[1].cluster = t[1]
        /\ DirOf(dat, d)[0] # End /\ DirOf(dat, d)[1] # End
    BY <2>3 DEF DotsOf, Entry, End
  <2>5. CASE name = Dot
    <3>1. 0 \in NamedIn(dat, d, name)
      BY <2>4, <2>5, NamedAre, IndicesAre
    <3>2. k = 0
      BY <1>1, <1>2, <3>1, Prefix
    <3>3. QED
      BY <2>4, <3>2
  <2>6. CASE name = DotDot
    <3>1. \A j \in 0 .. 1 : j = 0 \/ j = 1
      OBVIOUS
    <3>2. 1 \in NamedIn(dat, d, name)
      BY <2>4, <2>6, <3>1, NamedAre, IndicesAre
    <3>3. k # 0
      BY <1>1, <2>4, <2>6 DEF Dot, DotDot
    <3>4. k = 1
      <4> HIDE DEF k
      <4>1. k \in Nat /\ k <= 1
        BY <1>1, <1>2, <3>2, Prefix
      <4>2. QED
        BY <3>3, <4>1
    <3>5. QED
      BY <2>3, <2>4, <3>4
  <2>7. QED
    BY <1>4, <2>5, <2>6
<1>5. QED
  BY <1>3, <1>4

\* A lookup that begins in D stays there.
Enterable(dat, D) == Root \in D /\ \A d \in D \cup {0} : \A name : EnterIn(dat, d, name) \in D \cup {0}

LEMMA SoundEnterable ==
  ASSUME NEW fat, NEW dat, NEW D, Sound(fat, dat, D)
  PROVE  Enterable(dat, D)
<1>1. Root \in D
  BY DEF Sound, DirsIn
<1>2. QED
  BY <1>1, EnterStays DEF Enterable

\* The walk over the components exists.
LEMMA EntersExist ==
  ASSUME NEW dat, NEW D, Enterable(dat, D), NEW path, NEW n \in Nat
  PROVE  \E w : Enters(dat, D, path, w, n)
<1> DEFINE Exists == {m \in Nat : \E w : Enters(dat, D, path, w, m)}
<1>1. 0 \in Exists
  <2> DEFINE w == [i \in 0 .. 0 |-> Root]
  <2>1. w = [i \in 0 .. 0 |-> IF i = 0 THEN Root ELSE EnterIn(dat, w[i - 1], path[i])]
    OBVIOUS
  <2>2. \A i \in 0 .. 0 : w[i] \in D \cup {0}
    BY DEF Enterable
  <2> HIDE DEF w
  <2>3. Enters(dat, D, path, w, 0)
    BY <2>1, <2>2 DEF Enters
  <2>4. QED
    BY <2>3
<1>2. ASSUME NEW m \in Nat, m \in Exists PROVE m + 1 \in Exists
  <2>1. PICK w : Enters(dat, D, path, w, m)
    BY <1>2
  <2> DEFINE last == EnterIn(dat, w[m], path[m + 1])
             x == [i \in 0 .. m + 1 |-> IF i = m + 1 THEN last ELSE w[i]]
  <2>2. w[m] \in D \cup {0} /\ last \in D \cup {0}
    <3>1. w[m] \in D \cup {0}
      BY <2>1 DEF Enters
    <3>2. QED
      BY <3>1 DEF Enterable
  <2> HIDE DEF last
  <2>3. \A i \in 0 .. m + 1 : i # m + 1 => i \in 0 .. m /\ x[i] = w[i]
    OBVIOUS
  <2>4. x[m + 1] = last /\ x[m] = w[m] /\ (m + 1) - 1 = m
    OBVIOUS
  <2>5. x = [i \in 0 .. m + 1 |-> x[i]]
    OBVIOUS
  <2> HIDE DEF x
  <2>6. \A i \in 0 .. m + 1 : x[i] \in D \cup {0}
    BY <2>1, <2>2, <2>3, <2>4 DEF Enters
  <2>7. ASSUME NEW i \in 0 .. m + 1
        PROVE  x[i] = IF i = 0 THEN Root ELSE EnterIn(dat, x[i - 1], path[i])
    <3>1. CASE i = m + 1
      BY <2>4, <3>1 DEF last
    <3>2. CASE i # m + 1
      <4>1. i \in 0 .. m /\ x[i] = w[i] /\ (i # 0 => i - 1 \in 0 .. m + 1 /\ i - 1 # m + 1)
        BY <2>3, <3>2
      <4>2. i # 0 => x[i - 1] = w[i - 1]
        BY <2>3, <4>1
      <4>3. w[i] = IF i = 0 THEN Root ELSE EnterIn(dat, w[i - 1], path[i])
        BY <2>1, <4>1 DEF Enters
      <4>4. QED
        BY <4>1, <4>2, <4>3
    <3>3. QED
      BY <3>1, <3>2
  <2>8. Enters(dat, D, path, x, m + 1)
    BY <2>5, <2>6, <2>7 DEF Enters
  <2>9. QED
    BY <2>8
<1>3. Nat \subseteq Exists
  <2> HIDE DEF Exists
  <2>1. QED
    BY <1>1, <1>2, SetInduction
<1>4. QED
  BY <1>3

LEMMA EntersUnique ==
  ASSUME NEW dat, NEW D, NEW path, NEW n \in Nat, NEW w, NEW x,
         Enters(dat, D, path, w, n), Enters(dat, D, path, x, n)
  PROVE  w[n] = x[n]
<1> DEFINE Same == {i \in Nat : i \in 0 .. n => w[i] = x[i]}
<1>1. 0 \in Same
  BY DEF Enters
<1>2. ASSUME NEW i \in Nat, i \in Same PROVE i + 1 \in Same
  <2> SUFFICES ASSUME i + 1 \in 0 .. n PROVE w[i + 1] = x[i + 1]
    OBVIOUS
  <2>1. i \in 0 .. n /\ i + 1 # 0 /\ (i + 1) - 1 = i
    OBVIOUS
  <2>2. w[i] = x[i]
    BY <1>2, <2>1
  <2>3. w[i + 1] = EnterIn(dat, w[i], path[i + 1]) /\ x[i + 1] = EnterIn(dat, x[i], path[i + 1])
    BY <2>1 DEF Enters
  <2>4. QED
    BY <2>2, <2>3
<1>3. Nat \subseteq Same
  <2> HIDE DEF Same
  <2>1. QED
    BY <1>1, <1>2, SetInduction
<1>4. QED
  BY <1>3

LEMMA PathLength ==
  ASSUME NEW path \in Paths
  PROVE  Len(path) - 1 \in Nat /\ Leaf(path) \in Names /\ Leaf(path) \notin {Dot, DotDot}
<1>1. path \in Seq(Names \cup {Dot, DotDot}) /\ path # <<>> /\ path[Len(path)] \in Names
  BY DEF Paths
<1>2. Len(path) \in Nat /\ Len(path) # 0
  BY <1>1
<1>3. QED
  BY <1>1, <1>2, Fat32Assumption DEF Leaf

LEMMA ReachesUnique ==
  ASSUME NEW dat, NEW D, NEW path \in Paths, NEW c, NEW d,
         Reaches(dat, D, path, c), Reaches(dat, D, path, d)
  PROVE  c = d
  BY PathLength, EntersUnique DEF Reaches

\* The walk depends on the directories alone.
LEMMA ReachesKept ==
  ASSUME NEW dat, NEW datN, NEW D, NEW path \in Paths, NEW d, Reaches(dat, D, path, d),
         0 \notin D, \A c \in D : DirOf(datN, c) = DirOf(dat, c)
  PROVE  Reaches(datN, D, path, d)
<1> DEFINE n == Len(path) - 1
<1>1. PICK w : Enters(dat, D, path, w, n) /\ w[n] = d
  BY DEF Reaches
<1>2. \A c \in D \cup {0} : \A name : EnterIn(datN, c, name) = EnterIn(dat, c, name)
  BY DEF EnterIn, NamedIn
<1>3. n \in Nat
  BY PathLength
<1> HIDE DEF n
<1>4. ASSUME NEW i \in 0 .. n, i # 0 PROVE w[i - 1] \in D \cup {0}
  <2>1. i - 1 \in 0 .. n
    BY <1>3, <1>4
  <2>2. QED
    BY <1>1, <2>1 DEF Enters
<1>5. \A i \in 0 .. n : (IF i = 0 THEN Root ELSE EnterIn(dat, w[i - 1], path[i]))
                         = (IF i = 0 THEN Root ELSE EnterIn(datN, w[i - 1], path[i]))
  BY <1>2, <1>4
<1>6. Enters(datN, D, path, w, n)
  BY <1>1, <1>5 DEF Enters
<1>7. QED
  BY <1>1, <1>6 DEF Reaches, n

LEMMA FindsKept ==
  ASSUME NEW dat, NEW datN, NEW D, NEW path \in Paths, NEW t, Finds(dat, D, path, t),
         0 \notin D, \A c \in D : DirOf(datN, c) = DirOf(dat, c)
  PROVE  Finds(datN, D, path, t)
<1>1. Reaches(datN, D, path, t[1])
  BY ReachesKept DEF Finds
<1>2. NamedIn(datN, t[1], Leaf(path)) = NamedIn(dat, t[1], Leaf(path))
  BY DEF Finds, NamedIn
<1>3. QED
  BY <1>1, <1>2 DEF Finds

-----------------------------------------------------------------------------
\* One step of a walk, and its end.
LEMMA EnterIs ==
  ASSUME NEW d \in Clusters \cup {0}, NEW name
  PROVE  Enter(d, name) = IF d = 0 THEN 0 ELSE ClusterIfDir(d, FindInDir(d, name))
BY DEF Enter, Subdirectory

LEMMA LocateIs ==
  ASSUME NEW path, ParentCluster(path) \in Clusters \cup {0}
  PROVE  LET d == ParentCluster(path) IN
         Locate(path) = <<d, IF d = 0 THEN -1 ELSE FindInDir(d, Leaf(path))>>
BY DEF Locate, LocateIn, EntryNamed

\* get_parent_cluster.
LEMMA ParentWalked ==
  ASSUME NEW D, Short(fat1, D), Enterable(data, D), NEW path \in Paths
  PROVE  Reaches(data, D, path, ParentCluster(path)) /\ ParentCluster(path) \in D \cup {0}
<1> DEFINE n == Len(path) - 1
           IsWalk(w) == w = [i \in 0 .. n |-> IF i = 0 THEN Root ELSE Enter(w[i - 1], path[i])]
           dir == CHOOSE w : IsWalk(w)
<1>1. 0 \notin D
  BY NoCluster DEF Short
<1>2. n \in Nat
  BY PathLength
<1>3. ParentCluster(path) = dir[n]
  BY Zenon DEF ParentCluster
<1>4. \A d \in D \cup {0} : \A name : Enter(d, name) = EnterIn(data, d, name)
  <2> SUFFICES ASSUME NEW d \in D, NEW name PROVE Enter(d, name) = EnterIn(data, d, name)
    BY EnterIs DEF EnterIn
  <2> DEFINE k == Least(NamedIn(data, d, name))
  <2>1. FindInDir(d, name) = k
    BY <1>1, ShortIs DEF FindInDir, NamedIn
  <2>2. k >= 0 => k \in Indices
    BY NamedAre
  <2>3. k >= 0 => EntryAt(d, k) = DirOf(data, d)[k]
    BY <1>1, <2>2, ShortIs
  <2>4. d # 0 /\ d \in Clusters
    BY <1>1 DEF Short
  <2> HIDE DEF k
  <2>5. Enter(d, name) = IF k >= 0 /\ EntryAt(d, k).dir THEN EntryAt(d, k).cluster ELSE 0
    BY <2>1, <2>4, EnterIs DEF ClusterIfDir
  <2>6. EnterIn(data, d, name) = IF k >= 0 /\ DirOf(data, d)[k].dir THEN DirOf(data, d)[k].cluster ELSE 0
    BY <2>4 DEF EnterIn, k
  <2>7. QED
    BY <2>3, <2>5, <2>6
<1> HIDE DEF n
<1>5. PICK w : Enters(data, D, path, w, n)
  BY <1>2, EntersExist
<1>6. IsWalk(w)
  <2>1. ASSUME NEW i \in 0 .. n, i # 0 PROVE w[i - 1] \in D \cup {0}
    <3>1. i - 1 \in 0 .. n
      BY <1>2, <2>1
    <3>2. QED
      BY <1>5, <3>1 DEF Enters
  <2>2. \A i \in 0 .. n : (IF i = 0 THEN Root ELSE EnterIn(data, w[i - 1], path[i]))
                           = (IF i = 0 THEN Root ELSE Enter(w[i - 1], path[i]))
    BY <1>4, <2>1
  <2>3. QED
    BY <1>5, <2>2 DEF Enters
<1>7. IsWalk(dir)
  <2> HIDE DEF IsWalk
  <2>1. QED
    BY <1>6, Zenon
<1> HIDE DEF dir
<1> DEFINE Same == {i \in Nat : i \in 0 .. n => dir[i] = w[i]}
<1>8. 0 \in Same
  BY <1>5, <1>7 DEF Enters
<1>9. ASSUME NEW i \in Nat, i \in Same PROVE i + 1 \in Same
  <2> SUFFICES ASSUME i + 1 \in 0 .. n PROVE dir[i + 1] = w[i + 1]
    OBVIOUS
  <2>1. i \in 0 .. n /\ i + 1 # 0 /\ (i + 1) - 1 = i
    BY <1>2
  <2>2. dir[i] = w[i]
    BY <1>9, <2>1
  <2>3. dir[i + 1] = Enter(dir[i], path[i + 1]) /\ w[i + 1] = Enter(w[i], path[i + 1])
    BY <1>6, <1>7, <2>1
  <2>4. QED
    BY <2>2, <2>3
<1>10. Nat \subseteq Same
  <2> HIDE DEF Same
  <2>1. QED
    BY <1>8, <1>9, SetInduction
<1>11. dir[n] = w[n]
  BY <1>2, <1>10
<1>12. ParentCluster(path) = w[n]
  BY <1>3, <1>11
<1>13. w[n] \in D \cup {0}
  BY <1>2, <1>5 DEF Enters
<1>14. Reaches(data, D, path, w[n])
  BY <1>5 DEF Reaches, n
<1>15. QED
  BY <1>12, <1>13, <1>14

\* In a sound volume.
LEMMA ParentReached ==
  ASSUME NEW D, Sound(fat1, data, D), NEW path \in Paths
  PROVE  Reaches(data, D, path, ParentCluster(path)) /\ ParentCluster(path) \in D \cup {0}
<1>1. Short(fat1, D)
  BY NoCluster, DeviceClusters DEF Sound, DirsIn, Short
<1>2. QED
  BY <1>1, SoundEnterable, ParentWalked

\* What a lookup finds.
LEMMA LocateFinds ==
  ASSUME NEW D, Typed(fat1, data), Sound(fat1, data, D), NEW path \in Paths, Found(path)
  PROVE  /\ Finds(data, D, path, Locate(path)) /\ Locate(path) \in NodesOf(data, D)
         /\ Lookup(path) = EntOf(data, Locate(path)) /\ Locate(path) = <<Locate(path)[1], Locate(path)[2]>>
<1> DEFINE d == ParentCluster(path)
           k == Locate(path)[2]
<1>1. DirsIn(fat1, D)
  BY DEF Sound
<1>2. Locate(path) = <<d, IF d = 0 THEN -1 ELSE FindInDir(d, Leaf(path))>>
  BY <1>1, ParentReached, LocateIs, DeviceClusters DEF DirsIn
<1>3. k >= 0
  BY DEF Found
<1>4. d # 0
  BY <1>2, <1>3
<1>5. d \in D /\ Reaches(data, D, path, d)
  BY <1>4, ParentReached
<1> HIDE DEF d
<1>6. k = Least(NamedIn(data, d, Leaf(path)))
  BY <1>1, <1>2, <1>4, <1>5, DirectoryIs DEF FindInDir, NamedIn
<1>7. Locate(path) = <<d, k>>
  BY <1>2
<1> HIDE DEF k
<1>8. k \in NamedIn(data, d, Leaf(path))
  BY <1>3, <1>6, NamedAre
<1>9. Finds(data, D, path, Locate(path))
  BY <1>5, <1>6, <1>7, <1>8 DEF Finds
<1>10. k \in VisibleIn(DirOf(data, d)) /\ k \in Indices
  BY <1>8, NamedAre, VisibleAre, PathLength DEF IsNode
<1>11. Locate(path) \in NodesOf(data, D)
  BY <1>5, <1>7, <1>10 DEF NodesOf
<1>12. Lookup(path) = EntOf(data, Locate(path))
  BY <1>1, <1>5, <1>7, <1>10, DirectoryIs DEF Lookup, EntryOf, EntOf
<1>13. QED
  BY <1>7, <1>9, <1>11, <1>12

LEMMA FindsLocate ==
  ASSUME NEW D, Sound(fat1, data, D), NEW path \in Paths, NEW t, t = <<t[1], t[2]>>,
         Finds(data, D, path, t)
  PROVE  Locate(path) = t
<1>1. DirsIn(fat1, D) /\ 0 \notin D
  BY NoCluster, DeviceClusters DEF Sound, DirsIn
<1>2. ParentCluster(path) = t[1] /\ t[1] \in D
  BY ParentReached, ReachesUnique DEF Finds
<1>3. FindInDir(t[1], Leaf(path)) = t[2]
  BY <1>1, <1>2, DirectoryIs DEF Finds, FindInDir, NamedIn
<1>4. Locate(path) = <<t[1], t[2]>>
  BY <1>1, <1>2, <1>3, LocateIs, DeviceClusters DEF DirsIn
<1>5. QED
  BY <1>4

-----------------------------------------------------------------------------
(***************************************************************************)
(* The invariant: the volume is sound with some set of directories, and    *)
(* the running call is about what it found when it began.                  *)
(***************************************************************************)
MkdirPcs == {"mkdir_fat1", "mkdir_fat2", "mkdir_zero", "mkdir_dot", "mkdir_dotdot", "mkdir_entry"}
OverwritePcs == {"overwrite_data", "overwrite_size"}

\* How much of the new directory mkdir has written.
Progress ==
  LET c == reg.cluster IN
  /\ pc \in {"mkdir_fat1", "mkdir_fat2", "mkdir_zero"} =>
       /\ reg.sector \in Within
       /\ \A s \in 0 .. reg.sector - 1 : Lba(c) + s \in Sectors /\ data[Lba(c) + s] = EmptySector
  /\ pc \in {"mkdir_dot", "mkdir_dotdot", "mkdir_entry"} =>
       c \in OnDevice /\ \A k \in Indices \ {0, 1} : DirOf(data, c)[k] = End
  /\ pc \in {"mkdir_dotdot", "mkdir_entry"} => DirOf(data, c)[0] = Entry(Dot, c, TRUE, 0)
  /\ pc = "mkdir_entry" => DirOf(data, c)[1] = Entry(DotDot, reg.dir, TRUE, 0)

MkdirRuns(D) ==
  /\ req.op = "mkdir" /\ req.path \in Paths
  /\ reg.cluster \in Clusters \ D /\ reg.dir \in D
  /\ Unowned(fat1, data, D, reg.cluster)
  /\ fat1[reg.cluster] = IF pc = "mkdir_fat1" THEN FreeCluster ELSE EndOfChain
  /\ Progress

RenameRuns(D) ==
  /\ req.op = "rename" /\ req.path \in Paths /\ req.name \in Names
  /\ <<reg.dir, reg.index>> \in NodesOf(data, D) /\ Finds(data, D, req.path, <<reg.dir, reg.index>>)

\* The file t is the one overwrite_file looked up.
WritesTo(D, t) ==
  /\ Finds(data, D, req.path, t) /\ ~EntOf(data, t).dir
  /\ req.size <= Len(ChainAt(fat1, data, t)) * SectorsPerCluster
  /\ pc = "overwrite_data" => reg.cluster \in OwnedBy(fat1, data, t) /\ reg.sector \in Within

OverwriteRuns(D) ==
  /\ req.op = "overwrite" /\ req.path \in Paths /\ req.data \in Data /\ req.size \in Nat
  /\ \E t \in NodesOf(data, D) : WritesTo(D, t)

Running(D) ==
  /\ pc \in {"idle", "rename_entry"} \cup MkdirPcs \cup OverwritePcs \cup WentWrong
  /\ pc \in MkdirPcs => MkdirRuns(D)
  /\ pc = "rename_entry" => RenameRuns(D)
  /\ pc \in OverwritePcs => OverwriteRuns(D)

Registers ==
  [cluster : 0 .. EndOfChain, dir : 0 .. LastCluster, sector : Nat, index : Int, cleared : BOOLEAN]

\* The types of what is not on the disk, and of the second copy of the FAT.
CallTypes ==
  /\ fat2 \in [Clusters -> FatEntry]
  /\ req.op \in {"none", "mkdir", "rename", "overwrite", "remove"}
  /\ reg \in Registers
  /\ ret \in {"none", "ok", "failed", "stopped"}
  /\ (ret = "none" /\ req.op # "none") <=> pc # "idle"
  /\ faults \in 0 .. MaxFaults

SoundWith(D) == Typed(fat1, data) /\ CallTypes /\ Sound(fat1, data, D) /\ Running(D)

TreeInv == \E D \in SUBSET Clusters : SoundWith(D)

LEMMA TypesMean == Typed(fat1, data) /\ CallTypes => TypeOK
  BY DEF Typed, CallTypes, TypeOK, Registers

LEMMA TreeInvMeans == TreeInv => TreeSound
<1> SUFFICES ASSUME NEW D \in SUBSET Clusters, SoundWith(D) PROVE TreeSound
  BY DEF TreeInv
<1>1. QED
  BY TypesMean, SoundMeans DEF SoundWith

LEMMA InitSound ==
  ASSUME Init, TreeSound
  PROVE  SoundWith(Directories) /\ Directories \in SUBSET Clusters
<1>1. Typed(fat1, data) /\ Sound(fat1, data, Directories) /\ Directories \in SUBSET Clusters
  BY MeansSound
<1>2. pc = "idle" /\ reg = NoReg
  BY DEF Init
<1>3. reg \in Registers
  BY <1>2, Fat32Assumption DEF NoReg, Registers, EndOfChain
<1>4. TypeOK
  BY DEF TreeSound
<1>5. CallTypes
  BY <1>3, <1>4 DEF TypeOK, CallTypes
<1>6. Running(Directories)
  BY <1>2 DEF Running, MkdirPcs, OverwritePcs
<1>7. QED
  BY <1>1, <1>5, <1>6 DEF SoundWith

LEMMA InitTreeInv ==
  ASSUME Init, TreeSound
  PROVE  TreeInv
  BY InitSound DEF TreeInv

-----------------------------------------------------------------------------
(***************************************************************************)
(* Steps.  The proofs below do not open Sound.                             *)
(***************************************************************************)
FaultOrNot == faults' = faults \/ Fault

LEMMA FaultTypes ==
  ASSUME CallTypes, FaultOrNot
  PROVE  faults' \in 0 .. MaxFaults
  BY Fat32Assumption DEF CallTypes, FaultOrNot, Fault

\* A call that returns.
LEMMA Returns ==
  ASSUME NEW D, CallTypes, Typed(fat1', data'), Sound(fat1', data', D), FaultOrNot,
         fat2' = fat2, NEW r \in {"ok", "failed", "stopped"}, Return(r)
  PROVE  SoundWith(D)'
<1>1. pc' = "idle" /\ reg' = NoReg /\ ret' = r /\ req' = req
  BY DEF Return
<1>2. reg' \in Registers
  BY <1>1, Fat32Assumption DEF NoReg, Registers, EndOfChain
<1>3. faults' \in 0 .. MaxFaults
  BY FaultTypes
<1>4. CallTypes'
  BY <1>1, <1>2, <1>3 DEF CallTypes
<1>5. Running(D)'
  BY <1>1 DEF Running, MkdirPcs, OverwritePcs
<1>6. QED
  BY <1>4, <1>5 DEF SoundWith

LEMMA ReturnsSame ==
  ASSUME NEW D, SoundWith(D), FaultOrNot, UNCHANGED disk,
         NEW r \in {"ok", "failed", "stopped"}, Return(r)
  PROVE  SoundWith(D)'
<1>1. fat1' = fat1 /\ fat2' = fat2 /\ data' = data
  BY DEF disk
<1>2. Typed(fat1', data') /\ Sound(fat1', data', D)
  BY <1>1 DEF SoundWith
<1>3. QED
  BY <1>1, <1>2, Returns DEF SoundWith

LEMMA FailsSame ==
  ASSUME NEW D, SoundWith(D), WriteFails
  PROVE  SoundWith(D)'
  BY ReturnsSame DEF WriteFails, FaultOrNot

\* The call goes on to another write.
LEMMA GoesOn ==
  ASSUME NEW D, SoundWith(D), Typed(fat1', data'), Sound(fat1', data', D), FaultOrNot,
         fat2' \in [Clusters -> FatEntry], req' = req, ret' = ret, reg' \in Registers,
         pc # "idle", pc' # "idle", Running(D)'
  PROVE  SoundWith(D)'
<1>1. faults' \in 0 .. MaxFaults
  BY FaultTypes DEF SoundWith
<1>2. CallTypes'
  BY <1>1 DEF CallTypes, SoundWith
<1>3. QED
  BY <1>2 DEF SoundWith

-----------------------------------------------------------------------------
\* A sector of a cluster that is no directory's.
LEMMA WriteElsewhere ==
  ASSUME NEW fat, NEW dat, NEW D, Typed(fat, dat), Sound(fat, dat, D),
         NEW c \in Clusters \ D, NEW m \in Within, NEW v
  PROVE  Kept(fat, dat, fat, [dat EXCEPT ![Lba(c) + m] = v], D)
<1>1. D \in SUBSET OnDevice /\ DOMAIN dat = Sectors
  BY DEF Sound, DirsIn, Typed
<1>2. \A d \in D, x \in Within : Lba(c) + m # Lba(d) + x
  <2> SUFFICES ASSUME NEW d \in D, NEW x \in Within, Lba(c) + m = Lba(d) + x PROVE FALSE
    OBVIOUS
  <2>1. d \in Clusters
    BY <1>1, DeviceClusters
  <2>2. c = d
    BY <2>1, LbaApart
  <2>3. QED
    BY <2>2
<1> DEFINE at == Lba(c) + m
           datN == [dat EXCEPT ![at] = v]
<1>3. at \notin DirSectors(D)
  BY <1>2 DEF DirSectors
<1> HIDE DEF at
<1>4. \A x \in Sectors \ {at} : datN[x] = dat[x]
  BY <1>1
<1> HIDE DEF datN
<1>5. \A d \in D : DirOf(datN, d) = DirOf(dat, d)
  BY <1>1, <1>3, <1>4, FarWrite
<1>6. QED
  BY <1>5 DEF Kept, at, datN

LEMMA WrittenElsewhere ==
  ASSUME NEW fat, NEW dat, NEW D, Typed(fat, dat), Sound(fat, dat, D),
         NEW c \in Clusters \ D, NEW k \in Indices, NEW e
  PROVE  Kept(fat, dat, fat, Written(dat, c, k, e), D)
<1>1. k \div SlotCount \in Within
  BY Placing
<1>2. QED
  BY <1>1, WriteElsewhere DEF Written, SectorOf

LEMMA UnownedKept ==
  ASSUME NEW fat, NEW dat, NEW fatN, NEW datN, NEW D, Typed(fat, dat), Sound(fat, dat, D),
         Kept(fat, dat, fatN, datN, D), NEW c, Unowned(fat, dat, D, c)
  PROVE  Unowned(fatN, datN, D, c)
  BY KeptSound DEF Unowned, OwnedBy

-----------------------------------------------------------------------------
(***************************************************************************)
(* mkdir.                                                                  *)
(***************************************************************************)
LEMMA StepMkdirFat1 ==
  ASSUME NEW D \in SUBSET Clusters, SoundWith(D), MkdirFat1
  PROVE  SoundWith(D)'
<1> DEFINE c == reg.cluster
<1>1. CASE WriteFails
  BY <1>1, FailsSame
<1>2. CASE WriteFat1(reg.cluster, EndOfChain) /\ Goto("mkdir_fat2")
  <2>1. pc = "mkdir_fat1" /\ pc' = "mkdir_fat2" /\ UNCHANGED <<req, reg, ret, faults>>
        /\ fat1' = [fat1 EXCEPT ![c] = EndOfChain] /\ fat2' = fat2 /\ data' = data
    BY <1>2 DEF MkdirFat1, Goto, WriteFat1
  <2>2. /\ Typed(fat1, data) /\ Sound(fat1, data, D) /\ CallTypes /\ MkdirRuns(D)
    BY <2>1 DEF SoundWith, Running, MkdirPcs
  <2>3. c \in Clusters \ D /\ Unowned(fat1, data, D, c)
    BY <2>2 DEF MkdirRuns
  <2>4. Typed(fat1', data')
    BY <2>1, <2>2, <2>3 DEF Typed, FatEntry
  <2>5. fat1'[c] = EndOfChain /\ \A d \in Clusters \ {c} : fat1'[d] = fat1[d]
    BY <2>1, <2>2, <2>3 DEF Typed
  <2>6. Kept(fat1, data, fat1', data', D)
    <3>1. \A d \in D : fat1'[d] = fat1[d] /\ DirOf(data', d) = DirOf(data, d)
      BY <2>1, <2>3, <2>5
    <3>2. ASSUME NEW t \in NodesOf(data, D), NEW x \in OwnedBy(fat1, data, t)
          PROVE  fat1'[x] = fat1[x]
      <4>1. x \in Clusters /\ x # c
        <5>1. EntOf(data, t).cluster \in Clusters \cup {0}
          BY <2>2, NodeIs DEF Sound, DirsIn
        <5>2. QED
          BY <2>3, <5>1, ChainTypes DEF Unowned, OwnedBy, ChainAt
      <4>2. QED
        BY <2>5, <4>1
    <3>3. QED
      BY <3>1, <3>2 DEF Kept
  <2>7. Sound(fat1', data', D) /\ Unowned(fat1', data', D, c)
    BY <2>2, <2>3, <2>6, KeptSound, UnownedKept
  <2>8. Progress'
    BY <2>1, <2>2 DEF MkdirRuns, Progress
  <2>9. MkdirRuns(D)'
    BY <2>1, <2>2, <2>5, <2>7, <2>8 DEF MkdirRuns
  <2>10. Running(D)'
    BY <2>1, <2>9 DEF Running, MkdirPcs, OverwritePcs
  <2>11. FaultOrNot /\ reg' \in Registers /\ fat2' \in [Clusters -> FatEntry]
    BY <2>1, <2>2 DEF FaultOrNot, CallTypes
  <2>12. QED
    BY <2>1, <2>4, <2>7, <2>10, <2>11, GoesOn
<1>3. QED
  BY <1>1, <1>2 DEF MkdirFat1

LEMMA StepMkdirFat2 ==
  ASSUME NEW D \in SUBSET Clusters, SoundWith(D), MkdirFat2
  PROVE  SoundWith(D)'
<1>1. pc = "mkdir_fat2" /\ pc' = "mkdir_zero" /\ UNCHANGED <<fat1, data, req, reg, ret>> /\ FaultOrNot
  BY DEF MkdirFat2, WriteFat2, Goto, disk, FaultOrNot
<1>2. /\ Typed(fat1, data) /\ Sound(fat1, data, D) /\ CallTypes /\ MkdirRuns(D)
  BY <1>1 DEF SoundWith, Running, MkdirPcs
<1>3. fat2' \in [Clusters -> FatEntry]
  <2>1. CASE WriteFat2(reg.cluster)
    <3>1. \A d \in Clusters : fat1[d] \in FatEntry /\ fat2[d] \in FatEntry
      BY <1>2 DEF CallTypes, Typed
    <3>2. QED
      BY <2>1, <3>1 DEF WriteFat2
  <2>2. CASE fat2' = fat2
    BY <1>2, <2>2 DEF CallTypes
  <2>3. QED
    BY <2>1, <2>2 DEF MkdirFat2, disk
<1>4. Progress'
  BY <1>1, <1>2 DEF MkdirRuns, Progress
<1>5. MkdirRuns(D)'
  BY <1>1, <1>2, <1>4 DEF MkdirRuns
<1>6. Running(D)'
  BY <1>1, <1>5 DEF Running, MkdirPcs, OverwritePcs
<1>7. reg' \in Registers /\ Typed(fat1', data') /\ Sound(fat1', data', D)
  BY <1>1, <1>2 DEF CallTypes
<1>8. QED
  BY <1>1, <1>3, <1>6, <1>7, GoesOn

LEMMA StepMkdirZero ==
  ASSUME NEW D \in SUBSET Clusters, SoundWith(D), MkdirZero
  PROVE  SoundWith(D)'
<1> DEFINE c == reg.cluster
           s == reg.sector
           lba == Lba(c) + s
<1>1. pc = "mkdir_zero"
  BY DEF MkdirZero
<1>2. /\ Typed(fat1, data) /\ Sound(fat1, data, D) /\ CallTypes /\ MkdirRuns(D)
  BY <1>1 DEF SoundWith, Running, MkdirPcs
<1>3. CASE WriteFails
  BY <1>3, FailsSame
<1>4. CASE Return("failed") /\ UNCHANGED <<disk, faults>>
  BY <1>4, ReturnsSame DEF FaultOrNot
<1>5. CASE /\ WriteSector(lba, EmptySector)
           /\ reg' = [reg EXCEPT !.sector = @ + 1]
           /\ pc' = IF reg.sector + 1 = SectorsPerCluster THEN "mkdir_dot" ELSE pc
           /\ UNCHANGED <<req, ret, faults>>
  <2>1. /\ lba \in Sectors /\ data' = [data EXCEPT ![lba] = EmptySector]
        /\ fat1' = fat1 /\ fat2' = fat2
    BY <1>5 DEF WriteSector
  <2>2. /\ c \in Clusters \ D /\ Unowned(fat1, data, D, c) /\ s \in Within
        /\ \A x \in 0 .. s - 1 : Lba(c) + x \in Sectors /\ data[Lba(c) + x] = EmptySector
        /\ fat1[c] = EndOfChain /\ req.op = "mkdir" /\ req.path \in Paths /\ reg.dir \in D
    BY <1>1, <1>2 DEF MkdirRuns, Progress
  <2>3. /\ reg'.cluster = c /\ reg'.dir = reg.dir /\ reg'.sector = s + 1 /\ reg' \in Registers
    <3>1. reg \in Registers
      BY <1>2 DEF CallTypes
    <3>2. QED
      BY <1>5, <3>1 DEF Registers
  <2> HIDE DEF c, s
  <2>4. Typed(fat1', data')
    <3>1. DOMAIN EmptySector = Slots /\ \A i \in Slots : EmptySector[i] \in SlotValue
      BY DEF EmptySector, SlotValue
    <3>2. QED
      BY <1>2, <2>1, <3>1, TypedWrite
  <2>5. Kept(fat1, data, fat1', data', D)
    BY <1>2, <2>1, <2>2, WriteElsewhere
  <2>6. Sound(fat1', data', D) /\ Unowned(fat1', data', D, c)
    BY <1>2, <2>2, <2>5, KeptSound, UnownedKept
  <2>7. s \in Nat /\ SectorsPerCluster \in Nat \ {0} /\ s < SectorsPerCluster
    BY <2>2, Fat32Assumption DEF Within
  <2>8. \A x \in 0 .. s : Lba(c) + x \in Sectors /\ data'[Lba(c) + x] = EmptySector
    <3> TAKE x \in 0 .. s
    <3>1. DOMAIN data = Sectors
      BY <1>2 DEF Typed
    <3>2. CASE x = s
      BY <2>1, <3>1, <3>2
    <3>3. CASE x # s
      <4>1. x \in 0 .. s - 1
        BY <2>7, <3>3
      <4>2. Lba(c) + x \in Sectors /\ data[Lba(c) + x] = EmptySector
        BY <2>2, <4>1
      <4>3. QED
        BY <2>1, <3>1, <4>2
    <3>4. QED
      BY <3>2, <3>3
  <2>9. Progress'
    <3>1. CASE s + 1 = SectorsPerCluster
      <4>1. pc' = "mkdir_dot"
        BY <1>5, <3>1 DEF s
      <4>2. \A x \in Within : x \in 0 .. s
        BY <2>7, <3>1 DEF Within
      <4>3. c \in OnDevice
        <5>1. s = SectorsPerCluster - 1 /\ s \in 0 .. s
          BY <2>7, <3>1
        <5>2. Lba(c) \in Nat
          BY <2>2, LbaIs
        <5>3. Lba(c) + SectorsPerCluster - 1 = Lba(c) + s
          BY <2>7, <5>1, <5>2
        <5>4. Lba(c) + s \in Sectors
          BY <2>8, <5>1
        <5>5. QED
          BY <2>2, <5>3, <5>4 DEF OnDevice
      <4>4. ASSUME NEW k \in Indices PROVE DirOf(data', c)[k] = End
        <5>1. k \div SlotCount \in 0 .. s /\ SlotOf(k) \in Slots
          BY <4>2, Placing
        <5>2. data'[SectorOf(c, k)] = EmptySector
          BY <2>8, <5>1 DEF SectorOf
        <5>3. EmptySector[SlotOf(k)] = End
          BY <5>1 DEF EmptySector
        <5>4. QED
          BY <5>2, <5>3 DEF DirOf
      <4>5. QED
        BY <2>3, <4>1, <4>3, <4>4 DEF Progress
    <3>2. CASE s + 1 # SectorsPerCluster
      <4>1. pc' = "mkdir_zero"
        BY <1>1, <1>5, <3>2 DEF s
      <4>2. s + 1 \in Within /\ (s + 1) - 1 = s
        BY <2>7, <3>2 DEF Within
      <4>3. QED
        BY <2>3, <2>8, <4>1, <4>2 DEF Progress
    <3>3. QED
      BY <3>1, <3>2
  <2>10. pc' \in {"mkdir_zero", "mkdir_dot"}
    BY <1>1, <1>5
  <2>11. MkdirRuns(D)'
    BY <1>5, <2>1, <2>2, <2>3, <2>6, <2>9, <2>10 DEF MkdirRuns
  <2>12. Running(D)'
    BY <2>10, <2>11 DEF Running, MkdirPcs, OverwritePcs
  <2>13. FaultOrNot /\ fat2' \in [Clusters -> FatEntry] /\ req' = req /\ ret' = ret
    BY <1>2, <1>5, <2>1 DEF FaultOrNot, CallTypes
  <2>14. QED
    BY <1>1, <2>3, <2>4, <2>6, <2>10, <2>12, <2>13, GoesOn
<1>6. QED
  BY <1>3, <1>4, <1>5 DEF MkdirZero

\* write_dir_entry, in a directory of one cluster.
LEMMA DirEntryWritten ==
  ASSUME NEW c, NEW k, NEW e, WriteDirEntry(c, k, e)
  PROVE  data' = Written(data, c, k, e) /\ fat1' = fat1 /\ fat2' = fat2
  BY DEF WriteDirEntry, WriteSector, DirEntryLba, Written, SectorOf, SlotOf

\* What a write of . or .. in the new directory leaves as it is.
LEMMA DotWritten ==
  ASSUME NEW D \in SUBSET Clusters, SoundWith(D), pc \in {"mkdir_dot", "mkdir_dotdot"},
         NEW k \in {0, 1}, NEW e \in SlotValue, WriteDirEntry(reg.cluster, k, e),
         pc' \in {"mkdir_dotdot", "mkdir_entry"}, UNCHANGED <<req, reg, ret, faults>>,
         Progress'
  PROVE  SoundWith(D)'
<1> DEFINE c == reg.cluster
<1>1. /\ Typed(fat1, data) /\ Sound(fat1, data, D) /\ CallTypes /\ MkdirRuns(D)
  BY DEF SoundWith, Running, MkdirPcs
<1>2. c \in Clusters \ D /\ Unowned(fat1, data, D, c) /\ c \in OnDevice
  BY <1>1 DEF MkdirRuns, Progress
<1>3. data' = Written(data, c, k, e) /\ fat1' = fat1 /\ fat2' = fat2 /\ k \in Indices
  BY DirEntryWritten, IndicesAre
<1>4. Kept(fat1, data, fat1', data', D)
  <2> HIDE DEF c
  <2>1. QED
    BY <1>1, <1>2, <1>3, WrittenElsewhere
<1>5. Typed(fat1', data')
  <2> HIDE DEF c
  <2>1. QED
    BY <1>1, <1>2, <1>3, TypedEntry
<1>6. Sound(fat1', data', D) /\ Unowned(fat1', data', D, c)
  BY <1>1, <1>2, <1>4, KeptSound, UnownedKept
<1>7. MkdirRuns(D)'
  BY <1>1, <1>3, <1>6 DEF MkdirRuns
<1>8. Running(D)'
  BY <1>7 DEF Running, MkdirPcs, OverwritePcs
<1>9. FaultOrNot /\ reg' \in Registers /\ fat2' \in [Clusters -> FatEntry]
  BY <1>1, <1>3 DEF FaultOrNot, CallTypes
<1>10. QED
  BY <1>5, <1>6, <1>8, <1>9, GoesOn

\* . and .. are entries.
LEMMA DotsTyped ==
  ASSUME NEW n \in {Dot, DotDot}, NEW c \in Clusters
  PROVE  Entry(n, c, TRUE, 0) \in SlotValue
<1>1. Entry(n, c, TRUE, 0) \in EntryValue
  BY DEF Entry, EntryValue
<1>2. QED
  BY <1>1 DEF SlotValue, EntryValue

LEMMA StepMkdirDot ==
  ASSUME NEW D \in SUBSET Clusters, SoundWith(D), MkdirDot
  PROVE  SoundWith(D)'
<1> DEFINE c == reg.cluster
           e == Entry(Dot, c, TRUE, 0)
<1>1. CASE WriteFails
  BY <1>1, FailsSame
<1>2. CASE WriteDirEntry(c, 0, e) /\ Goto("mkdir_dotdot")
  <2>1. pc = "mkdir_dot" /\ pc' = "mkdir_dotdot" /\ UNCHANGED <<req, reg, ret, faults>>
    BY <1>2 DEF MkdirDot, Goto
  <2>2. Typed(fat1, data) /\ MkdirRuns(D)
    BY <2>1 DEF SoundWith, Running, MkdirPcs
  <2>3. c \in OnDevice /\ \A k \in Indices \ {0, 1} : DirOf(data, c)[k] = End
    BY <2>1, <2>2 DEF MkdirRuns, Progress
  <2>4. e \in SlotValue
    BY <2>3, DotsTyped, DeviceClusters
  <2>5. data' = Written(data, c, 0, e)
    BY <1>2, DirEntryWritten
  <2>6. reg' = reg
    BY <2>1
  <2> HIDE DEF c, e
  <2>7. \A k \in Indices : DirOf(data', c)[k] = IF k = 0 THEN e ELSE DirOf(data, c)[k]
    BY <2>2, <2>3, <2>4, <2>5, IndicesAre, EntryWrite
  <2>8. DirOf(data', c)[0] = e /\ \A k \in Indices \ {0, 1} : DirOf(data', c)[k] = End
    BY <2>3, <2>7, IndicesAre
  <2>9. Progress'
    BY <2>1, <2>3, <2>6, <2>8 DEF Progress, c, e
  <2>10. QED
    BY <1>2, <2>1, <2>4, <2>9, DotWritten DEF c
<1>3. QED
  BY <1>1, <1>2 DEF MkdirDot

LEMMA StepMkdirDotDot ==
  ASSUME NEW D \in SUBSET Clusters, SoundWith(D), MkdirDotDot
  PROVE  SoundWith(D)'
<1> DEFINE c == reg.cluster
           e == Entry(DotDot, reg.dir, TRUE, 0)
<1>1. CASE WriteFails
  BY <1>1, FailsSame
<1>2. CASE WriteDirEntry(c, 1, e) /\ Goto("mkdir_entry")
  <2>1. pc = "mkdir_dotdot" /\ pc' = "mkdir_entry" /\ UNCHANGED <<req, reg, ret, faults>>
    BY <1>2 DEF MkdirDotDot, Goto
  <2>2. Typed(fat1, data) /\ MkdirRuns(D)
    BY <2>1 DEF SoundWith, Running, MkdirPcs
  <2>3. /\ c \in OnDevice /\ reg.dir \in Clusters
        /\ \A k \in Indices \ {0, 1} : DirOf(data, c)[k] = End
        /\ DirOf(data, c)[0] = Entry(Dot, c, TRUE, 0)
    BY <2>1, <2>2 DEF MkdirRuns, Progress
  <2>4. e \in SlotValue
    BY <2>3, DotsTyped
  <2>5. data' = Written(data, c, 1, e)
    BY <1>2, DirEntryWritten
  <2>6. reg' = reg
    BY <2>1
  <2> HIDE DEF c, e
  <2>7. \A k \in Indices : DirOf(data', c)[k] = IF k = 1 THEN e ELSE DirOf(data, c)[k]
    BY <2>2, <2>3, <2>4, <2>5, IndicesAre, EntryWrite
  <2>8. /\ DirOf(data', c)[1] = e /\ DirOf(data', c)[0] = Entry(Dot, c, TRUE, 0)
        /\ \A k \in Indices \ {0, 1} : DirOf(data', c)[k] = End
    <3>1. DirOf(data', c)[1] = e /\ DirOf(data', c)[0] = DirOf(data, c)[0]
      BY <2>7, IndicesAre
    <3>2. \A k \in Indices \ {0, 1} : DirOf(data', c)[k] = DirOf(data, c)[k]
      BY <2>7
    <3>3. QED
      BY <2>3, <3>1, <3>2
  <2>9. Progress'
    BY <2>1, <2>3, <2>6, <2>8 DEF Progress, c, e
  <2>10. QED
    BY <1>2, <2>1, <2>4, <2>9, DotWritten DEF c
<1>3. QED
  BY <1>1, <1>2 DEF MkdirDotDot

\* The new directory is linked, and is one of the directories from then on: its entry
\* takes the first place that is free.
LinkedAt(k, c, D) ==
  LET e == Entry(StoredName[Leaf(req.path)], c, TRUE, 0) IN
  /\ SoundWith(D \cup {c})' /\ ret' = "ok" /\ c = reg.cluster
  /\ data' = Written(data, reg.dir, k, e)
  /\ \A j \in 0 .. k - 1 : DirOf(data, reg.dir)[j] \notin {End, Deleted}

LEMMA MkdirEntryEnds ==
  ASSUME NEW D \in SUBSET Clusters, SoundWith(D), MkdirEntry
  PROVE  \/ SoundWith(D)' /\ ret' # "ok"
         \/ \E k \in Indices, c \in Clusters : LinkedAt(k, c, D)
<1> DEFINE k == FindFreeSlot(reg.dir)
           p == reg.dir
           n == StoredName[Leaf(req.path)]
<1>1. pc = "mkdir_entry"
  BY DEF MkdirEntry
<1>2. /\ Typed(fat1, data) /\ Sound(fat1, data, D) /\ CallTypes /\ MkdirRuns(D)
  BY <1>1 DEF SoundWith, Running, MkdirPcs
<1>3. CASE WriteFails
  BY <1>3, FailsSame DEF WriteFails, Return
<1>4. CASE Return("failed") /\ UNCHANGED <<disk, faults>>
  BY <1>4, ReturnsSame DEF Return, FaultOrNot
<1>5. CASE /\ k >= 0
           /\ WriteDirEntry(reg.dir, k, Entry(n, reg.cluster, TRUE, 0))
           /\ Return("ok") /\ UNCHANGED faults
  <2>1. PICK c : c = reg.cluster
    OBVIOUS
  <2>2. /\ c \in Clusters \ D /\ p \in D /\ Unowned(fat1, data, D, c) /\ fat1[c] = EndOfChain
        /\ c \in OnDevice /\ Blank(data, c, p) /\ req.path \in Paths
    BY <1>1, <1>2, <2>1 DEF MkdirRuns, Progress, Blank, DotsOf
  <2>3. n \in Names
    BY <2>2, PathLength, Fat32Assumption
  <2>4. DirsIn(fat1, D)
    BY <1>2 DEF Sound
  <2>5. k = Least(FreeSlots(DirOf(data, p)))
    BY <2>2, <2>4, DirectoryIs DEF FindFreeSlot
  <2> DEFINE e == Entry(n, c, TRUE, 0)
             S == FreeSlots(DirOf(data, p))
  <2>6. data' = Written(data, p, k, e) /\ fat1' = fat1 /\ fat2' = fat2
    <3> HIDE DEF k, p, n
    <3>1. WriteDirEntry(p, k, e)
      BY <1>5, <2>1 DEF k, p, n
    <3>2. QED
      BY <3>1, DirEntryWritten
  <2>7. e \in SlotValue
    <3>1. e \in EntryValue
      BY <2>2, <2>3 DEF Entry, EntryValue
    <3>2. QED
      BY <3>1 DEF SlotValue, EntryValue
  <2> HIDE DEF k, p, n, e
  <2>8. S = {j \in Indices : DirOf(data, p)[j] \in {End, Deleted}}
    BY DEF FreeSlots, DirOf
  <2> HIDE DEF S
  <2>9. S \in SUBSET Nat /\ Indices \subseteq Nat
    BY <2>8, Prefix
  <2>10. k \in S /\ \A j \in S : k <= j
    <3>1. k = Least(S) /\ k >= 0
      BY <1>5, <2>5 DEF S, k
    <3>2. S # {}
      BY <3>1 DEF Least
    <3>3. QED
      BY <2>9, <3>1, <3>2, LeastIs
  <2>11. k \in Indices /\ DirOf(data, p)[k] \in {End, Deleted} /\ k \in Nat
    BY <2>8, <2>9, <2>10
  <2>12. \A j \in 0 .. k - 1 : DirOf(data, p)[j] \notin {End, Deleted}
    <3> TAKE j \in 0 .. k - 1
    <3>1. j \in Indices /\ j < k /\ j \in Nat
      BY <2>11, IndicesAre DEF Indices
    <3>2. j \notin S
      BY <2>10, <2>11, <3>1
    <3>3. QED
      BY <2>8, <3>1, <3>2
  <2>13. Sound(fat1, Written(data, p, k, e), D \cup {c})
    BY <1>2, <2>2, <2>3, <2>11, <2>12, LinkSound DEF e
  <2>14. Typed(fat1, Written(data, p, k, e))
    <3>1. p \in OnDevice
      BY <2>2, <2>4 DEF DirsIn
    <3>2. QED
      BY <1>2, <2>7, <2>11, <3>1, TypedEntry
  <2>15. Typed(fat1', data') /\ Sound(fat1', data', D \cup {c}) /\ FaultOrNot
    BY <1>5, <2>6, <2>13, <2>14 DEF FaultOrNot
  <2>16. SoundWith(D \cup {c})'
    BY <1>2, <1>5, <2>6, <2>15, Returns
  <2>17. ret' = "ok"
    BY <1>5 DEF Return
  <2>18. PICK j \in Indices : j = k
    BY <2>11
  <2>19. LinkedAt(j, c, D)
    BY <2>1, <2>6, <2>12, <2>16, <2>17, <2>18 DEF LinkedAt, e, n, p
  <2>20. QED
    BY <2>2, <2>19
<1>6. QED
  BY <1>3, <1>4, <1>5 DEF MkdirEntry

-----------------------------------------------------------------------------
(***************************************************************************)
(* rename and overwrite_file.                                              *)
(***************************************************************************)
\* An entry written where it was read.
LEMMA Overlaid ==
  ASSUME NEW D, DirsIn(fat1, D), NEW t \in NodesOf(data, D), t[1] \in D, t[2] \in Indices, NEW e,
         WriteSector(Place(t[1], t[2])[1], Overlay(Place(t[1], t[2]), e))
  PROVE  data' = Written(data, t[1], t[2], e) /\ fat1' = fat1 /\ fat2' = fat2
<1>1. Place(t[1], t[2]) = <<SectorOf(t[1], t[2]), SlotOf(t[2])>>
  BY DirectoryIs
<1>2. QED
  BY <1>1 DEF WriteSector, Overlay, Written

LEMMA EntryRead ==
  ASSUME NEW D, DirsIn(fat1, D), NEW t, t[1] \in D, t[2] \in Indices
  PROVE  At(Place(t[1], t[2])) = EntOf(data, t)
  BY DirectoryIs DEF EntryAt, EntOf

LEMMA Edited ==
  ASSUME NEW D \in SUBSET Clusters, SoundWith(D), NEW t \in NodesOf(data, D),
         NEW e \in EntryValue, e.name \notin {Dot, DotDot},
         e.cluster = EntOf(data, t).cluster, e.dir = EntOf(data, t).dir,
         ~e.dir => FileFits(fat1, e),
         WriteSector(Place(t[1], t[2])[1], Overlay(Place(t[1], t[2]), e)),
         Return("ok"), UNCHANGED faults
  PROVE  SoundWith(D)'
<1>1. /\ Typed(fat1, data) /\ Sound(fat1, data, D) /\ CallTypes
  BY DEF SoundWith
<1>2. DirsIn(fat1, D) /\ D \subseteq OnDevice
  BY <1>1 DEF Sound, DirsIn
<1>3. t[1] \in D /\ t[2] \in Indices
  BY <1>1, <1>2, NodeIs
<1>4. data' = Written(data, t[1], t[2], e) /\ fat1' = fat1 /\ fat2' = fat2
  BY <1>2, <1>3, Overlaid
<1>5. Sound(fat1', data', D)
  BY <1>1, <1>4, EditSound
<1>6. Typed(fat1', data')
  <2>1. e \in SlotValue /\ t[1] \in OnDevice
    BY <1>2, <1>3 DEF SlotValue, EntryValue
  <2>2. QED
    BY <1>1, <1>3, <1>4, <2>1, TypedEntry
<1>7. QED
  BY <1>1, <1>4, <1>5, <1>6, Returns DEF FaultOrNot

\* A write that gives the entry t the value e, of the same kind and with the same clusters.
Edits(D, t, e) ==
  /\ e.name \notin {Dot, DotDot} /\ e.cluster = EntOf(data, t).cluster /\ e.dir = EntOf(data, t).dir
  /\ ~e.dir => FileFits(fat1, e)
  /\ WriteSector(Place(t[1], t[2])[1], Overlay(Place(t[1], t[2]), e))
  /\ Return("ok") /\ UNCHANGED faults

LEMMA RenameEdits ==
  ASSUME NEW D \in SUBSET Clusters, SoundWith(D), RenameEntry
  PROVE  WriteFails \/ \E t \in NodesOf(data, D), e \in EntryValue : Edits(D, t, e)
<1> DEFINE t == <<reg.dir, reg.index>>
           old == At(Place(reg.dir, reg.index))
           e == Entry(StoredName[req.name], old.cluster, old.dir, old.size)
<1>1. SUFFICES ASSUME /\ WriteSector(Place(reg.dir, reg.index)[1],
                                     Overlay(Place(reg.dir, reg.index), e))
                      /\ Return("ok") /\ UNCHANGED faults
               PROVE  \E u \in NodesOf(data, D), v \in EntryValue : Edits(D, u, v)
  BY DEF RenameEntry
<1>2. /\ Typed(fat1, data) /\ Sound(fat1, data, D) /\ RenameRuns(D) /\ DirsIn(fat1, D)
  BY DEF RenameEntry, SoundWith, Running, Sound
<1>3. t \in NodesOf(data, D) /\ t[1] = reg.dir /\ t[2] = reg.index /\ req.name \in Names
  BY <1>2 DEF RenameRuns
<1>4. t[1] \in D /\ t[2] \in Indices /\ EntOf(data, t) \in EntryValue
  BY <1>2, <1>3, NodeIs DEF DirsIn
<1>5. old = EntOf(data, t)
  <2> HIDE DEF t
  <2>1. QED
    BY <1>2, <1>3, <1>4, EntryRead
<1>6. StoredName[req.name] \in Names /\ StoredName[req.name] \notin {Dot, DotDot}
  BY <1>3, Fat32Assumption
<1> HIDE DEF t, old
<1>7. e \in EntryValue /\ e.name \notin {Dot, DotDot} /\ e.cluster = EntOf(data, t).cluster
      /\ e.dir = EntOf(data, t).dir /\ e.size = EntOf(data, t).size
  BY <1>4, <1>5, <1>6 DEF EntryValue, Entry
<1>8. ~e.dir => FileFits(fat1, e)
  BY <1>2, <1>3, <1>7 DEF Sound, FilesWhole, FileFits
<1>9. WriteSector(Place(t[1], t[2])[1], Overlay(Place(t[1], t[2]), e))
  BY <1>1, <1>3
<1> HIDE DEF e
<1>10. Edits(D, t, e)
  BY <1>1, <1>7, <1>8, <1>9 DEF Edits
<1>11. QED
  BY <1>3, <1>7, <1>10

\* In a sound tree overwrite_file finds its file again.
LEMMA FoundAgain ==
  ASSUME NEW D, Typed(fat1, data), Sound(fat1, data, D), OverwriteRuns(D)
  PROVE  Locate(req.path)[2] >= 0 /\ ~ (Locate(req.path)[2] < 0)
<1>1. PICK t \in NodesOf(data, D) : WritesTo(D, t)
  BY DEF OverwriteRuns
<1>2. t = <<t[1], t[2]>> /\ t[2] \in Nat
  <2>1. t[2] \in Indices /\ t = <<t[1], t[2]>>
    BY NodeIs DEF Sound, DirsIn
  <2>2. QED
    BY <2>1, Prefix
<1>3. Locate(req.path) = t
  BY <1>1, <1>2, FindsLocate DEF OverwriteRuns, WritesTo
<1>4. QED
  BY <1>2, <1>3

LEMMA SizeEdits ==
  ASSUME NEW D \in SUBSET Clusters, SoundWith(D), OverwriteSize
  PROVE  WriteFails \/ \E t \in NodesOf(data, D), e \in EntryValue : Edits(D, t, e)
<1> DEFINE l == Locate(req.path)
           p == Place(l[1], l[2])
<1>2. /\ Typed(fat1, data) /\ Sound(fat1, data, D) /\ OverwriteRuns(D) /\ DirsIn(fat1, D)
  BY DEF OverwriteSize, SoundWith, Running, Sound, OverwritePcs
<1>0. l[2] >= 0 /\ ~ (l[2] < 0)
  BY <1>2, FoundAgain
<1>1. SUFFICES ASSUME /\ WriteSector(p[1], Overlay(p, [At(p) EXCEPT !.size = req.size]))
                      /\ Return("ok") /\ UNCHANGED faults
               PROVE  \E u \in NodesOf(data, D), v \in EntryValue : Edits(D, u, v)
  BY <1>0 DEF OverwriteSize
<1>3. PICK t \in NodesOf(data, D) : WritesTo(D, t)
  BY <1>2 DEF OverwriteRuns
<1>4. t[1] \in D /\ t[2] \in Indices /\ t = <<t[1], t[2]>> /\ EntOf(data, t) \in EntryValue
      /\ EntOf(data, t).name \notin {Dot, DotDot}
  BY <1>2, NodeIs DEF DirsIn
<1>5. l = t
  <2>1. req.path \in Paths /\ Finds(data, D, req.path, t)
    BY <1>2, <1>3 DEF OverwriteRuns, WritesTo
  <2>2. QED
    BY <1>2, <1>4, <2>1, FindsLocate
<1>6. At(Place(t[1], t[2])) = EntOf(data, t)
  BY <1>2, <1>4, EntryRead
<1> DEFINE e == [EntOf(data, t) EXCEPT !.size = req.size]
<1>7. e \in EntryValue /\ e.name \notin {Dot, DotDot} /\ e.cluster = EntOf(data, t).cluster
      /\ e.dir = EntOf(data, t).dir /\ e.size = req.size
  <2>1. req.size \in Nat
    BY <1>2 DEF OverwriteRuns
  <2>2. QED
    BY <1>4, <2>1 DEF EntryValue
<1>8. FileFits(fat1, e)
  BY <1>3, <1>7 DEF WritesTo, FileFits, ChainAt
<1>9. WriteSector(Place(t[1], t[2])[1], Overlay(Place(t[1], t[2]), e))
  BY <1>1, <1>5, <1>6
<1> HIDE DEF e
<1>10. Edits(D, t, e)
  BY <1>1, <1>7, <1>8, <1>9 DEF Edits
<1>11. QED
  BY <1>7, <1>10

LEMMA StepEdit ==
  ASSUME NEW D \in SUBSET Clusters, SoundWith(D), RenameEntry \/ OverwriteSize
  PROVE  SoundWith(D)'
<1>1. WriteFails \/ \E t \in NodesOf(data, D), e \in EntryValue : Edits(D, t, e)
  BY RenameEdits, SizeEdits
<1>2. ASSUME NEW t \in NodesOf(data, D), NEW e \in EntryValue, Edits(D, t, e) PROVE SoundWith(D)'
  BY <1>2, Edited DEF Edits
<1>3. QED
  BY <1>1, <1>2, FailsSame

LEMMA FatRange == FatEntry \subseteq 0 .. EndOfChain
  BY Fat32Assumption DEF FatEntry, FreeCluster, EndOfChain, Clusters

LEMMA Advances ==
  ASSUME NEW r \in Registers, fat1[r.cluster] \in 0 .. EndOfChain
  PROVE  LET n == Advance(r) IN
         /\ n \in Registers
         /\ n.cluster = r.cluster \/ n.cluster = fat1[r.cluster]
         /\ r.sector + 1 # SectorsPerCluster => n.sector = r.sector + 1 /\ n.cluster = r.cluster
         /\ r.sector + 1 = SectorsPerCluster => n.sector = 0 /\ n.cluster = fat1[r.cluster]
<1> DEFINE n == Advance(r)
<1>1. r.index + 1 \in Int /\ r.sector + 1 \in Nat
  BY DEF Registers
<1>2. CASE LastOfCluster(r)
  <2>1. n = [r EXCEPT !.index = @ + 1, !.sector = 0, !.cluster = fat1[@]]
    BY <1>2 DEF Advance
  <2> HIDE DEF n
  <2>2. n = [cluster |-> fat1[r.cluster], dir |-> r.dir, sector |-> 0, index |-> r.index + 1,
             cleared |-> r.cleared]
    BY <2>1 DEF Registers
  <2>3. r.dir \in 0 .. LastCluster /\ r.cleared \in BOOLEAN
    BY Zenon DEF Registers
  <2>4. n \in Registers
    BY <1>1, <2>2, <2>3 DEF Registers
  <2>5. QED
    BY <1>2, <2>2, <2>4 DEF LastOfCluster, n
<1>3. CASE ~LastOfCluster(r)
  <2>1. n = [r EXCEPT !.index = @ + 1, !.sector = @ + 1]
    BY <1>3 DEF Advance
  <2> HIDE DEF n
  <2>2. /\ n.index = r.index + 1 /\ n.sector = r.sector + 1 /\ n.cluster = r.cluster
        /\ n = [r EXCEPT !.index = r.index + 1, !.sector = r.sector + 1]
    BY <2>1 DEF Registers
  <2>3. n \in Registers
    BY <1>1, <2>2 DEF Registers
  <2>4. QED
    BY <1>3, <2>2, <2>3 DEF LastOfCluster, n
<1>4. QED
  BY <1>2, <1>3

\* The data of a file are in no directory, and the walk stays in its chain.
LEMMA StepOverwriteData ==
  ASSUME NEW D \in SUBSET Clusters, SoundWith(D), OverwriteData
  PROVE  SoundWith(D)'
<1> DEFINE c == reg.cluster
           m == reg.sector
<1>1. CASE WriteFails
  BY <1>1, FailsSame
<1>2. CASE /\ WriteSector(Lba(c) + m, FileSector(req.data))
           /\ reg' = Advance(reg)
           /\ pc' = IF reg'.index = req.size \/ reg'.cluster \notin Clusters
                      THEN "overwrite_size" ELSE pc
           /\ UNCHANGED <<req, ret, faults>>
  <2>1. /\ Typed(fat1, data) /\ Sound(fat1, data, D) /\ OverwriteRuns(D) /\ CallTypes
        /\ pc = "overwrite_data" /\ D \subseteq OnDevice
    BY DEF OverwriteData, SoundWith, Running, Sound, DirsIn, OverwritePcs
  <2>2. PICK t \in NodesOf(data, D) : WritesTo(D, t)
    BY <2>1 DEF OverwriteRuns
  <2>3. /\ Lba(c) + m \in Sectors /\ data' = [data EXCEPT ![Lba(c) + m] = FileSector(req.data)]
        /\ fat1' = fat1 /\ fat2' = fat2
    BY <1>2 DEF WriteSector
  <2>4. c \in OwnedBy(fat1, data, t) /\ m \in Within /\ ~EntOf(data, t).dir
    BY <2>1, <2>2 DEF WritesTo
  <2>5. EntOf(data, t).cluster \in Clusters \cup {0}
    BY <2>1, NodeIs
  <2>6. c \in Clusters \ D
    BY <2>1, <2>4, <2>5, FilesApart, ChainTypes DEF OwnedBy, ChainAt
  <2>7. reg' \in Registers /\ (reg'.cluster = c \/ reg'.cluster = fat1[c])
        /\ (m + 1 # SectorsPerCluster => reg'.sector = m + 1 /\ reg'.cluster = c)
        /\ (m + 1 = SectorsPerCluster => reg'.sector = 0 /\ reg'.cluster = fat1[c])
    <3>1. reg \in Registers /\ fat1[c] \in 0 .. EndOfChain
      <4>1. reg \in Registers /\ fat1[c] \in FatEntry
        BY <2>1, <2>6 DEF CallTypes, Typed
      <4>2. QED
        BY <4>1, FatRange
    <3>2. QED
      BY <1>2, <3>1, Advances
  <2> HIDE DEF c, m
  <2>8. Typed(fat1', data')
    <3>1. req.data \in Data
      BY <2>1 DEF OverwriteRuns
    <3>2. DOMAIN FileSector(req.data) = Slots /\ \A i \in Slots : FileSector(req.data)[i] \in SlotValue
      BY <3>1 DEF FileSector, SlotValue
    <3>3. QED
      BY <2>1, <2>3, <3>2, TypedWrite
  <2>9. Kept(fat1, data, fat1', data', D)
    BY <2>1, <2>3, <2>4, <2>6, WriteElsewhere
  <2>10. /\ Sound(fat1', data', D) /\ NodesOf(data', D) = NodesOf(data, D)
         /\ EntOf(data', t) = EntOf(data, t) /\ ChainAt(fat1', data', t) = ChainAt(fat1, data, t)
    BY <2>1, <2>9, KeptSound
  <2>11. OwnedBy(fat1', data', t) = OwnedBy(fat1, data, t)
    BY <2>10 DEF OwnedBy
  <2>12. Finds(data', D, req.path, t)
    <3>1. 0 \notin D
      BY NoCluster
    <3>2. req.path \in Paths /\ Finds(data, D, req.path, t)
      BY <2>1, <2>2 DEF OverwriteRuns, WritesTo
    <3>3. \A d \in D : DirOf(data', d) = DirOf(data, d)
      BY <2>9 DEF Kept
    <3>4. QED
      BY <3>1, <3>2, <3>3, FindsKept
  <2>13. pc' = "overwrite_data" => reg'.cluster \in OwnedBy(fat1, data, t) /\ reg'.sector \in Within
    <3> SUFFICES ASSUME pc' = "overwrite_data"
                 PROVE  reg'.cluster \in OwnedBy(fat1, data, t) /\ reg'.sector \in Within
      OBVIOUS
    <3>1. reg'.cluster \in Clusters
      BY <1>2
    <3>2. CASE m + 1 = SectorsPerCluster
      <4>1. reg'.cluster = fat1[c] /\ reg'.sector = 0 /\ 0 \in Within
        BY <2>7, <3>2, Fat32Assumption DEF Within
      <4>2. FileEnds(fat1, EntOf(data, t))
        BY <2>1, <2>4 DEF Sound, FilesWhole
      <4> DEFINE chain == ChainIn(fat1, EntOf(data, t).cluster)
      <4>3. chain # <<>> /\ c \in Range(chain)
        <5>1. c \in Range(chain)
          BY <2>4 DEF OwnedBy, ChainAt
        <5>2. Range(<<>>) = {}
          BY DEF Range
        <5>3. QED
          BY <5>1, <5>2
      <4>4. fat1[chain[Len(chain)]] = EndOfChain
        BY <4>2, <4>3 DEF FileEnds
      <4>5. fat1[c] \in Range(chain)
        BY <2>5, <3>1, <4>1, <4>3, <4>4, ChainNext
      <4>6. QED
        BY <4>1, <4>5 DEF OwnedBy, ChainAt
    <3>3. CASE m + 1 # SectorsPerCluster
      <4>1. m + 1 \in Within
        BY <2>4, <3>3, Fat32Assumption DEF Within
      <4>2. QED
        BY <2>4, <2>7, <3>3, <4>1
    <3>4. QED
      BY <3>2, <3>3
  <2>14. req' = req /\ ret' = ret /\ FaultOrNot /\ fat2' \in [Clusters -> FatEntry]
         /\ pc' \in OverwritePcs
    BY <1>2, <2>1, <2>3 DEF FaultOrNot, CallTypes, OverwritePcs
  <2>15. WritesTo(D, t)'
    BY <2>2, <2>10, <2>11, <2>12, <2>13, <2>14 DEF WritesTo
  <2>16. OverwriteRuns(D)'
    BY <2>1, <2>10, <2>14, <2>15 DEF OverwriteRuns
  <2>17. Running(D)'
    BY <2>14, <2>16 DEF Running, MkdirPcs, OverwritePcs
  <2>18. pc # "idle" /\ pc' # "idle"
    BY <2>1, <2>14 DEF OverwritePcs
  <2>19. QED
    BY <2>7, <2>8, <2>10, <2>14, <2>17, <2>18, GoesOn
<1>3. QED
  BY <1>1, <1>2 DEF OverwriteData

LEMMA StepOverwriteCutShort ==
  ASSUME NEW D \in SUBSET Clusters, SoundWith(D), OverwriteCutShort
  PROVE  SoundWith(D)'
<1>1. /\ pc = "overwrite_data" /\ pc' = "overwrite_size" /\ FaultOrNot
      /\ UNCHANGED <<fat1, fat2, data, req, reg, ret>>
  BY DEF OverwriteCutShort, disk, FaultOrNot
<1>2. /\ Typed(fat1, data) /\ Sound(fat1, data, D) /\ OverwriteRuns(D) /\ CallTypes
  BY <1>1 DEF SoundWith, Running, OverwritePcs
<1>3. PICK t \in NodesOf(data, D) : WritesTo(D, t)
  BY <1>2 DEF OverwriteRuns
<1>4. WritesTo(D, t)'
  BY <1>1, <1>3 DEF WritesTo
<1>5. OverwriteRuns(D)'
  BY <1>1, <1>2, <1>4 DEF OverwriteRuns
<1>6. Running(D)'
  BY <1>1, <1>5 DEF Running, MkdirPcs, OverwritePcs
<1>7. Typed(fat1', data') /\ Sound(fat1', data', D) /\ reg' \in Registers
      /\ fat2' \in [Clusters -> FatEntry]
  BY <1>1, <1>2 DEF CallTypes
<1>8. QED
  BY <1>1, <1>6, <1>7, GoesOn

-----------------------------------------------------------------------------
(***************************************************************************)
(* Calls begin.                                                            *)
(***************************************************************************)
\* What a call is given.
LEMMA RequestIs ==
  ASSUME NEW q \in Requests
  PROVE  /\ q.op \in {"mkdir", "rename", "overwrite", "remove"} /\ q.path \in Paths
         /\ q.op = "rename" => q.name \in Names
         /\ q.op = "overwrite" => q.data \in Data /\ q.size \in Nat
  BY RequestsAssumption

LEMMA Refused ==
  ASSUME NEW D, SoundWith(D), NEW q \in Requests, Refuse(q), pc = "idle"
  PROVE  SoundWith(D)'
<1>1. /\ req' = q /\ ret' = "failed" /\ fat1' = fat1 /\ fat2' = fat2 /\ data' = data
      /\ faults' = faults /\ pc' = "idle" /\ reg' = reg
  BY DEF Refuse, disk
<1>2. CallTypes'
  BY <1>1, RequestIs DEF SoundWith, CallTypes
<1>3. Running(D)'
  BY <1>1 DEF Running, MkdirPcs, OverwritePcs
<1>4. QED
  BY <1>1, <1>2, <1>3 DEF SoundWith

LEMMA Called ==
  ASSUME NEW D, SoundWith(D), NEW q \in Requests, NEW r \in Registers, NEW first, first # "idle",
         Call(q, r, first), Running(D)'
  PROVE  SoundWith(D)'
<1>1. /\ req' = q /\ ret' = "none" /\ fat1' = fat1 /\ fat2' = fat2 /\ data' = data
      /\ faults' = faults /\ pc' = first /\ reg' = r
  BY DEF Call, disk
<1>2. q.op # "none" /\ q.op \in {"mkdir", "rename", "overwrite", "remove"}
  BY RequestIs
<1>3. CallTypes'
  BY <1>1, <1>2 DEF SoundWith, CallTypes
<1>4. QED
  BY <1>1, <1>3 DEF SoundWith

LEMMA NoRegTyped == NoReg \in Registers
  BY Fat32Assumption DEF NoReg, Registers, EndOfChain

LEMMA ClusterRange ==
  /\ 0 \in 0 .. EndOfChain /\ 0 \in 0 .. LastCluster
  /\ \A c \in Clusters : c \in 0 .. EndOfChain /\ c \in 0 .. LastCluster
  BY Fat32Assumption DEF Clusters, EndOfChain

\* The registers a call starts with.
LEMMA MkdirRegisters ==
  ASSUME NEW r, NEW c \in 0 .. EndOfChain, NEW d \in 0 .. LastCluster, r = [NoReg EXCEPT !.cluster = c, !.dir = d]
  PROVE  r \in Registers /\ r.cluster = c /\ r.dir = d /\ r.sector = 0
<1>1. NoReg \in Registers /\ NoReg.sector = 0
  BY NoRegTyped DEF NoReg
<1>2. r.cluster = c /\ r.dir = d /\ r.sector = 0
  BY <1>1 DEF Registers
<1>3. r \in Registers
  BY <1>1 DEF Registers
<1>4. QED
  BY <1>2, <1>3

LEMMA RenameRegisters ==
  ASSUME NEW r, NEW d \in 0 .. LastCluster, NEW i \in Int, r = [NoReg EXCEPT !.dir = d, !.index = i]
  PROVE  r \in Registers /\ r.dir = d /\ r.index = i
<1>1. NoReg \in Registers /\ NoReg.sector = 0
  BY NoRegTyped DEF NoReg
<1>2. r.dir = d /\ r.index = i
  BY <1>1 DEF Registers
<1>3. r \in Registers
  BY <1>1 DEF Registers
<1>4. QED
  BY <1>2, <1>3

LEMMA OverwriteRegisters ==
  ASSUME NEW r, NEW c \in 0 .. EndOfChain, r = [NoReg EXCEPT !.cluster = c]
  PROVE  r \in Registers /\ r.cluster = c /\ r.sector = 0
<1>1. NoReg \in Registers /\ NoReg.sector = 0
  BY NoRegTyped DEF NoReg
<1>2. r.cluster = c /\ r.sector = 0
  BY <1>1 DEF Registers
<1>3. r \in Registers
  BY <1>1 DEF Registers
<1>4. QED
  BY <1>2, <1>3

\* alloc_cluster takes a cluster that nothing in the tree uses.
LEMMA FreshCluster ==
  ASSUME NEW D, SoundWith(D), AllocCluster # -1
  PROVE  /\ AllocCluster \in Clusters \ D /\ fat1[AllocCluster] = FreeCluster
         /\ Unowned(fat1, data, D, AllocCluster)
<1> DEFINE F == {c \in Clusters : fat1[c] = FreeCluster}
<1>1. AllocCluster = Least(F)
  BY DEF AllocCluster
<1> HIDE DEF F
<1>2. F \in SUBSET Nat
  BY Fat32Assumption DEF F, Clusters
<1>3. F # {}
  BY <1>1 DEF Least
<1>4. AllocCluster \in F
  BY <1>1, <1>2, <1>3, LeastIs
<1>5. AllocCluster \in Clusters /\ fat1[AllocCluster] = FreeCluster
  BY <1>4 DEF F
<1>6. AllocCluster \notin D
  BY <1>5, NoCluster DEF SoundWith, Sound, DirsIn
<1>7. Unowned(fat1, data, D, AllocCluster)
  BY <1>5 DEF SoundWith, Sound, AllUsed, Unowned
<1>8. QED
  BY <1>5, <1>6, <1>7

LEMMA StepMkdirBegin ==
  ASSUME NEW D \in SUBSET Clusters, SoundWith(D), NEW q \in Requests, MkdirBegin(q)
  PROVE  SoundWith(D)'
<1> DEFINE parent == ParentCluster(q.path)
           new == AllocCluster
           r == [NoReg EXCEPT !.cluster = new, !.dir = parent]
<1>1. pc = "idle" /\ q.op = "mkdir" /\ q.path \in Paths
  BY RequestIs DEF MkdirBegin
<1>2. CASE parent = 0 \/ new = -1
  BY <1>1, <1>2, Refused DEF MkdirBegin
<1>3. CASE ~(parent = 0 \/ new = -1)
  <2>1. Call(q, r, "mkdir_fat1")
    BY <1>3 DEF MkdirBegin
  <2>2. parent \in D
    <3>1. parent \in D \cup {0}
      BY <1>1, ParentReached DEF SoundWith
    <3>2. QED
      BY <1>3, <3>1
  <2>3. new \in Clusters \ D /\ fat1[new] = FreeCluster /\ Unowned(fat1, data, D, new)
    BY <1>3, FreshCluster
  <2> HIDE DEF parent, new
  <2>4. r \in Registers /\ r.cluster = new /\ r.dir = parent /\ r.sector = 0
    <3>1. new \in 0 .. EndOfChain /\ parent \in 0 .. LastCluster
      BY <2>2, <2>3, ClusterRange
    <3>2. QED
      BY <3>1, MkdirRegisters
  <2> HIDE DEF r
  <2>5. /\ req' = q /\ fat1' = fat1 /\ data' = data /\ pc' = "mkdir_fat1" /\ reg' = r
    BY <2>1 DEF Call, disk
  <2>6. Progress'
    <3>1. reg'.sector \in Within /\ 0 .. reg'.sector - 1 = {}
      BY <2>4, <2>5, Fat32Assumption DEF Within
    <3>2. QED
      BY <2>5, <3>1 DEF Progress
  <2>7. MkdirRuns(D)'
    BY <1>1, <2>2, <2>3, <2>4, <2>5, <2>6 DEF MkdirRuns
  <2>8. Running(D)'
    BY <2>5, <2>7 DEF Running, MkdirPcs, OverwritePcs
  <2>9. QED
    BY <2>1, <2>4, <2>8, Called
<1>4. QED
  BY <1>2, <1>3

LEMMA StepRenameBegin ==
  ASSUME NEW D \in SUBSET Clusters, SoundWith(D), NEW q \in Requests, RenameBegin(q)
  PROVE  SoundWith(D)'
<1> DEFINE l == Locate(q.path)
           r == [NoReg EXCEPT !.dir = l[1], !.index = l[2]]
<1>1. pc = "idle" /\ q.op = "rename" /\ q.path \in Paths /\ q.name \in Names
  BY RequestIs DEF RenameBegin
<1>2. CASE ~(l[2] >= 0)
  BY <1>1, <1>2, Refused DEF RenameBegin
<1>3. CASE l[2] >= 0
  <2>1. Call(q, r, "rename_entry")
    BY <1>3 DEF RenameBegin
  <2>2. l \in NodesOf(data, D) /\ l = <<l[1], l[2]>> /\ Finds(data, D, q.path, l)
    <3>1. Found(q.path)
      BY <1>3 DEF Found
    <3>2. QED
      BY <1>1, <3>1, LocateFinds DEF SoundWith
  <2> HIDE DEF l
  <2>3. l[1] \in D /\ l[2] \in Nat
    <3>1. l[1] \in D /\ l[2] \in Indices
      BY <2>2, NodeIs DEF SoundWith, Sound, DirsIn
    <3>2. QED
      BY <3>1, Prefix
  <2>4. r \in Registers /\ r.dir = l[1] /\ r.index = l[2]
    <3>1. PICK d \in 0 .. LastCluster, i \in Int : d = l[1] /\ i = l[2]
      BY <2>3, ClusterRange
    <3>2. r = [NoReg EXCEPT !.dir = d, !.index = i]
      BY <3>1
    <3> HIDE DEF r
    <3>3. r \in Registers /\ r.dir = d /\ r.index = i
      BY <3>2, RenameRegisters
    <3>4. QED
      BY <3>1, <3>3
  <2> HIDE DEF r
  <2>5. /\ req' = q /\ fat1' = fat1 /\ data' = data /\ pc' = "rename_entry" /\ reg' = r
    BY <2>1 DEF Call, disk
  <2>6. RenameRuns(D)'
    BY <1>1, <2>2, <2>4, <2>5 DEF RenameRuns
  <2>7. Running(D)'
    BY <2>5, <2>6 DEF Running, MkdirPcs, OverwritePcs
  <2>8. QED
    BY <2>1, <2>4, <2>7, Called
<1>4. QED
  BY <1>2, <1>3

LEMMA StepOverwriteBegin ==
  ASSUME NEW D \in SUBSET Clusters, SoundWith(D), NEW q \in Requests, OverwriteBegin(q)
  PROVE  SoundWith(D)'
<1> DEFINE fits == IsFile(q.path) /\ q.size <= Capacity(Lookup(q.path).cluster)
           c == Lookup(q.path).cluster
           first == IF q.size = 0 THEN "overwrite_size" ELSE "overwrite_data"
           r == [NoReg EXCEPT !.cluster = c]
<1>1. pc = "idle" /\ q.op = "overwrite" /\ q.path \in Paths /\ q.data \in Data /\ q.size \in Nat
  BY RequestIs DEF OverwriteBegin
<1>2. CASE ~fits
  BY <1>1, <1>2, Refused DEF OverwriteBegin
<1>3. CASE fits
  <2> DEFINE t == Locate(q.path)
  <2>1. Call(q, r, first)
    BY <1>3 DEF OverwriteBegin
  <2>2. /\ Typed(fat1, data) /\ Sound(fat1, data, D) /\ D \subseteq OnDevice
        /\ Found(q.path) /\ ~Lookup(q.path).dir
    BY <1>3 DEF SoundWith, Sound, DirsIn, IsFile
  <2>3. /\ Finds(data, D, q.path, t) /\ t \in NodesOf(data, D) /\ Lookup(q.path) = EntOf(data, t)
    BY <1>1, <2>2, LocateFinds
  <2>4. q.size <= Len(ChainAt(fat1, data, t)) * SectorsPerCluster
    BY <1>3, <2>3 DEF Capacity, Chain, ChainAt
  <2> HIDE DEF t
  <2>5. c \in Clusters \cup {0} /\ c = EntOf(data, t).cluster /\ ~EntOf(data, t).dir
    BY <2>2, <2>3, NodeIs
  <2> HIDE DEF c
  <2>6. q.size # 0 => c \in OwnedBy(fat1, data, t)
    <3>1. CASE c = 0
      <4>1. Len(ChainAt(fat1, data, t)) = 0
        BY <2>5, <3>1, ChainTypes DEF ChainAt
      <4>2. q.size = 0
        BY <1>1, <2>4, <4>1, Fat32Assumption
      <4>3. QED
        BY <4>2
    <3>2. CASE c \in Clusters
      BY <2>5, <3>2, ChainTypes DEF OwnedBy, ChainAt
    <3>3. QED
      BY <2>5, <3>1, <3>2
  <2>7. r \in Registers /\ r.cluster = c /\ r.sector = 0
    <3>1. c \in 0 .. EndOfChain /\ 0 \in 0 .. LastCluster
      BY <2>5, ClusterRange
    <3>2. QED
      BY <3>1, OverwriteRegisters
  <2> HIDE DEF r
  <2>8. /\ req' = q /\ fat1' = fat1 /\ data' = data /\ pc' = first /\ reg' = r
    BY <2>1 DEF Call, disk
  <2>9. pc' \in OverwritePcs /\ (pc' = "overwrite_data" => q.size # 0) /\ first # "idle"
    BY <2>8 DEF OverwritePcs
  <2> HIDE DEF first
  <2>10. PICK u : u = t
    OBVIOUS
  <2>11. WritesTo(D, u)'
    <3>1. 0 \in Within
      BY Fat32Assumption DEF Within
    <3>2. /\ Finds(data, D, q.path, u) /\ ~EntOf(data, u).dir
          /\ q.size <= Len(ChainAt(fat1, data, u)) * SectorsPerCluster
          /\ q.size # 0 => c \in OwnedBy(fat1, data, u)
      BY <2>3, <2>4, <2>5, <2>6, <2>10
    <3>3. reg'.cluster = c /\ reg'.sector = 0
      BY <2>7, <2>8
    <3>4. QED
      BY <2>8, <2>9, <3>1, <3>2, <3>3 DEF WritesTo
  <2>12. OverwriteRuns(D)'
    BY <1>1, <2>3, <2>8, <2>10, <2>11 DEF OverwriteRuns
  <2>13. Running(D)'
    BY <2>9, <2>12 DEF Running, MkdirPcs, OverwritePcs
  <2>14. QED
    BY <2>1, <2>7, <2>9, <2>13, Called
<1>4. QED
  BY <1>2, <1>3

LEMMA StepLookupFails ==
  ASSUME NEW D, SoundWith(D), NEW q \in Requests, LookupFails(q)
  PROVE  SoundWith(D)'
<1>1. /\ req' = q /\ ret' = "failed" /\ fat1' = fat1 /\ fat2' = fat2 /\ data' = data
      /\ pc' = "idle" /\ pc = "idle" /\ reg' = reg /\ FaultOrNot
  BY DEF LookupFails, disk, FaultOrNot
<1>2. faults' \in 0 .. MaxFaults
  BY <1>1, FaultTypes DEF SoundWith
<1>3. CallTypes'
  BY <1>1, <1>2, RequestIs DEF SoundWith, CallTypes
<1>4. Running(D)'
  BY <1>1 DEF Running, MkdirPcs, OverwritePcs
<1>5. QED
  BY <1>1, <1>3, <1>4 DEF SoundWith

LEMMA StepWrong ==
  ASSUME NEW D, SoundWith(D), (\E q \in Requests : BeginWrong(q)) \/ GoesWrong
  PROVE  SoundWith(D)'
<1>1. /\ fat1' = fat1 /\ fat2' = fat2 /\ data' = data /\ reg' = reg /\ faults' = faults
      /\ pc' \in WentWrong /\ ret' = "none" /\ (req' \in Requests \/ (pc # "idle" /\ req' = req))
  BY WrongStep
<1>2. req'.op \in {"mkdir", "rename", "overwrite", "remove"}
  <2>1. CASE req' \in Requests
    BY <2>1, RequestIs
  <2>2. CASE pc # "idle" /\ req' = req
    BY <2>2 DEF SoundWith, CallTypes
  <2>3. QED
    BY <1>1, <2>1, <2>2
<1>3. CallTypes'
  BY <1>1, <1>2 DEF SoundWith, CallTypes, WentWrong
<1>4. Running(D)'
  BY <1>1 DEF Running, MkdirPcs, OverwritePcs, WentWrong
<1>5. QED
  BY <1>1, <1>3, <1>4 DEF SoundWith

-----------------------------------------------------------------------------
\* No call removes anything.
NoRemove == \A q \in Requests : q.op # "remove"

\* The directories stay, but for the one that mkdir links.
LEMMA NextSound ==
  ASSUME NoRemove, NEW D \in SUBSET Clusters, SoundWith(D), [Next]_vars
  PROVE  \/ SoundWith(D)'
         \/ MkdirEntry /\ \E k \in Indices, c \in Clusters : LinkedAt(k, c, D)
<1>1. CASE Begin
  <2>1. PICK q \in Requests : LookupFails(q) \/ BeginWrong(q) \/ MkdirBegin(q) \/ RenameBegin(q)
                              \/ OverwriteBegin(q) \/ RemoveBegin(q)
    BY <1>1 DEF Begin
  <2>2. ~RemoveBegin(q)
    BY DEF NoRemove, RemoveBegin
  <2>3. QED
    BY <2>1, <2>2, StepWrong, StepLookupFails, StepMkdirBegin, StepRenameBegin, StepOverwriteBegin
<1>2. CASE Mkdir
  BY <1>2, StepMkdirFat1, StepMkdirFat2, StepMkdirZero, StepMkdirDot, StepMkdirDotDot,
     MkdirEntryEnds DEF Mkdir
<1>3. CASE RenameEntry
  BY <1>3, StepEdit
<1>4. CASE Overwrite
  BY <1>4, StepOverwriteData, StepOverwriteCutShort, StepEdit DEF Overwrite
<1>5. CASE Remove
  BY <1>5 DEF Remove, RemoveFat1, RemoveFat2, RemoveEntry, SoundWith, Running, MkdirPcs,
     OverwritePcs, WentWrong
<1>6. CASE Restart
  BY <1>6, ReturnsSame DEF Restart, FaultOrNot
<1>9. CASE GoesWrong
  BY <1>9, StepWrong
<1>7. CASE UNCHANGED vars
  <2>1. /\ fat1' = fat1 /\ fat2' = fat2 /\ data' = data /\ req' = req /\ pc' = pc /\ reg' = reg
        /\ ret' = ret /\ faults' = faults
    BY <1>7 DEF vars
  <2>2. QED
    BY <2>1 DEF SoundWith, CallTypes, Running, MkdirRuns, Progress, RenameRuns, OverwriteRuns,
       WritesTo
<1>8. QED
  BY <1>1, <1>2, <1>3, <1>4, <1>5, <1>6, <1>7, <1>9 DEF Next, Step, StaysWrong

LEMMA NextTreeInv ==
  ASSUME NoRemove, TreeInv, [Next]_vars
  PROVE  TreeInv'
<1>1. PICK D \in SUBSET Clusters : SoundWith(D)
  BY DEF TreeInv
<1>2. ASSUME NEW k \in Indices, NEW c \in Clusters, LinkedAt(k, c, D) PROVE TreeInv'
  <2>1. D \cup {c} \in SUBSET Clusters
    OBVIOUS
  <2>2. QED
    BY <1>2, <2>1 DEF TreeInv, LinkedAt
<1>3. QED
  BY <1>1, <1>2, NextSound DEF TreeInv

\* A sound tree stays sound after every single write of mkdir, rename and
\* overwrite_file, whatever fails and wherever the machine stops (FAT32.h:355-413,
\* 419-464, 604-634).
THEOREM Fat32TreeSound ==
  ASSUME NoRemove
  PROVE  Spec /\ TreeSound => []TreeSound
<1>1. Init /\ TreeSound => TreeInv
  BY InitTreeInv
<1>2. TreeInv /\ [Next]_vars => TreeInv'
  BY NextTreeInv
<1>3. TreeInv => TreeSound
  BY TreeInvMeans
<1>4. QED
  BY <1>1, <1>2, <1>3, PTL DEF Spec

-----------------------------------------------------------------------------
(***************************************************************************)
(* What a step leaves alone.                                               *)
(***************************************************************************)
DataOf(fat, dat, t) == {Lba(c) + s : c \in OwnedBy(fat, dat, t), s \in Within} \cap Sectors

Spared(fat, dat, fatN, datN, t) ==
  /\ EntOf(datN, t) = EntOf(dat, t)
  /\ \A c \in OwnedBy(fat, dat, t) : fatN[c] = fat[c]
  /\ ~EntOf(dat, t).dir => \A l \in DataOf(fat, dat, t) : datN[l] = dat[l]

\* The data of a file are in its clusters and in no other.
LEMMA DataApart ==
  ASSUME NEW fat, NEW dat, NEW D, Typed(fat, dat), Sound(fat, dat, D), NEW t \in NodesOf(dat, D),
         NEW c \in Clusters, c \notin OwnedBy(fat, dat, t), NEW m \in Within
  PROVE  Lba(c) + m \notin DataOf(fat, dat, t)
<1> SUFFICES ASSUME NEW x \in OwnedBy(fat, dat, t), NEW y \in Within, Lba(c) + m = Lba(x) + y
             PROVE  FALSE
  BY DEF DataOf
<1>1. x \in Clusters
  <2>1. EntOf(dat, t).cluster \in Clusters \cup {0}
    BY NodeIs DEF Sound, DirsIn
  <2>2. QED
    BY <2>1, ChainTypes DEF OwnedBy, ChainAt
<1>2. c = x
  BY <1>1, LbaApart
<1>3. QED
  BY <1>2

\* A sector written in a cluster that is no directory's, and not the file's.
LEMMA SectorSpares ==
  ASSUME NEW fat, NEW dat, NEW D, Typed(fat, dat), Sound(fat, dat, D), NEW t \in NodesOf(dat, D),
         NEW c \in Clusters \ D, c \notin OwnedBy(fat, dat, t), NEW m \in Within, NEW v
  PROVE  Spared(fat, dat, fat, [dat EXCEPT ![Lba(c) + m] = v], t)
<1> DEFINE at == Lba(c) + m
           datN == [dat EXCEPT ![at] = v]
<1>1. at \notin DataOf(fat, dat, t)
  BY DataApart
<1>2. Kept(fat, dat, fat, datN, D)
  BY WriteElsewhere
<1>3. EntOf(datN, t) = EntOf(dat, t)
  <2> HIDE DEF datN
  <2>1. t[1] \in D
    BY NodeIs DEF Sound, DirsIn
  <2>2. QED
    BY <1>2, <2>1 DEF Kept, EntOf
<1> HIDE DEF at
<1>4. \A l \in DataOf(fat, dat, t) : datN[l] = dat[l]
  BY <1>1 DEF DataOf, Typed
<1> HIDE DEF datN
<1>5. Spared(fat, dat, fat, datN, t)
  BY <1>3, <1>4 DEF Spared
<1>6. QED
  BY <1>5 DEF datN, at

\* An entry written spares every other entry.
LEMMA EntrySpares ==
  ASSUME NEW fat, NEW dat, NEW D, Typed(fat, dat), Sound(fat, dat, D), NEW t \in NodesOf(dat, D),
         NEW p \in D, NEW k \in Indices, t # <<p, k>>, NEW e
  PROVE  Spared(fat, dat, fat, Written(dat, p, k, e), t)
<1> DEFINE datN == Written(dat, p, k, e)
<1>1. t[1] \in D /\ t[2] \in Indices /\ t = <<t[1], t[2]>> /\ D \subseteq OnDevice
  BY NodeIs DEF Sound, DirsIn
<1>2. \A d \in OnDevice, j \in Indices :
        DirOf(datN, d)[j] = IF d = p /\ j = k THEN e ELSE DirOf(dat, d)[j]
  BY <1>1, EntryWrite
<1>3. EntOf(datN, t) = EntOf(dat, t)
  <2> HIDE DEF datN
  <2>1. ~(t[1] = p /\ t[2] = k)
    BY <1>1
  <2>2. QED
    BY <1>1, <1>2, <2>1 DEF EntOf
<1>4. ASSUME ~EntOf(dat, t).dir, NEW l \in DataOf(fat, dat, t) PROVE datN[l] = dat[l]
  <2> DEFINE at == SectorOf(p, k)
  <2>1. p \notin OwnedBy(fat, dat, t) /\ p \in Clusters
    BY <1>1, <1>4, FilesApart, DeviceClusters
  <2>2. at \notin DataOf(fat, dat, t)
    BY <2>1, Placing, DataApart DEF SectorOf
  <2> HIDE DEF at
  <2>3. l # at /\ l \in DOMAIN dat
    BY <1>4, <2>2 DEF DataOf, Typed
  <2>4. datN = [dat EXCEPT ![at] = [dat[at] EXCEPT ![SlotOf(k)] = e]]
    BY DEF Written, at
  <2> HIDE DEF datN
  <2>5. QED
    BY <2>3, <2>4
<1> HIDE DEF datN
<1>5. Spared(fat, dat, fat, datN, t)
  BY <1>3, <1>4 DEF Spared
<1>6. QED
  BY <1>5 DEF datN

\* A step that writes nothing.
LEMMA NothingSpares ==
  ASSUME NEW t, fat1' = fat1, data' = data
  PROVE  Spared(fat1, data, fat1', data', t)
  BY DEF Spared

-----------------------------------------------------------------------------
\* The entries a step does not spare.
LEMMA StepSpares ==
  ASSUME NoRemove, NEW D \in SUBSET Clusters, SoundWith(D), [Next]_vars, NEW t \in NodesOf(data, D),
         t \notin Targets
  PROVE  Spared(fat1, data, fat1', data', t)
<1> USE DEF MkdirPcs, OverwritePcs
<1>1. /\ Typed(fat1, data) /\ Sound(fat1, data, D) /\ CallTypes /\ Running(D)
      /\ DirsIn(fat1, D) /\ D \subseteq OnDevice
  BY DEF SoundWith, Sound, DirsIn
<1>2. CASE fat1' = fat1 /\ data' = data
  BY <1>2, NothingSpares
<1>3. CASE pc = "mkdir_fat1" /\ WriteFat1(reg.cluster, EndOfChain)
  <2>1. MkdirRuns(D)
    BY <1>1, <1>3 DEF Running
  <2>2. fat1' = [fat1 EXCEPT ![reg.cluster] = EndOfChain] /\ data' = data
    BY <1>3 DEF WriteFat1
  <2>3. reg.cluster \in Clusters /\ reg.cluster \notin OwnedBy(fat1, data, t)
    BY <2>1 DEF MkdirRuns, Unowned
  <2>4. OwnedBy(fat1, data, t) \subseteq Clusters
    <3>1. EntOf(data, t).cluster \in Clusters \cup {0}
      BY <1>1, NodeIs
    <3>2. QED
      BY <3>1, ChainTypes DEF OwnedBy, ChainAt
  <2>5. \A c \in OwnedBy(fat1, data, t) : fat1'[c] = fat1[c]
    BY <1>1, <2>2, <2>3, <2>4 DEF Typed
  <2>6. QED
    BY <2>2, <2>5 DEF Spared
<1>4. CASE pc = "mkdir_zero" /\ WriteSector(Lba(reg.cluster) + reg.sector, EmptySector)
  <2>1. MkdirRuns(D) /\ Progress
    BY <1>1, <1>4 DEF Running, MkdirRuns
  <2>2. reg.cluster \in Clusters \ D /\ reg.cluster \notin OwnedBy(fat1, data, t) /\ reg.sector \in Within
    BY <1>4, <2>1 DEF MkdirRuns, Unowned, Progress
  <2>3. fat1' = fat1 /\ data' = [data EXCEPT ![Lba(reg.cluster) + reg.sector] = EmptySector]
    BY <1>4 DEF WriteSector
  <2>4. QED
    BY <1>1, <2>2, <2>3, SectorSpares
<1>5. CASE pc \in {"mkdir_dot", "mkdir_dotdot"} /\ \E k \in {0, 1} : \E e : WriteDirEntry(reg.cluster, k, e)
  <2>1. MkdirRuns(D) /\ Progress
    BY <1>1, <1>5 DEF Running, MkdirRuns
  <2>2. reg.cluster \in Clusters \ D /\ reg.cluster \notin OwnedBy(fat1, data, t)
    BY <2>1 DEF MkdirRuns, Unowned
  <2>3. PICK k \in {0, 1} : \E e : WriteDirEntry(reg.cluster, k, e)
    BY <1>5
  <2>4. k \in Indices
    BY IndicesAre
  <2> PICK e : WriteDirEntry(reg.cluster, k, e)
    BY <2>3
  <2>5. fat1' = fat1 /\ data' = Written(data, reg.cluster, k, e)
    BY DirEntryWritten
  <2> DEFINE m == k \div SlotCount
             v == [data[SectorOf(reg.cluster, k)] EXCEPT ![SlotOf(k)] = e]
  <2>6. m \in Within /\ data' = [data EXCEPT ![Lba(reg.cluster) + m] = v]
    BY <2>4, <2>5, Placing DEF Written, SectorOf
  <2> HIDE DEF m, v
  <2>7. fat1' = fat1
    BY <2>5
  <2>8. QED
    BY <1>1, <2>2, <2>6, <2>7, SectorSpares
<1>6. CASE MkdirEntry /\ ~(fat1' = fat1 /\ data' = data)
  <2> DEFINE k == FindFreeSlot(reg.dir)
             e == Entry(StoredName[Leaf(req.path)], reg.cluster, TRUE, 0)
  <2>1. MkdirRuns(D) /\ reg.dir \in D
    BY <1>1, <1>6 DEF Running, MkdirRuns, MkdirEntry
  <2>2. k >= 0 /\ WriteDirEntry(reg.dir, k, e)
    BY <1>6 DEF MkdirEntry, WriteFails, disk
  <2>3. k \in FreeSlots(DirOf(data, reg.dir))
    <3> DEFINE S == FreeSlots(DirOf(data, reg.dir))
    <3>1. k = Least(S)
      BY <1>1, <2>1, DirectoryIs DEF FindFreeSlot
    <3>2. S \in SUBSET Nat
      BY Prefix DEF FreeSlots, DirOf
    <3> HIDE DEF S, k
    <3>3. S # {}
      BY <2>2, <3>1 DEF Least
    <3>4. QED
      BY <3>1, <3>2, <3>3, LeastIs DEF S
  <2> HIDE DEF k, e
  <2>4. k \in Indices /\ DirOf(data, reg.dir)[k] \in {End, Deleted}
    BY <2>3 DEF FreeSlots, DirOf
  <2>5. t # <<reg.dir, k>>
    <3>1. EntOf(data, t) \in EntryValue
      BY <1>1, NodeIs
    <3>2. EntOf(data, t) \notin {End, Deleted}
      BY <3>1 DEF EntryValue, End, Deleted
    <3>3. QED
      BY <2>4, <3>2 DEF EntOf
  <2>6. fat1' = fat1 /\ data' = Written(data, reg.dir, k, e)
    BY <2>2, DirEntryWritten
  <2>7. QED
    BY <1>1, <2>1, <2>4, <2>5, <2>6, EntrySpares
<1>7. CASE pc \in {"rename_entry", "overwrite_size"} /\
           \E e : WriteSector(Place(Locate(req.path)[1], Locate(req.path)[2])[1],
                              Overlay(Place(Locate(req.path)[1], Locate(req.path)[2]), e))
  <2>1. PICK u \in NodesOf(data, D) : Locate(req.path) = u /\ Targets = {u}
    <3>1. \E u \in NodesOf(data, D) : /\ Finds(data, D, req.path, u) /\ req.path \in Paths
                                      /\ req.op \in {"rename", "overwrite"}
      BY <1>1, <1>7 DEF Running, RenameRuns, OverwriteRuns, WritesTo
    <3>2. PICK u \in NodesOf(data, D) : /\ Finds(data, D, req.path, u) /\ req.path \in Paths
                                        /\ req.op \in {"rename", "overwrite"}
      BY <3>1
    <3>3. u = <<u[1], u[2]>>
      BY <1>1, NodeIs
    <3>4. Locate(req.path) = u
      BY <1>1, <3>2, <3>3, FindsLocate
    <3>5. Targets = {u}
      BY <1>7, <3>2, <3>4 DEF Targets, WentWrong
    <3>6. QED
      BY <3>4, <3>5
  <2>2. u[1] \in D /\ u[2] \in Indices /\ u = <<u[1], u[2]>>
    BY <1>1, NodeIs
  <2>3. PICK e : WriteSector(Place(u[1], u[2])[1], Overlay(Place(u[1], u[2]), e))
    BY <1>7, <2>1
  <2>4. fat1' = fat1 /\ data' = Written(data, u[1], u[2], e)
    BY <1>1, <2>2, <2>3, Overlaid
  <2>5. t # <<u[1], u[2]>>
    BY <2>1, <2>2
  <2>6. QED
    BY <1>1, <2>2, <2>4, <2>5, EntrySpares
<1>8. CASE pc = "overwrite_data" /\ WriteSector(Lba(reg.cluster) + reg.sector, FileSector(req.data))
  <2>1. OverwriteRuns(D)
    BY <1>1, <1>8 DEF Running
  <2>2. PICK u \in NodesOf(data, D) : WritesTo(D, u)
    BY <2>1 DEF OverwriteRuns
  <2>3. reg.cluster \in OwnedBy(fat1, data, u) /\ reg.sector \in Within /\ ~EntOf(data, u).dir
    BY <1>8, <2>2 DEF WritesTo
  <2>4. reg.cluster \in Clusters \ D
    <3>1. EntOf(data, u).cluster \in Clusters \cup {0}
      BY <1>1, NodeIs
    <3>2. QED
      BY <1>1, <2>3, <3>1, FilesApart, ChainTypes DEF OwnedBy, ChainAt
  <2>5. Targets = {u}
    <3>1. u = <<u[1], u[2]>>
      BY <1>1, NodeIs
    <3>2. Locate(req.path) = u
      BY <1>1, <2>1, <2>2, <3>1, FindsLocate DEF OverwriteRuns, WritesTo
    <3>3. QED
      BY <1>8, <2>1, <3>2 DEF OverwriteRuns, Targets, WentWrong
  <2>6. reg.cluster \notin OwnedBy(fat1, data, t)
    BY <1>1, <2>3, <2>5 DEF Sound, AllApart
  <2>7. fat1' = fat1 /\ data' = [data EXCEPT ![Lba(reg.cluster) + reg.sector] = FileSector(req.data)]
    BY <1>8 DEF WriteSector
  <2>8. QED
    BY <1>1, <2>3, <2>4, <2>6, <2>7, SectorSpares
<1>9. CASE Begin
  <2>1. \A q \in Requests : ~RemoveBegin(q)
    BY DEF NoRemove, RemoveBegin
  <2>2. fat1' = fat1 /\ data' = data
    BY <1>9, <2>1, WrongStep
       DEF Begin, LookupFails, MkdirBegin, RenameBegin, OverwriteBegin, Refuse, Call, disk
  <2>3. QED
    BY <1>2, <2>2
<1>10. CASE Mkdir
  <2>1. CASE MkdirFat1 \/ MkdirFat2
    BY <1>2, <1>3, <2>1 DEF MkdirFat1, MkdirFat2, WriteFat2, WriteFails, disk
  <2>2. CASE MkdirZero
    BY <1>2, <1>4, <2>2 DEF MkdirZero, WriteFails, disk
  <2>3. CASE MkdirDot
    <3>1. pc = "mkdir_dot" /\ (WriteDirEntry(reg.cluster, 0, Entry(Dot, reg.cluster, TRUE, 0))
                                \/ (fat1' = fat1 /\ data' = data))
      BY <2>3 DEF MkdirDot, WriteFails, disk
    <3>2. QED
      BY <1>2, <1>5, <3>1
  <2>4. CASE MkdirDotDot
    <3>1. pc = "mkdir_dotdot" /\ (WriteDirEntry(reg.cluster, 1, Entry(DotDot, reg.dir, TRUE, 0))
                                   \/ (fat1' = fat1 /\ data' = data))
      BY <2>4 DEF MkdirDotDot, WriteFails, disk
    <3>2. QED
      BY <1>2, <1>5, <3>1
  <2>5. CASE MkdirEntry
    BY <1>2, <1>6, <2>5
  <2>6. QED
    BY <1>10, <2>1, <2>2, <2>3, <2>4, <2>5 DEF Mkdir
<1>11. CASE RenameEntry
  <2>1. Locate(req.path) = <<reg.dir, reg.index>>
    <3>1. RenameRuns(D)
      BY <1>1, <1>11 DEF Running, RenameEntry
    <3>2. PICK u : u = <<reg.dir, reg.index>>
      OBVIOUS
    <3>3. u = <<u[1], u[2]>> /\ req.path \in Paths /\ Finds(data, D, req.path, u)
      BY <3>1, <3>2 DEF RenameRuns
    <3>4. QED
      BY <1>1, <3>2, <3>3, FindsLocate
  <2>2. pc = "rename_entry" /\
          \/ fat1' = fat1 /\ data' = data
          \/ \E e : WriteSector(Place(reg.dir, reg.index)[1], Overlay(Place(reg.dir, reg.index), e))
    BY <1>11 DEF RenameEntry, WriteFails, disk
  <2>3. QED
    BY <1>2, <1>7, <2>1, <2>2
<1>12. CASE Overwrite
  <2>1. CASE OverwriteData
    BY <1>2, <1>8, <2>1 DEF OverwriteData, WriteFails, disk
  <2>2. CASE OverwriteCutShort
    BY <1>2, <2>2 DEF OverwriteCutShort, disk
  <2>3. CASE OverwriteSize
    <3>1. pc = "overwrite_size" /\
            \/ fat1' = fat1 /\ data' = data
            \/ \E e : WriteSector(Place(Locate(req.path)[1], Locate(req.path)[2])[1],
                                  Overlay(Place(Locate(req.path)[1], Locate(req.path)[2]), e))
      BY <2>3 DEF OverwriteSize, WriteFails, disk
    <3>2. QED
      BY <1>2, <1>7, <3>1
  <2>4. QED
    BY <1>12, <2>1, <2>2, <2>3 DEF Overwrite
<1>13. CASE Remove
  BY <1>1, <1>13 DEF Remove, RemoveFat1, RemoveFat2, RemoveEntry, Running, WentWrong
<1>14. CASE GoesWrong \/ Restart \/ UNCHANGED vars
  BY <1>2, <1>14, WrongStep DEF Restart, disk, vars
<1>15. QED
  BY <1>9, <1>10, <1>11, <1>12, <1>13, <1>14 DEF Next, Step, StaysWrong

LEMMA SectorsAre ==
  ASSUME NEW D, Typed(fat1, data), Sound(fat1, data, D), NEW t \in Tree
  PROVE  SectorsOf(t) = DataOf(fat1, data, t)
<1>1. ChainOf(t) = OwnedBy(fat1, data, t)
  BY TreeIs
<1>2. QED
  BY <1>1 DEF SectorsOf, DataOf, Within

LEMMA PlaceNow ==
  ASSUME NEW D, Typed(fat1, data), Sound(fat1, data, D), NEW t \in NodesOf(data, D)
  PROVE  /\ Place(t[1], t[2]) = <<SectorOf(t[1], t[2]), SlotOf(t[2])>>
         /\ EntryOf(t) = EntOf(data, t)
         /\ data'[SectorOf(t[1], t[2])][SlotOf(t[2])] = EntOf(data', t)
<1>1. DirsIn(fat1, D) /\ t[1] \in D /\ t[2] \in Indices
  BY NodeIs DEF Sound, DirsIn
<1>2. Place(t[1], t[2]) = <<SectorOf(t[1], t[2]), SlotOf(t[2])>> /\ EntryOf(t) = EntOf(data, t)
  BY <1>1, DirectoryIs DEF EntryOf, EntOf
<1>3. EntOf(data', t) = data'[SectorOf(t[1], t[2])][SlotOf(t[2])]
  BY <1>1 DEF EntOf, DirOf
<1>4. QED
  BY <1>2, <1>3

\* What a running rename does to the entry it is about.
LEMMA RenameKeeps ==
  ASSUME NoRemove, NEW D \in SUBSET Clusters, SoundWith(D), [Next]_vars, req.op = "rename",
         NEW t \in Targets
  PROVE  OnlyRenamed(t)
<1>1. /\ Typed(fat1, data) /\ Sound(fat1, data, D) /\ CallTypes /\ Running(D)
      /\ DirsIn(fat1, D) /\ D \subseteq OnDevice
  BY DEF SoundWith, Sound, DirsIn
<1>2. pc \notin {"idle"} \cup WentWrong /\ t = Locate(req.path)
  BY DEF Targets
<1>3. pc = "rename_entry" /\ RenameRuns(D)
  BY <1>1, <1>2 DEF Running, MkdirPcs, OverwritePcs, MkdirRuns, OverwriteRuns
<1>4. t = <<reg.dir, reg.index>> /\ t \in NodesOf(data, D)
  <2>1. PICK u : u = <<reg.dir, reg.index>>
    OBVIOUS
  <2>2. u \in NodesOf(data, D) /\ req.path \in Paths /\ Finds(data, D, req.path, u)
    BY <1>3, <2>1 DEF RenameRuns
  <2>3. u = <<u[1], u[2]>>
    BY <2>1
  <2>4. Locate(req.path) = u
    BY <1>1, <2>2, <2>3, FindsLocate
  <2>5. QED
    BY <1>2, <2>1, <2>2, <2>4
<1>5. t[1] = reg.dir /\ t[2] = reg.index /\ t[1] \in D /\ t[2] \in Indices
      /\ EntOf(data, t) \in EntryValue
  BY <1>1, <1>4, NodeIs
<1> DEFINE e == EntOf(data, t)
<1>6. e = [kind |-> "entry", name |-> e.name, cluster |-> e.cluster, dir |-> e.dir, size |-> e.size]
  BY <1>5 DEF EntryValue
<1>7. /\ Place(t[1], t[2]) = <<SectorOf(t[1], t[2]), SlotOf(t[2])>> /\ EntryOf(t) = e
      /\ data'[SectorOf(t[1], t[2])][SlotOf(t[2])] = EntOf(data', t)
  BY <1>1, <1>4, PlaceNow
<1>8. OwnedBy(fat1, data, t) = ChainOf(t)
  BY <1>7 DEF OwnedBy, ChainAt, ChainOf, Chain
<1>9. SectorsOf(t) = DataOf(fat1, data, t)
  BY <1>8 DEF SectorsOf, DataOf, Within
<1>10. SUFFICES /\ [EntOf(data', t) EXCEPT !.name = e.name] = e
                /\ ~e.dir => \A l \in DataOf(fat1, data, t) : data'[l] = data[l]
  <2> HIDE DEF e
  <2>1. QED
    BY <1>7, <1>9 DEF OnlyRenamed
<1>11. CASE data' = data
  <2>1. EntOf(data', t) = e
    BY <1>11
  <2> HIDE DEF e
  <2>2. [e EXCEPT !.name = e.name] = e
    BY <1>6
  <2>3. QED
    BY <1>11, <2>1, <2>2
<1>12. CASE RenameEntry /\ data' # data
  <2> DEFINE new == Entry(StoredName[req.name], e.cluster, e.dir, e.size)
  <2>1. At(Place(t[1], t[2])) = e
    BY <1>1, <1>5, EntryRead
  <2>2. WriteSector(Place(t[1], t[2])[1], Overlay(Place(t[1], t[2]), new))
    <3> HIDE DEF e
    <3>1. QED
      BY <1>5, <1>12, <2>1 DEF RenameEntry, WriteFails, disk
  <2> HIDE DEF new
  <2>3. data' = Written(data, t[1], t[2], new)
    BY <1>1, <1>4, <1>5, <2>2, Overlaid
  <2>4. EntOf(data', t) = new
    <3>1. t[1] \in OnDevice
      BY <1>1, <1>5
    <3>2. DirOf(Written(data, t[1], t[2], new), t[1])[t[2]] = new
      BY <1>1, <1>5, <3>1, EntryWrite
    <3>3. QED
      BY <2>3, <3>2 DEF EntOf
  <2>5. [new EXCEPT !.name = e.name] = e
    <3> HIDE DEF e
    <3>1. QED
      BY <1>6 DEF new, Entry
  <2>6. ASSUME ~e.dir, NEW l \in DataOf(fat1, data, t) PROVE data'[l] = data[l]
    <3> DEFINE at == SectorOf(t[1], t[2])
    <3>1. t[1] \notin OwnedBy(fat1, data, t) /\ t[1] \in Clusters
      BY <1>1, <1>4, <1>5, <2>6, FilesApart
    <3>2. at \notin DataOf(fat1, data, t)
      BY <1>1, <1>4, <1>5, <3>1, Placing, DataApart DEF SectorOf
    <3> HIDE DEF at
    <3>3. l # at /\ l \in DOMAIN data
      BY <1>1, <2>6, <3>2 DEF DataOf, Typed
    <3>4. data' = [data EXCEPT ![at] = [data[at] EXCEPT ![SlotOf(t[2])] = new]]
      BY <2>3 DEF Written, at
    <3>5. QED
      BY <3>3, <3>4
  <2> HIDE DEF e
  <2>7. QED
    BY <2>4, <2>5, <2>6
<1>13. data' = data \/ RenameEntry
  <2>1. CASE GoesWrong \/ Restart \/ UNCHANGED vars
    BY <2>1, WrongStep DEF Restart, disk, vars
  <2>2. ~Begin /\ ~Mkdir /\ ~Overwrite /\ ~Remove
    BY <1>3 DEF Begin, LookupFails, BeginWrong, MkdirBegin, RenameBegin, OverwriteBegin, RemoveBegin,
       Mkdir, MkdirFat1, MkdirFat2, MkdirZero, MkdirDot, MkdirDotDot, MkdirEntry,
       Overwrite, OverwriteData, OverwriteCutShort, OverwriteSize,
       Remove, RemoveFat1, RemoveFat2, RemoveEntry
  <2>3. QED
    BY <2>1, <2>2 DEF Next, Step, StaysWrong
<1>14. QED
  BY <1>11, <1>12, <1>13

LEMMA StepBystanding ==
  ASSUME NoRemove, TreeInv, [Next]_vars
  PROVE  Bystanding
<1>1. PICK D \in SUBSET Clusters : SoundWith(D)
  BY DEF TreeInv
<1>2. Typed(fat1, data) /\ Sound(fat1, data, D)
  BY <1>1 DEF SoundWith
<1>3. ASSUME NEW t \in Tree \ Targets PROVE Untouched(t)
  <2>1. /\ t \in NodesOf(data, D) /\ EntryOf(t) = EntOf(data, t) /\ ChainOf(t) = OwnedBy(fat1, data, t)
    BY <1>2, TreeIs
  <2>2. Spared(fat1, data, fat1', data', t)
    BY <1>1, <1>3, <2>1, StepSpares
  <2>3. SectorsOf(t) = DataOf(fat1, data, t)
    BY <1>2, SectorsAre
  <2>4. /\ Place(t[1], t[2]) = <<SectorOf(t[1], t[2]), SlotOf(t[2])>>
        /\ data'[SectorOf(t[1], t[2])][SlotOf(t[2])] = EntOf(data', t)
    BY <1>2, <2>1, PlaceNow
  <2>5. QED
    BY <2>1, <2>2, <2>3, <2>4 DEF Spared, Untouched
<1>4. req.op = "rename" => \A t \in Targets : OnlyRenamed(t)
  BY <1>1, RenameKeeps
<1>5. QED
  BY <1>3, <1>4 DEF Bystanding

\* mkdir, rename and overwrite_file touch nothing but what they are about, through
\* each of their writes, failures and restarts (FAT32.h:355-413, 419-464, 604-634).
THEOREM Fat32BystandersKept ==
  ASSUME NoRemove
  PROVE  Spec /\ TreeSound => BystandersKept
<1>1. Init /\ TreeSound => TreeInv
  BY InitTreeInv
<1>2. TreeInv /\ [Next]_vars => TreeInv'
  BY NextTreeInv
<1>3. TreeInv /\ [Next]_vars => [Bystanding]_vars
  BY StepBystanding
<1>4. QED
  BY <1>1, <1>2, <1>3, PTL DEF Spec, BystandersKept

-----------------------------------------------------------------------------
(***************************************************************************)
(* Success is true.  The invariant says in addition where the path of a    *)
(* mkdir leads, how far the data of an overwrite are written, and what a   *)
(* call that returned true has done.                                       *)
(***************************************************************************)
\* A walk by names does not come back to a directory it has passed: an entry leads
\* to each directory but the root, and only one.
LEMMA WalkOnce ==
  ASSUME NEW fat, NEW dat, NEW D, Typed(fat, dat), Sound(fat, dat, D), NEW path \in Paths, path \in Seq(Names),
         NEW w, NEW n \in Nat, n <= Len(path) - 1, Enters(dat, D, path, w, n), w[n] # 0,
         NEW i \in 0 .. n, i # n
  PROVE  w[i] # w[n]
<1> SUFFICES ASSUME w[i] = w[n] PROVE FALSE
  OBVIOUS
<1>1. 0 \notin D /\ D \subseteq OnDevice
  BY NoCluster, DeviceClusters DEF Sound, DirsIn
<1>2. \A j \in 1 .. n : w[j] = EnterIn(dat, w[j - 1], path[j]) /\ w[j - 1] \in D \cup {0}
  <2> TAKE j \in 1 .. n
  <2>1. j \in 0 .. n /\ j # 0 /\ j - 1 \in 0 .. n
    OBVIOUS
  <2>2. QED
    BY <2>1 DEF Enters
\* The entry that leads to the directory after j components.
<1>3. ASSUME NEW j \in 1 .. n, w[j] # 0
      PROVE  \E t \in NodesOf(dat, D) :
               t[1] = w[j - 1] /\ EntOf(dat, t).dir /\ EntOf(dat, t).cluster = w[j]
  <2> DEFINE d == w[j - 1]
             k == Least(NamedIn(dat, d, path[j]))
  <2>1. d \in D \cup {0} /\ w[j] = EnterIn(dat, d, path[j])
    BY <1>2
  <2> HIDE DEF d
  <2>2. d \in D /\ k >= 0 /\ DirOf(dat, d)[k].dir /\ DirOf(dat, d)[k].cluster = w[j]
    BY <1>3, <2>1 DEF EnterIn
  <2>3. k \in NamedIn(dat, d, path[j])
    BY <2>2, NamedAre
  <2>4. path[j] \in Names /\ path[j] \notin {Dot, DotDot}
    <3>1. j \in 1 .. Len(path)
      BY PathLength
    <3>2. QED
      BY <3>1, Fat32Assumption
  <2> HIDE DEF k
  <2>5. k \in Indices /\ k \in VisibleIn(DirOf(dat, d))
    BY <2>3, <2>4, NamedAre, VisibleAre DEF IsNode
  <2>6. <<d, k>> \in NodesOf(dat, D) /\ EntOf(dat, <<d, k>>) = DirOf(dat, d)[k]
    BY <2>2, <2>5 DEF NodesOf, EntOf
  <2>7. QED
    BY <2>2, <2>6 DEF d
<1>4. \A j \in 1 .. n : w[j] # 0 => w[j - 1] # 0 /\ w[j] # Root
  <2> SUFFICES ASSUME NEW j \in 1 .. n, w[j] # 0 PROVE w[j - 1] # 0 /\ w[j] # Root
    OBVIOUS
  <2>1. PICK t \in NodesOf(dat, D) :
               t[1] = w[j - 1] /\ EntOf(dat, t).dir /\ EntOf(dat, t).cluster = w[j]
    BY <1>3
  <2>2. t[1] \in D
    BY <1>1, <2>1, NodeIs
  <2>3. w[j] \in OwnedBy(fat, dat, t)
    BY <2>1, DirectoryOwnsItself
  <2>4. QED
    BY <1>1, <2>1, <2>2, <2>3 DEF Sound, AllUsed
<1>5. \A j, m \in 1 .. n : w[j] # 0 /\ w[j] = w[m] => w[j - 1] = w[m - 1]
  <2> SUFFICES ASSUME NEW j \in 1 .. n, NEW m \in 1 .. n, w[j] # 0, w[j] = w[m]
               PROVE  w[j - 1] = w[m - 1]
    OBVIOUS
  <2>1. PICK t \in NodesOf(dat, D) :
               t[1] = w[j - 1] /\ EntOf(dat, t).dir /\ EntOf(dat, t).cluster = w[j]
    BY <1>3
  <2>2. PICK u \in NodesOf(dat, D) :
               u[1] = w[m - 1] /\ EntOf(dat, u).dir /\ EntOf(dat, u).cluster = w[m]
    BY <1>3
  <2>3. w[j] \in OwnedBy(fat, dat, t) /\ w[j] \in OwnedBy(fat, dat, u)
    BY <2>1, <2>2, DirectoryOwnsItself
  <2>4. t = u
    BY <2>3 DEF Sound, AllApart
  <2>5. QED
    BY <2>1, <2>2, <2>4
\* Going back from both together.
<1> DEFINE Back == {m \in Nat : m \in 0 .. i => w[i - m] = w[n - m] /\ w[n - m] # 0}
<1>6. 0 \in Back
  <2>1. i - 0 = i /\ n - 0 = n
    OBVIOUS
  <2>2. QED
    BY <2>1
<1>7. ASSUME NEW m \in Nat, m \in Back PROVE m + 1 \in Back
  <2> SUFFICES ASSUME m + 1 \in 0 .. i PROVE w[i - (m + 1)] = w[n - (m + 1)] /\ w[n - (m + 1)] # 0
    OBVIOUS
  <2>1. w[i - m] = w[n - m] /\ w[n - m] # 0
    BY <1>7
  <2>2. i - m \in 1 .. n /\ n - m \in 1 .. n /\ (i - m) - 1 = i - (m + 1) /\ (n - m) - 1 = n - (m + 1)
    OBVIOUS
  <2>3. QED
    BY <1>4, <1>5, <2>1, <2>2
<1>8. Nat \subseteq Back
  <2> HIDE DEF Back
  <2>1. QED
    BY <1>6, <1>7, SetInduction
<1>9. w[0] = w[n - i] /\ w[n - i] # 0
  <2>1. i \in Back /\ i - i = 0 /\ i \in 0 .. i
    BY <1>8
  <2>2. QED
    BY <2>1
<1>10. w[0] = Root /\ n - i \in 1 .. n
  BY DEF Enters
<1>11. QED
  BY <1>4, <1>9, <1>10

\* The entry of a new directory is not on the way to where it is written.
LEMMA ReachesLinked ==
  ASSUME NEW fat, NEW dat, NEW datN, NEW D, Typed(fat, dat), Sound(fat, dat, D), NEW path \in Paths,
         path \in Seq(Names), NEW p \in D, Reaches(dat, D, path, p),
         \A d \in D \ {p} : DirOf(datN, d) = DirOf(dat, d), NEW E, D \subseteq E
  PROVE  Reaches(datN, E, path, p)
<1> DEFINE n == Len(path) - 1
<1>1. n \in Nat
  BY PathLength
<1>2. PICK w : Enters(dat, D, path, w, n) /\ w[n] = p
  BY DEF Reaches
<1>3. p # 0
  BY NoCluster, DeviceClusters DEF Sound, DirsIn
<1> HIDE DEF n
<1>4. \A i \in 0 .. n : i # n => w[i] # p
  <2> SUFFICES ASSUME NEW i \in 0 .. n, i # n PROVE w[i] # p
    OBVIOUS
  <2>1. n <= Len(path) - 1
    BY <1>1 DEF n
  <2>2. QED
    BY <1>1, <1>2, <1>3, <2>1, WalkOnce
<1>5. \A d \in (D \cup {0}) \ {p} : \A name : EnterIn(datN, d, name) = EnterIn(dat, d, name)
  BY DEF EnterIn, NamedIn
<1>6. ASSUME NEW i \in 0 .. n, i # 0 PROVE w[i - 1] \in (D \cup {0}) \ {p}
  <2>1. i - 1 \in 0 .. n /\ i - 1 # n
    BY <1>1, <1>6
  <2>2. QED
    BY <1>2, <1>4, <2>1 DEF Enters
<1>7. \A i \in 0 .. n : (IF i = 0 THEN Root ELSE EnterIn(dat, w[i - 1], path[i]))
                         = (IF i = 0 THEN Root ELSE EnterIn(datN, w[i - 1], path[i]))
  BY <1>5, <1>6
<1>8. Enters(datN, E, path, w, n)
  BY <1>2, <1>7 DEF Enters
<1>9. QED
  BY <1>2, <1>8 DEF Reaches, n

\* The directory mkdir was told of is the one its path leads to, and in the end
\* lookups of the path see the new entry in it.
MkdirKnows(D) ==
  /\ pc \in MkdirPcs => req.path \in Seq(Names) /\ Reaches(data, D, req.path, reg.dir)
  /\ ret = "ok" /\ req.op = "mkdir" =>
       \E d \in D : /\ req.path \in Paths /\ Reaches(data, D, req.path, d)
                    /\ \E k \in VisibleIn(DirOf(data, d)) :
                         DirOf(data, d)[k].name = StoredName[Leaf(req.path)] /\ DirOf(data, d)[k].dir

\* The first n sectors of a file hold its new contents.
ChainPos(i) == i \div SectorsPerCluster + 1

Filled(fat, dat, t, n, v) ==
  \A i \in 0 .. n - 1 :
    dat[Lba(ChainAt(fat, dat, t)[ChainPos(i)]) + (i % SectorsPerCluster)] = FileSector(v)

\* Where the data loop is.
AtSector(t) ==
  /\ reg.index < req.size /\ reg.sector = reg.index % SectorsPerCluster
  /\ reg.cluster = ChainAt(fat1, data, t)[ChainPos(reg.index)]

\* Without failures overwrite_file has written what its index counts.
Overwriting(D, t) ==
  /\ WritesTo(D, t) /\ reg.index \in Nat /\ Filled(fat1, data, t, reg.index, req.data)
  /\ pc = "overwrite_data" => AtSector(t)
  /\ pc = "overwrite_size" => reg.index = req.size

OverwriteKnows(D) ==
  /\ pc \in OverwritePcs /\ faults = 0 =>
       \E t \in NodesOf(data, D) : Overwriting(D, t)
  /\ ret = "ok" /\ req.op = "overwrite" /\ faults = 0 =>
       \E t \in NodesOf(data, D) :
         /\ req.path \in Paths /\ Finds(data, D, req.path, t) /\ EntOf(data, t).size = req.size
         /\ Filled(fat1, data, t, req.size, req.data)

Knows(D) == SoundWith(D) /\ MkdirKnows(D) /\ OverwriteKnows(D)

SuccessInv == \E D \in SUBSET Clusters : Knows(D)

\* A call that ends without success, or was never one of these two.
LEMMA NothingKnown ==
  ASSUME NEW D, SoundWith(D)', pc' \notin MkdirPcs \cup OverwritePcs,
         ret' # "ok" \/ req'.op \notin {"mkdir", "overwrite"}
  PROVE  Knows(D)'
  BY DEF Knows, MkdirKnows, OverwriteKnows

LEMMA CallRunning ==
  ASSUME NEW D, SoundWith(D), pc # "idle"
  PROVE  ret = "none"
<1>1. req.op # "none"
  BY DEF SoundWith, CallTypes
<1>2. QED
  BY <1>1 DEF SoundWith, CallTypes

\* mkdir before its last write: the directories of the tree stay as they are.
LEMMA MkdirAside ==
  ASSUME NEW D \in SUBSET Clusters, SoundWith(D),
         MkdirFat1 \/ MkdirFat2 \/ MkdirZero \/ MkdirDot \/ MkdirDotDot
  PROVE  /\ \A d \in D : DirOf(data', d) = DirOf(data, d)
         /\ req' = req /\ ret' # "ok" /\ pc' \in MkdirPcs \cup {"idle"}
         /\ pc' \in MkdirPcs => reg'.dir = reg.dir
<1>1. pc \in MkdirPcs /\ pc # "idle" /\ pc \notin OverwritePcs
  BY DEF MkdirFat1, MkdirFat2, MkdirZero, MkdirDot, MkdirDotDot, MkdirPcs, OverwritePcs
<1>2. /\ Typed(fat1, data) /\ Sound(fat1, data, D) /\ reg.cluster \in Clusters \ D /\ reg \in Registers
      /\ ret = "none"
  BY <1>1, CallRunning DEF SoundWith, Running, MkdirRuns, CallTypes
<1>3. \A datN : Kept(fat1, data, fat1, datN, D) => \A d \in D : DirOf(datN, d) = DirOf(data, d)
  BY DEF Kept
<1>4. CASE WriteFails
  BY <1>2, <1>4 DEF WriteFails, Return, disk, MkdirPcs
<1>5. CASE MkdirFat1 /\ ~WriteFails
  BY <1>2, <1>5 DEF MkdirFat1, WriteFat1, Goto, MkdirPcs
<1>6. CASE MkdirFat2
  BY <1>2, <1>6 DEF MkdirFat2, WriteFat2, Goto, MkdirPcs, disk
<1>7. CASE MkdirZero /\ ~WriteFails
  <2>1. CASE Return("failed") /\ UNCHANGED <<disk, faults>>
    BY <2>1 DEF Return, disk, MkdirPcs
  <2>2. CASE /\ WriteSector(Lba(reg.cluster) + reg.sector, EmptySector)
             /\ reg' = [reg EXCEPT !.sector = @ + 1]
             /\ pc' = IF reg.sector + 1 = SectorsPerCluster THEN "mkdir_dot" ELSE pc
             /\ UNCHANGED <<req, ret, faults>>
    <3>1. reg.sector \in Within
      BY <1>7 DEF MkdirZero, SoundWith, Running, MkdirPcs, MkdirRuns, Progress
    <3>2. Kept(fat1, data, fat1, [data EXCEPT ![Lba(reg.cluster) + reg.sector] = EmptySector], D)
      BY <1>2, <3>1, WriteElsewhere
    <3>3. data' = [data EXCEPT ![Lba(reg.cluster) + reg.sector] = EmptySector]
      BY <2>2 DEF WriteSector
    <3>4. \A d \in D : DirOf(data', d) = DirOf(data, d)
      BY <1>3, <3>2, <3>3
    <3>5. reg'.dir = reg.dir
      BY <1>2, <2>2 DEF Registers
    <3>6. QED
      BY <1>1, <1>2, <2>2, <3>4, <3>5 DEF MkdirPcs
  <2>3. QED
    BY <1>7, <2>1, <2>2 DEF MkdirZero
<1>8. ASSUME NEW k \in {0, 1}, NEW e, WriteDirEntry(reg.cluster, k, e),
             Goto("mkdir_dotdot") \/ Goto("mkdir_entry")
      PROVE  /\ \A d \in D : DirOf(data', d) = DirOf(data, d)
             /\ req' = req /\ ret' = ret /\ pc' \in MkdirPcs /\ reg' = reg
  <2>1. data' = Written(data, reg.cluster, k, e)
    BY <1>8, DirEntryWritten
  <2>2. k \in Indices
    BY IndicesAre
  <2>3. Kept(fat1, data, fat1, Written(data, reg.cluster, k, e), D)
    BY <1>2, <2>2, WrittenElsewhere
  <2>4. \A d \in D : DirOf(data', d) = DirOf(data, d)
    BY <1>3, <2>1, <2>3
  <2>5. QED
    BY <1>8, <2>4 DEF Goto, MkdirPcs
<1>9. CASE (MkdirDot \/ MkdirDotDot) /\ ~WriteFails
  <2>1. \E k \in {0, 1} : \E e :
          WriteDirEntry(reg.cluster, k, e) /\ (Goto("mkdir_dotdot") \/ Goto("mkdir_entry"))
    BY <1>9 DEF MkdirDot, MkdirDotDot
  <2>2. QED
    BY <1>2, <1>8, <2>1
<1>10. QED
  BY <1>4, <1>5, <1>6, <1>7, <1>9

LEMMA KnowsMkdir ==
  ASSUME NEW D \in SUBSET Clusters, Knows(D), SoundWith(D)',
         MkdirFat1 \/ MkdirFat2 \/ MkdirZero \/ MkdirDot \/ MkdirDotDot
  PROVE  Knows(D)'
<1>1. /\ \A d \in D : DirOf(data', d) = DirOf(data, d)
      /\ req' = req /\ ret' # "ok" /\ pc' \in MkdirPcs \cup {"idle"}
      /\ pc' \in MkdirPcs => reg'.dir = reg.dir
  BY MkdirAside DEF Knows
<1>2. CASE pc' = "idle"
  BY <1>1, <1>2, NothingKnown DEF MkdirPcs, OverwritePcs
<1>3. CASE pc' \in MkdirPcs
  <2>1. pc \in MkdirPcs
    BY DEF MkdirFat1, MkdirFat2, MkdirZero, MkdirDot, MkdirDotDot, MkdirPcs
  <2>2. req.path \in Seq(Names) /\ Reaches(data, D, req.path, reg.dir) /\ req.path \in Paths
    BY <2>1 DEF Knows, MkdirKnows, SoundWith, Running, MkdirRuns
  <2>3. 0 \notin D
    BY NoCluster
  <2>4. Reaches(data', D, req.path, reg.dir)
    BY <1>1, <2>2, <2>3, ReachesKept
  <2>5. MkdirKnows(D)'
    BY <1>1, <1>3, <2>2, <2>4 DEF MkdirKnows
  <2>6. OverwriteKnows(D)'
    BY <1>1, <1>3 DEF OverwriteKnows, MkdirPcs, OverwritePcs
  <2>7. QED
    BY <2>5, <2>6 DEF Knows
<1>4. QED
  BY <1>1, <1>2, <1>3

LEMMA KnowsMkdirEntry ==
  ASSUME NEW D \in SUBSET Clusters, Knows(D), MkdirEntry
  PROVE  SuccessInv'
<1>1. pc = "mkdir_entry" /\ pc' = "idle" /\ req' = req
  BY DEF MkdirEntry, Return, WriteFails
<1>2. /\ Typed(fat1, data) /\ Sound(fat1, data, D) /\ MkdirRuns(D) /\ SoundWith(D)
      /\ req.path \in Seq(Names) /\ Reaches(data, D, req.path, reg.dir)
  BY <1>1 DEF Knows, MkdirKnows, SoundWith, Running, MkdirPcs
<1>3. /\ req.op = "mkdir" /\ req.path \in Paths /\ reg.cluster \in Clusters /\ reg.dir \in D
  BY <1>2 DEF MkdirRuns
<1>4. pc' \notin MkdirPcs \cup OverwritePcs
  BY <1>1 DEF MkdirPcs, OverwritePcs
<1>5. CASE SoundWith(D)' /\ ret' # "ok"
  BY <1>4, <1>5, NothingKnown DEF SuccessInv
<1>6. ASSUME NEW k \in Indices, NEW c \in Clusters, LinkedAt(k, c, D) PROVE SuccessInv'
  <2> DEFINE E == D \cup {c}
             p == reg.dir
             n == StoredName[Leaf(req.path)]
             e == Entry(n, c, TRUE, 0)
  <2>1. SoundWith(E)' /\ ret' = "ok" /\ data' = Written(data, p, k, e)
        /\ \A j \in 0 .. k - 1 : DirOf(data, p)[j] \notin {End, Deleted}
    BY <1>6 DEF LinkedAt
  <2>2. D \subseteq OnDevice /\ p \in D /\ E \in SUBSET Clusters
    BY <1>2, <1>3 DEF Sound, DirsIn
  <2>3. e.name = n /\ e.dir /\ IsNode(e) /\ e # End
    <3>1. n \in Names
      BY <1>3, PathLength, Fat32Assumption
    <3>2. QED
      BY <3>1, Fat32Assumption DEF IsNode, Entry, End
  <2> HIDE DEF p, n, e, E
  <2>4. \A d \in OnDevice : \A j \in Indices :
          DirOf(data', d)[j] = IF d = p /\ j = k THEN e ELSE DirOf(data, d)[j]
    BY <1>2, <2>1, <2>2, EntryWrite
  <2>5. \A d \in D \ {p} : DirOf(data', d) = DirOf(data, d)
    <3> TAKE d \in D \ {p}
    <3>1. \A j \in Indices : DirOf(data', d)[j] = DirOf(data, d)[j]
      BY <2>2, <2>4
    <3>2. QED
      BY <3>1 DEF DirOf
  <2>6. Reaches(data', E, req.path, p)
    <3>1. D \subseteq E
      BY DEF E
    <3>2. QED
      BY <1>2, <1>3, <2>2, <2>5, <3>1, ReachesLinked DEF p
  <2>7. DirOf(data', p)[k] = e /\ p \in E
    BY <2>2, <2>4 DEF E
  <2>8. k \in VisibleIn(DirOf(data', p))
    <3>1. ASSUME NEW j \in 0 .. k PROVE DirOf(data', p)[j] # End
      <4>1. j \in Indices /\ (j # k => j \in 0 .. k - 1)
        BY Prefix
      <4>2. j # k => DirOf(data', p)[j] = DirOf(data, p)[j]
        BY <2>2, <2>4, <4>1
      <4>3. QED
        BY <2>1, <2>3, <2>7, <4>1, <4>2
    <3>2. QED
      BY <2>3, <2>7, <3>1, VisibleAre
  <2>9. MkdirKnows(E)'
    <3>1. PICK d : d = p
      OBVIOUS
    <3>2. /\ d \in E /\ req.path \in Paths /\ Reaches(data', E, req.path, d) /\ k \in VisibleIn(DirOf(data', d))
          /\ DirOf(data', d)[k].name = StoredName[Leaf(req.path)] /\ DirOf(data', d)[k].dir
      BY <1>3, <2>3, <2>6, <2>7, <2>8, <3>1 DEF n
    <3>3. QED
      BY <1>1, <1>4, <3>2 DEF MkdirKnows
  <2>10. OverwriteKnows(E)'
    BY <1>1, <1>3, <1>4 DEF OverwriteKnows
  <2>11. QED
    BY <2>1, <2>2, <2>9, <2>10 DEF Knows, SuccessInv
<1>7. QED
  BY <1>2, <1>5, <1>6, MkdirEntryEnds

\* A sector's cluster and its place there, and the next one's.
LEMMA SectorPlace ==
  ASSUME NEW i \in Nat
  PROVE  /\ i \div SectorsPerCluster \in Nat /\ i % SectorsPerCluster \in Within
         /\ i = SectorsPerCluster * (i \div SectorsPerCluster) + (i % SectorsPerCluster)
<1>1. SectorsPerCluster \in Nat \ {0}
  BY Fat32Assumption
<1>2. i = SectorsPerCluster * (i \div SectorsPerCluster) + (i % SectorsPerCluster)
  BY <1>1
<1>3. i \div SectorsPerCluster \in Nat /\ i % SectorsPerCluster \in 0 .. SectorsPerCluster - 1
  BY <1>1
<1>4. QED
  BY <1>2, <1>3, Zenon DEF Within

\* The quotient and the remainder are the only ones.
LEMMA Division ==
  ASSUME NEW q \in Nat, NEW r \in Within, NEW a \in Nat, NEW b \in Within,
         SectorsPerCluster * q + r = SectorsPerCluster * a + b
  PROVE  q = a /\ r = b
<1> DEFINE s == SectorsPerCluster
<1>1. s \in Nat \ {0} /\ r \in 0 .. s - 1 /\ b \in 0 .. s - 1
  BY Fat32Assumption DEF Within
<1>2. s * q \in Nat /\ s * a \in Nat /\ s * q + r = s * a + b
  BY <1>1
<1> HIDE DEF s
<1>3. ~ (q < a)
  <2> SUFFICES ASSUME q < a PROVE FALSE
    OBVIOUS
  <2>1. s * q + s <= s * a
    BY <1>1, Bigger
  <2>2. QED
    BY <1>1, <1>2, <2>1
<1>4. ~ (a < q)
  <2> SUFFICES ASSUME a < q PROVE FALSE
    OBVIOUS
  <2>1. s * a + s <= s * q
    BY <1>1, Bigger
  <2>2. QED
    BY <1>1, <1>2, <2>1
<1>5. q = a
  BY <1>3, <1>4
<1>6. QED
  BY <1>1, <1>2, <1>5

LEMMA NextSector ==
  ASSUME NEW i \in Nat
  PROVE  /\ (i % SectorsPerCluster) + 1 = SectorsPerCluster =>
              /\ (i + 1) \div SectorsPerCluster = i \div SectorsPerCluster + 1
              /\ (i + 1) % SectorsPerCluster = 0
         /\ (i % SectorsPerCluster) + 1 # SectorsPerCluster =>
              /\ (i + 1) \div SectorsPerCluster = i \div SectorsPerCluster
              /\ (i + 1) % SectorsPerCluster = (i % SectorsPerCluster) + 1
<1> DEFINE s == SectorsPerCluster
           q == i \div s
           r == i % s
           a == (i + 1) \div s
           b == (i + 1) % s
<1>1. s \in Nat \ {0}
  BY Fat32Assumption
<1>2. q \in Nat /\ r \in Within /\ i = s * q + r
  BY SectorPlace
<1>3. a \in Nat /\ b \in Within /\ i + 1 = s * a + b
  BY SectorPlace
<1> HIDE DEF s, q, r, a, b
<1>4. r \in 0 .. s - 1 /\ s = SectorsPerCluster /\ Within = 0 .. s - 1
  BY <1>2 DEF Within, s
<1>5. CASE r + 1 = s
  <2>1. s * (q + 1) = s * q + s /\ s * q \in Nat
    BY <1>1, <1>2
  <2>2. s * (q + 1) + 0 = s * a + b
    BY <1>1, <1>2, <1>3, <1>4, <1>5, <2>1
  <2>3. q + 1 \in Nat /\ 0 \in Within
    BY <1>1, <1>2, <1>4
  <2>4. a = q + 1 /\ b = 0
    BY <1>3, <1>4, <2>2, <2>3, Division
  <2>5. QED
    BY <1>5, <2>4 DEF s, q, r, a, b
<1>6. CASE r + 1 # s
  <2>1. r + 1 \in Within /\ s * q \in Nat
    BY <1>1, <1>2, <1>4, <1>6
  <2>2. s * q + (r + 1) = s * a + b
    BY <1>1, <1>2, <1>3, <1>4, <2>1
  <2>3. a = q /\ b = r + 1
    BY <1>2, <1>3, <1>4, <2>1, <2>2, Division
  <2>4. QED
    BY <1>6, <2>3 DEF s, q, r, a, b
<1>7. QED
  BY <1>5, <1>6 DEF s, r

\* A sector of a file is in a cluster of its chain.
LEMMA InChain ==
  ASSUME NEW i \in Nat, NEW len \in Nat, i < len * SectorsPerCluster
  PROVE  ChainPos(i) \in 1 .. len
<1> DEFINE s == SectorsPerCluster
           q == i \div s
<1>1. s \in Nat \ {0}
  BY Fat32Assumption
<1>2. PICK r \in 0 .. s - 1 : q \in Nat /\ i = s * q + r
  BY SectorPlace DEF Within
<1> HIDE DEF q
<1>3. q < len
  <2> SUFFICES ASSUME len <= q PROVE FALSE
    BY <1>2
  <2>1. len * s <= q * s
    <3>1. CASE len = q
      <4>1. q * s \in Nat
        BY <1>1, <1>2
      <4>2. QED
        BY <3>1, <4>1
    <3>2. CASE len < q
      <4>1. len * s + s <= q * s
        BY <1>1, <1>2, <3>2, Bigger
      <4>2. len * s \in Nat /\ q * s \in Nat
        BY <1>1, <1>2
      <4>3. QED
        BY <1>1, <4>1, <4>2
    <3>3. QED
      BY <1>2, <3>1, <3>2
  <2>2. s * q = q * s /\ q * s \in Nat /\ len * s \in Nat
    BY <1>1, <1>2
  <2>3. QED
    BY <1>1, <1>2, <2>1, <2>2
<1>4. QED
  BY <1>2, <1>3 DEF ChainPos, q

\* A lookup finds one entry.
LEMMA FindsUnique ==
  ASSUME NEW fat, NEW dat, NEW D, Typed(fat, dat), D \subseteq OnDevice, NEW path \in Paths,
         NEW t \in NodesOf(dat, D), NEW u \in NodesOf(dat, D), Finds(dat, D, path, t), Finds(dat, D, path, u)
  PROVE  t = u
<1>1. t[1] = u[1]
  BY ReachesUnique DEF Finds
<1>2. t[2] = u[2]
  BY <1>1 DEF Finds
<1>3. t = <<t[1], t[2]>> /\ u = <<u[1], u[2]>>
  BY NodeIs
<1>4. QED
  BY <1>1, <1>2, <1>3

LEMMA OverwriteGoesOn ==
  ASSUME NEW D, SoundWith(D)', pc' \in OverwritePcs, ret' # "ok",
         faults' = 0 => \E t \in NodesOf(data', D) : Overwriting(D, t)'
  PROVE  Knows(D)'
<1>1. OverwriteKnows(D)'
  BY DEF OverwriteKnows, Overwriting
<1>2. pc' \notin MkdirPcs
  BY DEF MkdirPcs, OverwritePcs
<1>3. QED
  BY <1>1, <1>2 DEF Knows, MkdirKnows

LEMMA KnowsOverwriteBegin ==
  ASSUME NEW D \in SUBSET Clusters, SoundWith(D), SoundWith(D)', NEW q \in Requests, OverwriteBegin(q)
  PROVE  Knows(D)'
<1>1. q.size \in Nat
  BY RequestIs DEF OverwriteBegin
<1>2. CASE Refuse(q)
  <2>1. pc' = "idle" /\ ret' = "failed"
    BY <1>2 DEF Refuse, OverwriteBegin
  <2>2. QED
    BY <2>1, NothingKnown DEF MkdirPcs, OverwritePcs
<1>3. CASE ~Refuse(q)
  <2> DEFINE first == IF q.size = 0 THEN "overwrite_size" ELSE "overwrite_data"
             r == [NoReg EXCEPT !.cluster = Lookup(q.path).cluster]
  <2>1. Call(q, r, first) /\ IsFile(q.path)
    BY <1>3 DEF OverwriteBegin
  <2>2. /\ req' = q /\ ret' = "none" /\ pc' = first /\ reg' = r /\ fat1' = fat1 /\ data' = data
    BY <2>1 DEF Call, disk
  <2>3. r.index = 0 /\ r.sector = 0 /\ r.cluster = Lookup(q.path).cluster
    BY DEF NoReg
  <2>4. pc' \in OverwritePcs /\ (pc' = "overwrite_data" <=> q.size # 0)
    BY <2>2 DEF OverwritePcs
  <2> HIDE DEF first, r
  <2>5. PICK t \in NodesOf(data', D) : WritesTo(D, t)'
    BY <2>4 DEF SoundWith, Running, OverwriteRuns
  <2>6. /\ q.path \in Paths /\ Typed(fat1, data) /\ Sound(fat1, data, D) /\ D \subseteq OnDevice
        /\ t \in NodesOf(data, D) /\ Finds(data, D, q.path, t)
    BY <2>2, <2>5, RequestIs DEF WritesTo, SoundWith, Sound, DirsIn
  <2>7. Lookup(q.path) = EntOf(data, t)
    <3>1. Found(q.path)
      BY <2>1 DEF IsFile
    <3>2. /\ Finds(data, D, q.path, Locate(q.path)) /\ Locate(q.path) \in NodesOf(data, D)
          /\ Lookup(q.path) = EntOf(data, Locate(q.path))
      BY <2>6, <3>1, LocateFinds
    <3>3. QED
      BY <2>6, <3>2, FindsUnique
  <2>8. EntOf(data, t).cluster \in Clusters \cup {0}
    BY <2>6, NodeIs
  <2>9. AtSector(t)' \/ q.size = 0
    <3> SUFFICES ASSUME q.size # 0 PROVE AtSector(t)'
      OBVIOUS
    <3>1. r.cluster \in OwnedBy(fat1, data, t)
      BY <2>2, <2>4, <2>5 DEF WritesTo
    <3>2. EntOf(data, t).cluster \in Clusters
      <4>1. OwnedBy(fat1, data, t) # {}
        BY <3>1
      <4>2. QED
        BY <2>8, <4>1, ChainTypes DEF OwnedBy, ChainAt
    <3>3. ChainAt(fat1, data, t)[1] = EntOf(data, t).cluster
      BY <3>2, ChainFollows DEF ChainAt, Follows, From
    <3>4. 0 \div SectorsPerCluster = 0 /\ 0 % SectorsPerCluster = 0
      BY Fat32Assumption
    <3>5. ChainPos(0) = 1
      BY <3>4 DEF ChainPos
    <3>6. 0 < q.size
      BY <1>1
    <3>7. QED
      BY <2>2, <2>3, <2>7, <3>3, <3>4, <3>5, <3>6 DEF AtSector
  <2>10. Filled(fat1', data', t, reg'.index, req'.data)
    BY <2>2, <2>3 DEF Filled
  <2>11. Overwriting(D, t)'
    BY <2>2, <2>3, <2>4, <2>5, <2>9, <2>10 DEF Overwriting
  <2>12. QED
    BY <2>2, <2>4, <2>5, <2>11, OverwriteGoesOn
<1>4. QED
  BY <1>2, <1>3

LEMMA KnowsOverwriteCutShort ==
  ASSUME NEW D, SoundWith(D), SoundWith(D)', OverwriteCutShort
  PROVE  Knows(D)'
<1>1. pc' = "overwrite_size" /\ ret' = ret /\ faults' = faults + 1 /\ pc = "overwrite_data"
  BY DEF OverwriteCutShort, Fault
<1>2. ret = "none" /\ faults \in 0 .. MaxFaults
  BY <1>1, CallRunning DEF SoundWith, CallTypes
<1>3. pc' \in OverwritePcs /\ ret' # "ok" /\ faults' # 0
  BY <1>1, <1>2, Fat32Assumption DEF OverwritePcs
<1>4. QED
  BY <1>3, OverwriteGoesOn

LEMMA AdvancesIndex ==
  ASSUME NEW r \in Registers
  PROVE  Advance(r).index = r.index + 1
  BY DEF Advance, Registers

\* The links of a chain, as the data loop follows them.
LEMMA NextCluster ==
  ASSUME NEW fat, NEW dat, NEW D, Typed(fat, dat), D \subseteq OnDevice, NEW t \in NodesOf(dat, D), NEW i \in Nat,
         i + 1 < Len(ChainAt(fat, dat, t)) * SectorsPerCluster
  PROVE  LET s == ChainAt(fat, dat, t) IN
         /\ s[ChainPos(i + 1)] \in Clusters
         /\ (i % SectorsPerCluster) + 1 = SectorsPerCluster => fat[s[ChainPos(i)]] = s[ChainPos(i + 1)]
         /\ (i % SectorsPerCluster) + 1 # SectorsPerCluster => s[ChainPos(i)] = s[ChainPos(i + 1)]
<1> DEFINE c == EntOf(dat, t).cluster
           s == ChainAt(fat, dat, t)
<1>1. c \in Clusters \cup {0}
  BY NodeIs
<1>2. s \in Seq(Clusters) /\ s = ChainIn(fat, c)
  BY <1>1, ChainTypes DEF ChainAt
<1>3. i + 1 \in Nat /\ Len(s) \in Nat /\ i + 1 < Len(s) * SectorsPerCluster
  BY <1>2
<1> HIDE DEF s, c
<1>4. ChainPos(i + 1) \in 1 .. Len(s)
  BY <1>3, InChain
<1>5. c \in Clusters
  <2>1. s # <<>>
    BY <1>4
  <2>2. QED
    BY <1>1, <1>2, <2>1, ChainTypes
<1>6. Links(fat, s)
  BY <1>2, <1>5, ChainFollows DEF Follows, From
<1>7. CASE (i % SectorsPerCluster) + 1 = SectorsPerCluster
  <2>1. ChainPos(i + 1) = ChainPos(i) + 1 /\ ChainPos(i) \in Nat \ {0}
    BY <1>7, NextSector, SectorPlace DEF ChainPos
  <2>2. ChainPos(i) \in 1 .. Len(s) - 1
    BY <1>3, <1>4, <2>1
  <2>3. fat[s[ChainPos(i)]] = s[ChainPos(i + 1)]
    BY <1>6, <2>1, <2>2 DEF Links
  <2>4. QED
    BY <1>2, <1>4, <1>7, <2>3 DEF s
<1>8. CASE (i % SectorsPerCluster) + 1 # SectorsPerCluster
  <2>1. ChainPos(i + 1) = ChainPos(i)
    BY <1>8, NextSector DEF ChainPos
  <2>2. QED
    BY <1>2, <1>4, <1>8, <2>1 DEF s
<1>9. QED
  BY <1>7, <1>8

LEMMA KnowsOverwriteData ==
  ASSUME NEW D \in SUBSET Clusters, Knows(D), SoundWith(D)', OverwriteData
  PROVE  Knows(D)'
<1> DEFINE c == reg.cluster
           m == reg.sector
           x == reg.index
           lba == Lba(c) + m
<1>1. CASE WriteFails
  BY <1>1, NothingKnown DEF WriteFails, Return, MkdirPcs, OverwritePcs
<1>2. CASE /\ WriteSector(lba, FileSector(req.data))
           /\ reg' = Advance(reg)
           /\ pc' = IF reg'.index = req.size \/ reg'.cluster \notin Clusters
                      THEN "overwrite_size" ELSE pc
           /\ UNCHANGED <<req, ret, faults>>
  <2>1. /\ pc = "overwrite_data" /\ pc' \in OverwritePcs /\ pc \in OverwritePcs /\ pc # "idle"
    BY <1>2 DEF OverwriteData, OverwritePcs
  <2>2. /\ Typed(fat1, data) /\ Sound(fat1, data, D) /\ OverwriteRuns(D) /\ CallTypes
        /\ D \subseteq OnDevice /\ SoundWith(D) /\ ret = "none"
    BY <2>1, CallRunning DEF Knows, SoundWith, Running, Sound, DirsIn
  <2>3. ret' # "ok"
    BY <1>2, <2>2
  <2>4. ASSUME faults' = 0 PROVE \E t \in NodesOf(data', D) : Overwriting(D, t)'
    <3>1. PICK t \in NodesOf(data, D) : Overwriting(D, t)
      BY <1>2, <2>1, <2>4 DEF Knows, OverwriteKnows, Overwriting
    <3>2. /\ WritesTo(D, t) /\ x \in Nat /\ Filled(fat1, data, t, x, req.data) /\ AtSector(t)
      BY <2>1, <3>1 DEF Overwriting
    <3>3. /\ c \in OwnedBy(fat1, data, t) /\ m \in Within /\ ~EntOf(data, t).dir
          /\ Finds(data, D, req.path, t) /\ req.path \in Paths /\ req.size \in Nat
          /\ req.size <= Len(ChainAt(fat1, data, t)) * SectorsPerCluster
      BY <2>1, <2>2, <3>2 DEF WritesTo, OverwriteRuns
    <3>4. x < req.size /\ m = x % SectorsPerCluster /\ c = ChainAt(fat1, data, t)[ChainPos(x)]
      BY <3>2 DEF AtSector
    <3>5. EntOf(data, t).cluster \in Clusters \cup {0}
      BY <2>2, NodeIs
    <3>6. c \in Clusters \ D
      BY <2>2, <3>3, <3>5, FilesApart, ChainTypes DEF OwnedBy, ChainAt
    <3>7. reg \in Registers /\ fat1[c] \in 0 .. EndOfChain
      <4>1. reg \in Registers /\ fat1[c] \in FatEntry
        BY <2>2, <3>6 DEF CallTypes, Typed
      <4>2. QED
        BY <4>1, FatRange
    <3>8. /\ reg'.index = x + 1
          /\ (m + 1 # SectorsPerCluster => reg'.sector = m + 1 /\ reg'.cluster = c)
          /\ (m + 1 = SectorsPerCluster => reg'.sector = 0 /\ reg'.cluster = fat1[c])
      BY <1>2, <3>7, Advances, AdvancesIndex
    <3>9. /\ lba \in Sectors /\ data' = [data EXCEPT ![lba] = FileSector(req.data)] /\ fat1' = fat1
          /\ lba \in DOMAIN data
      BY <1>2, <2>2 DEF WriteSector, Typed
    <3> HIDE DEF c, m, x
    <3>10. Kept(fat1, data, fat1', data', D)
      BY <2>2, <3>3, <3>6, <3>9, WriteElsewhere DEF lba
    <3> HIDE DEF lba
    <3>11. /\ NodesOf(data', D) = NodesOf(data, D)
           /\ ChainAt(fat1', data', t) = ChainAt(fat1, data, t)
      BY <2>2, <3>10, KeptSound
    <3>12. Finds(data', D, req.path, t)
      <4>1. 0 \notin D /\ \A d \in D : DirOf(data', d) = DirOf(data, d)
        BY <3>10, NoCluster DEF Kept
      <4>2. QED
        BY <3>3, <4>1, FindsKept
    <3>13. WritesTo(D, t)'
      <4>1. PICK u \in NodesOf(data', D) : WritesTo(D, u)'
        BY <2>1 DEF SoundWith, Running, OverwriteRuns
      <4>2. Finds(data', D, req.path, u) /\ Typed(fat1', data')
        BY <1>2, <4>1 DEF WritesTo, SoundWith
      <4>3. t = u
        BY <2>2, <3>3, <3>11, <3>12, <4>1, <4>2, FindsUnique
      <4>4. QED
        BY <4>1, <4>3
    <3>14. Filled(fat1', data', t, x + 1, req.data)
      <4> SUFFICES ASSUME NEW i \in 0 .. (x + 1) - 1
                   PROVE  data'[Lba(ChainAt(fat1, data, t)[ChainPos(i)]) + (i % SectorsPerCluster)]
                            = FileSector(req.data)
        BY <3>11 DEF Filled
      <4> DEFINE at == Lba(ChainAt(fat1, data, t)[ChainPos(i)]) + (i % SectorsPerCluster)
      <4>1. i = x \/ i \in 0 .. x - 1
        BY <3>2
      <4>2. i = x => at = lba
        BY <3>4 DEF lba
      <4>3. i \in 0 .. x - 1 => data[at] = FileSector(req.data)
        BY <3>2 DEF Filled
      <4> HIDE DEF at
      <4>4. data'[at] = IF at = lba THEN FileSector(req.data) ELSE data[at]
        <5>1. CASE at = lba
          BY <3>9, <5>1
        <5>2. CASE at # lba
          BY <3>9, <5>2
        <5>3. QED
          BY <5>1, <5>2
      <4>5. QED
        BY <4>1, <4>2, <4>3, <4>4 DEF at
    <3>15. x + 1 # req.size =>
             /\ reg'.cluster = ChainAt(fat1, data, t)[ChainPos(x + 1)] /\ reg'.cluster \in Clusters
             /\ reg'.sector = (x + 1) % SectorsPerCluster /\ x + 1 < req.size
      <4> SUFFICES ASSUME x + 1 # req.size
                   PROVE  /\ reg'.cluster = ChainAt(fat1, data, t)[ChainPos(x + 1)] /\ reg'.cluster \in Clusters
                          /\ reg'.sector = (x + 1) % SectorsPerCluster /\ x + 1 < req.size
        OBVIOUS
      <4>1. x + 1 < req.size
        BY <3>2, <3>3, <3>4
      <4>2. Len(ChainAt(fat1, data, t)) * SectorsPerCluster \in Nat
        <5>1. Len(ChainAt(fat1, data, t)) \in Nat
          BY <3>5, ChainTypes DEF ChainAt
        <5>2. QED
          BY <5>1, Fat32Assumption
      <4>3. x + 1 < Len(ChainAt(fat1, data, t)) * SectorsPerCluster
        BY <3>2, <3>3, <4>1, <4>2
      <4>4. /\ ChainAt(fat1, data, t)[ChainPos(x + 1)] \in Clusters
            /\ m + 1 = SectorsPerCluster => fat1[c] = ChainAt(fat1, data, t)[ChainPos(x + 1)]
            /\ m + 1 # SectorsPerCluster => c = ChainAt(fat1, data, t)[ChainPos(x + 1)]
        BY <2>2, <3>2, <3>4, <4>3, NextCluster
      <4>5. /\ m + 1 = SectorsPerCluster => (x + 1) % SectorsPerCluster = 0
            /\ m + 1 # SectorsPerCluster => (x + 1) % SectorsPerCluster = m + 1
        BY <3>2, <3>4, NextSector
      <4>6. QED
        BY <3>8, <4>1, <4>4, <4>5
    <3>16. pc' = "overwrite_size" => reg'.index = req.size
      BY <1>2, <2>1, <3>8, <3>15
    <3>17. pc' = "overwrite_data" => AtSector(t)'
      <4> SUFFICES ASSUME pc' = "overwrite_data" PROVE AtSector(t)'
        OBVIOUS
      <4>1. x + 1 # req.size
        BY <1>2, <3>8
      <4>2. req' = req
        BY <1>2
      <4>3. QED
        BY <3>8, <3>11, <3>15, <4>1, <4>2 DEF AtSector
    <3>18. reg'.index \in Nat /\ Filled(fat1', data', t, reg'.index, req'.data)
      BY <1>2, <3>2, <3>8, <3>14
    <3>19. Overwriting(D, t)'
      BY <1>2, <3>13, <3>16, <3>17, <3>18 DEF Overwriting
    <3>20. QED
      BY <3>11, <3>19
  <2>5. QED
    BY <2>1, <2>3, <2>4, OverwriteGoesOn
<1>3. QED
  BY <1>1, <1>2 DEF OverwriteData

\* A new size leaves every lookup as it is.
LEMMA ResizedFinds ==
  ASSUME NEW fat, NEW dat, NEW datN, NEW D, Typed(fat, dat), Sound(fat, dat, D), NEW t \in NodesOf(dat, D), NEW e,
         e.kind = EntOf(dat, t).kind, e.name = EntOf(dat, t).name, e.dir = EntOf(dat, t).dir,
         e.cluster = EntOf(dat, t).cluster, e # End,
         \A d \in D : \A j \in Indices :
           DirOf(datN, d)[j] = IF d = t[1] /\ j = t[2] THEN e ELSE DirOf(dat, d)[j],
         NEW path \in Paths, Finds(dat, D, path, t)
  PROVE  Finds(datN, D, path, t)
<1>1. 0 \notin D /\ D \subseteq OnDevice
  BY NoCluster, DeviceClusters DEF Sound, DirsIn
<1>2. t[1] \in D /\ t[2] \in Indices /\ EntOf(dat, t) = DirOf(dat, t[1])[t[2]] /\ EntOf(dat, t).kind = "entry"
  BY <1>1, NodeIs DEF EntOf, EntryValue
<1>3. \A d \in D : \A j \in Indices :
        /\ DirOf(datN, d)[j].kind = DirOf(dat, d)[j].kind /\ DirOf(datN, d)[j].name = DirOf(dat, d)[j].name
        /\ DirOf(datN, d)[j].dir = DirOf(dat, d)[j].dir
        /\ DirOf(datN, d)[j].cluster = DirOf(dat, d)[j].cluster
        /\ DirOf(datN, d)[j] = End <=> DirOf(dat, d)[j] = End
  <2> SUFFICES ASSUME NEW d \in D, NEW j \in Indices
               PROVE  /\ DirOf(datN, d)[j].kind = DirOf(dat, d)[j].kind
                      /\ DirOf(datN, d)[j].name = DirOf(dat, d)[j].name
                      /\ DirOf(datN, d)[j].dir = DirOf(dat, d)[j].dir
                      /\ DirOf(datN, d)[j].cluster = DirOf(dat, d)[j].cluster
                      /\ DirOf(datN, d)[j] = End <=> DirOf(dat, d)[j] = End
    OBVIOUS
  <2>1. EntOf(dat, t) # End
    BY <1>2 DEF End
  <2>2. CASE d = t[1] /\ j = t[2]
    <3>1. DirOf(datN, d)[j] = e /\ DirOf(dat, d)[j] = EntOf(dat, t)
      BY <1>2, <2>2
    <3>2. QED
      BY <2>1, <3>1
  <2>3. CASE ~ (d = t[1] /\ j = t[2])
    <3>1. DirOf(datN, d)[j] = DirOf(dat, d)[j]
      BY <2>3
    <3>2. QED
      BY <3>1
  <2>4. QED
    BY <2>2, <2>3
<1>4. \A d \in D : \A name : NamedIn(datN, d, name) = NamedIn(dat, d, name)
  <2> TAKE d \in D
  <2> TAKE name
  <2>1. ASSUME NEW k \in Indices PROVE k \in NamedIn(datN, d, name) <=> k \in NamedIn(dat, d, name)
    <3>1. 0 .. k \subseteq Indices
      BY Prefix
    <3>2. (\A j \in 0 .. k : DirOf(datN, d)[j] # End) <=> (\A j \in 0 .. k : DirOf(dat, d)[j] # End)
      BY <1>3, <3>1
    <3>3. QED
      BY <1>3, <3>2, NamedAre
  <2>2. NamedIn(datN, d, name) \subseteq Indices /\ NamedIn(dat, d, name) \subseteq Indices
    <3>1. NamedIn(datN, d, name) \subseteq Indices
      BY NamedAre
    <3>2. NamedIn(dat, d, name) \subseteq Indices
      BY NamedAre
    <3>3. QED
      BY <3>1, <3>2
  <2>3. QED
    BY <2>1, <2>2
<1>5. \A d \in D \cup {0} : \A name : EnterIn(datN, d, name) = EnterIn(dat, d, name)
  <2> SUFFICES ASSUME NEW d \in D, NEW name PROVE EnterIn(datN, d, name) = EnterIn(dat, d, name)
    BY DEF EnterIn
  <2> DEFINE k == Least(NamedIn(dat, d, name))
  <2>1. k = Least(NamedIn(datN, d, name)) /\ (k >= 0 => k \in Indices)
    BY <1>4, NamedAre
  <2>2. k >= 0 => /\ DirOf(datN, d)[k].dir = DirOf(dat, d)[k].dir
                  /\ DirOf(datN, d)[k].cluster = DirOf(dat, d)[k].cluster
    BY <1>3, <2>1
  <2>3. EnterIn(dat, d, name)
          = IF d = 0 THEN 0 ELSE IF k >= 0 /\ DirOf(dat, d)[k].dir THEN DirOf(dat, d)[k].cluster ELSE 0
    BY DEF EnterIn
  <2>4. EnterIn(datN, d, name)
          = IF d = 0 THEN 0 ELSE IF k >= 0 /\ DirOf(datN, d)[k].dir THEN DirOf(datN, d)[k].cluster ELSE 0
    BY <2>1 DEF EnterIn
  <2> HIDE DEF k
  <2>5. QED
    BY <2>2, <2>3, <2>4
<1>6. Reaches(datN, D, path, t[1])
  <2> DEFINE n == Len(path) - 1
  <2>1. PICK w : Enters(dat, D, path, w, n) /\ w[n] = t[1]
    BY DEF Finds, Reaches
  <2>2. n \in Nat
    BY PathLength
  <2> HIDE DEF n
  <2>3. ASSUME NEW i \in 0 .. n, i # 0 PROVE w[i - 1] \in D \cup {0}
    <3>1. i - 1 \in 0 .. n
      BY <2>2, <2>3
    <3>2. QED
      BY <2>1, <3>1 DEF Enters
  <2>4. \A i \in 0 .. n : (IF i = 0 THEN Root ELSE EnterIn(dat, w[i - 1], path[i]))
                           = (IF i = 0 THEN Root ELSE EnterIn(datN, w[i - 1], path[i]))
    BY <1>5, <2>3
  <2>5. Enters(datN, D, path, w, n)
    BY <2>1, <2>4 DEF Enters
  <2>6. QED
    BY <2>1, <2>5 DEF Reaches, n
<1>7. QED
  BY <1>2, <1>4, <1>6 DEF Finds

LEMMA KnowsOverwriteSize ==
  ASSUME NEW D \in SUBSET Clusters, Knows(D), SoundWith(D)', OverwriteSize
  PROVE  Knows(D)'
<1> DEFINE l == Locate(req.path)
           p == Place(l[1], l[2])
<1>1. CASE WriteFails
  BY <1>1, NothingKnown DEF WriteFails, Return, MkdirPcs, OverwritePcs
<1>2. CASE /\ WriteSector(p[1], Overlay(p, [At(p) EXCEPT !.size = req.size]))
           /\ Return("ok") /\ UNCHANGED faults
  <2>1. /\ Typed(fat1, data) /\ Sound(fat1, data, D) /\ OverwriteRuns(D) /\ DirsIn(fat1, D)
        /\ D \subseteq OnDevice /\ pc = "overwrite_size" /\ pc \in OverwritePcs /\ pc # "overwrite_data"
    BY DEF OverwriteSize, Knows, SoundWith, Running, Sound, DirsIn, OverwritePcs
  <2>2. pc' = "idle" /\ ret' = "ok" /\ req' = req /\ faults' = faults /\ req.op = "overwrite"
    BY <1>2, <2>1 DEF Return, OverwriteRuns
  <2>3. ASSUME faults = 0
        PROVE  \E t \in NodesOf(data', D) :
                 /\ req.path \in Paths /\ Finds(data', D, req.path, t) /\ EntOf(data', t).size = req.size
                 /\ Filled(fat1', data', t, req.size, req.data)
    <3>1. PICK t \in NodesOf(data, D) : Overwriting(D, t)
      BY <2>1, <2>3 DEF Knows, OverwriteKnows, Overwriting
    <3>2. /\ Finds(data, D, req.path, t) /\ ~EntOf(data, t).dir /\ req.path \in Paths /\ req.size \in Nat
          /\ req.size <= Len(ChainAt(fat1, data, t)) * SectorsPerCluster
          /\ Filled(fat1, data, t, req.size, req.data)
      BY <2>1, <3>1 DEF Overwriting, WritesTo, OverwriteRuns
    <3>3. t[1] \in D /\ t[2] \in Indices /\ t = <<t[1], t[2]>> /\ EntOf(data, t) \in EntryValue
          /\ EntOf(data, t).name \notin {Dot, DotDot} /\ EntOf(data, t).cluster \in Clusters \cup {0}
      BY <2>1, NodeIs
    <3>4. l = t
      BY <2>1, <3>2, <3>3, FindsLocate
    <3>5. At(Place(t[1], t[2])) = EntOf(data, t)
      BY <2>1, <3>3, EntryRead
    <3> DEFINE e == [EntOf(data, t) EXCEPT !.size = req.size]
    <3>6. /\ e \in EntryValue /\ e.name = EntOf(data, t).name /\ e.kind = EntOf(data, t).kind
          /\ e.cluster = EntOf(data, t).cluster /\ e.dir = EntOf(data, t).dir /\ e.size = req.size
      BY <3>2, <3>3 DEF EntryValue
    <3>7. e # End
      BY <3>6 DEF EntryValue, End
    <3>8. WriteSector(Place(t[1], t[2])[1], Overlay(Place(t[1], t[2]), e))
      BY <1>2, <3>4, <3>5
    <3> HIDE DEF e
    <3>9. data' = Written(data, t[1], t[2], e) /\ fat1' = fat1
      BY <2>1, <3>3, <3>8, Overlaid
    <3>10. \A d \in OnDevice : \A j \in Indices :
             DirOf(data', d)[j] = IF d = t[1] /\ j = t[2] THEN e ELSE DirOf(data, d)[j]
      <4>1. t[1] \in OnDevice
        BY <2>1, <3>3
      <4>2. QED
        BY <2>1, <3>3, <3>9, <4>1, EntryWrite
    <3>11. \A d \in D : \A j \in Indices :
             DirOf(data', d)[j] = IF d = t[1] /\ j = t[2] THEN e ELSE DirOf(data, d)[j]
      BY <2>1, <3>10
    <3>12. Finds(data', D, req.path, t)
      BY <2>1, <3>2, <3>6, <3>7, <3>11, ResizedFinds
    <3>13. EntOf(data', t) = e
      BY <3>3, <3>11 DEF EntOf
    <3>14. ChainAt(fat1', data', t) = ChainAt(fat1, data, t)
      BY <3>6, <3>9, <3>13 DEF ChainAt
    <3>15. t \in NodesOf(data', D)
      <4>1. FileFits(fat1, e)
        BY <3>2, <3>6 DEF FileFits, ChainAt
      <4>2. NodesOf(Written(data, t[1], t[2], e), D) = NodesOf(data, D)
        BY <2>1, <3>3, <3>6, <4>1, EditSound
      <4>3. QED
        BY <3>9, <4>2
    <3>16. Filled(fat1', data', t, req.size, req.data)
      <4> SUFFICES ASSUME NEW i \in 0 .. req.size - 1
                   PROVE  data'[Lba(ChainAt(fat1, data, t)[ChainPos(i)]) + (i % SectorsPerCluster)]
                            = FileSector(req.data)
        BY <3>14 DEF Filled
      <4> DEFINE c == ChainAt(fat1, data, t)[ChainPos(i)]
                 m == i % SectorsPerCluster
      <4>1. data[Lba(c) + m] = FileSector(req.data)
        BY <3>2 DEF Filled
      <4>2. c \in OwnedBy(fat1, data, t) /\ c \in Clusters
        <5>1. ChainAt(fat1, data, t) \in Seq(Clusters)
          BY <3>3, ChainTypes DEF ChainAt
        <5>2. i \in Nat /\ Len(ChainAt(fat1, data, t)) \in Nat
              /\ i < Len(ChainAt(fat1, data, t)) * SectorsPerCluster
          <6>1. Len(ChainAt(fat1, data, t)) \in Nat /\ SectorsPerCluster \in Nat
            BY <5>1, Fat32Assumption
          <6>2. Len(ChainAt(fat1, data, t)) * SectorsPerCluster \in Nat
            BY <6>1
          <6>3. QED
            BY <3>2, <6>1, <6>2
        <5>3. ChainPos(i) \in 1 .. Len(ChainAt(fat1, data, t))
          BY <5>2, InChain
        <5>4. QED
          BY <5>1, <5>3 DEF OwnedBy, Range
      <4>3. c \notin D
        BY <2>1, <3>2, <4>2, FilesApart
      <4>4. m \in Within
        <5>1. i \in Nat
          BY <3>2
        <5>2. QED
          BY <5>1, SectorPlace
      <4> HIDE DEF c, m
      <4>5. Lba(c) + m # SectorOf(t[1], t[2])
        <5>1. t[2] \div SlotCount \in Within /\ t[1] \in Clusters
          BY <3>3, Placing
        <5>2. Lba(c) + m = Lba(t[1]) + t[2] \div SlotCount => c = t[1]
          BY <4>2, <4>4, <5>1, LbaApart
        <5>3. QED
          BY <3>3, <4>3, <5>2 DEF SectorOf
      <4>6. data'[Lba(c) + m] = data[Lba(c) + m]
        BY <3>9, <4>5 DEF Written
      <4>7. QED
        BY <4>1, <4>6 DEF c, m
    <3>17. QED
      BY <3>2, <3>12, <3>13, <3>6, <3>15, <3>16
  <2>4. OverwriteKnows(D)' /\ MkdirKnows(D)'
    BY <2>2, <2>3 DEF OverwriteKnows, MkdirKnows, MkdirPcs, OverwritePcs
  <2>5. QED
    BY <2>4 DEF Knows
<1>3. QED
  <2>1. Locate(req.path)[2] >= 0 /\ ~ (Locate(req.path)[2] < 0)
    BY FoundAgain DEF OverwriteSize, Knows, SoundWith, Running, OverwritePcs
  <2>2. QED
    BY <1>1, <1>2, <2>1 DEF OverwriteSize

LEMMA KnowsMkdirBegin ==
  ASSUME NEW D \in SUBSET Clusters, SoundWith(D), SoundWith(D)', NEW q \in Requests, q.path \in Seq(Names),
         MkdirBegin(q)
  PROVE  Knows(D)'
<1>1. CASE Refuse(q)
  <2>1. pc' = "idle" /\ ret' = "failed"
    BY <1>1 DEF Refuse, MkdirBegin
  <2>2. QED
    BY <2>1, NothingKnown DEF MkdirPcs, OverwritePcs
<1>2. CASE ~Refuse(q)
  <2> DEFINE parent == ParentCluster(q.path)
             r == [NoReg EXCEPT !.cluster = AllocCluster, !.dir = parent]
  <2>1. Call(q, r, "mkdir_fat1") /\ parent # 0
    BY <1>2 DEF MkdirBegin
  <2>2. /\ req' = q /\ ret' = "none" /\ pc' = "mkdir_fat1" /\ reg' = r /\ data' = data
    BY <2>1 DEF Call, disk
  <2>3. r.dir = parent
    BY DEF NoReg
  <2>4. Reaches(data, D, q.path, parent)
    BY RequestIs, ParentReached DEF SoundWith
  <2> HIDE DEF parent, r
  <2>5. MkdirKnows(D)'
    BY <2>2, <2>3, <2>4 DEF MkdirKnows
  <2>6. OverwriteKnows(D)'
    BY <2>2 DEF OverwriteKnows, OverwritePcs
  <2>7. QED
    BY <2>5, <2>6 DEF Knows
<1>3. QED
  BY <1>1, <1>2

\* The paths of mkdir have no . and no .. in them.  (One that has can pass the
\* directory it is written to and come back to it, and the new entry be found in the
\* place of an older one of that name.)
PlainMkdir == \A q \in Requests : q.op = "mkdir" => q.path \in Seq(Names)

LEMMA InitSuccessInv ==
  ASSUME Init, TreeSound
  PROVE  SuccessInv
<1>1. PICK D \in SUBSET Clusters : SoundWith(D)
  BY InitTreeInv DEF TreeInv
<1>2. pc = "idle" /\ ret = "none"
  BY DEF Init
<1>3. Knows(D)
  BY <1>1, <1>2 DEF Knows, MkdirKnows, OverwriteKnows, MkdirPcs, OverwritePcs
<1>4. QED
  BY <1>3 DEF SuccessInv

LEMMA NextSuccessInv ==
  ASSUME NoRemove, PlainMkdir, SuccessInv, [Next]_vars
  PROVE  SuccessInv'
<1>1. PICK D \in SUBSET Clusters : Knows(D)
  BY DEF SuccessInv
<1>2. SoundWith(D)
  BY <1>1 DEF Knows
<1>3. Knows(D)' => SuccessInv'
  BY DEF SuccessInv
<1>15. ASSUME (\E q \in Requests : BeginWrong(q)) \/ GoesWrong PROVE Knows(D)'
  <2>1. SoundWith(D)' /\ pc' \in WentWrong /\ ret' = "none"
    BY <1>2, <1>15, StepWrong, WrongStep
  <2>2. QED
    BY <2>1, NothingKnown DEF MkdirPcs, OverwritePcs, WentWrong
<1>4. CASE Begin
  <2>1. PICK q \in Requests : LookupFails(q) \/ BeginWrong(q) \/ MkdirBegin(q) \/ RenameBegin(q)
                              \/ OverwriteBegin(q) \/ RemoveBegin(q)
    BY <1>4 DEF Begin
  <2>2. ~RemoveBegin(q)
    BY DEF NoRemove, RemoveBegin
  <2>3. CASE LookupFails(q)
    <3>1. SoundWith(D)' /\ pc' = "idle" /\ ret' = "failed"
      BY <1>2, <2>3, StepLookupFails DEF LookupFails
    <3>2. QED
      BY <1>3, <3>1, NothingKnown DEF MkdirPcs, OverwritePcs
  <2>4. CASE MkdirBegin(q)
    BY <1>2, <1>3, <2>4, StepMkdirBegin, KnowsMkdirBegin DEF MkdirBegin, PlainMkdir
  <2>5. CASE RenameBegin(q)
    <3>1. SoundWith(D)' /\ pc' \in {"idle", "rename_entry"} /\ ret' # "ok"
      BY <1>2, <2>5, StepRenameBegin DEF RenameBegin, Call, Refuse
    <3>2. QED
      BY <1>3, <3>1, NothingKnown DEF MkdirPcs, OverwritePcs
  <2>6. CASE OverwriteBegin(q)
    BY <1>2, <1>3, <2>6, StepOverwriteBegin, KnowsOverwriteBegin
  <2>7. CASE BeginWrong(q)
    BY <1>3, <1>15, <2>7
  <2>8. QED
    BY <2>1, <2>2, <2>3, <2>4, <2>5, <2>6, <2>7
<1>5. CASE MkdirFat1 \/ MkdirFat2 \/ MkdirZero \/ MkdirDot \/ MkdirDotDot
  <2>1. SoundWith(D)'
    BY <1>2, <1>5, StepMkdirFat1, StepMkdirFat2, StepMkdirZero, StepMkdirDot, StepMkdirDotDot
  <2>2. QED
    BY <1>1, <1>3, <1>5, <2>1, KnowsMkdir
<1>6. CASE MkdirEntry
  BY <1>1, <1>6, KnowsMkdirEntry
<1>7. CASE RenameEntry
  <2>1. SoundWith(D)' /\ pc' = "idle" /\ req' = req
    BY <1>2, <1>7, StepEdit DEF RenameEntry, WriteFails, Return
  <2>2. req.op = "rename"
    BY <1>2, <1>7 DEF RenameEntry, SoundWith, Running, RenameRuns
  <2>3. QED
    BY <1>3, <2>1, <2>2, NothingKnown DEF MkdirPcs, OverwritePcs
<1>8. CASE OverwriteData
  BY <1>1, <1>2, <1>3, <1>8, StepOverwriteData, KnowsOverwriteData
<1>9. CASE OverwriteCutShort
  BY <1>2, <1>3, <1>9, StepOverwriteCutShort, KnowsOverwriteCutShort
<1>10. CASE OverwriteSize
  BY <1>1, <1>2, <1>3, <1>10, StepEdit, KnowsOverwriteSize
<1>11. CASE Remove
  BY <1>2, <1>11 DEF Remove, RemoveFat1, RemoveFat2, RemoveEntry, SoundWith, Running, MkdirPcs,
     OverwritePcs, WentWrong
<1>12. CASE Restart
  <2>1. SoundWith(D)' /\ pc' = "idle" /\ ret' = "stopped"
    BY <1>2, <1>12, ReturnsSame DEF Restart, FaultOrNot, Return
  <2>2. QED
    BY <1>3, <2>1, NothingKnown DEF MkdirPcs, OverwritePcs
<1>13. CASE UNCHANGED vars
  <2>1. /\ fat1' = fat1 /\ fat2' = fat2 /\ data' = data /\ req' = req /\ pc' = pc /\ reg' = reg
        /\ ret' = ret /\ faults' = faults
    BY <1>13 DEF vars
  <2>2. SoundWith(D)'
    BY <1>2, <2>1 DEF SoundWith, CallTypes, Running, MkdirRuns, Progress, RenameRuns, OverwriteRuns,
       WritesTo
  <2>3. MkdirKnows(D)'
    BY <1>1, <2>1 DEF Knows, MkdirKnows
  <2>4. OverwriteKnows(D)'
    BY <1>1, <2>1 DEF Knows, OverwriteKnows, Overwriting, WritesTo, AtSector
  <2>5. QED
    BY <1>3, <2>2, <2>3, <2>4 DEF Knows
<1>14. QED
  BY <1>3, <1>4, <1>5, <1>6, <1>7, <1>8, <1>9, <1>10, <1>11, <1>12, <1>13, <1>15
     DEF Next, Step, Mkdir, Overwrite, StaysWrong

LEMMA SuccessInvMeans == SuccessInv => SuccessIsTrue
<1> SUFFICES ASSUME SuccessInv PROVE MkdirLinks /\ OverwriteWrites
  BY DEF SuccessIsTrue
<1>1. PICK D \in SUBSET Clusters : Knows(D)
  BY DEF SuccessInv
<1>2. Typed(fat1, data) /\ Sound(fat1, data, D) /\ DirsIn(fat1, D) /\ D \subseteq OnDevice
  BY <1>1 DEF Knows, SoundWith, Sound, DirsIn
<1>3. MkdirLinks
  <2> SUFFICES ASSUME ret = "ok", req.op = "mkdir"
               PROVE  \E k \in Visible(ParentCluster(req.path)) :
                        /\ EntryAt(ParentCluster(req.path), k).name = StoredName[Leaf(req.path)]
                        /\ EntryAt(ParentCluster(req.path), k).dir
    BY DEF MkdirLinks
  <2>1. PICK d \in D :
          /\ req.path \in Paths /\ Reaches(data, D, req.path, d)
          /\ \E k \in VisibleIn(DirOf(data, d)) :
               DirOf(data, d)[k].name = StoredName[Leaf(req.path)] /\ DirOf(data, d)[k].dir
    BY <1>1 DEF Knows, MkdirKnows
  <2>2. PICK k \in VisibleIn(DirOf(data, d)) :
          DirOf(data, d)[k].name = StoredName[Leaf(req.path)] /\ DirOf(data, d)[k].dir
    BY <2>1
  <2>3. ParentCluster(req.path) = d
    BY <1>2, <2>1, ParentReached, ReachesUnique
  <2>4. Visible(d) = VisibleIn(DirOf(data, d)) /\ k \in Indices
    BY <1>2, DirectoryIs, VisibleAre DEF Visible
  <2>5. EntryAt(d, k) = DirOf(data, d)[k]
    BY <1>2, <2>4, DirectoryIs
  <2>6. QED
    BY <2>2, <2>3, <2>4, <2>5
<1>4. OverwriteWrites
  <2> SUFFICES ASSUME ret = "ok", req.op = "overwrite", faults = 0
               PROVE  /\ Lookup(req.path).size = req.size
                      /\ \A i \in 0 .. req.size - 1 :
                           data[Lba(Chain(Lookup(req.path).cluster)[i \div SectorsPerCluster + 1])
                                  + (i % SectorsPerCluster)] = FileSector(req.data)
    BY DEF OverwriteWrites
  <2>1. PICK t \in NodesOf(data, D) :
         /\ req.path \in Paths /\ Finds(data, D, req.path, t) /\ EntOf(data, t).size = req.size
         /\ Filled(fat1, data, t, req.size, req.data)
    BY <1>1 DEF Knows, OverwriteKnows
  <2>3. t[1] \in D /\ t[2] \in Indices /\ t = <<t[1], t[2]>>
    BY <1>2, NodeIs
  <2>4. Lookup(req.path) = EntOf(data, t)
    <3>1. Locate(req.path) = t
      BY <1>2, <2>1, <2>3, FindsLocate
    <3>2. QED
      BY <1>2, <2>3, <3>1, DirectoryIs DEF Lookup, EntryOf, EntOf
  <2>5. Chain(Lookup(req.path).cluster) = ChainAt(fat1, data, t)
    BY <2>4 DEF Chain, ChainAt
  <2>6. QED
    BY <2>1, <2>4, <2>5 DEF Filled, ChainPos
<1>5. QED
  BY <1>3, <1>4

\* Success means what it says: the directory mkdir made is where lookups of its path
\* see it, and without failures an overwrite wrote all its data and the size
\* (FAT32.h:355-413, 419-464).
THEOREM Fat32SuccessIsTrue ==
  ASSUME NoRemove, PlainMkdir
  PROVE  Spec /\ TreeSound => []SuccessIsTrue
<1>1. Init /\ TreeSound => SuccessInv
  BY InitSuccessInv
<1>2. SuccessInv /\ [Next]_vars => SuccessInv'
  BY NextSuccessInv
<1>3. SuccessInv => SuccessIsTrue
  BY SuccessInvMeans
<1>4. QED
  BY <1>1, <1>2, <1>3, PTL DEF Spec

-----------------------------------------------------------------------------
(***************************************************************************)
(* What is lost.  The invariant holds with the directories of the tree:    *)
(* they grow by the one that mkdir links, and nothing leaves the tree.     *)
(***************************************************************************)
\* An entry of the tree stays one, and leads to the same clusters.
Stays(t) ==
  /\ IsNode(EntOf(data', t)) /\ EntOf(data', t) # End
  /\ EntOf(data', t).dir = EntOf(data, t).dir /\ EntOf(data', t).cluster = EntOf(data, t).cluster
  /\ \A c \in OwnedBy(fat1, data, t) : fat1'[c] = fat1[c]

LEMMA EditStays ==
  ASSUME NEW D \in SUBSET Clusters, SoundWith(D), NEW t \in NodesOf(data, D),
         NEW u \in NodesOf(data, D), NEW e \in EntryValue, Edits(D, u, e)
  PROVE  Stays(t)
<1>1. Typed(fat1, data) /\ DirsIn(fat1, D) /\ D \subseteq OnDevice
  BY DEF SoundWith, Sound, DirsIn
<1>2. /\ t[1] \in D /\ t[2] \in Indices /\ t = <<t[1], t[2]>> /\ EntOf(data, t) \in EntryValue
      /\ EntOf(data, t).name \notin {Dot, DotDot}
  BY <1>1, NodeIs
<1>3. u[1] \in D /\ u[2] \in Indices /\ u = <<u[1], u[2]>>
  BY <1>1, NodeIs
<1>4. data' = Written(data, u[1], u[2], e) /\ fat1' = fat1
  BY <1>1, <1>3, Overlaid DEF Edits
<1>5. DirOf(data', t[1])[t[2]] = IF t[1] = u[1] /\ t[2] = u[2] THEN e ELSE DirOf(data, t[1])[t[2]]
  BY <1>1, <1>2, <1>3, <1>4, EntryWrite
<1>6. EntOf(data', t) = IF t = u THEN e ELSE EntOf(data, t)
  BY <1>2, <1>3, <1>5 DEF EntOf
<1>7. IsNode(e) /\ IsNode(EntOf(data, t)) /\ e # End /\ EntOf(data, t) # End
  BY <1>2 DEF Edits, EntryValue, IsNode, End
<1>8. QED
  BY <1>4, <1>6, <1>7 DEF Stays, Edits

LEMMA SparedStays ==
  ASSUME NEW D \in SUBSET Clusters, SoundWith(D), NEW t \in NodesOf(data, D),
         Spared(fat1, data, fat1', data', t)
  PROVE  Stays(t)
<1>1. EntOf(data, t) \in EntryValue /\ EntOf(data, t).name \notin {Dot, DotDot}
  BY NodeIs DEF SoundWith, Sound, DirsIn
<1>2. IsNode(EntOf(data, t)) /\ EntOf(data, t) # End
  BY <1>1 DEF EntryValue, IsNode, End
<1>3. QED
  BY <1>2 DEF Spared, Stays

LEMMA NothingLeaves ==
  ASSUME NoRemove, NEW D \in SUBSET Clusters, SoundWith(D), [Next]_vars, NEW t \in NodesOf(data, D)
  PROVE  Stays(t)
<1>1. CASE t \notin Targets \/ (fat1' = fat1 /\ data' = data)
  BY <1>1, StepSpares, NothingSpares, SparedStays
<1>2. CASE RenameEntry \/ OverwriteSize
  <2>1. CASE WriteFails
    BY <1>1, <2>1 DEF WriteFails, disk
  <2>2. QED
    BY <1>2, <2>1, RenameEdits, SizeEdits, EditStays
<1>3. CASE OverwriteData
  <2>1. Typed(fat1, data) /\ Sound(fat1, data, D) /\ OverwriteRuns(D) /\ D \subseteq OnDevice
    BY <1>3 DEF OverwriteData, SoundWith, Running, OverwritePcs, Sound, DirsIn
  <2>2. PICK u \in NodesOf(data, D) : WritesTo(D, u)
    BY <2>1 DEF OverwriteRuns
  <2>3. reg.cluster \in OwnedBy(fat1, data, u) /\ reg.sector \in Within /\ ~EntOf(data, u).dir
    BY <1>3, <2>2 DEF WritesTo, OverwriteData
  <2>4. reg.cluster \in Clusters \ D
    <3>1. EntOf(data, u).cluster \in Clusters \cup {0}
      BY <2>1, NodeIs
    <3>2. QED
      BY <2>1, <2>3, <3>1, FilesApart, ChainTypes DEF OwnedBy, ChainAt
  <2>5. CASE WriteSector(Lba(reg.cluster) + reg.sector, FileSector(req.data))
    <3> DEFINE datN == [data EXCEPT ![Lba(reg.cluster) + reg.sector] = FileSector(req.data)]
    <3>1. Kept(fat1, data, fat1, datN, D)
      BY <2>1, <2>3, <2>4, WriteElsewhere
    <3>2. data' = datN /\ fat1' = fat1
      BY <2>5 DEF WriteSector
    <3> HIDE DEF datN
    <3>3. EntOf(data', t) = EntOf(data, t)
      BY <2>1, <3>1, <3>2, NodeIs DEF Kept, EntOf
    <3>4. EntOf(data, t) \in EntryValue /\ EntOf(data, t).name \notin {Dot, DotDot}
      BY <2>1, NodeIs
    <3>5. QED
      BY <3>2, <3>3, <3>4 DEF Stays, EntryValue, IsNode, End
  <2>6. QED
    BY <1>1, <1>3, <2>5 DEF OverwriteData, WriteFails, disk
<1>4. CASE t \in Targets /\ ~(fat1' = fat1 /\ data' = data)
  <2>1. pc \in {"rename_entry", "overwrite_data", "overwrite_size"}
    BY <1>4 DEF Targets, SoundWith, Running, MkdirRuns, MkdirPcs, OverwritePcs
  <2>2. ~Begin /\ ~Mkdir /\ ~Remove
    BY <2>1 DEF Begin, LookupFails, BeginWrong, MkdirBegin, RenameBegin, OverwriteBegin, RemoveBegin,
       Mkdir, MkdirFat1, MkdirFat2, MkdirZero, MkdirDot, MkdirDotDot, MkdirEntry,
       Remove, RemoveFat1, RemoveFat2, RemoveEntry
  <2>3. ~GoesWrong /\ ~Restart /\ ~UNCHANGED vars /\ ~OverwriteCutShort
    BY <1>4, WrongStep DEF Restart, OverwriteCutShort, vars, disk
  <2>4. QED
    BY <1>2, <1>3, <2>2, <2>3 DEF Next, Step, Overwrite, StaysWrong
<1>5. QED
  BY <1>1, <1>4

\* Where the marks come last, every named entry is seen.
LEMMA NamedSeen ==
  ASSUME NEW dat, NEW D, MarksLast(dat, D), NEW d \in D, NEW k \in Indices, IsNode(DirOf(dat, d)[k])
  PROVE  <<d, k>> \in NodesOf(dat, D)
<1> DEFINE es == DirOf(dat, d)
<1>1. es[k] # End /\ IsNode(es[k])
  BY DEF IsNode, End
<1>2. \A j \in 1 .. PerCluster - 1 : es[j - 1] = End => es[j] = End
  BY DEF MarksLast
<1> HIDE DEF es
<1>3. ASSUME NEW i \in 0 .. k, es[i] = End PROVE FALSE
  <2> DEFINE After == {m \in Nat : i + m \in Indices => es[i + m] = End}
  <2>1. i \in Nat /\ PerCluster \in Nat /\ k \in Nat /\ i <= k
    BY Prefix, IndicesAre
  <2>2. 0 \in After
    BY <1>3, <2>1
  <2>3. ASSUME NEW m \in Nat, m \in After PROVE m + 1 \in After
    <3> SUFFICES ASSUME i + (m + 1) \in Indices PROVE es[i + (m + 1)] = End
      OBVIOUS
    <3>1. i + m \in Indices /\ i + (m + 1) \in 1 .. PerCluster - 1 /\ (i + (m + 1)) - 1 = i + m
      BY <2>1 DEF Indices
    <3>2. es[i + m] = End
      BY <2>3, <3>1
    <3>3. QED
      BY <1>2, <3>1, <3>2
  <2>4. Nat \subseteq After
    <3> HIDE DEF After
    <3>1. QED
      BY <2>2, <2>3, SetInduction
  <2>5. k - i \in Nat /\ i + (k - i) = k
    BY <2>1
  <2>6. QED
    BY <1>1, <2>4, <2>5
<1>4. k \in VisibleIn(DirOf(dat, d))
  BY <1>1, <1>3, VisibleAre DEF es
<1>5. QED
  BY <1>4 DEF NodesOf

\* What a lookup sees in directories that still hold all their entries.
LEMMA NodesStay ==
  ASSUME NEW dat, NEW datN, NEW D, NEW E \in SUBSET OnDevice, D \subseteq E, MarksLast(datN, E),
         NEW t \in NodesOf(dat, D), IsNode(EntOf(datN, t)), EntOf(datN, t) # End
  PROVE  t \in NodesOf(datN, E)
<1>1. t[1] \in E /\ t[2] \in Indices /\ t = <<t[1], t[2]>>
  BY DEF NodesOf
<1>2. QED
  BY <1>1, NamedSeen DEF EntOf

\* An entry of a directory of the tree that is a directory leads to one of the tree.
LEMMA DirectoryLed ==
  \A D : Sound(fat1, data, D) => \A t \in NodesOf(data, D) :
    t[1] \in Directories /\ EntOf(data, t).dir => EntOf(data, t).cluster \in Directories
<1> SUFFICES ASSUME NEW D, Sound(fat1, data, D), NEW t \in NodesOf(data, D),
                    t[1] \in Directories, EntOf(data, t).dir
             PROVE  EntOf(data, t).cluster \in Directories
  OBVIOUS
<1> DEFINE c == EntOf(data, t).cluster
<1>1. DirsIn(fat1, D) /\ c \in D /\ t[1] \in D /\ t[2] \in Indices
      /\ t[2] \in VisibleIn(DirOf(data, t[1]))
  BY DEF Sound, DirsWhole, NodesOf
<1>2. t[1] \in OnDevice /\ c \in Clusters
  BY <1>1, DeviceClusters DEF DirsIn
<1>3. c \in SubdirsIn(Entries(t[1]))
  BY <1>1, DirectoryIs DEF SubdirsIn, EntOf
<1> HIDE DEF c
<1>4. <<t[1], c>> \in Leads /\ <<t[1], c>>[1] = t[1] /\ <<t[1], c>>[2] = c
  BY <1>2, <1>3 DEF Leads
<1>5. \A S \in SUBSET Clusters : ClosedUnder(Leads, S) => t[1] \in S
  BY DirectoriesAre
<1>6. \A S \in SUBSET Clusters : ClosedUnder(Leads, S) => c \in S
  BY <1>4, <1>5 DEF ClosedUnder
<1>7. QED
  BY <1>2, <1>6, DirectoriesAre DEF c

LEMMA DirectoriesLeast ==
  \A D, S : Sound(fat1, data, D) /\ Root \in S
            /\ (\A t \in NodesOf(data, D) : t[1] \in S /\ EntOf(data, t).dir => EntOf(data, t).cluster \in S)
            => Directories \subseteq S
<1> SUFFICES ASSUME NEW D, NEW S, Sound(fat1, data, D), Root \in S,
                    \A t \in NodesOf(data, D) :
                      t[1] \in S /\ EntOf(data, t).dir => EntOf(data, t).cluster \in S
             PROVE  Directories \subseteq S
  OBVIOUS
<1>1. DirsIn(fat1, D) /\ D \subseteq Clusters
  BY DeviceClusters DEF Sound, DirsIn
<1>2. ASSUME NEW l \in Leads, l[1] \in D \cap S PROVE l[2] \in D \cap S
  <2>1. PICK d \in OnDevice : l \in {d} \X (SubdirsIn(Entries(d)) \cap Clusters)
    BY DEF Leads
  <2>2. l[1] = d /\ l[2] \in SubdirsIn(Entries(d)) /\ d \in D /\ d \in S
    BY <1>2, <2>1
  <2>3. Entries(d) = DirOf(data, d)
    BY <1>1, <2>2, DirectoryIs
  <2>4. PICK k \in VisibleIn(DirOf(data, d)) :
          DirOf(data, d)[k].dir /\ l[2] = DirOf(data, d)[k].cluster
    BY <2>2, <2>3 DEF SubdirsIn
  <2>5. k \in Indices
    BY VisibleAre
  <2>6. /\ <<d, k>> \in NodesOf(data, D) /\ EntOf(data, <<d, k>>) = DirOf(data, d)[k]
        /\ <<d, k>>[1] = d
    BY <2>2, <2>4, <2>5 DEF NodesOf, EntOf
  <2>7. QED
    BY <2>2, <2>4, <2>6 DEF Sound, DirsWhole
<1>3. ClosedUnder(Leads, D \cap S)
  BY <1>1, <1>2 DEF ClosedUnder, DirsIn
<1>4. QED
  BY <1>1, <1>3, DirectoriesAre

\* What is held, with the directories of the tree.
HeldWith(D) == {Root} \cup InFlight \cup UNION {OwnedBy(fat1, data, t) : t \in NodesOf(data, D)}

LEMMA HeldIs ==
  \A D : Typed(fat1, data) /\ Sound(fat1, data, D) /\ D = Directories => Held = HeldWith(D)
<1> SUFFICES ASSUME NEW D, Typed(fat1, data), Sound(fat1, data, D), D = Directories
             PROVE  Held = HeldWith(D)
  OBVIOUS
<1>1. ASSUME NEW t \in NodesOf(data, D) PROVE t \in Tree
  <2>1. t[1] \in D /\ t[2] \in VisibleIn(DirOf(data, t[1])) /\ t = <<t[1], t[2]>> /\ DirsIn(fat1, D)
    BY DEF NodesOf, Sound
  <2>2. t[2] \in Visible(t[1])
    BY <2>1, DirectoryIs DEF Visible
  <2>3. t \in {<<t[1], k>> : k \in Visible(t[1])}
    BY <2>1, <2>2
  <2>4. QED
    BY <2>1, <2>3 DEF Tree
<1>2. \A t \in Tree : t \in NodesOf(data, D) /\ ChainOf(t) = OwnedBy(fat1, data, t)
  BY TreeIs
<1>3. UNION {ChainOf(t) : t \in Tree} = UNION {OwnedBy(fat1, data, t) : t \in NodesOf(data, D)}
  BY <1>1, <1>2
<1>4. QED
  BY <1>3 DEF Held, HeldWith

\* What is known of the directories of the tree, in this state and in the next.
TreeFacts ==
  /\ Root \in Directories /\ Directories \subseteq Clusters
  /\ \A D : Sound(fat1, data, D) => \A t \in NodesOf(data, D) :
       t[1] \in Directories /\ EntOf(data, t).dir => EntOf(data, t).cluster \in Directories
  /\ \A D, S : Sound(fat1, data, D) /\ Root \in S
            /\ (\A t \in NodesOf(data, D) : t[1] \in S /\ EntOf(data, t).dir => EntOf(data, t).cluster \in S)
            => Directories \subseteq S
  /\ \A D : Typed(fat1, data) /\ Sound(fat1, data, D) /\ D = Directories => Held = HeldWith(D)

LEMMA TreeFactsNow == TreeFacts
<1>1. Root \in Directories
  <2>1. Root \in Clusters
    BY Fat32Assumption DEF Clusters, Root
  <2>2. QED
    BY <2>1, DirectoriesAre DEF ClosedUnder
<1>2. QED
  BY <1>1, DirectoriesAre, DirectoryLed, DirectoriesLeast, HeldIs DEF TreeFacts

LEMMA TreeFactsNext == TreeFacts'
  BY TreeFactsNow, PTL

LeastInv == \E D \in SUBSET Clusters : SoundWith(D) /\ D = Directories

\* A step from a sound volume with the directories D to one with the directories E.
Grows(D, E) ==
  /\ SoundWith(E)' /\ D \subseteq E
  /\ E = D \/ \E k \in Indices, c \in Clusters : MkdirEntry /\ LinkedAt(k, c, D) /\ E = D \cup {c}

\* The entry that mkdir links is in the tree.
LEMMA LinkedNode ==
  ASSUME NEW D \in SUBSET Clusters, SoundWith(D), MkdirEntry,
         NEW k \in Indices, NEW c \in Clusters, LinkedAt(k, c, D)
  PROVE  LET t == <<reg.dir, k>> IN
         /\ t \in NodesOf(data', D \cup {c}) /\ reg.dir \in D
         /\ EntOf(data', t).dir /\ EntOf(data', t).cluster = c
<1> DEFINE p == reg.dir
           n == StoredName[Leaf(req.path)]
           e == Entry(n, c, TRUE, 0)
           E == D \cup {c}
<1>1. Typed(fat1, data) /\ D \subseteq OnDevice /\ p \in D /\ req.path \in Paths
  BY DEF MkdirEntry, SoundWith, Running, MkdirPcs, MkdirRuns, Sound, DirsIn
<1>2. SoundWith(E)' /\ data' = Written(data, p, k, e)
  BY DEF LinkedAt
<1>3. MarksLast(data', E) /\ E \subseteq OnDevice
  BY <1>2 DEF SoundWith, Sound, DirsIn
<1>4. IsNode(e) /\ e # End /\ e.dir /\ e.cluster = c
  <2>1. n \in Names
    BY <1>1, PathLength, Fat32Assumption
  <2>2. QED
    BY <2>1, Fat32Assumption DEF IsNode, Entry, End
<1> HIDE DEF n, e, E
<1>5. DirOf(data', p)[k] = e
  BY <1>1, <1>2, EntryWrite
<1>6. /\ <<p, k>>[1] = p /\ <<p, k>>[2] = k /\ EntOf(data', <<p, k>>) = e
  BY <1>5 DEF EntOf
<1>7. \A j \in 0 .. k : DirOf(data', p)[j] # End
  <2> TAKE j \in 0 .. k
  <2>1. j \in Indices /\ (j = k \/ j \in 0 .. k - 1)
    BY Prefix
  <2>2. CASE j = k
    BY <1>4, <1>5, <2>2
  <2>3. CASE j \in 0 .. k - 1
    <3>1. j # k
      BY <2>3, Prefix
    <3>2. DirOf(data', p)[j] = DirOf(data, p)[j]
      BY <1>1, <1>2, <2>1, <3>1, EntryWrite
    <3>3. DirOf(data, p)[j] # End
      BY <2>3 DEF LinkedAt
    <3>4. QED
      BY <3>2, <3>3
  <2>4. QED
    BY <2>1, <2>2, <2>3
<1>8. k \in VisibleIn(DirOf(data', p))
  BY <1>4, <1>5, <1>7, VisibleAre
<1>9. <<p, k>> \in NodesOf(data', E)
  BY <1>1, <1>6, <1>8 DEF NodesOf, E
<1>10. QED
  BY <1>1, <1>4, <1>6, <1>9 DEF E

LEMMA StepGrows ==
  ASSUME NoRemove, NEW D \in SUBSET Clusters, SoundWith(D), [Next]_vars
  PROVE  \E E \in SUBSET Clusters : Grows(D, E)
<1>1. CASE SoundWith(D)'
  BY <1>1 DEF Grows
<1>2. ASSUME NEW k \in Indices, NEW c \in Clusters, MkdirEntry, LinkedAt(k, c, D)
      PROVE  \E E \in SUBSET Clusters : Grows(D, E)
  <2>1. PICK E \in SUBSET Clusters : E = D \cup {c}
    OBVIOUS
  <2>2. Grows(D, E)
    BY <1>2, <2>1 DEF Grows, LinkedAt
  <2>3. QED
    BY <2>2
<1>3. QED
  BY <1>1, <1>2, NextSound

\* The entries and the directories of the tree are kept.
LEMMA TreeGrows ==
  ASSUME NoRemove, NEW D \in SUBSET Clusters, SoundWith(D), D = Directories, [Next]_vars,
         NEW E \in SUBSET Clusters, Grows(D, E)
  PROVE  /\ E = Directories'
         /\ \A t \in NodesOf(data, D) : /\ t \in NodesOf(data', E) /\ Stays(t)
                                        /\ OwnedBy(fat1', data', t) = OwnedBy(fat1, data, t)
<1>1. /\ Typed(fat1, data) /\ Sound(fat1, data, D) /\ D \subseteq OnDevice
      /\ Typed(fat1', data') /\ Sound(fat1', data', E) /\ E \subseteq OnDevice /\ D \subseteq E
  BY DEF SoundWith, Sound, DirsIn, Grows
<1>2. ASSUME NEW t \in NodesOf(data, D)
      PROVE  /\ t \in NodesOf(data', E) /\ Stays(t) 
             /\ OwnedBy(fat1', data', t) = OwnedBy(fat1, data, t)
  <2>1. Stays(t)
    BY NothingLeaves
  <2>2. MarksLast(data', E)
    BY <1>1 DEF Sound
  <2>3. t \in NodesOf(data', E)
    BY <1>1, <2>1, <2>2, NodesStay DEF Stays
  <2>4. EntOf(data, t).cluster \in Clusters \cup {0}
    BY <1>1, NodeIs
  <2>5. ChainIn(fat1', EntOf(data, t).cluster) = ChainIn(fat1, EntOf(data, t).cluster)
    BY <2>1, <2>4, ChainSame DEF Stays, OwnedBy, ChainAt
  <2>6. OwnedBy(fat1', data', t) = OwnedBy(fat1, data, t)
    BY <2>1, <2>5 DEF Stays, OwnedBy, ChainAt
  <2>7. QED
    BY <2>1, <2>3, <2>6
<1> DEFINE S == Directories'
<1>3. Root \in S /\ S \subseteq Clusters
  BY TreeFactsNext DEF TreeFacts
<1>4. \A t \in NodesOf(data', E) : t[1] \in S /\ EntOf(data', t).dir => EntOf(data', t).cluster \in S
  BY <1>1, TreeFactsNext DEF TreeFacts
<1>5. S \subseteq E
  <2>1. Root \in E /\ \A t \in NodesOf(data', E) :
                        t[1] \in E /\ EntOf(data', t).dir => EntOf(data', t).cluster \in E
    BY <1>1 DEF Sound, DirsIn, DirsWhole
  <2>2. QED
    BY <1>1, <2>1, TreeFactsNext DEF TreeFacts
<1>6. D \subseteq S
  <2>1. \A t \in NodesOf(data, D) : t[1] \in S /\ EntOf(data, t).dir => EntOf(data, t).cluster \in S
    BY <1>2, <1>4 DEF Stays
  <2> HIDE DEF S
  <2>2. Directories \subseteq S
    BY <1>1, <1>3, <2>1, DirectoriesLeast
  <2>3. QED
    BY <2>2
<1>7. E \subseteq S
  <2>1. ASSUME NEW k \in Indices, NEW c \in Clusters, MkdirEntry, LinkedAt(k, c, D), E = D \cup {c}
        PROVE  c \in S
    <3>1. PICK t : t = <<reg.dir, k>>
      OBVIOUS
    <3>2. t \in NodesOf(data', E) /\ t[1] \in D /\ EntOf(data', t).dir /\ EntOf(data', t).cluster = c
      BY <2>1, <3>1, LinkedNode
    <3>3. QED
      BY <1>4, <1>6, <3>2
  <2>2. QED
    BY <1>6, <2>1 DEF Grows
<1>8. QED
  BY <1>2, <1>5, <1>7

LEMMA InitLeastInv ==
  ASSUME Init, TreeSound
  PROVE  LeastInv
  BY InitSound DEF LeastInv

LEMMA NextLeastInv ==
  ASSUME NoRemove, LeastInv, [Next]_vars
  PROVE  LeastInv'
<1>1. PICK D \in SUBSET Clusters : SoundWith(D) /\ D = Directories
  BY DEF LeastInv
<1>2. PICK E \in SUBSET Clusters : Grows(D, E)
  BY <1>1, StepGrows
<1>3. E = Directories' /\ SoundWith(E)'
  BY <1>1, <1>2, TreeGrows DEF Grows
<1>4. QED
  BY <1>3 DEF LeastInv

\* What becomes of the FAT: mkdir marks a cluster, and nothing else is written.
LEMMA StepMarks ==
  ASSUME NoRemove, NEW D, SoundWith(D), [Next]_vars, NEW c \in Clusters, fat1[c] = FreeCluster,
         fat1'[c] # FreeCluster
  PROVE  c \in InFlight'
<1>1. CASE fat1' = fat1
  BY <1>1
<1>2. CASE MkdirFat1 /\ ~WriteFails
  <2>1. /\ fat1' = [fat1 EXCEPT ![reg.cluster] = EndOfChain] /\ fat1 \in [Clusters -> FatEntry]
        /\ pc' = "mkdir_fat2" /\ reg' = reg
    BY <1>2 DEF MkdirFat1, WriteFat1, Goto, SoundWith, Typed
  <2>2. c = reg.cluster
    BY <2>1
  <2>3. QED
    BY <2>1, <2>2 DEF InFlight
<1>3. ~RemoveFat1
  BY DEF RemoveFat1, SoundWith, Running, MkdirPcs, OverwritePcs, WentWrong
<1>4. fat1' = fat1 \/ MkdirFat1 \/ RemoveFat1
  BY WrongStep DEF Next, StaysWrong, Begin, Step, Mkdir, Overwrite, Remove, Restart, vars, disk,
     LookupFails, MkdirBegin, RenameBegin, OverwriteBegin, RemoveBegin, Refuse, Call,
     MkdirFat2, MkdirZero, MkdirDot, MkdirDotDot, MkdirEntry, RenameEntry, OverwriteData,
     OverwriteCutShort, OverwriteSize, RemoveFat2, RemoveEntry, WriteFat2, WriteDirEntry, WriteSector,
     WriteFails
<1>5. QED
  BY <1>1, <1>2, <1>3, <1>4 DEF WriteFails, disk

\* A cluster in flight stays so until the call fails or links it.
LEMMA StepFlies ==
  ASSUME NEW D \in SUBSET Clusters, SoundWith(D), [Next]_vars, NEW c \in InFlight, c \notin InFlight'
  PROVE  ret' \in {"failed", "stopped"} \/ (MkdirEntry /\ ret' = "ok" /\ c = reg.cluster)
<1>1. /\ pc \in {"mkdir_fat2", "mkdir_zero", "mkdir_dot", "mkdir_dotdot", "mkdir_entry"} \cup WentWrong
      /\ c = reg.cluster /\ reg \in Registers
  BY DEF InFlight, SoundWith, CallTypes
<1>2. CASE UNCHANGED vars \/ GoesWrong
  BY <1>1, <1>2, WrongStep DEF vars, InFlight
<1>3. CASE Restart
  BY <1>3 DEF Restart, Return
<1>4. CASE WriteFails \/ Return("failed")
  BY <1>4 DEF WriteFails, Return
<1>5. CASE MkdirZero /\ ~WriteFails /\ ~Return("failed")
  <2>1. reg' = [reg EXCEPT !.sector = @ + 1] /\ pc' \in {"mkdir_zero", "mkdir_dot"}
    BY <1>5 DEF MkdirZero
  <2>2. reg'.cluster = reg.cluster
    BY <1>1, <2>1 DEF Registers
  <2>3. QED
    BY <1>1, <2>1, <2>2 DEF InFlight
<1>6. CASE (MkdirFat2 \/ MkdirDot \/ MkdirDotDot) /\ ~WriteFails
  <2>1. reg' = reg /\ pc' \in {"mkdir_zero", "mkdir_dotdot", "mkdir_entry"}
    BY <1>6 DEF MkdirFat2, MkdirDot, MkdirDotDot, Goto
  <2>2. QED
    BY <1>1, <2>1 DEF InFlight
<1>7. CASE MkdirEntry /\ ~WriteFails /\ ~Return("failed")
  BY <1>1, <1>7 DEF MkdirEntry, Return
<1>8. ~Begin /\ ~MkdirFat1 /\ ~RenameEntry /\ ~Overwrite /\ ~Remove
  BY <1>1 DEF WentWrong, Begin, LookupFails, BeginWrong, MkdirBegin, RenameBegin, OverwriteBegin,
     RemoveBegin, MkdirFat1, RenameEntry, Overwrite, OverwriteData, OverwriteCutShort, OverwriteSize,
     Remove, RemoveFat1, RemoveFat2, RemoveEntry
<1>9. QED
  BY <1>2, <1>3, <1>4, <1>5, <1>6, <1>7, <1>8 DEF Next, Step, Mkdir, StaysWrong

LEMMA StepLoses ==
  ASSUME NoRemove, LeastInv, [Next]_vars, NEW c \in Leaked' \ Leaked
  PROVE  c \in InFlight /\ ret' \in {"failed", "stopped"}
<1>1. PICK D \in SUBSET Clusters : SoundWith(D) /\ D = Directories
  BY DEF LeastInv
<1>2. PICK E \in SUBSET Clusters : Grows(D, E)
  BY <1>1, StepGrows
<1>3. E = Directories' /\ \A t \in NodesOf(data, D) :
        t \in NodesOf(data', E) /\ OwnedBy(fat1', data', t) = OwnedBy(fat1, data, t)
  BY <1>1, <1>2, TreeGrows
<1>4. Held = HeldWith(D)
  BY <1>1, TreeFactsNow DEF TreeFacts, SoundWith
<1>5. Held' = HeldWith(E)'
  <2>1. Typed(fat1', data') /\ Sound(fat1', data', E)
    BY <1>2 DEF Grows, SoundWith
  <2>2. (\A F : Typed(fat1, data) /\ Sound(fat1, data, F) /\ F = Directories => Held = HeldWith(F))'
    BY TreeFactsNext DEF TreeFacts
  <2>3. QED
    BY <1>3, <2>1, <2>2
<1>6. c \in Clusters /\ fat1'[c] # FreeCluster /\ c # Root /\ c \notin InFlight'
      /\ \A t \in NodesOf(data', E) : c \notin OwnedBy(fat1', data', t)
  BY <1>5 DEF Leaked, HeldWith
<1>7. fat1[c] = FreeCluster \/ c \in InFlight \/ \E t \in NodesOf(data, D) : c \in OwnedBy(fat1, data, t)
  BY <1>4, <1>6 DEF Leaked, HeldWith
<1>8. ~ \E t \in NodesOf(data, D) : c \in OwnedBy(fat1, data, t)
  BY <1>3, <1>6
<1>9. fat1[c] # FreeCluster
  BY <1>1, <1>6, StepMarks
<1>10. c \in InFlight
  BY <1>7, <1>8, <1>9
<1>11. ~(MkdirEntry /\ ret' = "ok" /\ c = reg.cluster)
  <2> SUFFICES ASSUME MkdirEntry, ret' = "ok", c = reg.cluster PROVE FALSE
    OBVIOUS
  <2>1. PICK k \in Indices, b \in Clusters : LinkedAt(k, b, D)
    BY <1>1, MkdirEntryEnds
  <2>2. b = c
    BY <2>1 DEF LinkedAt
  <2>3. PICK t : t = <<reg.dir, k>>
    OBVIOUS
  <2>4. /\ t \in NodesOf(data', D \cup {c}) /\ t[1] \in D
        /\ EntOf(data', t).dir /\ EntOf(data', t).cluster = c
    BY <1>1, <2>1, <2>2, <2>3, LinkedNode
  <2>5. t \in NodesOf(data', D) /\ D \subseteq E
    BY <1>2, <2>4 DEF NodesOf, Grows
  <2>6. t \in NodesOf(data', E)
    BY <2>5 DEF NodesOf
  <2>7. c \in OwnedBy(fat1', data', t)
    BY <1>6, <2>4, ChainTypes DEF OwnedBy, ChainAt
  <2>8. QED
    BY <1>6, <2>6, <2>7
<1>12. QED
  BY <1>1, <1>6, <1>10, <1>11, StepFlies

\* A cluster is lost only by a mkdir that fails or is interrupted, and only the one it
\* has marked: no write of mkdir, rename and overwrite_file cuts one off the tree
\* (FAT32.h:355-413, 419-464, 604-634).
THEOREM Fat32LeaksOnlyOnFailure ==
  ASSUME NoRemove
  PROVE  Spec /\ TreeSound => LeaksOnlyOnFailure
<1>1. Init /\ TreeSound => LeastInv
  BY InitLeastInv
<1>2. LeastInv /\ [Next]_vars => LeastInv'
  BY NextLeastInv
<1>3. LeastInv /\ [Next]_vars => [OnlyFailuresLose]_vars
  <2>1. LeastInv /\ [Next]_vars => OnlyFailuresLose
    BY StepLoses DEF OnlyFailuresLose
  <2>2. QED
    BY <2>1
<1>4. QED
  BY <1>1, <1>2, <1>3, PTL DEF Spec, LeaksOnlyOnFailure

-----------------------------------------------------------------------------
(***************************************************************************)
(* With remove among the calls.  A directory sector may then hold a piece  *)
(* of the FAT, an entry may lead to free clusters or to another file's,    *)
(* and a file's data may go over a directory: the tree is no longer sound. *)
(* What stays true is said of every slot of every cluster that has been a  *)
(* directory, whether a lookup sees it or not.  D are these clusters, and *)
(* K are those the calls free and take: the chains of the entries, and     *)
(* what is free.  No chain in K leads to the root.                         *)
(***************************************************************************)

\* A set of clusters that no link of the FAT leads out of.
FollowsIn(fat, S) == \A c \in S : fat[c] \in Clusters => fat[c] \in S

Harmless(v, D, K) ==
  /\ v \in SlotValue
  /\ v.kind = "entry" => /\ v.dir => v.cluster \in D
                         /\ v.name \in Names => v.cluster \in K \cup {0}

Fenced(fat, dat, D, K) ==
  /\ Typed(fat, dat)
  /\ Root \in D /\ D \subseteq OnDevice /\ Short(fat, D)
  /\ fat[Root] = EndOfChain /\ Root \notin K /\ K \subseteq Clusters /\ FollowsIn(fat, K)
  /\ \A c \in Clusters : fat[c] = FreeCluster => c \in K
  /\ \A d \in D : \A k \in Indices : Harmless(DirOf(dat, d)[k], D, K)

\* The entries with a name, seen or not.
NamesOf(dat, D) ==
  {t \in D \X Indices : EntOf(dat, t).kind = "entry" /\ EntOf(dat, t).name \in Names}

\* What soundness is without failures: each of the entries T has its clusters to itself.
Apart(fat, dat, T) ==
  /\ \A t \in T : /\ FollowsIn(fat, OwnedBy(fat, dat, t))
                  /\ \A c \in OwnedBy(fat, dat, t) : fat[c] # FreeCluster /\ c # Root
  /\ \A t, u \in T : t # u => OwnedBy(fat, dat, t) \cap OwnedBy(fat, dat, u) = {}

-----------------------------------------------------------------------------
LEMMA NamesAre ==
  ASSUME NEW fat, NEW dat, NEW D, NEW K, Fenced(fat, dat, D, K), NEW t \in NamesOf(dat, D)
  PROVE  /\ t[1] \in D /\ t[2] \in Indices /\ t = <<t[1], t[2]>>
         /\ EntOf(dat, t) \in EntryValue /\ EntOf(dat, t).kind = "entry" /\ EntOf(dat, t).name \in Names
         /\ EntOf(dat, t).cluster \in K \cup {0} /\ EntOf(dat, t).cluster \in Clusters \cup {0}
         /\ EntOf(dat, t).dir => EntOf(dat, t).cluster \in D
<1>1. t[1] \in D /\ t[2] \in Indices /\ t = <<t[1], t[2]>>
      /\ EntOf(dat, t).kind = "entry" /\ EntOf(dat, t).name \in Names
  BY DEF NamesOf
<1>2. Harmless(EntOf(dat, t), D, K) /\ K \subseteq Clusters
  BY <1>1 DEF Fenced, EntOf
<1>3. EntOf(dat, t) \in EntryValue
  BY <1>1, <1>2, EntryTypes DEF Harmless
<1>4. QED
  BY <1>1, <1>2, <1>3 DEF Harmless

\* A lookup stays in the directories.
LEMMA FencedEnters ==
  ASSUME NEW fat, NEW dat, NEW D, NEW K, Fenced(fat, dat, D, K)
  PROVE  Enterable(dat, D) /\ Short(fat, D) /\ D \subseteq Clusters
<1>1. Root \in D /\ Short(fat, D)
  BY DEF Fenced
<1>2. ASSUME NEW d \in D \cup {0}, NEW name PROVE EnterIn(dat, d, name) \in D \cup {0}
  <2> DEFINE k == Least(NamedIn(dat, d, name))
             e == DirOf(dat, d)[k]
  <2>1. CASE d \in D /\ k >= 0 /\ e.dir
    <3>1. NamedIn(dat, d, name) # {}
      <4>1. NamedIn(dat, d, name) = {} => k = -1
        BY NamedAre
      <4>2. QED
        BY <2>1, <4>1
    <3>2. k \in Indices /\ e.kind = "entry"
      BY <3>1, NamedAre
    <3>3. Harmless(e, D, K)
      BY <2>1, <3>2 DEF Fenced
    <3>4. e.cluster \in D
      BY <2>1, <3>2, <3>3 DEF Harmless
    <3>5. QED
      BY <2>1, <3>4 DEF EnterIn
  <2>2. CASE ~ (d \in D /\ k >= 0 /\ e.dir)
    <3>1. EnterIn(dat, d, name) = 0
      BY <1>2, <2>2 DEF EnterIn
    <3>2. QED
      BY <3>1
  <2>3. QED
    BY <2>1, <2>2
<1>3. QED
  BY <1>1, <1>2 DEF Enterable, Short

\* What a lookup finds: an entry of that name.
LEMMA FencedLocate ==
  ASSUME NEW D, NEW K, Fenced(fat1, data, D, K), NEW path \in Paths
  PROVE  /\ ParentCluster(path) \in D \cup {0}
         /\ Locate(path)[2] \in Int
         /\ Locate(path)[2] >= 0 =>
              LET t == Locate(path) IN
              /\ t \in NamesOf(data, D) /\ t = <<t[1], t[2]>>
              /\ EntryOf(t) = EntOf(data, t) /\ Place(t[1], t[2]) = <<SectorOf(t[1], t[2]), SlotOf(t[2])>>
<1> DEFINE d == ParentCluster(path)
           k == Locate(path)[2]
<1>1. Enterable(data, D) /\ Short(fat1, D) /\ D \subseteq Clusters
  BY FencedEnters
<1>2. d \in D \cup {0}
  BY <1>1, ParentWalked
<1>3. Locate(path) = <<d, IF d = 0 THEN -1 ELSE FindInDir(d, Leaf(path))>>
  BY <1>1, <1>2, LocateIs
<1> HIDE DEF d
<1>4. Locate(path) = <<d, k>>
  BY <1>3
<1>5. d = 0 => k = -1
  BY <1>3
<1>6. d \in D => k = Least(NamedIn(data, d, Leaf(path)))
  <2>1. d \in D => d # 0 /\ Entries(d) = DirOf(data, d)
    BY <1>1, NoCluster, ShortIs
  <2>2. QED
    BY <1>3, <2>1 DEF FindInDir, NamedIn
<1> HIDE DEF k
<1>7. k \in Int
  <2>1. CASE d \in D
    <3>1. k = -1 \/ k \in Indices
      BY <1>6, <2>1, NamedAre
    <3>2. k \in Indices => k \in Nat
      BY Prefix
    <3>3. QED
      BY <3>1, <3>2
  <2>2. CASE d = 0
    BY <1>5, <2>2
  <2>3. QED
    BY <1>2, <2>1, <2>2
<1>8. ASSUME k >= 0
      PROVE  LET t == Locate(path) IN
              /\ t \in NamesOf(data, D) /\ t = <<t[1], t[2]>>
              /\ EntryOf(t) = EntOf(data, t) /\ Place(t[1], t[2]) = <<SectorOf(t[1], t[2]), SlotOf(t[2])>>
  <2>1. d \in D
    BY <1>2, <1>5, <1>8
  <2>2. NamedIn(data, d, Leaf(path)) # {}
    <3>1. NamedIn(data, d, Leaf(path)) = {} => k = -1
      BY <1>6, <2>1, NamedAre
    <3>2. QED
      BY <1>8, <3>1
  <2>3. k \in Indices /\ DirOf(data, d)[k].kind = "entry" /\ DirOf(data, d)[k].name = Leaf(path)
    BY <1>6, <2>1, <2>2, NamedAre
  <2>4. <<d, k>> \in NamesOf(data, D)
    BY <2>1, <2>3, PathLength DEF NamesOf, EntOf
  <2>5. EntryAt(d, k) = DirOf(data, d)[k] /\ Place(d, k) = <<SectorOf(d, k), SlotOf(k)>>
    BY <1>1, <2>1, <2>3, ShortIs
  <2>6. QED
    BY <1>4, <2>4, <2>5 DEF EntryOf, EntOf
<1>9. QED
  BY <1>2, <1>7, <1>8 DEF d, k

-----------------------------------------------------------------------------
\* What may take the place of v: no named entry, or one with the same clusters.
Milder(w, v) ==
  w.kind = "entry" /\ w.name \in Names => v.kind = "entry" /\ v.name \in Names /\ w.cluster = v.cluster

\* The sector l is written, and no entry leads anywhere new.
Mild(dat, datN, D, K, l, sector) ==
  /\ l \in Sectors /\ DOMAIN sector = Slots /\ datN = [dat EXCEPT ![l] = sector]
  /\ \A i \in Slots : sector[i] = dat[l][i] \/ (Harmless(sector[i], D, K) /\ Milder(sector[i], dat[l][i]))

LEMMA MildWrite ==
  ASSUME NEW fat, NEW dat, NEW D, NEW K, Fenced(fat, dat, D, K), NEW datN, NEW l, NEW sector,
         Mild(dat, datN, D, K, l, sector)
  PROVE  /\ Fenced(fat, datN, D, K)
         /\ NamesOf(datN, D) \subseteq NamesOf(dat, D)
         /\ \A t \in NamesOf(datN, D) : EntOf(datN, t).cluster = EntOf(dat, t).cluster
<1>1. /\ Typed(fat, dat) /\ D \subseteq OnDevice /\ l \in Sectors /\ DOMAIN sector = Slots
      /\ datN = [dat EXCEPT ![l] = sector]
      /\ \A i \in Slots : sector[i] = dat[l][i] \/ (Harmless(sector[i], D, K) /\ Milder(sector[i], dat[l][i]))
      /\ \A d \in D : \A k \in Indices : Harmless(DirOf(dat, d)[k], D, K)
  BY DEF Fenced, Mild
<1>2. \A d \in D : \A k \in Indices :
        \/ DirOf(datN, d)[k] = DirOf(dat, d)[k]
        \/ Harmless(DirOf(datN, d)[k], D, K) /\ Milder(DirOf(datN, d)[k], DirOf(dat, d)[k])
  <2> SUFFICES ASSUME NEW d \in D, NEW k \in Indices
               PROVE  \/ DirOf(datN, d)[k] = DirOf(dat, d)[k]
                      \/ Harmless(DirOf(datN, d)[k], D, K) /\ Milder(DirOf(datN, d)[k], DirOf(dat, d)[k])
    OBVIOUS
  <2>1. /\ SlotOf(k) \in Slots
        /\ DirOf(datN, d)[k] = IF SectorOf(d, k) = l THEN sector[SlotOf(k)] ELSE DirOf(dat, d)[k]
        /\ SectorOf(d, k) = l => DirOf(dat, d)[k] = dat[l][SlotOf(k)]
    <3>1. SectorOf(d, k) \in Sectors /\ SlotOf(k) \in Slots
      BY <1>1, DeviceEntries
    <3>2. \A m \in Sectors : datN[m] = IF m = l THEN sector ELSE dat[m]
      BY <1>1 DEF Typed
    <3>3. DirOf(datN, d)[k] = datN[SectorOf(d, k)][SlotOf(k)] /\ DirOf(dat, d)[k] = dat[SectorOf(d, k)][SlotOf(k)]
      BY DEF DirOf
    <3>4. QED
      BY <3>1, <3>2, <3>3
  <2>2. QED
    BY <1>1, <2>1
<1>3. \A t \in D \X Indices : /\ t[1] \in D /\ t[2] \in Indices
                              /\ EntOf(datN, t) = EntOf(dat, t) \/ Milder(EntOf(datN, t), EntOf(dat, t))
  BY <1>2 DEF EntOf
<1>4. NamesOf(datN, D) \subseteq NamesOf(dat, D)
  BY <1>3 DEF NamesOf, Milder
<1>5. \A t \in NamesOf(datN, D) : EntOf(datN, t).cluster = EntOf(dat, t).cluster
  BY <1>3 DEF NamesOf, Milder
<1>6. Typed(fat, datN)
  <2>1. \A i \in Slots : sector[i] \in SlotValue
    BY <1>1 DEF Harmless, Typed
  <2>2. QED
    BY <1>1, <2>1, TypedWrite
<1>7. \A d \in D : \A k \in Indices : Harmless(DirOf(datN, d)[k], D, K)
  BY <1>1, <1>2
<1>8. Fenced(fat, datN, D, K)
  BY <1>6, <1>7 DEF Fenced
<1>9. QED
  BY <1>4, <1>5, <1>8

\* No link is ever written: a cluster of K is marked or freed.
LEMMA FencedMark ==
  ASSUME NEW fat, NEW dat, NEW D, NEW K, Fenced(fat, dat, D, K), NEW c \in K,
         NEW v \in {FreeCluster, EndOfChain}, NEW fatN, fatN = [fat EXCEPT ![c] = v]
  PROVE  Fenced(fatN, dat, D, K)
<1>1. /\ fat \in [Clusters -> FatEntry] /\ K \subseteq Clusters /\ D \subseteq Clusters /\ Root \notin K
      /\ Root \in D
  BY DEF Fenced, Typed, Short
<1>2. v \in FatEntry /\ v \notin Clusters
  BY EntryValues, NoCluster DEF FreeCluster
<1>3. fatN \in [Clusters -> FatEntry] /\ \A x \in Clusters : fatN[x] = IF x = c THEN v ELSE fat[x]
  BY <1>1, <1>2
<1>4. Typed(fatN, dat)
  BY <1>3 DEF Fenced, Typed
<1>5. Short(fatN, D)
  BY <1>1, <1>2, <1>3 DEF Fenced, Short
<1>6. FollowsIn(fatN, K)
  BY <1>1, <1>2, <1>3 DEF Fenced, FollowsIn
<1>7. fatN[Root] = EndOfChain
  BY <1>1, <1>3 DEF Fenced
<1>8. \A x \in Clusters : fatN[x] = FreeCluster => x \in K
  BY <1>3 DEF Fenced
<1>9. QED
  BY <1>4, <1>5, <1>6, <1>7, <1>8 DEF Fenced

\* A new directory, empty.
LEMMA FencedDirectory ==
  ASSUME NEW fat, NEW dat, NEW D, NEW K, Fenced(fat, dat, D, K), NEW c \in OnDevice, fat[c] \notin Clusters,
         \A k \in Indices : DirOf(dat, c)[k] = End
  PROVE  Fenced(fat, dat, D \cup {c}, K) /\ NamesOf(dat, D \cup {c}) = NamesOf(dat, D)
<1>1. c \in Clusters
  BY DeviceClusters
<1>2. End \in SlotValue /\ End.kind # "entry"
  BY DEF End, SlotValue
<1>3. \A d \in D \cup {c} : \A k \in Indices : Harmless(DirOf(dat, d)[k], D \cup {c}, K)
  <2>1. \A k \in Indices : Harmless(DirOf(dat, c)[k], D \cup {c}, K)
    BY <1>2 DEF Harmless
  <2>2. \A d \in D : \A k \in Indices : Harmless(DirOf(dat, d)[k], D \cup {c}, K)
    BY DEF Fenced, Harmless
  <2>3. QED
    BY <2>1, <2>2
<1>4. Short(fat, D \cup {c})
  BY <1>1 DEF Fenced, Short
<1>5. NamesOf(dat, D \cup {c}) \subseteq NamesOf(dat, D)
  <2> SUFFICES ASSUME NEW t \in NamesOf(dat, D \cup {c}) PROVE t \in NamesOf(dat, D)
    OBVIOUS
  <2>1. t \in (D \cup {c}) \X Indices /\ EntOf(dat, t).kind = "entry" /\ EntOf(dat, t).name \in Names
    BY DEF NamesOf
  <2>2. t[1] # c
    BY <1>2, <2>1 DEF EntOf
  <2>3. t \in D \X Indices
    BY <2>1, <2>2
  <2>4. QED
    BY <2>1, <2>3 DEF NamesOf
<1>6. NamesOf(dat, D) \subseteq NamesOf(dat, D \cup {c})
  BY DEF NamesOf
<1>7. QED
  BY <1>3, <1>4, <1>5, <1>6 DEF Fenced

\* Nothing writes the clusters of the entries U.
Keeps(fat, dat, fatN, datN, U) ==
  \A t \in U : /\ EntOf(datN, t).cluster = EntOf(dat, t).cluster
               /\ EntOf(dat, t).cluster \in Clusters \cup {0}
               /\ \A c \in OwnedBy(fat, dat, t) : fatN[c] = fat[c]

LEMMA ApartKept ==
  ASSUME NEW fat, NEW dat, NEW fatN, NEW datN, NEW T, NEW U, U \subseteq T, Apart(fat, dat, T),
         Keeps(fat, dat, fatN, datN, U)
  PROVE  Apart(fatN, datN, U) /\ \A t \in U : OwnedBy(fatN, datN, t) = OwnedBy(fat, dat, t)
<1>1. ASSUME NEW t \in U PROVE OwnedBy(fatN, datN, t) = OwnedBy(fat, dat, t)
  <2>1. ChainIn(fatN, EntOf(dat, t).cluster) = ChainIn(fat, EntOf(dat, t).cluster)
    BY ChainSame DEF Keeps, OwnedBy, ChainAt
  <2>2. QED
    BY <2>1 DEF Keeps, OwnedBy, ChainAt
<1>2. \A t \in U : /\ FollowsIn(fatN, OwnedBy(fatN, datN, t))
                   /\ \A c \in OwnedBy(fatN, datN, t) : fatN[c] # FreeCluster /\ c # Root
  BY <1>1 DEF Apart, FollowsIn, Keeps
<1>3. \A t, u \in U : t # u => OwnedBy(fatN, datN, t) \cap OwnedBy(fatN, datN, u) = {}
  BY <1>1 DEF Apart
<1>4. QED
  BY <1>1, <1>2, <1>3 DEF Apart

-----------------------------------------------------------------------------
(***************************************************************************)
(* The invariant: what the running call is about, and, as long as nothing  *)
(* failed, that the named entries keep their clusters to themselves, but   *)
(* for the one that remove is freeing.                                     *)
(***************************************************************************)
RemovePcs == {"remove_fat1", "remove_fat2", "remove_entry"}

Doomed == IF pc \in RemovePcs THEN {<<reg.dir, reg.index>>} ELSE {}

Standing(D) == NamesOf(data, D) \ Doomed

MkdirWalks(D, K) ==
  LET c == reg.cluster IN
  /\ req.path \in Paths /\ reg \in Registers /\ reg.dir \in D /\ c \in K /\ fat1[c] \notin Clusters
  /\ pc \in {"mkdir_fat1", "mkdir_fat2", "mkdir_zero"} =>
       /\ reg.sector \in Within
       /\ \A s \in 0 .. reg.sector - 1 : Lba(c) + s \in Sectors /\ data[Lba(c) + s] = EmptySector
  /\ pc \in {"mkdir_dot", "mkdir_dotdot", "mkdir_entry"} => c \in D

RemoveWalks(D, K) ==
  /\ reg.dir \in D /\ reg.index \in Indices
  /\ reg.cluster \in Clusters => reg.cluster \in K
  /\ pc = "remove_fat1" => reg.cluster \in Clusters

Walks(D, K) ==
  /\ pc \in {"idle", "rename_entry"} \cup MkdirPcs \cup OverwritePcs \cup RemovePcs \cup WentWrong
  /\ pc \in MkdirPcs => MkdirWalks(D, K)
  /\ pc = "rename_entry" => req.name \in Names /\ <<reg.dir, reg.index>> \in NamesOf(data, D)
  /\ pc \in OverwritePcs => req.path \in Paths /\ req.data \in Data /\ req.size \in Nat
  /\ pc \in RemovePcs => RemoveWalks(D, K)

\* The clusters R that remove has yet to free.
Freeing(R, D) ==
  /\ FollowsIn(fat1, R) /\ (reg.cluster \in Clusters => reg.cluster \in R)
  /\ \A t \in Standing(D) : OwnedBy(fat1, data, t) \cap R = {}

Whole(D) ==
  /\ Apart(fat1, data, Standing(D))
  /\ pc \in MkdirPcs => /\ \A t \in Standing(D) : reg.cluster \notin OwnedBy(fat1, data, t)
                        /\ pc # "mkdir_fat1" => fat1[reg.cluster] = EndOfChain
  /\ pc \in RemovePcs => \E R \in SUBSET Clusters : Freeing(R, D)

Fence(D, K) ==
  Fenced(fat1, data, D, K) /\ faults \in Nat /\ Walks(D, K) /\ (faults = 0 => Whole(D))

FenceInv == \E D \in SUBSET Clusters, K \in SUBSET Clusters : Fence(D, K)

-----------------------------------------------------------------------------
\* After a failure only the entries count.
LEMMA Faulted ==
  ASSUME NEW D, NEW K, Fence(D, K), Fault, Fenced(fat1', data', D, K), Walks(D, K)'
  PROVE  Fence(D, K)'
<1>1. faults' \in Nat /\ faults' # 0
  BY DEF Fault, Fence
<1>2. QED
  BY <1>1 DEF Fence

\* A call that fails or is interrupted.
LEMMA Stopped ==
  ASSUME NEW D, NEW K, Fence(D, K), Fault, UNCHANGED disk, pc' = "idle"
  PROVE  Fence(D, K)'
<1>1. fat1' = fat1 /\ data' = data
  BY DEF disk
<1>2. Fenced(fat1', data', D, K)
  BY <1>1 DEF Fence
<1>3. Walks(D, K)'
  BY DEF Walks, MkdirPcs, OverwritePcs, RemovePcs
<1>4. QED
  BY <1>2, <1>3, Faulted

LEMMA FailsStopped ==
  ASSUME NEW D, NEW K, Fence(D, K), WriteFails
  PROVE  Fence(D, K)'
  BY Stopped DEF WriteFails, Return

\* The entries when no remove runs.
LEMMA StandingIs ==
  ASSUME NEW D
  PROVE  /\ pc \notin RemovePcs => Standing(D) = NamesOf(data, D)
         /\ pc' \notin RemovePcs => Standing(D)' = NamesOf(data', D)
  BY DEF Standing, Doomed

\* A data sector written, without failure, by a call that frees nothing.
LEMMA MildWhole ==
  ASSUME NEW D, NEW K, Fence(D, K), NEW l, NEW sector, Mild(data, data', D, K, l, sector),
         fat1' = fat1, faults' = faults,
         pc \notin RemovePcs, pc' \notin RemovePcs,
         pc' \in MkdirPcs => pc \in MkdirPcs /\ pc # "mkdir_fat1" /\ reg'.cluster = reg.cluster
  PROVE  Fenced(fat1', data', D, K) /\ faults' \in Nat /\ (faults' = 0 => Whole(D)')
<1>1. /\ Fenced(fat1, data', D, K) /\ NamesOf(data', D) \subseteq NamesOf(data, D)
      /\ \A t \in NamesOf(data', D) : EntOf(data', t).cluster = EntOf(data, t).cluster
  BY MildWrite DEF Fence
<1>2. \A t \in NamesOf(data, D) : EntOf(data, t).cluster \in Clusters \cup {0}
  BY NamesAre DEF Fence
<1>3. ASSUME faults = 0 PROVE Whole(D)'
  <2>1. Whole(D) /\ Standing(D) = NamesOf(data, D) /\ Standing(D)' = NamesOf(data', D)
    BY <1>3, StandingIs DEF Fence
  <2>2. Apart(fat1, data, NamesOf(data, D))
    BY <2>1 DEF Whole
  <2>3. /\ Apart(fat1', data', NamesOf(data', D))
        /\ \A t \in NamesOf(data', D) : OwnedBy(fat1', data', t) = OwnedBy(fat1, data, t)
    <3>1. Keeps(fat1, data, fat1', data', NamesOf(data', D))
      BY <1>1, <1>2 DEF Keeps
    <3>2. QED
      BY <1>1, <2>2, <3>1, ApartKept
  <2>4. pc' \in MkdirPcs =>
          /\ \A t \in NamesOf(data', D) : reg'.cluster \notin OwnedBy(fat1', data', t)
          /\ fat1'[reg'.cluster] = EndOfChain
    BY <1>1, <2>1, <2>3 DEF Whole
  <2>5. QED
    BY <2>1, <2>3, <2>4 DEF Whole
<1>4. QED
  BY <1>1, <1>3 DEF Fence

LEMMA MildStep ==
  ASSUME NEW D, NEW K, Fence(D, K), NEW l, NEW sector, Mild(data, data', D, K, l, sector),
         fat1' = fat1, faults' = faults,
         pc \notin RemovePcs, pc' \notin RemovePcs,
         pc' \in MkdirPcs => pc \in MkdirPcs /\ pc # "mkdir_fat1" /\ reg'.cluster = reg.cluster,
         Walks(D, K)'
  PROVE  Fence(D, K)'
<1>1. Fenced(fat1', data', D, K) /\ faults' \in Nat /\ (faults' = 0 => Whole(D)')
  BY MildWhole
<1>2. QED
  BY <1>1 DEF Fence

\* A call that begins, goes on or ends without writing a data sector or FAT1.
LEMMA SameStep ==
  ASSUME NEW D, NEW K, Fence(D, K), fat1' = fat1, data' = data, faults' = faults,
         pc \notin RemovePcs, pc' \notin RemovePcs,
         pc' \in MkdirPcs => pc \in MkdirPcs /\ pc # "mkdir_fat1" /\ reg'.cluster = reg.cluster,
         Walks(D, K)'
  PROVE  Fence(D, K)'
<1>1. Fenced(fat1', data', D, K) /\ faults' \in Nat
  BY DEF Fence
<1>2. ASSUME faults = 0 PROVE Whole(D)'
  <2>1. Whole(D) /\ Standing(D) = NamesOf(data, D) /\ Standing(D)' = NamesOf(data, D)
    BY <1>2, StandingIs DEF Fence
  <2>2. QED
    BY <2>1 DEF Whole
<1>3. QED
  BY <1>1, <1>2 DEF Fence

\* Where a named entry is read and written.
LEMMA FencedPlace ==
  ASSUME NEW D, NEW K, Fenced(fat1, data, D, K), NEW d \in D, NEW k \in Indices
  PROVE  /\ Place(d, k) = <<SectorOf(d, k), SlotOf(k)>> /\ At(Place(d, k)) = DirOf(data, d)[k]
         /\ SectorOf(d, k) \in Sectors /\ SlotOf(k) \in Slots
<1>1. Short(fat1, D) /\ d \in OnDevice
  BY DEF Fenced
<1>2. Place(d, k) = <<SectorOf(d, k), SlotOf(k)>>
  BY <1>1, ShortIs
<1>3. QED
  BY <1>1, <1>2, DeviceEntries DEF At, DirOf

\* A named entry that keeps its clusters.
LEMMA FencedOverlay ==
  ASSUME NEW D, NEW K, Fenced(fat1, data, D, K), NEW d \in D, NEW k \in Indices, NEW p, p = Place(d, k),
         NEW e, Harmless(e, D, K), Milder(e, DirOf(data, d)[k]), WriteSector(p[1], Overlay(p, e))
  PROVE  Mild(data, data', D, K, p[1], Overlay(p, e)) /\ fat1' = fat1
<1> DEFINE sector == Overlay(p, e)
<1>1. p = <<SectorOf(d, k), SlotOf(k)>> /\ p[1] \in Sectors /\ p[2] \in Slots
      /\ data[p[1]][p[2]] = DirOf(data, d)[k]
  BY FencedPlace DEF At
<1>2. sector = [data[p[1]] EXCEPT ![p[2]] = e]
  BY DEF Overlay
<1>3. data' = [data EXCEPT ![p[1]] = sector] /\ fat1' = fat1
  BY DEF WriteSector
<1> HIDE DEF sector
<1>4. DOMAIN data[p[1]] = Slots
  BY <1>1 DEF Fenced, Typed
<1>5. DOMAIN sector = Slots /\ \A i \in Slots : sector[i] = IF i = p[2] THEN e ELSE data[p[1]][i]
  BY <1>1, <1>2, <1>4
<1>6. Mild(data, data', D, K, p[1], sector)
  BY <1>1, <1>3, <1>5 DEF Mild
<1>7. QED
  BY <1>3, <1>6 DEF sector

\* An entry edited in its name and its size.
LEMMA MildEntry ==
  ASSUME NEW D, NEW K, NEW old \in EntryValue, Harmless(old, D, K), old.name \in Names, NEW n \in Names, NEW size \in Nat
  PROVE  LET e == Entry(n, old.cluster, old.dir, size) IN Harmless(e, D, K) /\ Milder(e, old)
<1> DEFINE e == Entry(n, old.cluster, old.dir, size)
<1>1. old.cluster \in Clusters \cup {0} /\ old.kind = "entry"
  BY DEF EntryValue
<1>2. old.dir \in BOOLEAN
  BY Zenon DEF EntryValue
<1>3. e \in SlotValue
  BY <1>1, <1>2 DEF Entry, SlotValue
<1>4. e.kind = "entry" /\ e.name = n /\ e.cluster = old.cluster /\ e.dir = old.dir
  BY DEF Entry
<1> HIDE DEF e
<1>5. Harmless(e, D, K) /\ Milder(e, old)
  BY <1>1, <1>3, <1>4 DEF Harmless, Milder
<1>6. QED
  BY <1>5 DEF e

LEMMA FenceRename ==
  ASSUME NEW D, NEW K, Fence(D, K), RenameEntry
  PROVE  Fence(D, K)'
<1> DEFINE p == Place(reg.dir, reg.index)
           old == At(p)
           e == Entry(StoredName[req.name], old.cluster, old.dir, old.size)
<1>1. pc = "rename_entry"
  BY DEF RenameEntry
<1>2. CASE WriteFails
  BY <1>2, FailsStopped
<1>3. CASE WriteSector(p[1], Overlay(p, e)) /\ Return("ok") /\ UNCHANGED faults
  <2>1. Fenced(fat1, data, D, K) /\ req.name \in Names /\ <<reg.dir, reg.index>> \in NamesOf(data, D)
    BY <1>1 DEF Fence, Walks
  <2>2. reg.dir \in D /\ reg.index \in Indices
    BY <2>1 DEF NamesOf
  <2>3. old = DirOf(data, reg.dir)[reg.index]
    BY <2>1, <2>2, FencedPlace
  <2>4. old \in EntryValue /\ Harmless(old, D, K) /\ old.name \in Names
    <3>1. EntOf(data, <<reg.dir, reg.index>>) = old
      BY <2>3 DEF EntOf
    <3>2. old \in EntryValue /\ old.name \in Names
      BY <2>1, <3>1, NamesAre
    <3>3. QED
      BY <2>1, <2>2, <2>3, <3>2 DEF Fenced
  <2>5. StoredName[req.name] \in Names /\ old.size \in Nat
    BY <2>1, <2>4, Fat32Assumption DEF EntryValue
  <2>6. Harmless(e, D, K) /\ Milder(e, old)
    BY <2>4, <2>5, MildEntry
  <2>7. Mild(data, data', D, K, p[1], Overlay(p, e)) /\ fat1' = fat1
    <3> HIDE DEF e, old
    <3>1. PICK d \in D, k \in Indices : d = reg.dir /\ k = reg.index
      BY <2>2
    <3>2. p = Place(d, k) /\ Milder(e, DirOf(data, d)[k])
      BY <2>3, <2>6, <3>1
    <3> HIDE DEF p
    <3>3. QED
      BY <1>3, <2>1, <2>6, <3>2, FencedOverlay
  <2>8. pc' = "idle" /\ faults' = faults
    BY <1>3 DEF Return
  <2>9. Walks(D, K)'
    BY <2>8 DEF Walks, MkdirPcs, OverwritePcs, RemovePcs
  <2>10. QED
    BY <1>1, <2>7, <2>8, <2>9, MildStep DEF MkdirPcs, RemovePcs
<1>4. QED
  BY <1>2, <1>3 DEF RenameEntry

LEMMA FenceOverwriteData ==
  ASSUME NEW D, NEW K, Fence(D, K), OverwriteData
  PROVE  Fence(D, K)'
<1> DEFINE l == Lba(reg.cluster) + reg.sector
<1>1. pc = "overwrite_data"
  BY DEF OverwriteData
<1>2. CASE WriteFails
  BY <1>2, FailsStopped
<1>3. CASE /\ WriteSector(l, FileSector(req.data))
           /\ pc' \in OverwritePcs
           /\ UNCHANGED <<req, ret, faults>>
  <2>1. Fenced(fat1, data, D, K) /\ req.path \in Paths /\ req.data \in Data /\ req.size \in Nat
    BY <1>1 DEF Fence, Walks, OverwritePcs
  <2>2. l \in Sectors /\ data' = [data EXCEPT ![l] = FileSector(req.data)] /\ fat1' = fat1
    BY <1>3 DEF WriteSector
  <2>3. Content(req.data) \in SlotValue /\ Content(req.data).kind # "entry"
    BY <2>1 DEF Content, SlotValue
  <2>4. DOMAIN FileSector(req.data) = Slots /\ \A i \in Slots : FileSector(req.data)[i] = Content(req.data)
    BY DEF FileSector
  <2> HIDE DEF l
  <2>5. Mild(data, data', D, K, l, FileSector(req.data))
    BY <2>2, <2>3, <2>4 DEF Mild, Harmless, Milder
  <2>6. Walks(D, K)'
    BY <1>3, <2>1 DEF Walks, MkdirPcs, OverwritePcs, RemovePcs
  <2>7. QED
    BY <1>1, <1>3, <2>2, <2>5, <2>6, MildStep DEF MkdirPcs, OverwritePcs, RemovePcs
<1>4. QED
  BY <1>1, <1>2, <1>3 DEF OverwriteData, OverwritePcs

LEMMA FenceOverwriteCutShort ==
  ASSUME NEW D, NEW K, Fence(D, K), OverwriteCutShort
  PROVE  Fence(D, K)'
<1>1. pc = "overwrite_data" /\ Fault /\ pc' = "overwrite_size" /\ UNCHANGED <<disk, req, reg, ret>>
  BY DEF OverwriteCutShort
<1>2. Fenced(fat1', data', D, K)
  BY <1>1 DEF Fence, disk
<1>3. Walks(D, K)'
  BY <1>1 DEF Fence, Walks, MkdirPcs, OverwritePcs, RemovePcs
<1>4. QED
  BY <1>1, <1>2, <1>3, Faulted

LEMMA FenceOverwriteSize ==
  ASSUME NEW D, NEW K, Fence(D, K), OverwriteSize
  PROVE  Fence(D, K)'
<1> DEFINE t == Locate(req.path)
           p == Place(t[1], t[2])
           e == [At(p) EXCEPT !.size = req.size]
<1>1. pc = "overwrite_size" /\ pc \notin RemovePcs
  BY DEF OverwriteSize, RemovePcs
<1>2. Fenced(fat1, data, D, K) /\ req.path \in Paths /\ req.size \in Nat
  BY <1>1 DEF Fence, Walks, OverwritePcs
<1>3. CASE WriteFails
  BY <1>3, FailsStopped
<1>4. CASE t[2] < 0 /\ Return("failed") /\ UNCHANGED <<disk, faults>>
  <2>1. pc' = "idle" /\ fat1' = fat1 /\ data' = data /\ faults' = faults
    BY <1>4 DEF Return, disk
  <2>2. Walks(D, K)'
    BY <2>1 DEF Walks, MkdirPcs, OverwritePcs, RemovePcs
  <2>3. QED
    BY <1>1, <2>1, <2>2, SameStep DEF MkdirPcs, RemovePcs
<1>5. CASE t[2] >= 0 /\ WriteSector(p[1], Overlay(p, e)) /\ Return("ok") /\ UNCHANGED faults
  <2>1. PICK u : u = Locate(req.path)
    OBVIOUS
  <2>2. u \in NamesOf(data, D)
    BY <1>2, <1>5, <2>1, FencedLocate
  <2>3. /\ u[1] \in D /\ u[2] \in Indices
        /\ EntOf(data, u) \in EntryValue /\ EntOf(data, u).kind = "entry" /\ EntOf(data, u).name \in Names
    BY <1>2, <2>2, NamesAre
  <2>4. Harmless(EntOf(data, u), D, K)
    BY <1>2, <2>3 DEF Fenced, EntOf
  <2>5. At(Place(u[1], u[2])) = EntOf(data, u)
    BY <1>2, <2>3, FencedPlace DEF EntOf
  <2>6. PICK old : old = EntOf(data, u)
    OBVIOUS
  <2>7. e = Entry(old.name, old.cluster, old.dir, req.size)
    BY <2>1, <2>3, <2>5, <2>6 DEF EntryValue, Entry
  <2>8. Harmless(e, D, K) /\ Milder(e, old)
    BY <1>2, <2>3, <2>4, <2>6, <2>7, MildEntry
  <2>9. Mild(data, data', D, K, p[1], Overlay(p, e)) /\ fat1' = fat1
    <3> HIDE DEF e
    <3>1. p = Place(u[1], u[2]) /\ Milder(e, DirOf(data, u[1])[u[2]])
      BY <2>1, <2>6, <2>8 DEF EntOf
    <3> HIDE DEF p
    <3>2. QED
      BY <1>2, <1>5, <2>3, <2>8, <3>1, FencedOverlay
  <2>10. pc' = "idle" /\ faults' = faults
    BY <1>5 DEF Return
  <2>11. Walks(D, K)'
    BY <2>10 DEF Walks, MkdirPcs, OverwritePcs, RemovePcs
  <2>12. QED
    BY <1>1, <2>9, <2>10, <2>11, MildStep DEF MkdirPcs, RemovePcs
<1>6. QED
  BY <1>3, <1>4, <1>5 DEF OverwriteSize

LEMMA FreeIs ==
  AllocCluster # -1 => AllocCluster \in Clusters /\ fat1[AllocCluster] = FreeCluster
<1> DEFINE F == {c \in Clusters : fat1[c] = FreeCluster}
<1>1. AllocCluster = Least(F)
  BY DEF AllocCluster
<1> HIDE DEF F
<1>2. F \in SUBSET Nat
  BY Fat32Assumption DEF F, Clusters
<1>3. AllocCluster # -1 => F # {}
  BY <1>1 DEF Least
<1>4. AllocCluster # -1 => AllocCluster \in F
  BY <1>1, <1>2, <1>3, LeastIs
<1>5. QED
  BY <1>4 DEF F

\* A call that is refused.
LEMMA FenceRefused ==
  ASSUME NEW D, NEW K, Fence(D, K), NEW q, Refuse(q), pc = "idle"
  PROVE  Fence(D, K)'
<1>1. pc' = "idle" /\ fat1' = fat1 /\ data' = data /\ faults' = faults
  BY DEF Refuse, disk
<1>2. Walks(D, K)'
  BY <1>1 DEF Walks, MkdirPcs, OverwritePcs, RemovePcs
<1>3. QED
  BY <1>1, <1>2, SameStep DEF MkdirPcs, RemovePcs

LEMMA FenceMkdirBegin ==
  ASSUME NEW D, NEW K, Fence(D, K), NEW q \in Requests, MkdirBegin(q)
  PROVE  Fence(D, K)'
<1> DEFINE parent == ParentCluster(q.path)
           new == AllocCluster
           r == [NoReg EXCEPT !.cluster = new, !.dir = parent]
<1>1. pc = "idle"
  BY DEF MkdirBegin
<1>2. CASE Refuse(q)
  BY <1>1, <1>2, FenceRefused
<1>3. CASE parent # 0 /\ new # -1 /\ Call(q, r, "mkdir_fat1")
  <2>1. pc' = "mkdir_fat1" /\ reg' = r /\ req' = q /\ fat1' = fat1 /\ data' = data /\ faults' = faults
    BY <1>3 DEF Call, disk
  <2>2. Fenced(fat1, data, D, K) /\ q.path \in Paths
    BY RequestIs DEF Fence
  <2>3. parent \in D
    BY <1>3, <2>2, FencedLocate
  <2>4. new \in Clusters /\ fat1[new] = FreeCluster /\ fat1[new] \notin Clusters
    BY <1>3, FreeIs, NoCluster DEF FreeCluster
  <2>5. new \in K
    BY <2>2, <2>4 DEF Fenced
  <2>6. new \in 0 .. EndOfChain /\ parent \in 0 .. LastCluster
    BY <2>2, <2>3, <2>4, ClusterRange DEF Fenced, Short
  <2>7. r \in Registers /\ r.cluster = new /\ r.dir = parent /\ r.sector = 0
    <3> HIDE DEF parent, new
    <3>1. QED
      BY <2>6, MkdirRegisters
  <2> HIDE DEF parent, new, r
  <2>8. 0 \in Within /\ 0 .. 0 - 1 = {}
    BY Fat32Assumption DEF Within
  <2>9. MkdirWalks(D, K)'
    BY <2>1, <2>2, <2>3, <2>4, <2>5, <2>7, <2>8 DEF MkdirWalks
  <2>10. Walks(D, K)'
    BY <2>1, <2>9 DEF Walks, MkdirPcs, OverwritePcs, RemovePcs
  <2>11. ASSUME faults = 0 PROVE Whole(D)'
    <3>1. pc \notin RemovePcs /\ pc' \notin RemovePcs
      BY <1>1, <2>1 DEF RemovePcs
    <3>2. Whole(D) /\ Standing(D) = NamesOf(data, D) /\ Standing(D)' = NamesOf(data', D)
      BY <2>11, <3>1, StandingIs DEF Fence
    <3>3. Apart(fat1, data, NamesOf(data, D))
      BY <3>2 DEF Whole
    <3>4. \A t \in NamesOf(data, D) : new \notin OwnedBy(fat1, data, t)
      BY <2>4, <3>3 DEF Apart
    <3>5. QED
      BY <2>1, <2>7, <3>1, <3>2, <3>3, <3>4 DEF Whole
  <2>12. QED
    BY <2>1, <2>2, <2>10, <2>11 DEF Fence
<1>4. QED
  BY <1>2, <1>3 DEF MkdirBegin

LEMMA FenceMkdirFat1 ==
  ASSUME NEW D, NEW K, Fence(D, K), MkdirFat1
  PROVE  Fence(D, K)'
<1>1. pc = "mkdir_fat1"
  BY DEF MkdirFat1
<1>2. CASE WriteFails
  BY <1>2, FailsStopped
<1>3. CASE WriteFat1(reg.cluster, EndOfChain) /\ Goto("mkdir_fat2")
  <2>1. PICK c : c = reg.cluster
    OBVIOUS
  <2>2. /\ fat1' = [fat1 EXCEPT ![c] = EndOfChain] /\ data' = data
        /\ pc' = "mkdir_fat2" /\ req' = req /\ reg' = reg /\ faults' = faults
    BY <1>3, <2>1 DEF WriteFat1, Goto
  <2>3. Fenced(fat1, data, D, K) /\ MkdirWalks(D, K) /\ c \in K /\ c \in Clusters
    BY <1>1, <2>1 DEF Fence, Fenced, Walks, MkdirPcs, MkdirWalks
  <2>4. Fenced(fat1', data', D, K)
    BY <2>2, <2>3, FencedMark
  <2>5. \A x \in Clusters : fat1'[x] = IF x = c THEN EndOfChain ELSE fat1[x]
    BY <2>2, <2>3 DEF Fenced, Typed
  <2>6. MkdirWalks(D, K)'
    BY <1>1, <2>1, <2>2, <2>3, <2>5, NoCluster DEF MkdirWalks
  <2>7. Walks(D, K)'
    BY <2>2, <2>6 DEF Walks, MkdirPcs, OverwritePcs, RemovePcs
  <2>8. ASSUME faults = 0 PROVE Whole(D)'
    <3>1. pc \notin RemovePcs /\ pc' \notin RemovePcs /\ pc \in MkdirPcs
      BY <1>1, <2>2 DEF RemovePcs, MkdirPcs
    <3>2. Whole(D) /\ Standing(D) = NamesOf(data, D) /\ Standing(D)' = NamesOf(data', D)
      BY <2>8, <3>1, StandingIs DEF Fence
    <3>3. Apart(fat1, data, NamesOf(data, D)) /\ \A t \in NamesOf(data, D) : c \notin OwnedBy(fat1, data, t)
      BY <2>1, <3>1, <3>2 DEF Whole
    <3>4. Keeps(fat1, data, fat1', data', NamesOf(data, D))
      <4>1. ASSUME NEW t \in NamesOf(data, D), NEW x \in OwnedBy(fat1, data, t) PROVE fat1'[x] = fat1[x]
        <5>1. x \in Clusters
          BY <2>3, NamesAre, ChainTypes DEF OwnedBy, ChainAt
        <5>2. QED
          BY <2>5, <3>3, <5>1
      <4>2. \A t \in NamesOf(data, D) : EntOf(data, t).cluster \in Clusters \cup {0}
        BY <2>3, NamesAre
      <4>3. QED
        BY <2>2, <4>1, <4>2 DEF Keeps
    <3>5. /\ Apart(fat1', data', NamesOf(data, D))
          /\ \A t \in NamesOf(data, D) : OwnedBy(fat1', data', t) = OwnedBy(fat1, data, t)
      BY <3>3, <3>4, ApartKept
    <3>6. fat1'[reg'.cluster] = EndOfChain /\ reg'.cluster = c
      BY <2>1, <2>2, <2>3, <2>5
    <3>7. QED
      BY <2>2, <3>1, <3>2, <3>3, <3>5, <3>6 DEF Whole
  <2>9. QED
    BY <2>2, <2>4, <2>7, <2>8 DEF Fence
<1>4. QED
  BY <1>2, <1>3 DEF MkdirFat1

LEMMA FenceMkdirFat2 ==
  ASSUME NEW D, NEW K, Fence(D, K), MkdirFat2
  PROVE  Fence(D, K)'
<1>1. pc = "mkdir_fat2" /\ pc' = "mkdir_zero" /\ UNCHANGED <<fat1, data, req, reg, ret>>
      /\ (faults' = faults \/ Fault)
  BY DEF MkdirFat2, WriteFat2, Goto, disk
<1>2. Fenced(fat1', data', D, K)
  BY <1>1 DEF Fence
<1>3. MkdirWalks(D, K)'
  BY <1>1 DEF Fence, Walks, MkdirPcs, MkdirWalks
<1>4. Walks(D, K)'
  BY <1>1, <1>3 DEF Walks, MkdirPcs, OverwritePcs, RemovePcs
<1>5. CASE Fault
  BY <1>2, <1>4, <1>5, Faulted
<1>6. CASE faults' = faults
  BY <1>1, <1>4, <1>6, SameStep DEF MkdirPcs, RemovePcs
<1>7. QED
  BY <1>1, <1>5, <1>6

LEMMA FenceMkdirZero ==
  ASSUME NEW D \in SUBSET Clusters, NEW K \in SUBSET Clusters, Fence(D, K), MkdirZero
  PROVE  FenceInv'
<1> DEFINE lba == Lba(reg.cluster) + reg.sector
<1>1. pc = "mkdir_zero" /\ pc \notin RemovePcs /\ pc \in MkdirPcs
  BY DEF MkdirZero, RemovePcs, MkdirPcs
<1>2. CASE WriteFails
  <2>1. Fence(D, K)'
    BY <1>2, FailsStopped
  <2>2. QED
    BY <2>1 DEF FenceInv
<1>3. CASE Return("failed") /\ UNCHANGED <<disk, faults>>
  <2>1. pc' = "idle" /\ fat1' = fat1 /\ data' = data /\ faults' = faults
    BY <1>3 DEF Return, disk
  <2>2. Walks(D, K)'
    BY <2>1 DEF Walks, MkdirPcs, OverwritePcs, RemovePcs
  <2>3. Fence(D, K)'
    BY <1>1, <2>1, <2>2, SameStep DEF MkdirPcs, RemovePcs
  <2>4. QED
    BY <2>3 DEF FenceInv
<1>4. CASE /\ WriteSector(lba, EmptySector)
           /\ reg' = [reg EXCEPT !.sector = @ + 1]
           /\ pc' = IF reg.sector + 1 = SectorsPerCluster THEN "mkdir_dot" ELSE pc
           /\ UNCHANGED <<req, ret, faults>>
  <2>1. PICK c, s : c = reg.cluster /\ s = reg.sector
    OBVIOUS
  <2>2. /\ lba = Lba(c) + s /\ lba \in Sectors /\ data' = [data EXCEPT ![lba] = EmptySector]
        /\ fat1' = fat1 /\ req' = req /\ faults' = faults
    BY <1>4, <2>1 DEF WriteSector
  <2>3. /\ Fenced(fat1, data, D, K) /\ req.path \in Paths /\ reg \in Registers /\ reg.dir \in D
        /\ c \in K /\ c \in Clusters /\ fat1[c] \notin Clusters /\ s \in Within
        /\ \A x \in 0 .. s - 1 : Lba(c) + x \in Sectors /\ data[Lba(c) + x] = EmptySector
    BY <1>1, <2>1 DEF Fence, Fenced, Walks, MkdirWalks
  <2>4. reg'.cluster = c /\ reg'.dir = reg.dir /\ reg'.sector = s + 1 /\ reg' \in Registers
    BY <1>4, <2>1, <2>3 DEF Registers
  <2>5. pc' \in MkdirPcs /\ pc' \notin RemovePcs /\ pc' \in {"mkdir_zero", "mkdir_dot"}
    BY <1>1, <1>4 DEF MkdirPcs, RemovePcs
  <2> HIDE DEF lba
  <2>6. Mild(data, data', D, K, lba, EmptySector)
    <3>1. DOMAIN EmptySector = Slots /\ \A i \in Slots : EmptySector[i] = End
      BY DEF EmptySector
    <3>2. End \in SlotValue /\ End.kind # "entry"
      BY DEF End, SlotValue
    <3>3. QED
      BY <2>2, <3>1, <3>2 DEF Mild, Harmless, Milder
  <2>7. Fenced(fat1', data', D, K) /\ faults' \in Nat /\ (faults' = 0 => Whole(D)')
    BY <1>1, <2>1, <2>2, <2>4, <2>5, <2>6, MildWhole
  <2>8. s \in Nat /\ SectorsPerCluster \in Nat \ {0} /\ s < SectorsPerCluster
    BY <2>3, Fat32Assumption DEF Within
  <2>9. \A x \in 0 .. s : Lba(c) + x \in Sectors /\ data'[Lba(c) + x] = EmptySector
    <3> TAKE x \in 0 .. s
    <3>1. DOMAIN data = Sectors
      BY <2>3 DEF Fenced, Typed
    <3>2. CASE x = s
      BY <2>2, <3>1, <3>2
    <3>3. CASE x # s
      <4>1. x \in 0 .. s - 1
        BY <2>8, <3>3
      <4>2. Lba(c) + x \in Sectors /\ data[Lba(c) + x] = EmptySector
        BY <2>3, <4>1
      <4>3. QED
        BY <2>2, <3>1, <4>2
    <3>4. QED
      BY <3>2, <3>3
  <2>10. CASE s + 1 = SectorsPerCluster
    <3>1. pc' = "mkdir_dot"
      BY <1>4, <2>1, <2>10
    <3>2. \A x \in Within : x \in 0 .. s
      BY <2>8, <2>10 DEF Within
    <3>3. c \in OnDevice
      <4>1. s = SectorsPerCluster - 1 /\ s \in 0 .. s
        BY <2>8, <2>10
      <4>2. Lba(c) \in Nat
        BY <2>3, LbaIs
      <4>3. Lba(c) + SectorsPerCluster - 1 = Lba(c) + s
        BY <2>8, <4>1, <4>2
      <4>4. Lba(c) + s \in Sectors
        BY <2>9, <4>1
      <4>5. QED
        BY <2>3, <4>3, <4>4 DEF OnDevice
    <3>4. ASSUME NEW k \in Indices PROVE DirOf(data', c)[k] = End
      <4>1. k \div SlotCount \in 0 .. s /\ SlotOf(k) \in Slots
        BY <3>2, Placing
      <4>2. data'[SectorOf(c, k)] = EmptySector
        BY <2>9, <4>1 DEF SectorOf
      <4>3. EmptySector[SlotOf(k)] = End
        BY <4>1 DEF EmptySector
      <4>4. QED
        BY <4>2, <4>3 DEF DirOf
    <3> DEFINE E == D \cup {c}
    <3>5. Fenced(fat1', data', E, K) /\ NamesOf(data', E) = NamesOf(data', D)
      <4>1. Fenced(fat1, data', D, K)
        BY <2>2, <2>7
      <4>2. PICK dat : dat = data'
        OBVIOUS
      <4>3. \A k \in Indices : DirOf(dat, c)[k] = End
        BY <3>4, <4>2
      <4>4. Fenced(fat1, dat, E, K) /\ NamesOf(dat, E) = NamesOf(dat, D)
        BY <2>3, <3>3, <4>1, <4>2, <4>3, FencedDirectory
      <4>5. QED
        BY <2>2, <4>2, <4>4
    <3>6. c \in E /\ reg.dir \in E /\ E \in SUBSET Clusters
      BY <2>3
    <3> HIDE DEF E
    <3>7. Walks(E, K)'
      <4>1. MkdirWalks(E, K)'
        BY <2>2, <2>3, <2>4, <3>1, <3>6 DEF MkdirWalks
      <4>2. QED
        BY <3>1, <4>1 DEF Walks, MkdirPcs, OverwritePcs, RemovePcs
    <3>8. faults' = 0 => Whole(E)'
      <4>1. Standing(E)' = Standing(D)'
        BY <3>5 DEF Standing
      <4>2. QED
        BY <2>5, <2>7, <4>1, StandingIs DEF Whole
    <3>9. Fence(E, K)'
      BY <2>7, <3>5, <3>7, <3>8 DEF Fence
    <3>10. QED
      BY <3>6, <3>9 DEF FenceInv
  <2>11. CASE s + 1 # SectorsPerCluster
    <3>1. pc' = "mkdir_zero"
      BY <1>1, <1>4, <2>1, <2>11
    <3>2. s + 1 \in Within /\ (s + 1) - 1 = s
      BY <2>8, <2>11 DEF Within
    <3>3. MkdirWalks(D, K)'
      BY <2>2, <2>3, <2>4, <2>9, <3>1, <3>2 DEF MkdirWalks
    <3>4. Walks(D, K)'
      BY <3>1, <3>3 DEF Walks, MkdirPcs, OverwritePcs, RemovePcs
    <3>5. Fence(D, K)'
      BY <2>7, <3>4 DEF Fence
    <3>6. QED
      BY <3>5 DEF FenceInv
  <2>12. QED
    BY <2>10, <2>11
<1>5. QED
  BY <1>2, <1>3, <1>4 DEF MkdirZero

\* An entry written in a directory.
LEMMA FencedWritten ==
  ASSUME NEW fat, NEW dat, NEW D, NEW K, Fenced(fat, dat, D, K), NEW d \in D, NEW k \in Indices,
         NEW e, Harmless(e, D, K), NEW datN, datN = Written(dat, d, k, e)
  PROVE  /\ Fenced(fat, datN, D, K)
         /\ NamesOf(datN, D) \subseteq NamesOf(dat, D) \cup {<<d, k>>}
         /\ EntOf(datN, <<d, k>>) = e
         /\ \A t \in NamesOf(datN, D) : t # <<d, k>> => EntOf(datN, t) = EntOf(dat, t)
<1>1. Typed(fat, dat) /\ D \subseteq OnDevice /\ e \in SlotValue
  BY DEF Fenced, Harmless
<1>2. \A c \in D : \A j \in Indices : DirOf(datN, c)[j] = IF c = d /\ j = k THEN e ELSE DirOf(dat, c)[j]
  BY <1>1, EntryWrite
<1>3. Typed(fat, datN)
  BY <1>1, TypedEntry
<1>4. \A c \in D : \A j \in Indices : Harmless(DirOf(datN, c)[j], D, K)
  BY <1>2 DEF Fenced
<1>5. Fenced(fat, datN, D, K)
  BY <1>3, <1>4 DEF Fenced
<1>6. EntOf(datN, <<d, k>>) = e
  BY <1>2 DEF EntOf
<1>7. \A t \in D \X Indices : t # <<d, k>> => EntOf(datN, t) = EntOf(dat, t)
  <2> TAKE t \in D \X Indices
  <2>1. t[1] \in D /\ t[2] \in Indices /\ t = <<t[1], t[2]>>
    OBVIOUS
  <2>2. QED
    BY <1>2, <2>1 DEF EntOf
<1>8. \A t \in NamesOf(datN, D) : t # <<d, k>> => EntOf(datN, t) = EntOf(dat, t)
  BY <1>7 DEF NamesOf
<1>9. NamesOf(datN, D) \subseteq NamesOf(dat, D) \cup {<<d, k>>}
  BY <1>7 DEF NamesOf
<1>10. QED
  BY <1>5, <1>6, <1>8, <1>9

\* The entries . and .. of the new directory.
LEMMA FenceDotWritten ==
  ASSUME NEW D, NEW K, Fence(D, K), pc \in {"mkdir_dot", "mkdir_dotdot"}, NEW k \in {0, 1},
         NEW n \in {Dot, DotDot}, NEW c \in D, WriteDirEntry(reg.cluster, k, Entry(n, c, TRUE, 0)),
         pc' \in {"mkdir_dotdot", "mkdir_entry"}, UNCHANGED <<req, reg, ret, faults>>
  PROVE  Fence(D, K)'
<1>1. PICK d : d = reg.cluster
  OBVIOUS
<1>2. Fenced(fat1, data, D, K) /\ d \in D /\ MkdirWalks(D, K) /\ D \subseteq Clusters
  BY <1>1 DEF Fence, Walks, MkdirPcs, MkdirWalks, Fenced, Short
<1>3. PICK e : e = Entry(n, c, TRUE, 0)
  OBVIOUS
<1>4. data' = Written(data, d, k, e) /\ fat1' = fat1 /\ k \in Indices
  BY <1>1, <1>3, DirEntryWritten, IndicesAre
<1>5. Harmless(e, D, K) /\ e.name \notin Names
  <2>1. e \in SlotValue
    BY <1>2, <1>3, DotsTyped
  <2>2. e.name = n /\ e.cluster = c /\ n \notin Names
    BY <1>3, Fat32Assumption DEF Entry
  <2>3. QED
    BY <2>1, <2>2 DEF Harmless
<1>6. /\ Fenced(fat1', data', D, K)
      /\ NamesOf(data', D) \subseteq NamesOf(data, D)
      /\ \A t \in NamesOf(data', D) : EntOf(data', t) = EntOf(data, t)
  <2>1. /\ Fenced(fat1, data', D, K)
        /\ NamesOf(data', D) \subseteq NamesOf(data, D) \cup {<<d, k>>}
        /\ EntOf(data', <<d, k>>) = e
        /\ \A t \in NamesOf(data', D) : t # <<d, k>> => EntOf(data', t) = EntOf(data, t)
    BY <1>2, <1>4, <1>5, FencedWritten
  <2>2. <<d, k>> \notin NamesOf(data', D)
    BY <1>5, <2>1 DEF NamesOf
  <2>3. QED
    BY <1>4, <2>1, <2>2
<1>7. pc \notin RemovePcs /\ pc' \notin RemovePcs /\ pc \in MkdirPcs /\ pc # "mkdir_fat1"
  BY DEF RemovePcs, MkdirPcs
<1>8. MkdirWalks(D, K)'
  BY <1>2, <1>4 DEF MkdirWalks
<1>9. Walks(D, K)'
  BY <1>8 DEF Walks, MkdirPcs, OverwritePcs, RemovePcs
<1>10. ASSUME faults = 0 PROVE Whole(D)'
  <2>1. Whole(D) /\ Standing(D) = NamesOf(data, D) /\ Standing(D)' = NamesOf(data', D)
    BY <1>7, <1>10, StandingIs DEF Fence
  <2>2. Apart(fat1, data, NamesOf(data, D)) /\ fat1[d] = EndOfChain
        /\ \A t \in NamesOf(data, D) : d \notin OwnedBy(fat1, data, t)
    BY <1>1, <1>7, <2>1 DEF Whole
  <2>3. Keeps(fat1, data, fat1', data', NamesOf(data', D))
    BY <1>2, <1>4, <1>6, NamesAre DEF Keeps
  <2>4. /\ Apart(fat1', data', NamesOf(data', D))
        /\ \A t \in NamesOf(data', D) : OwnedBy(fat1', data', t) = OwnedBy(fat1, data, t)
    BY <1>6, <2>2, <2>3, ApartKept
  <2>5. reg'.cluster = d /\ fat1'[d] = EndOfChain
        /\ \A t \in NamesOf(data', D) : d \notin OwnedBy(fat1', data', t)
    BY <1>1, <1>4, <1>6, <2>2, <2>4
  <2>6. QED
    BY <1>7, <2>1, <2>4, <2>5 DEF Whole
<1>11. faults' \in Nat /\ faults' = faults
  BY DEF Fence
<1>12. QED
  BY <1>6, <1>9, <1>10, <1>11 DEF Fence

LEMMA FenceMkdirDots ==
  ASSUME NEW D, NEW K, Fence(D, K), MkdirDot \/ MkdirDotDot
  PROVE  Fence(D, K)'
<1>1. pc \in {"mkdir_dot", "mkdir_dotdot"}
  BY DEF MkdirDot, MkdirDotDot
<1>2. MkdirWalks(D, K)
  BY <1>1 DEF Fence, Walks, MkdirPcs
<1>3. reg.cluster \in D /\ reg.dir \in D
  BY <1>1, <1>2 DEF MkdirWalks
<1>4. CASE WriteFails
  BY <1>4, FailsStopped
<1>5. CASE WriteDirEntry(reg.cluster, 0, Entry(Dot, reg.cluster, TRUE, 0)) /\ Goto("mkdir_dotdot")
  <2>1. PICK c \in D : c = reg.cluster
    BY <1>3
  <2>2. pc' \in {"mkdir_dotdot", "mkdir_entry"} /\ UNCHANGED <<req, reg, ret, faults>>
        /\ WriteDirEntry(reg.cluster, 0, Entry(Dot, c, TRUE, 0))
    BY <1>5, <2>1 DEF Goto
  <2>3. 0 \in {0, 1} /\ Dot \in {Dot, DotDot}
    OBVIOUS
  <2>4. QED
    BY <1>1, <2>2, <2>3, FenceDotWritten
<1>6. CASE WriteDirEntry(reg.cluster, 1, Entry(DotDot, reg.dir, TRUE, 0)) /\ Goto("mkdir_entry")
  <2>1. PICK c \in D : c = reg.dir
    BY <1>3
  <2>2. pc' \in {"mkdir_dotdot", "mkdir_entry"} /\ UNCHANGED <<req, reg, ret, faults>>
        /\ WriteDirEntry(reg.cluster, 1, Entry(DotDot, c, TRUE, 0))
    BY <1>6, <2>1 DEF Goto
  <2>3. 1 \in {0, 1} /\ DotDot \in {Dot, DotDot}
    OBVIOUS
  <2>4. QED
    BY <1>1, <2>2, <2>3, FenceDotWritten
<1>7. QED
  BY <1>4, <1>5, <1>6 DEF MkdirDot, MkdirDotDot

\* The first slot that find_free_slot takes.
LEMMA FreeSlotIs ==
  ASSUME NEW D, NEW K, Fenced(fat1, data, D, K), NEW d \in D, FindFreeSlot(d) >= 0
  PROVE  FindFreeSlot(d) \in Indices /\ DirOf(data, d)[FindFreeSlot(d)] \in {End, Deleted}
<1> DEFINE S == FreeSlots(DirOf(data, d))
           k == FindFreeSlot(d)
<1>1. k = Least(S)
  BY ShortIs DEF FindFreeSlot, Fenced
<1>2. S = {j \in Indices : DirOf(data, d)[j] \in {End, Deleted}}
  BY DEF FreeSlots, DirOf
<1> HIDE DEF S, k
<1>3. S \in SUBSET Nat
  BY <1>2, Prefix
<1>4. S # {}
  BY <1>1 DEF Least, k
<1>5. k \in S
  BY <1>1, <1>3, <1>4, LeastIs
<1>6. QED
  BY <1>2, <1>5 DEF k

LEMMA FenceMkdirEntry ==
  ASSUME NEW D, NEW K, Fence(D, K), MkdirEntry
  PROVE  Fence(D, K)'
<1> DEFINE k == FindFreeSlot(reg.dir)
           n == StoredName[Leaf(req.path)]
<1>1. pc = "mkdir_entry" /\ pc \notin RemovePcs /\ pc \in MkdirPcs /\ pc # "mkdir_fat1"
  BY DEF MkdirEntry, RemovePcs, MkdirPcs
<1>2. CASE WriteFails
  BY <1>2, FailsStopped
<1>3. CASE Return("failed") /\ UNCHANGED <<disk, faults>>
  <2>1. pc' = "idle" /\ fat1' = fat1 /\ data' = data /\ faults' = faults
    BY <1>3 DEF Return, disk
  <2>2. Walks(D, K)'
    BY <2>1 DEF Walks, MkdirPcs, OverwritePcs, RemovePcs
  <2>3. QED
    BY <1>1, <2>1, <2>2, SameStep DEF MkdirPcs, RemovePcs
<1>4. CASE /\ k >= 0
           /\ WriteDirEntry(reg.dir, k, Entry(n, reg.cluster, TRUE, 0))
           /\ Return("ok") /\ UNCHANGED faults
  <2>1. Fenced(fat1, data, D, K) /\ MkdirWalks(D, K)
    BY <1>1 DEF Fence, Walks
  <2>2. PICK c, d : c = reg.cluster /\ d = reg.dir
    OBVIOUS
  <2>3. /\ c \in D /\ d \in D /\ c \in K /\ c \in Clusters /\ c # Root /\ fat1[c] \notin Clusters
        /\ req.path \in Paths
    BY <1>1, <2>1, <2>2 DEF MkdirWalks, Fenced
  <2>4. n \in Names
    BY <2>3, PathLength, Fat32Assumption
  <2>5. PICK j : j = k
    OBVIOUS
  <2>6. j \in Indices /\ DirOf(data, d)[j] \in {End, Deleted}
    BY <1>4, <2>1, <2>2, <2>3, <2>5, FreeSlotIs
  <2>7. PICK e : e = Entry(n, c, TRUE, 0)
    OBVIOUS
  <2>8. WriteDirEntry(d, j, e) /\ faults' = faults /\ pc' = "idle"
    BY <1>4, <2>2, <2>5, <2>7 DEF Return
  <2> HIDE DEF k, n
  <2>9. data' = Written(data, d, j, e) /\ fat1' = fat1
    BY <2>8, DirEntryWritten
  <2>10. Harmless(e, D, K) /\ e.cluster = c
    <3>1. e \in EntryValue
      BY <2>3, <2>4, <2>7 DEF Entry, EntryValue
    <3>2. e \in SlotValue
      BY <3>1 DEF SlotValue, EntryValue
    <3>3. e.cluster = c
      BY <2>7 DEF Entry
    <3>4. QED
      BY <2>3, <3>2, <3>3 DEF Harmless
  <2> DEFINE t == <<d, j>>
  <2>11. /\ Fenced(fat1, data', D, K)
         /\ NamesOf(data', D) \subseteq NamesOf(data, D) \cup {t}
         /\ EntOf(data', t) = e
         /\ \A u \in NamesOf(data', D) : u # t => EntOf(data', u) = EntOf(data, u)
    BY <2>1, <2>3, <2>6, <2>9, <2>10, FencedWritten
  <2> HIDE DEF t
  <2>12. Walks(D, K)'
    BY <2>8 DEF Walks, MkdirPcs, OverwritePcs, RemovePcs
  <2>13. pc' \notin RemovePcs /\ pc' \notin MkdirPcs
    BY <2>8 DEF RemovePcs, MkdirPcs
  <2>14. ASSUME faults = 0 PROVE Whole(D)'
    <3>1. Whole(D) /\ Standing(D) = NamesOf(data, D) /\ Standing(D)' = NamesOf(data', D)
      BY <1>1, <2>13, <2>14, StandingIs DEF Fence
    <3>2. Apart(fat1, data, NamesOf(data, D)) /\ fat1[c] = EndOfChain
          /\ \A u \in NamesOf(data, D) : c \notin OwnedBy(fat1, data, u)
      BY <1>1, <2>2, <3>1 DEF Whole
    <3> DEFINE U == NamesOf(data', D) \ {t}
    <3>3. U \subseteq NamesOf(data, D)
      BY <2>11
    <3>4. Keeps(fat1, data, fat1', data', U)
      <4>1. \A u \in U : EntOf(data', u).cluster = EntOf(data, u).cluster
                         /\ EntOf(data, u).cluster \in Clusters \cup {0}
        BY <2>1, <2>11, <3>3, NamesAre
      <4> HIDE DEF U
      <4>2. QED
        BY <2>9, <4>1 DEF Keeps
    <3> HIDE DEF U
    <3>5. Apart(fat1', data', U) /\ \A u \in U : OwnedBy(fat1', data', u) = OwnedBy(fat1, data, u)
      BY <3>2, <3>3, <3>4, ApartKept
    <3>6. OwnedBy(fat1', data', t) = {c}
      <4>1. ChainIn(fat1, c) = <<c>>
        BY <2>3, ChainOfOne
      <4>2. Range(<<c>>) = {c}
        BY DEF Range
      <4>3. QED
        BY <2>9, <2>10, <2>11, <4>1, <4>2 DEF OwnedBy, ChainAt
    <3>7. fat1'[c] = EndOfChain /\ fat1'[c] # FreeCluster /\ fat1'[c] \notin Clusters
      BY <2>9, <3>2, NoCluster
    <3>8. \A u \in U : c \notin OwnedBy(fat1', data', u)
      BY <3>2, <3>3, <3>5
    <3>9. Apart(fat1', data', NamesOf(data', D))
      <4>1. \A u \in NamesOf(data', D) : u \in U \/ u = t
        BY DEF U
      <4>2. \A u \in NamesOf(data', D) :
              /\ FollowsIn(fat1', OwnedBy(fat1', data', u))
              /\ \A x \in OwnedBy(fat1', data', u) : fat1'[x] # FreeCluster /\ x # Root
        BY <2>3, <3>5, <3>6, <3>7, <4>1 DEF Apart, FollowsIn
      <4>3. \A u, v \in NamesOf(data', D) : u # v => OwnedBy(fat1', data', u) \cap OwnedBy(fat1', data', v) = {}
        BY <3>5, <3>6, <3>8, <4>1 DEF Apart
      <4>4. QED
        BY <4>2, <4>3 DEF Apart
    <3>10. QED
      BY <2>13, <3>1, <3>9 DEF Whole
  <2>15. Fenced(fat1', data', D, K) /\ faults' \in Nat
    BY <2>8, <2>9, <2>11 DEF Fence
  <2>16. QED
    BY <2>8, <2>12, <2>14, <2>15 DEF Fence
<1>5. QED
  BY <1>2, <1>3, <1>4 DEF MkdirEntry

\* A rename or an overwrite begins: it has found what it is about.
LEMMA FenceRenameBegin ==
  ASSUME NEW D, NEW K, Fence(D, K), NEW q \in Requests, RenameBegin(q)
  PROVE  Fence(D, K)'
<1>1. pc = "idle" /\ q.op = "rename"
  BY DEF RenameBegin
<1>2. CASE Refuse(q)
  BY <1>1, <1>2, FenceRefused
<1>3. CASE Locate(q.path)[2] >= 0
  <2>1. PICK t : t = Locate(q.path)
    OBVIOUS
  <2>2. Call(q, [NoReg EXCEPT !.dir = t[1], !.index = t[2]], "rename_entry")
    BY <1>3, <2>1 DEF RenameBegin
  <2>3. /\ pc' = "rename_entry" /\ req' = q /\ fat1' = fat1 /\ data' = data /\ faults' = faults
        /\ reg' = [NoReg EXCEPT !.dir = t[1], !.index = t[2]]
    BY <2>2 DEF Call, disk
  <2>4. reg'.dir = t[1] /\ reg'.index = t[2]
    BY <2>3 DEF NoReg
  <2>5. Fenced(fat1, data, D, K) /\ q.path \in Paths /\ q.name \in Names
    BY <1>1, RequestIs DEF Fence
  <2>6. t \in NamesOf(data, D)
    BY <1>3, <2>1, <2>5, FencedLocate
  <2>7. t = <<t[1], t[2]>>
    BY <2>5, <2>6, NamesAre
  <2>8. Walks(D, K)'
    BY <2>3, <2>4, <2>5, <2>6, <2>7 DEF Walks, MkdirPcs, OverwritePcs, RemovePcs
  <2>9. QED
    BY <1>1, <2>3, <2>8, SameStep DEF MkdirPcs, RemovePcs
<1>4. QED
  BY <1>2, <1>3 DEF RenameBegin

LEMMA FenceOverwriteBegin ==
  ASSUME NEW D, NEW K, Fence(D, K), NEW q \in Requests, OverwriteBegin(q)
  PROVE  Fence(D, K)'
<1>1. pc = "idle" /\ q.op = "overwrite"
  BY DEF OverwriteBegin
<1>2. CASE Refuse(q)
  BY <1>1, <1>2, FenceRefused
<1>3. CASE \E r, first : first \in OverwritePcs /\ Call(q, r, first)
  <2>1. pc' \in OverwritePcs /\ req' = q /\ fat1' = fat1 /\ data' = data /\ faults' = faults
    BY <1>3 DEF Call, disk
  <2>2. q.path \in Paths /\ q.data \in Data /\ q.size \in Nat
    BY <1>1, RequestIs
  <2>3. Walks(D, K)'
    BY <2>1, <2>2 DEF Walks, MkdirPcs, OverwritePcs, RemovePcs
  <2>4. QED
    BY <1>1, <2>1, <2>3, SameStep DEF MkdirPcs, OverwritePcs, RemovePcs
<1>4. QED
  BY <1>2, <1>3 DEF OverwriteBegin, OverwritePcs

-----------------------------------------------------------------------------
(***************************************************************************)
(* remove.                                                                 *)
(***************************************************************************)
LEMMA FenceRemoveBegin ==
  ASSUME NEW D, NEW K, Fence(D, K), NEW q \in Requests, RemoveBegin(q)
  PROVE  Fence(D, K)'
<1>1. pc = "idle" /\ pc \notin RemovePcs
  BY DEF RemoveBegin, RemovePcs
<1>2. CASE Refuse(q)
  BY <1>1, <1>2, FenceRefused
<1>3. CASE Locate(q.path)[2] >= 0
  <2>1. PICK t : t = Locate(q.path)
    OBVIOUS
  <2>2. PICK first : first = EntryOf(t).cluster
    OBVIOUS
  <2>3. Call(q, [NoReg EXCEPT !.dir = t[1], !.index = t[2], !.cluster = first],
             IF first \in Clusters THEN "remove_fat1" ELSE "remove_entry")
    BY <1>3, <2>1, <2>2 DEF RemoveBegin
  <2>4. /\ pc' = IF first \in Clusters THEN "remove_fat1" ELSE "remove_entry"
        /\ fat1' = fat1 /\ data' = data /\ faults' = faults
        /\ reg' = [NoReg EXCEPT !.dir = t[1], !.index = t[2], !.cluster = first]
    BY <2>3 DEF Call, disk
  <2>5. reg'.dir = t[1] /\ reg'.index = t[2] /\ reg'.cluster = first
    BY <2>4 DEF NoReg
  <2>6. pc' \in RemovePcs /\ pc' \notin MkdirPcs /\ (pc' = "remove_fat1" => first \in Clusters)
    BY <2>4 DEF RemovePcs, MkdirPcs
  <2>7. Fenced(fat1, data, D, K) /\ q.path \in Paths
    BY RequestIs DEF Fence
  <2>8. t \in NamesOf(data, D) /\ EntryOf(t) = EntOf(data, t)
    BY <1>3, <2>1, <2>7, FencedLocate
  <2>9. /\ t[1] \in D /\ t[2] \in Indices /\ t = <<t[1], t[2]>>
        /\ first = EntOf(data, t).cluster /\ first \in K \cup {0} /\ first \in Clusters \cup {0}
    BY <2>2, <2>7, <2>8, NamesAre
  <2>10. RemoveWalks(D, K)'
    <3>1. first \in Clusters => first \in K
      BY <2>9, NoCluster
    <3>2. QED
      BY <2>5, <2>6, <2>9, <3>1 DEF RemoveWalks
  <2>11. Walks(D, K)'
    BY <2>6, <2>10 DEF Walks, MkdirPcs, OverwritePcs, RemovePcs
  <2>12. ASSUME faults = 0 PROVE Whole(D)'
    <3>1. Whole(D) /\ Standing(D) = NamesOf(data, D)
      BY <1>1, <2>12, StandingIs DEF Fence
    <3>2. Apart(fat1, data, NamesOf(data, D))
      BY <3>1 DEF Whole
    <3>3. Standing(D)' = NamesOf(data, D) \ {t}
      BY <2>4, <2>5, <2>6, <2>9 DEF Standing, Doomed
    <3>4. Apart(fat1, data, NamesOf(data, D) \ {t})
      BY <3>2 DEF Apart
    <3>5. PICK R : R = OwnedBy(fat1, data, t)
      OBVIOUS
    <3>6. R \in SUBSET Clusters /\ (first \in Clusters => first \in R)
      BY <2>9, <3>5, ChainTypes DEF OwnedBy, ChainAt
    <3>7. FollowsIn(fat1, R) /\ \A u \in NamesOf(data, D) \ {t} : OwnedBy(fat1, data, u) \cap R = {}
      BY <2>8, <3>2, <3>5 DEF Apart
    <3>8. Freeing(R, D)'
      BY <2>4, <2>5, <3>3, <3>6, <3>7 DEF Freeing
    <3>9. Apart(fat1', data', Standing(D)')
      BY <2>4, <3>3, <3>4
    <3>10. QED
      BY <2>6, <3>6, <3>8, <3>9 DEF Whole
  <2>13. QED
    BY <2>4, <2>7, <2>11, <2>12 DEF Fence
<1>4. QED
  BY <1>2, <1>3 DEF RemoveBegin

\* The walk over the chain, without failure.
LEMMA FenceFreed ==
  ASSUME NEW D, NEW K, Fence(D, K), pc = "remove_fat1", WriteFat1(reg.cluster, FreeCluster), pc' = "remove_fat2",
         reg'.cluster = fat1[reg.cluster], reg'.dir = reg.dir, reg'.index = reg.index, faults' = faults
  PROVE  Fence(D, K)'
<1>1. PICK c : c = reg.cluster
  OBVIOUS
<1>2. PICK next : next = fat1[c]
  OBVIOUS
<1>3. fat1' = [fat1 EXCEPT ![c] = FreeCluster] /\ data' = data /\ reg'.cluster = next
  BY <1>1, <1>2 DEF WriteFat1
<1>4. Fenced(fat1, data, D, K) /\ RemoveWalks(D, K) /\ c \in K /\ c \in Clusters
  BY <1>1 DEF Fence, Fenced, Walks, RemovePcs, RemoveWalks
<1>5. Fenced(fat1', data', D, K)
  BY <1>3, <1>4, FencedMark
<1>6. \A x \in Clusters : fat1'[x] = IF x = c THEN FreeCluster ELSE fat1[x]
  BY <1>3, <1>4 DEF Fenced, Typed
<1>7. pc \in RemovePcs /\ pc' \in RemovePcs /\ pc' \notin MkdirPcs
  BY DEF RemovePcs, MkdirPcs
<1>8. RemoveWalks(D, K)'
  BY <1>2, <1>3, <1>4 DEF RemoveWalks, Fenced, FollowsIn
<1>9. Walks(D, K)'
  BY <1>7, <1>8 DEF Walks, MkdirPcs, OverwritePcs, RemovePcs
<1>10. ASSUME faults = 0 PROVE Whole(D)'
  <2>1. PICK T : T = Standing(D)
    OBVIOUS
  <2>2. T \subseteq NamesOf(data, D) /\ Standing(D)' = T
    BY <1>3, <1>7, <2>1 DEF Standing, Doomed
  <2>3. Whole(D) /\ Apart(fat1, data, T)
    BY <1>10, <2>1 DEF Fence, Whole
  <2>4. PICK R \in SUBSET Clusters : Freeing(R, D)
    BY <1>7, <2>3 DEF Whole
  <2>5. FollowsIn(fat1, R) /\ c \in R /\ \A t \in T : OwnedBy(fat1, data, t) \cap R = {}
    BY <1>1, <1>4, <2>1, <2>4 DEF Freeing
  <2>6. Keeps(fat1, data, fat1', data', T)
    <3>1. ASSUME NEW t \in T, NEW x \in OwnedBy(fat1, data, t) PROVE fat1'[x] = fat1[x]
      <4>1. EntOf(data, t).cluster \in Clusters \cup {0}
        BY <1>4, <2>2, NamesAre
      <4>2. x \in Clusters
        BY <4>1, ChainTypes DEF OwnedBy, ChainAt
      <4>3. x # c
        BY <2>5
      <4>4. QED
        BY <1>6, <4>2, <4>3
    <3>2. \A t \in T : EntOf(data, t).cluster \in Clusters \cup {0}
      BY <1>4, <2>2, NamesAre
    <3>3. QED
      BY <1>3, <3>1, <3>2 DEF Keeps
  <2>7. Apart(fat1', data', T) /\ \A t \in T : OwnedBy(fat1', data', t) = OwnedBy(fat1, data, t)
    BY <2>3, <2>6, ApartKept
  <2>8. FollowsIn(fat1', R)
    BY <1>6, <2>5, NoCluster DEF FollowsIn, FreeCluster
  <2>9. Freeing(R, D)'
    BY <1>2, <1>3, <2>2, <2>5, <2>7, <2>8 DEF Freeing, FollowsIn
  <2>10. QED
    BY <1>7, <2>2, <2>7, <2>9 DEF Whole
<1>11. faults' \in Nat
  BY DEF Fence
<1>12. QED
  BY <1>5, <1>9, <1>10, <1>11 DEF Fence

LEMMA FenceRemoveFat1 ==
  ASSUME NEW D, NEW K, Fence(D, K), RemoveFat1
  PROVE  Fence(D, K)'
<1>1. PICK c, next : c = reg.cluster /\ next = fat1[c]
  OBVIOUS
<1>2. pc = "remove_fat1" /\ Fenced(fat1, data, D, K)
  BY DEF RemoveFat1, Fence
<1>3. RemoveWalks(D, K) /\ c \in K /\ c \in Clusters
  BY <1>1, <1>2 DEF Fence, Fenced, Walks, RemovePcs, RemoveWalks
<1>4. next \in Clusters => next \in K
  BY <1>1, <1>2, <1>3 DEF Fenced, FollowsIn
<1>5. CASE /\ WriteFat1(reg.cluster, FreeCluster) /\ pc' = "remove_fat2" /\ faults' = faults
           /\ reg'.cluster = fat1[reg.cluster] /\ reg'.dir = reg.dir /\ reg'.index = reg.index
  BY <1>2, <1>5, FenceFreed
<1>6. CASE /\ WriteFat1(c, FreeCluster) /\ pc' = "remove_fat2" /\ Fault
           /\ reg'.cluster = EndOfChain /\ reg'.dir = reg.dir /\ reg'.index = reg.index
  <2>1. fat1' = [fat1 EXCEPT ![c] = FreeCluster] /\ data' = data
    BY <1>6 DEF WriteFat1
  <2>2. Fenced(fat1', data', D, K)
    BY <1>2, <1>3, <2>1, FencedMark
  <2>3. RemoveWalks(D, K)'
    BY <1>3, <1>6, NoCluster DEF RemoveWalks
  <2>4. Walks(D, K)'
    BY <1>6, <2>3 DEF Walks, MkdirPcs, OverwritePcs, RemovePcs
  <2>5. QED
    BY <1>6, <2>2, <2>4, Faulted
<1>7. CASE /\ Fault /\ UNCHANGED disk
           /\ pc' = IF next \in Clusters THEN "remove_fat1" ELSE "remove_entry"
           /\ reg'.cluster = next /\ reg'.dir = reg.dir /\ reg'.index = reg.index
  <2>1. Fenced(fat1', data', D, K)
    BY <1>2, <1>7 DEF disk
  <2>2. RemoveWalks(D, K)'
    BY <1>3, <1>4, <1>7 DEF RemoveWalks
  <2>3. Walks(D, K)'
    BY <1>7, <2>2 DEF Walks, MkdirPcs, OverwritePcs, RemovePcs
  <2>4. QED
    BY <1>7, <2>1, <2>3, Faulted
<1>8. QED
  BY <1>1, <1>5, <1>6, <1>7 DEF RemoveFat1

LEMMA FenceRemoveFat2 ==
  ASSUME NEW D, NEW K, Fence(D, K), RemoveFat2
  PROVE  Fence(D, K)'
<1>1. /\ pc = "remove_fat2" /\ pc' = IF reg.cluster \in Clusters THEN "remove_fat1" ELSE "remove_entry"
      /\ UNCHANGED <<fat1, data, req, reg, ret>> /\ (faults' = faults \/ Fault)
  BY DEF RemoveFat2, WriteFat2, disk
<1>2. pc \in RemovePcs /\ pc' \in RemovePcs /\ pc' \notin MkdirPcs /\ (pc' = "remove_fat1" => reg.cluster \in Clusters)
  BY <1>1 DEF RemovePcs, MkdirPcs
<1>3. Fenced(fat1', data', D, K)
  BY <1>1 DEF Fence
<1>4. RemoveWalks(D, K)'
  BY <1>1, <1>2 DEF Fence, Walks, RemoveWalks
<1>5. Walks(D, K)'
  BY <1>2, <1>4 DEF Walks, MkdirPcs, OverwritePcs, RemovePcs
<1>6. CASE Fault
  BY <1>3, <1>5, <1>6, Faulted
<1>7. CASE faults' = faults
  <2>1. Standing(D)' = Standing(D)
    BY <1>1, <1>2 DEF Standing, Doomed
  <2>2. \A R : Freeing(R, D) => Freeing(R, D)'
    BY <1>1, <2>1 DEF Freeing
  <2>3. Whole(D) => Whole(D)'
    BY <1>1, <1>2, <2>1, <2>2 DEF Whole
  <2>4. QED
    BY <1>3, <1>5, <1>7, <2>3 DEF Fence
<1>8. QED
  BY <1>1, <1>6, <1>7

\* The last write puts the FAT, or the directory, over the directory's sector.
LEMMA BufferIs ==
  ASSUME NEW D, NEW K, Fenced(fat1, data, D, K), NEW l \in Sectors, NEW buffer,
         buffer = IF reg.sector = 0 THEN data[l] ELSE FatImage(reg.sector, reg.cleared)
  PROVE  DOMAIN buffer = Slots /\ \A i \in Slots : buffer[i] = data[l][i] \/ buffer[i] \in {End, Junk}
<1>1. CASE reg.sector = 0
  BY <1>1 DEF Fenced, Typed
<1>2. CASE reg.sector # 0
  <2>1. buffer = FatImage(reg.sector, reg.cleared)
    BY <1>2
  <2>2. DOMAIN buffer = Slots /\ \A i \in Slots : buffer[i] \in {End, Junk}
    BY <2>1 DEF FatImage
  <2>3. QED
    BY <2>2
<1>3. QED
  BY <1>1, <1>2

LEMMA FenceRemoveEntry ==
  ASSUME NEW D, NEW K, Fence(D, K), RemoveEntry
  PROVE  Fence(D, K)'
<1> DEFINE place == Place(reg.dir, reg.index)
           buf == IF reg.sector = 0 THEN data[place[1]] ELSE FatImage(reg.sector, reg.cleared)
<1>1. pc = "remove_entry" /\ pc \in RemovePcs
  BY DEF RemoveEntry, RemovePcs
<1>2. CASE WriteFails
  BY <1>2, FailsStopped
<1>3. CASE WriteSector(place[1], [buf EXCEPT ![place[2]] = Deleted]) /\ Return("ok") /\ UNCHANGED faults
  <2>1. PICK d, k : d = reg.dir /\ k = reg.index
    OBVIOUS
  <2>2. PICK l, i : l = SectorOf(d, k) /\ i = SlotOf(k)
    OBVIOUS
  <2>3. Fenced(fat1, data, D, K) /\ d \in D /\ k \in Indices
    BY <1>1, <2>1 DEF Fence, Walks, RemoveWalks
  <2>4. place = <<l, i>> /\ l \in Sectors /\ i \in Slots
    BY <2>1, <2>2, <2>3, FencedPlace
  <2>5. PICK buffer : buffer = IF reg.sector = 0 THEN data[l] ELSE FatImage(reg.sector, reg.cleared)
    OBVIOUS
  <2>6. DOMAIN buffer = Slots /\ \A j \in Slots : buffer[j] = data[l][j] \/ buffer[j] \in {End, Junk}
    BY <2>3, <2>4, <2>5, BufferIs
  <2>7. PICK sector : sector = [buffer EXCEPT ![i] = Deleted]
    OBVIOUS
  <2>8. /\ data' = [data EXCEPT ![l] = sector] /\ fat1' = fat1 /\ pc' = "idle" /\ faults' = faults
    BY <1>3, <2>4, <2>5, <2>7 DEF WriteSector, Return
  <2>9. DOMAIN sector = Slots /\ \A j \in Slots : sector[j] = IF j = i THEN Deleted ELSE buffer[j]
    BY <2>4, <2>6, <2>7
  <2>10. \A v \in {End, Junk, Deleted} : v \in SlotValue /\ v.kind # "entry"
    BY DEF End, Junk, Deleted, SlotValue
  <2>11. Mild(data, data', D, K, l, sector)
    <3>1. \A j \in Slots : sector[j] = data[l][j] \/ sector[j] \in {End, Junk, Deleted}
      BY <2>6, <2>9
    <3>2. QED
      BY <2>4, <2>8, <2>9, <2>10, <3>1 DEF Mild, Harmless, Milder
  <2>12. /\ Fenced(fat1, data', D, K) /\ NamesOf(data', D) \subseteq NamesOf(data, D)
         /\ \A t \in NamesOf(data', D) : EntOf(data', t).cluster = EntOf(data, t).cluster
    BY <2>3, <2>11, MildWrite
  <2>13. <<d, k>> \notin NamesOf(data', D)
    <3>1. data'[l] = sector
      BY <2>3, <2>4, <2>8 DEF Fenced, Typed
    <3>2. DirOf(data', d)[k] = Deleted
      BY <2>2, <2>3, <2>4, <2>9, <3>1 DEF DirOf
    <3>3. QED
      BY <2>10, <3>2 DEF NamesOf, EntOf
  <2>14. Walks(D, K)'
    BY <2>8 DEF Walks, MkdirPcs, OverwritePcs, RemovePcs
  <2>15. ASSUME faults = 0 PROVE Whole(D)'
    <3>1. pc' \notin RemovePcs /\ pc' \notin MkdirPcs
      BY <2>8 DEF RemovePcs, MkdirPcs
    <3>2. Whole(D) /\ Standing(D) = NamesOf(data, D) \ {<<d, k>>} /\ Standing(D)' = NamesOf(data', D)
      BY <1>1, <2>1, <2>15, <3>1, StandingIs DEF Fence, Standing, Doomed
    <3>3. Apart(fat1, data, Standing(D)) /\ NamesOf(data', D) \subseteq Standing(D)
      BY <2>12, <2>13, <3>2 DEF Whole
    <3>4. Keeps(fat1, data, fat1', data', NamesOf(data', D))
      BY <2>3, <2>8, <2>12, NamesAre DEF Keeps
    <3>5. Apart(fat1', data', NamesOf(data', D))
      BY <3>3, <3>4, ApartKept
    <3>6. QED
      BY <3>1, <3>2, <3>5 DEF Whole
  <2>16. Fenced(fat1', data', D, K) /\ faults' \in Nat
    BY <2>8, <2>12 DEF Fence
  <2>17. QED
    BY <2>8, <2>14, <2>15, <2>16 DEF Fence
<1>4. QED
  BY <1>2, <1>3 DEF RemoveEntry

-----------------------------------------------------------------------------
LEMMA FenceWrong ==
  ASSUME NEW D, NEW K, Fence(D, K), (\E q \in Requests : BeginWrong(q)) \/ GoesWrong
  PROVE  Fence(D, K)'
<1>1. /\ fat1' = fat1 /\ data' = data /\ faults' = faults /\ pc' \in WentWrong
      /\ pc \in {"idle", "mkdir_entry", "overwrite_size"}
  BY WrongStep
<1>2. Walks(D, K)'
  BY <1>1 DEF Walks, MkdirPcs, OverwritePcs, RemovePcs, WentWrong
<1>3. Whole(D) => Whole(D)'
  <2>1. Standing(D)' = Standing(D)
    BY <1>1 DEF Standing, Doomed, RemovePcs, WentWrong
  <2>2. QED
    BY <1>1, <2>1 DEF Whole, MkdirPcs, RemovePcs, WentWrong
<1>4. QED
  BY <1>1, <1>2, <1>3 DEF Fence

LEMMA FenceBegin ==
  ASSUME NEW D, NEW K, Fence(D, K), Begin
  PROVE  Fence(D, K)'
<1>1. PICK q \in Requests : LookupFails(q) \/ BeginWrong(q) \/ MkdirBegin(q) \/ RenameBegin(q)
                            \/ OverwriteBegin(q) \/ RemoveBegin(q)
  BY DEF Begin
<1>2. CASE LookupFails(q)
  <2>1. Fault /\ UNCHANGED disk /\ pc' = "idle"
    BY <1>2 DEF LookupFails
  <2>2. QED
    BY <2>1, Stopped
<1>3. QED
  BY <1>1, <1>2, FenceWrong, FenceMkdirBegin, FenceRenameBegin, FenceOverwriteBegin, FenceRemoveBegin

LEMMA NextFenceInv ==
  ASSUME FenceInv, [Next]_vars
  PROVE  FenceInv'
<1>1. PICK D \in SUBSET Clusters, K \in SUBSET Clusters : Fence(D, K)
  BY DEF FenceInv
<1>2. CASE Begin
  BY <1>1, <1>2, FenceBegin DEF FenceInv
<1>3. CASE Mkdir
  <2>1. CASE MkdirZero
    BY <1>1, <2>1, FenceMkdirZero
  <2>2. CASE MkdirFat1 \/ MkdirFat2 \/ MkdirDot \/ MkdirDotDot \/ MkdirEntry
    <3>1. Fence(D, K)'
      BY <1>1, <2>2, FenceMkdirFat1, FenceMkdirFat2, FenceMkdirDots, FenceMkdirEntry
    <3>2. QED
      BY <3>1 DEF FenceInv
  <2>3. QED
    BY <1>3, <2>1, <2>2 DEF Mkdir
<1>4. CASE RenameEntry \/ Overwrite
  <2>1. Fence(D, K)'
    BY <1>1, <1>4, FenceRename, FenceOverwriteData, FenceOverwriteCutShort, FenceOverwriteSize DEF Overwrite
  <2>2. QED
    BY <2>1 DEF FenceInv
<1>5. CASE Remove
  <2>1. Fence(D, K)'
    BY <1>1, <1>5, FenceRemoveFat1, FenceRemoveFat2, FenceRemoveEntry DEF Remove
  <2>2. QED
    BY <2>1 DEF FenceInv
<1>6. CASE Restart
  <2>1. Fence(D, K)'
    BY <1>1, <1>6, Stopped DEF Restart, Return
  <2>2. QED
    BY <2>1 DEF FenceInv
<1>9. CASE GoesWrong
  <2>1. Fence(D, K)'
    BY <1>1, <1>9, FenceWrong
  <2>2. QED
    BY <2>1 DEF FenceInv
<1>7. CASE UNCHANGED vars
  <2>1. /\ fat1' = fat1 /\ data' = data /\ req' = req /\ pc' = pc /\ reg' = reg /\ faults' = faults
    BY <1>7 DEF vars
  <2>2. Fence(D, K)'
    BY <1>1, <2>1 DEF Fence, Walks, MkdirWalks, RemoveWalks, Whole, Freeing, Standing, Doomed
  <2>3. QED
    BY <2>2 DEF FenceInv
<1>8. QED
  BY <1>2, <1>3, <1>4, <1>5, <1>6, <1>7, <1>9 DEF Next, Step, StaysWrong

-----------------------------------------------------------------------------
\* The clusters of an entry of a sound tree lead nowhere else.
LEMMA OwnedFollows ==
  ASSUME NEW fat, NEW dat, NEW D, Typed(fat, dat), Sound(fat, dat, D), NEW t \in NodesOf(dat, D)
  PROVE  FollowsIn(fat, OwnedBy(fat, dat, t)) /\ OwnedBy(fat, dat, t) \subseteq Clusters
<1>1. EntOf(dat, t).cluster \in Clusters \cup {0}
  BY NodeIs DEF Sound, DirsIn
<1>2. OwnedBy(fat, dat, t) \subseteq Clusters
  BY <1>1, ChainTypes DEF OwnedBy, ChainAt
<1>3. CASE EntOf(dat, t).dir
  <2>1. OwnedBy(fat, dat, t) = {EntOf(dat, t).cluster} /\ EntOf(dat, t).cluster \in D
    BY <1>3, DirectoryOwnsItself DEF Sound, DirsWhole
  <2>2. fat[EntOf(dat, t).cluster] \notin Clusters
    BY <2>1, NoCluster DEF Sound, DirsIn
  <2>3. QED
    BY <1>2, <2>1, <2>2 DEF FollowsIn
<1>4. CASE ~EntOf(dat, t).dir
  <2>1. FileEnds(fat, EntOf(dat, t))
    BY <1>4 DEF Sound, FilesWhole
  <2>2. ASSUME NEW x \in OwnedBy(fat, dat, t), fat[x] \in Clusters PROVE fat[x] \in OwnedBy(fat, dat, t)
    <3>1. PICK c : c = EntOf(dat, t).cluster
      OBVIOUS
    <3>2. x \in Range(ChainIn(fat, c)) /\ c \in Clusters \cup {0}
      BY <1>1, <3>1 DEF OwnedBy, ChainAt
    <3>3. ChainIn(fat, c) # <<>>
      BY <3>2, ChainTypes
    <3>4. LET s == ChainIn(fat, c) IN fat[s[Len(s)]] = EndOfChain
      BY <2>1, <3>1, <3>3 DEF FileEnds
    <3>5. fat[x] \in Range(ChainIn(fat, c))
      BY <2>2, <3>2, <3>4, ChainNext
    <3>6. QED
      BY <3>1, <3>5 DEF OwnedBy, ChainAt
  <2>3. QED
    BY <1>2, <2>2 DEF FollowsIn
<1>5. QED
  BY <1>2, <1>3, <1>4

\* The slots of a sound tree.
LEMMA SoundHarmless ==
  ASSUME NEW fat, NEW dat, NEW D, Typed(fat, dat), Sound(fat, dat, D), NEW K,
         \A t \in NodesOf(dat, D) : OwnedBy(fat, dat, t) \subseteq K,
         NEW d \in D, NEW k \in Indices
  PROVE  /\ Harmless(DirOf(dat, d)[k], D, K)
         /\ DirOf(dat, d)[k].kind = "entry" /\ DirOf(dat, d)[k].name \in Names => <<d, k>> \in NodesOf(dat, D)
<1> DEFINE v == DirOf(dat, d)[k]
<1>1. DirsIn(fat, D) /\ D \subseteq OnDevice
  BY DEF Sound, DirsIn
<1>2. v \in SlotValue
  <2>1. SectorOf(d, k) \in Sectors /\ SlotOf(k) \in Slots /\ v = dat[SectorOf(d, k)][SlotOf(k)]
    BY <1>1, DeviceEntries DEF DirOf
  <2>2. QED
    BY <2>1 DEF Typed
<1> HIDE DEF v
<1>3. Dot \notin Names /\ DotDot \notin Names
  BY Fat32Assumption
<1>4. CASE v.kind = "entry" /\ v.name \in {Dot, DotDot}
  <2>1. d # Root /\ k \in {0, 1}
    BY <1>4 DEF Sound, DotsFirst, v
  <2>2. PICK t \in NodesOf(dat, D) : EntOf(dat, t).dir /\ EntOf(dat, t).cluster = d
    BY <2>1 DEF Sound, AllNamed
  <2>3. DotsOf(dat, d, t[1]) /\ t[1] \in D
    BY <2>2 DEF Sound, DirsWhole, NodesOf
  <2>4. v.cluster \in D
    BY <2>1, <2>3 DEF DotsOf, Entry, v
  <2>5. QED
    BY <1>2, <1>3, <1>4, <2>4 DEF Harmless, v
<1>5. CASE v.kind = "entry" /\ v.name \notin {Dot, DotDot}
  <2>1. <<d, k>> \in NodesOf(dat, D) /\ EntOf(dat, <<d, k>>) = v
    BY <1>5, NamedSeen DEF Sound, IsNode, EntOf, v
  <2>2. v.cluster \in Clusters \cup {0}
    BY <1>1, <2>1, NodeIs
  <2>3. v.cluster \in Clusters => v.cluster \in OwnedBy(fat, dat, <<d, k>>)
    BY <2>1, ChainTypes DEF OwnedBy, ChainAt
  <2>4. v.cluster \in K \cup {0}
    BY <2>1, <2>2, <2>3
  <2>5. v.dir => v.cluster \in D
    BY <2>1 DEF Sound, DirsWhole
  <2>6. QED
    BY <1>2, <2>1, <2>4, <2>5 DEF Harmless, v
<1>6. CASE v.kind # "entry"
  BY <1>2, <1>6 DEF Harmless, v
<1>7. QED
  BY <1>4, <1>5, <1>6

\* A volume starts with a sound tree.
LEMMA InitFenceInv ==
  ASSUME Init, TreeSound
  PROVE  FenceInv
<1> DEFINE D == Directories
           T == NodesOf(data, D)
           K == {c \in Clusters : fat1[c] = FreeCluster} \cup UNION {OwnedBy(fat1, data, t) : t \in T}
<1>1. Typed(fat1, data) /\ Sound(fat1, data, D) /\ D \in SUBSET Clusters
  BY MeansSound
<1>2. pc = "idle" /\ faults = 0
  BY DEF Init
<1> HIDE DEF D
<1>3. \A t \in T : /\ FollowsIn(fat1, OwnedBy(fat1, data, t)) /\ OwnedBy(fat1, data, t) \subseteq Clusters
                   /\ \A c \in OwnedBy(fat1, data, t) : fat1[c] # FreeCluster /\ c # Root
  BY <1>1, OwnedFollows DEF Sound, AllUsed
<1>4. /\ Root \in D /\ D \subseteq OnDevice /\ fat1[Root] = EndOfChain /\ Short(fat1, D)
  BY <1>1, NoCluster DEF Sound, DirsIn, Short
<1> HIDE DEF T
<1>5. /\ K \in SUBSET Clusters /\ Root \notin K /\ FollowsIn(fat1, K)
      /\ \A t \in T : OwnedBy(fat1, data, t) \subseteq K
      /\ \A c \in Clusters : fat1[c] = FreeCluster => c \in K
  <2>1. K \subseteq Clusters
    BY <1>3
  <2>2. Root \notin K
    BY <1>3, <1>4, NoCluster
  <2>3. FollowsIn(fat1, K)
    <3> SUFFICES ASSUME NEW c \in K, fat1[c] \in Clusters PROVE fat1[c] \in K
      BY DEF FollowsIn
    <3>1. fat1[c] # FreeCluster
      BY NoCluster DEF FreeCluster
    <3>2. PICK t \in T : c \in OwnedBy(fat1, data, t)
      BY <3>1
    <3>3. fat1[c] \in OwnedBy(fat1, data, t)
      BY <1>3, <3>2 DEF FollowsIn
    <3>4. QED
      BY <3>3
  <2>4. QED
    BY <2>1, <2>2, <2>3
<1> HIDE DEF K
<1>6. \A d \in D : \A k \in Indices : Harmless(DirOf(data, d)[k], D, K)
  BY <1>1, <1>5, SoundHarmless DEF T
<1>7. Fenced(fat1, data, D, K)
  BY <1>1, <1>4, <1>5, <1>6 DEF Fenced
<1>8. NamesOf(data, D) \subseteq T
  <2> SUFFICES ASSUME NEW t \in NamesOf(data, D) PROVE t \in T
    OBVIOUS
  <2>1. PICK d \in D, k \in Indices : t = <<d, k>>
    BY DEF NamesOf
  <2>2. DirOf(data, d)[k].kind = "entry" /\ DirOf(data, d)[k].name \in Names
    BY <2>1 DEF NamesOf, EntOf
  <2>3. QED
    BY <1>1, <1>5, <2>1, <2>2, SoundHarmless DEF T
<1>9. Apart(fat1, data, NamesOf(data, D))
  <2>1. \A t, u \in T : t # u => OwnedBy(fat1, data, t) \cap OwnedBy(fat1, data, u) = {}
    BY <1>1 DEF Sound, AllApart, T
  <2>2. QED
    BY <1>3, <1>8, <2>1 DEF Apart
<1>10. pc \notin MkdirPcs /\ pc \notin RemovePcs /\ Walks(D, K)
  BY <1>2 DEF Walks, MkdirPcs, OverwritePcs, RemovePcs
<1>11. Whole(D)
  BY <1>9, <1>10, StandingIs DEF Whole
<1>12. Fence(D, K)
  BY <1>2, <1>7, <1>10, <1>11 DEF Fence
<1>13. QED
  BY <1>1, <1>5, <1>12 DEF FenceInv

-----------------------------------------------------------------------------
\* The tree that lookups see is part of what the invariant speaks of.
LEMMA FencedDirectories ==
  ASSUME NEW D, NEW K, Fenced(fat1, data, D, K)
  PROVE  Directories \subseteq D
<1>1. D \in SUBSET Clusters /\ Root \in D /\ Short(fat1, D)
  BY DEF Fenced, Short
<1>2. ASSUME NEW l \in Leads, l[1] \in D PROVE l[2] \in D
  <2>1. PICK d \in OnDevice : l \in {d} \X (SubdirsIn(Entries(d)) \cap Clusters)
    BY DEF Leads
  <2>2. l[1] = d /\ l[2] \in SubdirsIn(Entries(d))
    BY <2>1
  <2>3. Entries(d) = DirOf(data, d)
    BY <1>1, <1>2, <2>2, ShortIs
  <2>4. PICK k \in VisibleIn(DirOf(data, d)) : DirOf(data, d)[k].dir /\ l[2] = DirOf(data, d)[k].cluster
    BY <2>2, <2>3 DEF SubdirsIn
  <2>5. k \in Indices /\ DirOf(data, d)[k].kind = "entry"
    BY VisibleAre DEF IsNode
  <2>6. Harmless(DirOf(data, d)[k], D, K)
    BY <1>2, <2>2, <2>5 DEF Fenced
  <2>7. QED
    BY <2>4, <2>5, <2>6 DEF Harmless
<1>3. \A l \in Leads : l[1] \in D => l[2] \in D
  BY <1>2
<1>4. QED
  BY <1>1, <1>3, DirectoriesAre DEF ClosedUnder

LEMMA FencedTree ==
  ASSUME NEW D, NEW K, Fenced(fat1, data, D, K), NEW t \in Tree
  PROVE  /\ t \in NamesOf(data, D) /\ EntryOf(t) = EntOf(data, t)
         /\ ChainOf(t) = OwnedBy(fat1, data, t)
<1>1. PICK d \in Directories : t \in {<<d, k>> : k \in Visible(d)}
  BY DEF Tree
<1>2. PICK k \in Visible(d) : t = <<d, k>>
  BY <1>1
<1>3. d \in D /\ Short(fat1, D)
  BY FencedDirectories DEF Fenced
<1>4. Visible(d) = VisibleIn(DirOf(data, d))
  BY <1>3, ShortIs DEF Visible
<1>5. k \in Indices /\ IsNode(DirOf(data, d)[k])
  BY <1>4, VisibleAre
<1>6. DirOf(data, d)[k] \in EntryValue
  BY <1>3, <1>5, EntryTypes DEF Fenced, Harmless, IsNode
<1>7. DirOf(data, d)[k].name \in Names /\ DirOf(data, d)[k].kind = "entry"
  BY <1>5, <1>6 DEF IsNode, EntryValue
<1>8. t \in NamesOf(data, D)
  BY <1>2, <1>3, <1>5, <1>7 DEF NamesOf, EntOf
<1>9. EntryOf(t) = EntOf(data, t)
  BY <1>2, <1>3, <1>5, ShortIs DEF EntryOf, EntOf
<1>10. QED
  BY <1>8, <1>9 DEF ChainAt, OwnedBy, ChainOf, Chain

LEMMA FenceMeans ==
  ASSUME FenceInv
  PROVE  SurvivesRemove
<1>1. PICK D \in SUBSET Clusters, K \in SUBSET Clusters : Fence(D, K)
  BY DEF FenceInv
<1>2. Fenced(fat1, data, D, K)
  BY <1>1 DEF Fence
<1>3. RootKept
  BY <1>2 DEF Fenced, RootKept
<1>4. ASSUME pc = "idle", faults = 0 PROVE NoDangling /\ NoCrossLink
  <2>1. pc \notin RemovePcs
    BY <1>4 DEF RemovePcs
  <2>2. Apart(fat1, data, NamesOf(data, D))
    BY <1>1, <1>4, <2>1, StandingIs DEF Fence, Whole
  <2>3. \A t \in Tree : /\ t \in NamesOf(data, D) /\ EntryOf(t) = EntOf(data, t)
                        /\ ChainOf(t) = OwnedBy(fat1, data, t)
    BY <1>2, FencedTree
  <2>4. \A t \in Tree : EntryOf(t).dir => EntryOf(t).cluster \in Clusters
    BY <1>2, <2>3, NamesAre
  <2>5. NoDangling
    BY <2>2, <2>3, <2>4 DEF NoDangling, Apart
  <2>6. Range(Chain(Root)) = {Root}
    <3>1. Chain(Root) = <<Root>>
      BY <1>2, ShortIs DEF Fenced
    <3>2. QED
      BY <3>1 DEF Range
  <2>7. \A t \in Tree : ChainOf(t) \cap Range(Chain(Root)) = {}
    BY <2>2, <2>3, <2>6 DEF Apart
  <2>8. \A t, u \in Tree : t # u => ChainOf(t) \cap ChainOf(u) = {}
    BY <2>2, <2>3 DEF Apart
  <2>9. QED
    BY <2>5, <2>7, <2>8 DEF NoCrossLink
<1>5. QED
  BY <1>3, <1>4 DEF SurvivesRemove, SoundBetweenCalls

\* With remove among the calls: without failures, no entry that a lookup sees ever leads
\* to a free cluster or to another's between two calls, in spite of the directory sectors
\* remove damages, and with any failures the root directory keeps its cluster
\* (FAT32.h:355-413, 419-464, 604-681).
THEOREM Fat32SurvivesRemove == Spec /\ TreeSound => []SurvivesRemove
<1>1. Init /\ TreeSound => FenceInv
  BY InitFenceInv
<1>2. FenceInv /\ [Next]_vars => FenceInv'
  BY NextFenceInv
<1>3. FenceInv => SurvivesRemove
  BY FenceMeans
<1>4. QED
  BY <1>1, <1>2, <1>3, PTL DEF Spec
=============================================================================
