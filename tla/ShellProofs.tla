----------------------------- MODULE ShellProofs -----------------------------
(***************************************************************************)
(* The command interpreter, for every tree, every set of paths and every   *)
(* sequence of commands, programs and failed detections.                   *)
(*                                                                         *)
(* What a path leads to is a recursion over its components: its unfolding  *)
(* and what it says of a path without its last component are proved by     *)
(* induction.  Below them, the operations on a tree leave a tree, a word   *)
(* runs the file found for it, and cd leads from directory to directory.   *)
(*                                                                         *)
(* Last, no command reaches a FAT32 object that was not made, and none but *)
(* a mount after a boot that did not find the disk a null interface.       *)
(***************************************************************************)
EXTENDS Shell, SequenceTheorems, WellFoundedInduction, TLAPS

(***************************************************************************)
(* Induction over the naturals, for a set in place of a predicate.         *)
(***************************************************************************)
Less == {ss \in Nat \X Nat : ss[1] < ss[2]}

LEMMA SetInduction ==
  ASSUME NEW S, 0 \in S, \A n \in Nat : n \in S => n + 1 \in S
  PROVE  Nat \subseteq S
<1> SUFFICES ASSUME Nat \ S # {} PROVE FALSE
  OBVIOUS
<1>1. IsWellFoundedOn(Less, Nat)
  BY NatLessThanWellFounded DEF OpToRel, Less
<1>2. PICK x \in Nat \ S : \A y \in Nat \ S : ~ (<<y, x>> \in Less)
  BY <1>1, WFMin
<1>3. x # 0 /\ x - 1 \in Nat /\ <<x - 1, x>> \in Less
  BY <1>2 DEF Less
<1>4. x - 1 \in S
  BY <1>2, <1>3
<1>5. (x - 1) + 1 \in S
  BY <1>3, <1>4
<1>6. QED
  BY <1>2, <1>5

(***************************************************************************)
(* What a path leads to, component by component.                           *)
(***************************************************************************)
IsAlong(t, parts, at, n) ==
  at = [i \in 0 .. n |-> IF i = 0 THEN {<<>>} ELSE EnterFrom(t, at[i - 1], parts[i])]

LEMMA AlongExists ==
  ASSUME NEW t, NEW parts, NEW m \in Nat
  PROVE  \E at : IsAlong(t, parts, at, m)
<1> DEFINE Is(at, n) == IsAlong(t, parts, at, n)
           Exists    == {n \in Nat : \E at : Is(at, n)}
<1> USE DEF IsAlong
<1>1. 0 \in Exists
  <2>1. Is([i \in 0 .. 0 |-> {<<>>}], 0)
    OBVIOUS
  <2>2. QED
    BY <2>1
<1>2. ASSUME NEW n \in Nat, n \in Exists PROVE n + 1 \in Exists
  <2>1. PICK at : Is(at, n)
    BY <1>2
  <2> DEFINE up == [i \in 0 .. n + 1 |-> IF i = n + 1 THEN EnterFrom(t, at[n], parts[n + 1]) ELSE at[i]]
  <2>2. ASSUME NEW i \in 0 .. n + 1
        PROVE  up[i] = IF i = 0 THEN {<<>>} ELSE EnterFrom(t, up[i - 1], parts[i])
    <3>1. CASE i = n + 1
      BY <3>1
    <3>2. CASE i # n + 1
      <4>1. i \in 0 .. n /\ up[i] = at[i] /\ (i # 0 => up[i - 1] = at[i - 1])
        BY <3>2
      <4>2. at[i] = IF i = 0 THEN {<<>>} ELSE EnterFrom(t, at[i - 1], parts[i])
        BY <2>1, <4>1
      <4>3. QED
        BY <4>1, <4>2
    <3>3. QED
      BY <3>1, <3>2
  <2>3. Is(up, n + 1)
    BY <2>2
  <2>4. \E at1 : Is(at1, n + 1)
    <3> HIDE DEF Is, up
    <3>1. QED
      BY <2>3, Zenon
  <2>5. QED
    BY <2>4
<1>3. m \in Exists
  <2> HIDE DEF Exists
  <2>1. QED
    BY <1>1, <1>2, SetInduction
<1>4. QED
  <2> HIDE DEF IsAlong
  <2>1. QED
    BY <1>3

LEMMA AlongIs ==
  ASSUME NEW t, NEW S, NEW parts \in Seq(S)
  PROVE  Along(t, parts) = [i \in 0 .. Len(parts) |->
            IF i = 0 THEN {<<>>} ELSE EnterFrom(t, Along(t, parts)[i - 1], parts[i])]
<1>1. Len(parts) \in Nat
  OBVIOUS
<1>2. \E at : IsAlong(t, parts, at, Len(parts))
  BY <1>1, AlongExists
<1>3. QED
  BY <1>2, Zenon DEF Along, IsAlong

LEMMA FrontIs ==
  ASSUME NEW S, NEW s \in Seq(S), s # <<>>
  PROVE  /\ Front(s) \in Seq(S) /\ Len(Front(s)) = Len(s) - 1 /\ Last(s) \in S
         /\ \A i \in 1 .. Len(s) - 1 : Front(s)[i] = s[i]
         /\ Len(s) \in Nat \ {0} /\ s = Append(Front(s), Last(s))
<1>1. Len(s) \in Nat \ {0} /\ \A i \in 1 .. Len(s) - 1 : s[i] \in S
  OBVIOUS
<1>2. /\ Front(s) \in Seq(S) /\ Len(Front(s)) = Len(s) - 1
      /\ \A i \in 1 .. Len(s) - 1 : Front(s)[i] = s[i]
  <2> DEFINE m == Len(s) - 1
  <2>1. m \in Int /\ 1 \in Int /\ \A i \in 1 .. m : s[i] \in S
    BY <1>1
  <2>2. /\ SubSeq(s, 1, m) \in Seq(S) /\ Len(SubSeq(s, 1, m)) = IF 1 <= m THEN m - 1 + 1 ELSE 0
        /\ \A i \in 1 .. m - 1 + 1 : SubSeq(s, 1, m)[i] = s[1 + i - 1]
    <3> HIDE DEF m
    <3>1. QED
      BY <2>1, SubSeqProperties
  <2>3. Front(s) = SubSeq(s, 1, m)
    BY DEF Front
  <2>4. m + 1 = Len(s) /\ m \in Nat
    BY <1>1
  <2> HIDE DEF m
  <2>5. Len(Front(s)) = m /\ \A i \in 1 .. m : Front(s)[i] = s[i]
    BY <2>2, <2>3, <2>4
  <2>6. QED
    BY <2>2, <2>3, <2>5 DEF m
<1>3. Last(s) \in S
  BY <1>1 DEF Last
<1>4. s = Append(Front(s), Last(s))
  BY <1>1, <1>2, <1>3 DEF Last
<1>5. QED
  BY <1>1, <1>2, <1>3, <1>4

\* A path leads on from where the path without its last component leads.
LEMMA LastStep ==
  ASSUME NEW t, NEW S, NEW parts \in Seq(S), parts # <<>>
  PROVE  Along(t, parts)[Len(parts)]
           = EnterFrom(t, Along(t, Front(parts))[Len(Front(parts))], Last(parts))
<1> DEFINE n     == Len(parts) - 1
           up    == Along(t, parts)
           front == Along(t, Front(parts))
           Same  == {i \in Nat : i <= n => up[i] = front[i]}
<1>1. /\ Front(parts) \in Seq(S) /\ Len(Front(parts)) = n
      /\ n \in Nat /\ n + 1 \in Nat /\ Len(parts) = n + 1
      /\ \A i \in 1 .. n : Front(parts)[i] = parts[i]
  BY FrontIs
<1>2. \A i \in 0 .. n + 1 :
        up[i] = IF i = 0 THEN {<<>>} ELSE EnterFrom(t, up[i - 1], parts[i])
  <2>1. up = [i \in 0 .. Len(parts) |->
                IF i = 0 THEN {<<>>} ELSE EnterFrom(t, up[i - 1], parts[i])]
    BY AlongIs
  <2> HIDE DEF up
  <2>2. QED
    BY <1>1, <2>1
<1>3. \A i \in 0 .. n :
        front[i] = IF i = 0 THEN {<<>>} ELSE EnterFrom(t, front[i - 1], Front(parts)[i])
  <2>1. front = [i \in 0 .. Len(Front(parts)) |->
                   IF i = 0 THEN {<<>>} ELSE EnterFrom(t, front[i - 1], Front(parts)[i])]
    BY AlongIs, <1>1
  <2> HIDE DEF front
  <2>2. QED
    BY <1>1, <2>1
<1> HIDE DEF up, front
<1>4. 0 \in Same
  BY <1>1, <1>2, <1>3
<1>5. ASSUME NEW i \in Nat, i \in Same PROVE i + 1 \in Same
  <2>1. SUFFICES ASSUME i + 1 <= n PROVE up[i + 1] = front[i + 1]
    OBVIOUS
  <2>2. up[i] = front[i] /\ i + 1 \in 1 .. n /\ i + 1 \in 0 .. n + 1
    BY <1>1, <1>5, <2>1
  <2>3. Front(parts)[i + 1] = parts[i + 1]
    BY <1>1, <2>2
  <2>4. QED
    BY <1>2, <1>3, <2>2, <2>3
<1>6. n \in Same
  <2> HIDE DEF Same
  <2>1. QED
    BY <1>1, <1>4, <1>5, SetInduction
<1>7. up[n + 1] = EnterFrom(t, front[n], parts[n + 1])
  BY <1>1, <1>2, <1>6
<1>8. QED
  BY <1>1, <1>7 DEF up, front, Last

LEMMA FirstStep ==
  ASSUME NEW t, NEW S, NEW parts \in Seq(S)
  PROVE  Along(t, parts)[0] = {<<>>}
<1> DEFINE at == Along(t, parts)
<1>1. 0 \in 0 .. Len(parts)
  OBVIOUS
<1>2. at = [i \in 0 .. Len(parts) |->
              IF i = 0 THEN {<<>>} ELSE EnterFrom(t, at[i - 1], parts[i])]
  BY AlongIs
<1> HIDE DEF at
<1>3. QED
  BY <1>1, <1>2 DEF at

(***************************************************************************)
(* The operations on a tree leave a tree.                                  *)
(***************************************************************************)
LEMMA PrefixIs ==
  ASSUME NEW S, NEW p \in Seq(S), NEW q \in Seq(S)
  PROVE  IsPrefix(p, q) <=> Len(p) <= Len(q) /\ \A i \in 1 .. Len(p) : p[i] = q[i]
<1> SUFFICES ASSUME Len(p) <= Len(q)
             PROVE  SubSeq(p, 1, Len(p)) = SubSeq(q, 1, Len(p))
                      <=> \A i \in 1 .. Len(p) : p[i] = q[i]
  BY DEF IsPrefix
<1> DEFINE n == Len(p)
           r == SubSeq(q, 1, n)
<1>1. n \in Nat /\ \A i \in 1 .. n : q[i] \in S /\ p[i] \in S
  OBVIOUS
<1>2. SubSeq(p, 1, n) = p
  BY SubSeqFull
<1>3. r \in Seq(S) /\ Len(r) = n /\ \A i \in 1 .. n : r[i] = q[i]
  <2> HIDE DEF n
  <2>1. 1 \in Int /\ n \in Int /\ \A i \in 1 .. n : q[i] \in S
    BY <1>1
  <2>2. /\ r \in Seq(S) /\ Len(r) = IF 1 <= n THEN n - 1 + 1 ELSE 0
        /\ \A i \in 1 .. n - 1 + 1 : r[i] = q[1 + i - 1]
    BY <2>1, SubSeqProperties
  <2> HIDE DEF r
  <2>3. QED
    BY <1>1, <2>2
<1> HIDE DEF r
<1>4. p = r <=> \A i \in 1 .. n : p[i] = r[i]
  BY <1>3, SeqEqual
<1>5. QED
  BY <1>2, <1>3, <1>4 DEF r

LEMMA PrefixOfFront ==
  ASSUME NEW S, NEW p \in Seq(S), NEW q \in Seq(S), q # <<>>
  PROVE  IsPrefix(p, q) <=> p = q \/ IsPrefix(p, Front(q))
<1>1. /\ Front(q) \in Seq(S) /\ Len(Front(q)) = Len(q) - 1 /\ Len(q) \in Nat \ {0}
      /\ \A i \in 1 .. Len(q) - 1 : Front(q)[i] = q[i]
  BY FrontIs
<1>2. Len(p) \in Nat
  OBVIOUS
<1>3. p = q <=> Len(p) = Len(q) /\ \A i \in 1 .. Len(p) : p[i] = q[i]
  BY SeqEqual
<1>4. IsPrefix(p, q) <=> Len(p) <= Len(q) /\ \A i \in 1 .. Len(p) : p[i] = q[i]
  BY PrefixIs
<1>5. IsPrefix(p, Front(q))
        <=> Len(p) <= Len(Front(q)) /\ \A i \in 1 .. Len(p) : p[i] = Front(q)[i]
  BY <1>1, PrefixIs
<1>6. QED
  BY <1>1, <1>2, <1>3, <1>4, <1>5

LEMMA EmptyTree == Empty \in Trees /\ IsTree(Empty)
  BY DEF Empty, Trees, IsTree, Nodes

LEMMA MadeTree ==
  ASSUME NEW t \in Trees, IsTree(t), NEW d \in t.dirs, NEW c \in Names,
         Append(d, c) \notin t.files
  PROVE  LET u == [t EXCEPT !.dirs = @ \cup {Append(d, c)}] IN u \in Trees /\ IsTree(u)
<1> DEFINE q == Append(d, c)
           u == [t EXCEPT !.dirs = @ \cup {q}]
<1>1. d \in Seq(Names)
  BY DEF Trees
<1>2. q \in Seq(Names) /\ q # <<>> /\ Front(q) = d
  <2>1. q \in Seq(Names) /\ q # <<>> /\ Len(q) = Len(d) + 1
    BY <1>1, AppendProperties
  <2>2. q = Append(Front(q), Last(q)) /\ Front(q) \in Seq(Names) /\ Last(q) \in Names
    BY <2>1, FrontIs
  <2>3. QED
    BY <1>1, <2>1, <2>2, AppendInjective
<1> HIDE DEF q
<1>3. u.dirs = t.dirs \cup {q} /\ u.files = t.files /\ u \in Trees
  BY <1>2 DEF Trees
<1>4. <<>> \in u.dirs /\ u.dirs \cap u.files = {}
  BY <1>3 DEF IsTree, q
<1>5. \A p \in Nodes(u) \ {<<>>} : Front(p) \in u.dirs
  BY <1>2, <1>3 DEF IsTree, Nodes
<1>6. QED
  BY <1>3, <1>4, <1>5 DEF IsTree, q

LEMMA RemovedTree ==
  ASSUME NEW t \in Trees, IsTree(t), NEW p \in Nodes(t) \ {<<>>}, NEW u \in Removed(t, p)
  PROVE  u \in Trees /\ IsTree(u)
<1>1. PICK S \in SUBSET Siblings(t, p) :
        u = [dirs |-> t.dirs \ Below(t, S \cup {p}), files |-> t.files \ Below(t, S \cup {p})]
  BY DEF Removed
<1> DEFINE B == Below(t, S \cup {p})
<1>2. \A q \in Nodes(t) : q \in Seq(Names)
  BY DEF Nodes, Trees
<1>3. \A s \in S \cup {p} : s \in Nodes(t) /\ s # <<>>
  BY DEF Siblings
<1>4. u \in Trees /\ u.dirs = t.dirs \ B /\ u.files = t.files \ B
  BY <1>1 DEF Trees
<1>5. <<>> \notin B
  <2>1. ASSUME NEW s \in S \cup {p} PROVE ~ IsPrefix(s, <<>>)
    <3>1. s \in Seq(Names) /\ s # <<>> /\ Len(s) > 0
      BY <1>2, <1>3
    <3>2. QED
      BY <3>1 DEF IsPrefix
  <2>2. QED
    BY <2>1 DEF Below
<1>6. ASSUME NEW q \in Nodes(t) \ {<<>>}, q \notin B PROVE Front(q) \in t.dirs \ B
  <2>1. Front(q) \in t.dirs
    BY DEF IsTree
  <2>2. ASSUME NEW s \in S \cup {p}, IsPrefix(s, Front(q)) PROVE FALSE
    <3>1. IsPrefix(s, q)
      BY <1>2, <1>3, <2>2, PrefixOfFront
    <3>2. QED
      BY <1>6, <3>1 DEF Below
  <2>3. QED
    BY <2>1, <2>2 DEF Below
<1> HIDE DEF B
<1>7. <<>> \in u.dirs /\ u.dirs \cap u.files = {}
  BY <1>4, <1>5 DEF IsTree
<1>8. \A q \in Nodes(u) \ {<<>>} : Front(q) \in u.dirs
  BY <1>4, <1>6 DEF Nodes
<1>9. QED
  BY <1>4, <1>7, <1>8 DEF IsTree

\* Every node on the way to a node is there.
LEMMA PrefixesAreNodes ==
  ASSUME NEW t \in Trees, IsTree(t), NEW q \in Seq(Names), NEW r \in Nodes(t), IsPrefix(q, r)
  PROVE  q \in Nodes(t)
<1> DEFINE Short == {n \in Nat : \A s \in Nodes(t) : Len(s) = n /\ IsPrefix(q, s) => q \in Nodes(t)}
<1>1. \A s \in Nodes(t) : s \in Seq(Names)
  BY DEF Nodes, Trees
<1>2. 0 \in Short
  <2>1. SUFFICES ASSUME NEW s \in Nodes(t), Len(s) = 0, IsPrefix(q, s) PROVE q = s
    OBVIOUS
  <2>2. s \in Seq(Names) /\ Len(q) <= Len(s)
    BY <1>1, <2>1, PrefixIs
  <2>3. Len(q) = 0 /\ s = <<>>
    BY <2>1, <2>2
  <2>4. QED
    BY <2>3
<1>3. ASSUME NEW n \in Nat, n \in Short PROVE n + 1 \in Short
  <2>1. SUFFICES ASSUME NEW s \in Nodes(t), Len(s) = n + 1, IsPrefix(q, s) PROVE q \in Nodes(t)
    OBVIOUS
  <2>2. s \in Seq(Names) /\ s # <<>>
    BY <1>1, <2>1
  <2>3. Len(Front(s)) = n /\ Front(s) \in Nodes(t)
    BY <2>1, <2>2, FrontIs DEF IsTree, Nodes
  <2>4. q = s \/ IsPrefix(q, Front(s))
    BY <2>1, <2>2, PrefixOfFront
  <2>5. QED
    BY <1>3, <2>1, <2>3, <2>4
<1>4. Len(r) \in Short
  <2> HIDE DEF Short
  <2>1. Len(r) \in Nat
    BY <1>1
  <2>2. QED
    BY <1>2, <1>3, <2>1, SetInduction
<1>5. QED
  BY <1>4

\* Where a node is after its ancestor p was renamed to q: what Moved maps it to.
Renamed(p, q, r) == IF IsPrefix(p, r) THEN q \o SubSeq(r, Len(p) + 1, Len(r)) ELSE r

\* What is under a new name keeps the components below it.
LEMMA RenamedIs ==
  ASSUME NEW p \in Seq(Names), NEW q \in Seq(Names), Len(q) = Len(p),
         NEW r \in Seq(Names), IsPrefix(p, r)
  PROVE  LET m == Renamed(p, q, r) IN
         /\ m \in Seq(Names) /\ Len(m) = Len(r)
         /\ \A i \in 1 .. Len(r) : m[i] = IF i <= Len(p) THEN q[i] ELSE r[i]
<1> DEFINE a == Len(p) + 1
           n == Len(r)
           tail == SubSeq(r, a, n)
<1>1. /\ Len(p) \in Nat /\ n \in Nat /\ Len(p) <= n
      /\ a \in Int /\ n \in Int /\ \A i \in a .. n : r[i] \in Names
  BY PrefixIs
<1>2. /\ tail \in Seq(Names) /\ Len(tail) = IF a <= n THEN n - a + 1 ELSE 0
      /\ \A i \in 1 .. n - a + 1 : tail[i] = r[a + i - 1]
  <2> HIDE DEF a, n
  <2>1. QED
    BY <1>1, SubSeqProperties
<1>3. Len(tail) = n - Len(p) /\ \A i \in 1 .. n - Len(p) : tail[i] = r[Len(p) + i]
  <2> HIDE DEF tail, n
  <2>1. QED
    BY <1>1, <1>2
<1> HIDE DEF tail
<1>4. /\ q \o tail \in Seq(Names) /\ Len(q \o tail) = Len(q) + Len(tail)
      /\ \A i \in 1 .. Len(q) + Len(tail) :
           (q \o tail)[i] = IF i <= Len(q) THEN q[i] ELSE tail[i - Len(q)]
  BY <1>2, ConcatProperties
<1>5. Renamed(p, q, r) = q \o tail
  BY DEF Renamed, tail
<1> HIDE DEF n, a
<1>6. \A i \in 1 .. n : (q \o tail)[i] = IF i <= Len(p) THEN q[i] ELSE r[i]
  <2>1. SUFFICES ASSUME NEW i \in 1 .. n, ~(i <= Len(p)) PROVE (q \o tail)[i] = r[i]
    BY <1>1, <1>3, <1>4
  <2>2. i - Len(p) \in 1 .. n - Len(p) /\ Len(p) + (i - Len(p)) = i
    BY <1>1, <2>1
  <2>3. QED
    BY <1>1, <1>3, <1>4, <2>1, <2>2
<1>7. QED
  BY <1>1, <1>3, <1>4, <1>5, <1>6 DEF n

LEMMA MovedTree ==
  ASSUME NEW t \in Trees, IsTree(t), NEW p \in Nodes(t) \ {<<>>}, NEW c \in Names,
         Append(Front(p), c) \notin Nodes(t)
  PROVE  LET q == Append(Front(p), c)
             u == [dirs |-> Moved(t.dirs, p, q), files |-> Moved(t.files, p, q)]
         IN  u \in Trees /\ IsTree(u)
<1> DEFINE q    == Append(Front(p), c)
           u    == [dirs |-> Moved(t.dirs, p, q), files |-> Moved(t.files, p, q)]
           m(r) == Renamed(p, q, r)
<1>1. \A r \in Nodes(t) : r \in Seq(Names)
  BY DEF Nodes, Trees
<1>2. /\ p \in Seq(Names) /\ Front(p) \in Seq(Names) /\ Len(Front(p)) = Len(p) - 1
      /\ Len(p) \in Nat \ {0}
  BY <1>1, FrontIs
<1>3. q \in Seq(Names) /\ q # <<>> /\ Len(q) = Len(p) /\ Front(q) = Front(p)
  <2>1. q \in Seq(Names) /\ q # <<>> /\ Len(q) = Len(p)
    BY <1>2, AppendProperties
  <2>2. q = Append(Front(q), Last(q)) /\ Front(q) \in Seq(Names) /\ Last(q) \in Names
    BY <2>1, FrontIs
  <2>3. QED
    BY <1>2, <2>1, <2>2, AppendInjective
<1>4. q \notin Nodes(t)
  OBVIOUS
<1> HIDE DEF q
<1>5. ASSUME NEW r \in Nodes(t), IsPrefix(p, r)
      PROVE  /\ m(r) \in Seq(Names) /\ Len(m(r)) = Len(r) /\ IsPrefix(q, m(r))
             /\ \A i \in 1 .. Len(r) : m(r)[i] = IF i <= Len(p) THEN q[i] ELSE r[i]
  <2>1. /\ m(r) \in Seq(Names) /\ Len(m(r)) = Len(r)
        /\ \A i \in 1 .. Len(r) : m(r)[i] = IF i <= Len(p) THEN q[i] ELSE r[i]
    BY <1>1, <1>2, <1>3, <1>5, RenamedIs
  <2>2. Len(p) <= Len(r) /\ Len(r) \in Nat
    BY <1>1, <1>2, <1>5, PrefixIs
  <2> HIDE DEF m
  <2>3. Len(q) <= Len(m(r)) /\ \A i \in 1 .. Len(q) : q[i] = m(r)[i]
    BY <1>2, <1>3, <2>1, <2>2
  <2>4. IsPrefix(q, m(r))
    BY <1>3, <2>1, <2>3, PrefixIs
  <2>5. QED
    BY <2>1, <2>4
<1>6. ASSUME NEW r \in Nodes(t), ~ IsPrefix(p, r) PROVE m(r) = r
  BY <1>6 DEF Renamed
<1> HIDE DEF m
<1>7. ASSUME NEW r \in Nodes(t), NEW s \in Nodes(t), m(r) = m(s) PROVE r = s
  <2>1. ASSUME NEW a \in Nodes(t), NEW b \in Nodes(t), IsPrefix(p, a), ~ IsPrefix(p, b),
               m(a) = m(b)
        PROVE  FALSE
    <3>1. IsPrefix(q, b)
      BY <1>5, <1>6, <2>1
    <3>2. QED
      BY <1>3, <1>4, <3>1, PrefixesAreNodes
  <2>2. CASE IsPrefix(p, r) /\ IsPrefix(p, s)
    <3>1. Len(r) = Len(s) /\ r \in Seq(Names) /\ s \in Seq(Names)
      BY <1>1, <1>5, <1>7, <2>2
    <3>2. \A i \in 1 .. Len(p) : r[i] = p[i] /\ s[i] = p[i]
      BY <1>1, <1>2, <2>2, PrefixIs
    <3>3. ASSUME NEW i \in 1 .. Len(r) PROVE r[i] = s[i]
      <4>1. CASE i <= Len(p)
        BY <3>2, <4>1, <1>2
      <4>2. CASE ~(i <= Len(p))
        BY <1>5, <1>7, <2>2, <3>1, <4>2
      <4>3. QED
        BY <4>1, <4>2
    <3>4. QED
      BY <3>1, <3>3, SeqEqual
  <2>3. QED
    BY <1>6, <1>7, <2>1, <2>2
<1>8. /\ u.dirs = {m(r) : r \in t.dirs} /\ u.files = {m(r) : r \in t.files}
  BY DEF Moved, Renamed, m
<1>9. u \in Trees
  <2>1. \A r \in Nodes(t) : m(r) \in Seq(Names)
    BY <1>1, <1>5, <1>6
  <2>2. u.dirs \subseteq Seq(Names) /\ u.files \subseteq Seq(Names)
    BY <1>8, <2>1 DEF Nodes
  <2>3. QED
    BY <2>2 DEF Trees
<1>10. <<>> \in u.dirs
  <2>1. <<>> \in Nodes(t) /\ <<>> \in t.dirs
    BY DEF IsTree, Nodes
  <2>2. ~ IsPrefix(p, <<>>)
    BY <1>2 DEF IsPrefix
  <2>3. QED
    BY <1>6, <1>8, <2>1, <2>2
<1>11. u.dirs \cap u.files = {}
  BY <1>7, <1>8 DEF IsTree, Nodes
<1>12. ASSUME NEW r \in Nodes(t), m(r) # <<>> PROVE Front(m(r)) \in u.dirs
  <2>1. r # <<>>
    <3>1. <<>> \in Nodes(t) /\ ~ IsPrefix(p, <<>>)
      BY <1>2 DEF IsTree, Nodes, IsPrefix
    <3>2. QED
      BY <1>6, <1>12, <3>1
  <2>2. /\ Front(r) \in t.dirs /\ Front(r) \in Nodes(t)
        /\ r \in Seq(Names) /\ Front(r) \in Seq(Names)
    BY <1>1, <2>1 DEF IsTree, Nodes
  <2>3. IsPrefix(p, r) <=> p = r \/ IsPrefix(p, Front(r))
    BY <1>2, <2>1, <2>2, PrefixOfFront
  <2>4. m(Front(r)) \in u.dirs
    BY <1>8, <2>2
  <2>5. CASE ~ IsPrefix(p, r)
    BY <1>6, <2>2, <2>3, <2>4, <2>5
  <2>6. CASE p = r
    <3>1. ~ IsPrefix(p, Front(p))
      BY <1>2, PrefixIs
    <3>2. m(p) = q
      <4>1. IsPrefix(p, p)
        BY <1>2, PrefixIs
      <4>2. m(p) \in Seq(Names) /\ Len(m(p)) = Len(p) /\ \A i \in 1 .. Len(p) : m(p)[i] = q[i]
        BY <1>2, <1>5, <4>1
      <4>3. QED
        BY <1>3, <4>2, SeqEqual
    <3>3. QED
      BY <1>3, <1>6, <2>2, <2>4, <2>6, <3>1, <3>2
  <2>7. CASE IsPrefix(p, r) /\ IsPrefix(p, Front(r))
    <3> DEFINE f == Front(r)
    <3>1. Len(f) = Len(r) - 1 /\ Len(r) \in Nat /\ \A i \in 1 .. Len(f) : f[i] = r[i]
      BY <2>1, <2>2, FrontIs
    <3>2. /\ m(f) \in Seq(Names) /\ Len(m(f)) = Len(f)
          /\ \A i \in 1 .. Len(f) : m(f)[i] = IF i <= Len(p) THEN q[i] ELSE f[i]
      BY <1>5, <2>2, <2>7
    <3>3. /\ m(r) \in Seq(Names) /\ Len(m(r)) = Len(r)
          /\ \A i \in 1 .. Len(r) : m(r)[i] = IF i <= Len(p) THEN q[i] ELSE r[i]
      BY <1>5, <2>7
    <3>4. /\ Front(m(r)) \in Seq(Names) /\ Len(Front(m(r))) = Len(m(r)) - 1
          /\ \A i \in 1 .. Len(m(r)) - 1 : Front(m(r))[i] = m(r)[i]
      BY <1>12, <3>3, FrontIs
    <3> HIDE DEF f
    <3>5. Len(Front(m(r))) = Len(m(f)) /\ \A i \in 1 .. Len(m(f)) : Front(m(r))[i] = m(f)[i]
      <4>1. Len(Front(m(r))) = Len(m(f)) /\ Len(m(f)) = Len(r) - 1
        BY <3>1, <3>2, <3>3, <3>4
      <4>2. ASSUME NEW i \in 1 .. Len(r) - 1 PROVE Front(m(r))[i] = m(f)[i]
        <5>1. i \in 1 .. Len(r) /\ i \in 1 .. Len(f) /\ i \in 1 .. Len(m(r)) - 1
          BY <3>1, <3>3
        <5>2. Front(m(r))[i] = IF i <= Len(p) THEN q[i] ELSE r[i]
          BY <3>3, <3>4, <5>1
        <5>3. m(f)[i] = IF i <= Len(p) THEN q[i] ELSE r[i]
          BY <3>1, <3>2, <5>1
        <5>4. QED
          BY <5>2, <5>3
      <4>3. QED
        BY <4>1, <4>2
    <3>6. Front(m(r)) = m(f)
      BY <3>2, <3>4, <3>5, SeqEqual
    <3>7. QED
      BY <2>4, <3>6 DEF f
  <2>8. QED
    BY <2>3, <2>5, <2>6, <2>7
<1> HIDE DEF u
<1>13. \A n \in Nodes(u) \ {<<>>} : Front(n) \in u.dirs
  BY <1>8, <1>12 DEF Nodes
<1>14. QED
  BY <1>9, <1>10, <1>11, <1>13 DEF IsTree, u, q

(***************************************************************************)
(* The state invariant, part by part.                                      *)
(***************************************************************************)
PathOK   == volume \in Letters /\ cwd \in Seq(Components) /\ Len(cwd) <= MaxDepth
MountsOK == /\ fs \in {"null", "unmounted", "mounted"} /\ disk \in {"absent", "blank", "fat"}
            /\ ata_if \in BOOLEAN /\ present \in BOOLEAN
            /\ fault \in {"none", "volume", "interface"}
TreesOK  == tree \in [{"A", "C"} -> Trees] /\ \A v \in {"A", "C"} : IsTree(tree[v])
ProgramOK == /\ Located(program.file)
             /\ program.driver \in Seq(TypedPaths) /\ Len(program.driver) <= 1
             /\ program.driver # <<>> => program.file # <<>>
RegistryOK == /\ drivers \in Seq(TypedPaths) /\ Len(drivers) <= DriverSlots
              /\ IsInjective(drivers)

LEMMA StateIs == StateSound <=> PathOK /\ MountsOK /\ TreesOK /\ ProgramOK /\ RegistryOK
  BY DEF StateSound, TypeOK, DriversOnce, PathOK, MountsOK, TreesOK, ProgramOK, RegistryOK

LEMMA ResolveIs ==
  ASSUME NEW path \in TypedPaths, cwd \in Seq(Components)
  PROVE  /\ Resolve(path) \in Seq(Components)
         /\ path.parts # <<>> => Resolve(path) # <<>> /\ Last(Resolve(path)) = Last(path.parts)
<1>1. path.parts \in Seq(Components)
  <2>1. path.parts \in Seq(Names \cup {".", ".."})
    BY DEF TypedPaths
  <2>2. QED
    BY <2>1 DEF Components
<1>2. cwd \o path.parts \in Seq(Components)
  BY <1>1, ConcatProperties
<1>3. ASSUME path.parts # <<>>
      PROVE  cwd \o path.parts # <<>> /\ Last(cwd \o path.parts) = Last(path.parts)
  <2>1. Len(path.parts) \in Nat \ {0} /\ Len(cwd) \in Nat
    BY <1>1, <1>3
  <2>2. /\ Len(cwd \o path.parts) = Len(cwd) + Len(path.parts)
        /\ \A i \in 1 .. Len(cwd) + Len(path.parts) :
             (cwd \o path.parts)[i] = IF i <= Len(cwd) THEN cwd[i] ELSE path.parts[i - Len(cwd)]
    BY <1>1, ConcatProperties
  <2>3. QED
    BY <1>2, <2>1, <2>2 DEF Last
<1>4. QED
  BY <1>1, <1>2, <1>3 DEF Resolve

\* Where a path that ends in a name leads: to that entry of a directory on the way.
LEMMA NamedEntry ==
  ASSUME NEW t, NEW parts \in Seq(Components), parts # <<>>, Last(parts) \in Names
  PROVE  Along(t, parts)[Len(parts)]
           = {Append(d, Last(parts)) :
                d \in Along(t, Front(parts))[Len(Front(parts))] \cap t.dirs} \cap Nodes(t)
<1> DEFINE c  == Last(parts)
           at == Along(t, Front(parts))[Len(Front(parts))]
<1>1. c # "." /\ c # ".."
  BY ShellAssumption
<1> HIDE DEF c, at
<1>2. \A d : Enter(t, d, c) = {Append(d, c)} \cap Nodes(t)
  BY <1>1 DEF Enter
<1>3. EnterFrom(t, at, c) = {Append(d, c) : d \in at \cap t.dirs} \cap Nodes(t)
  BY <1>2 DEF EnterFrom
<1>4. QED
  BY <1>3, LastStep DEF c, at

LEMMA PathStep == ASSUME StateSound, [Next]_vars PROVE PathOK'
<1>1. CASE UNCHANGED <<volume, cwd>>
  BY <1>1, StateIs DEF PathOK
<1>2. ASSUME NEW path \in TypedPaths, PathCd(path) PROVE PathOK'
  <2>1. volume \in Letters /\ cwd \in Seq(Components)
    BY StateIs DEF PathOK
  <2>2. path.vol \in Letters \cup {NoVolume} /\ path.parts \in Seq(Names \cup {".", ".."})
    BY DEF TypedPaths
  <2>3. volume' \in Letters /\ Len(cwd') <= MaxDepth
    BY <1>2, <2>1, <2>2 DEF PathCd, IsVolume
  <2>4. cwd' \in Seq(Components)
    <3>1. Up \in Seq(Components)
      BY <2>1, FrontIs DEF Up
    <3>2. Appended(path) \in Seq(Components)
      <4>1. path.parts \in Seq(Components)
        BY <2>2 DEF Components
      <4>2. path.vol # NoVolume => <<path.vol>> \in Seq(Components)
        BY <2>2 DEF Components
      <4>3. QED
        BY <4>1, <4>2, ConcatProperties DEF Appended
    <3>3. cwd \o Appended(path) \in Seq(Components)
      BY <2>1, <3>2, ConcatProperties
    <3>4. QED
      BY <1>2, <3>1, <3>3 DEF PathCd
  <2>5. QED
    BY <2>3, <2>4 DEF PathOK
<1>3. CASE Reboot
  BY <1>3, ShellAssumption DEF Reboot, PathOK, Letters
<1>4. QED
  BY <1>1, <1>2, <1>3, ShellAssumption
  DEF Next, vars, mounts, Cd, Mkdir, Del, Run, BareWord, Dvcmgr, Rename, Fatfs, Mount, ProgramCd,
      ProgramReturns

LEMMA MountsStep == ASSUME StateSound, [Next]_vars PROVE MountsOK'
<1> USE StateIs DEF MountsOK
<1>1. CASE UNCHANGED <<mounts, fault>>
  BY <1>1 DEF mounts
<1>2. ASSUME NEW path, Mkdir(path) PROVE MountsOK'
  <2>1. fault' \in {"none", "volume", "interface"}
    BY <1>2 DEF Mkdir
  <2>2. QED
    BY <1>2, <2>1 DEF Mkdir, mounts
<1>3. ASSUME NEW letter, NEW glued, Fatfs(letter, glued) PROVE MountsOK'
  BY <1>3 DEF Fatfs, mounts
<1>4. CASE Mount
  <2>1. present' \in BOOLEAN
    BY <1>4, Zenon DEF Mount
  <2>2. QED
    BY <1>4, <2>1 DEF Mount, Mounts
<1>5. CASE Reboot
  <2>1. present' \in BOOLEAN /\ ata_if' \in BOOLEAN
    BY <1>5, Zenon DEF Reboot
  <2>2. QED
    BY <1>5, <2>1 DEF Reboot, Mounts
<1>6. QED
  BY <1>1, <1>2, <1>3, <1>4, <1>5
  DEF Next, vars, Cd, Del, Run, BareWord, Dvcmgr, Rename, ProgramCd, ProgramReturns

LEMMA TreesStep == ASSUME StateSound, [Next]_vars PROVE TreesOK'
<1>1. /\ tree \in [{"A", "C"} -> Trees] /\ \A v \in {"A", "C"} : IsTree(tree[v])
      /\ cwd \in Seq(Components)
  BY StateIs DEF TreesOK, PathOK
<1>2. ASSUME NEW v \in {"A", "C"}, NEW u \in Trees, IsTree(u), tree' = [tree EXCEPT ![v] = u]
      PROVE  TreesOK'
  BY <1>1, <1>2 DEF TreesOK
<1>3. Current \in {"A", "C"}
  BY DEF Current, VolumeOf
<1>4. ASSUME NEW path \in TypedPaths, Mkdir(path) PROVE TreesOK'
  <2> DEFINE v == Current
             parts == Resolve(path)
  <2>1. CASE UNCHANGED tree
    BY <1>1, <2>1 DEF TreesOK
  <2>2. CASE Made(v, parts)
    <3>1. /\ parts \in Seq(Components) /\ parts # <<>>
          /\ Last(parts) = Last(path.parts) /\ Last(parts) \in Names
      BY <1>1, <1>4, ResolveIs DEF Mkdir, Named
    <3>2. Walk(v, parts) = {}
      BY <1>4 DEF Mkdir
    <3> HIDE DEF v, parts
    <3>3. PICK d \in Walk(v, Front(parts)) \cap tree[v].dirs :
             /\ Reads(v)
             /\ tree' = [tree EXCEPT ![v].dirs = @ \cup {Append(d, Last(parts))}]
      BY <2>2 DEF Made
    <3>4. Seen(v) = tree[v]
      BY <3>3 DEF Seen
    <3>5. d \in Along(tree[v], Front(parts))[Len(Front(parts))]
      BY <3>3, <3>4 DEF Walk
    <3>6. Along(tree[v], parts)[Len(parts)] = {}
      BY <3>2, <3>4 DEF Walk
    <3>7. Append(d, Last(parts)) \notin Nodes(tree[v])
      <4>1. {Append(e, Last(parts)) :
               e \in Along(tree[v], Front(parts))[Len(Front(parts))] \cap tree[v].dirs}
              \cap Nodes(tree[v]) = {}
        BY <3>1, <3>6, NamedEntry
      <4>2. QED
        BY <3>3, <3>5, <4>1
    <3> DEFINE u == [tree[v] EXCEPT !.dirs = @ \cup {Append(d, Last(parts))}]
    <3>8. v \in {"A", "C"} /\ tree' = [tree EXCEPT ![v] = u]
      BY <1>3, <3>3 DEF v
    <3>9. u \in Trees /\ IsTree(u)
      BY <1>1, <3>1, <3>3, <3>7, <3>8, MadeTree DEF Nodes
    <3>10. QED
      BY <1>2, <3>8, <3>9
  <2>3. QED
    BY <1>4, <2>1, <2>2 DEF Mkdir
<1>5. ASSUME NEW path \in TypedPaths, Named(path), NEW p \in Walk("C", Resolve(path))
      PROVE  p \in Nodes(tree["C"]) \ {<<>>}
  <2> DEFINE parts == Resolve(path)
             t == Seen("C")
  <2>1. /\ parts \in Seq(Components) /\ parts # <<>>
        /\ Last(parts) = Last(path.parts) /\ Last(parts) \in Names
    BY <1>1, <1>5, ResolveIs DEF Named
  <2> HIDE DEF parts, t
  <2>2. p \in Along(t, parts)[Len(parts)]
    BY <1>5 DEF Walk, t, parts
  <2>3. p \in Nodes(t) /\ \E d \in t.dirs : p = Append(d, Last(parts))
    <3>1. p \in {Append(d, Last(parts)) :
                   d \in Along(t, Front(parts))[Len(Front(parts))] \cap t.dirs} \cap Nodes(t)
      BY <2>1, <2>2, NamedEntry
    <3>2. QED
      BY <3>1
  <2>4. t \in Trees /\ <<>> \in Nodes(tree["C"])
    BY <1>1, EmptyTree DEF t, Seen, IsTree, Nodes
  <2>5. p # <<>>
    BY <2>1, <2>3, <2>4, AppendProperties DEF Trees
  <2>6. t = tree["C"] \/ Nodes(t) = {<<>>}
    BY DEF t, Seen, Empty, Nodes
  <2>7. QED
    BY <2>3, <2>5, <2>6
<1>6. ASSUME NEW path \in TypedPaths, Del(path) PROVE TreesOK'
  <2>1. PICK p \in Walk("C", Resolve(path)) :
          \E t \in Removed(tree["C"], p) : tree' = [tree EXCEPT !["C"] = t]
    BY <1>6 DEF Del
  <2>2. p \in Nodes(tree["C"]) \ {<<>>}
    BY <1>5, <1>6 DEF Del
  <2>3. QED
    BY <1>1, <1>2, <2>1, <2>2, RemovedTree
<1>7. ASSUME NEW path \in TypedPaths, NEW name \in NewNames, Rename(path, name) PROVE TreesOK'
  <2> DEFINE t    == tree["C"]
             q(p) == Append(Front(p), name)
             u(p) == [dirs |-> Moved(t.dirs, p, q(p)), files |-> Moved(t.files, p, q(p))]
  <2>1. PICK p \in Walk("C", Resolve(path)) :
          /\ q(p) \notin Nodes(t)
          /\ tree' = [tree EXCEPT !["C"] = [dirs  |-> Moved(@.dirs, p, q(p)),
                                            files |-> Moved(@.files, p, q(p))]]
    BY <1>7 DEF Rename
  <2>2. p \in Nodes(t) \ {<<>>}
    BY <1>5, <1>7 DEF Rename
  <2>3. u(p) \in Trees /\ IsTree(u(p))
    BY <1>1, <2>1, <2>2, ShellAssumption, MovedTree
  <2>4. tree' = [tree EXCEPT !["C"] = u(p)]
    BY <2>1
  <2> HIDE DEF u
  <2>5. QED
    BY <1>2, <2>3, <2>4
<1>8. ASSUME NEW letter \in {"A", NoVolume}, NEW glued, Fatfs(letter, glued) PROVE TreesOK'
  <2>1. Target(letter, glued) \in {"A", "C"}
    BY DEF Target, NoVolume
  <2>2. QED
    BY <1>2, <1>8, <2>1, EmptyTree DEF Fatfs
<1>9. CASE UNCHANGED tree
  BY <1>1, <1>9 DEF TreesOK
<1>10. CASE Reboot
  BY <1>2, <1>10, EmptyTree DEF Reboot
<1>11. QED
  BY <1>4, <1>6, <1>7, <1>8, <1>9, <1>10, ShellAssumption
  DEF Next, vars, Cd, Run, BareWord, Dvcmgr, Mount, ProgramCd, ProgramReturns

\* What is found to run is a typed path: the path given, or the path with an extension.
LEMMA FoundIsTyped ==
  ASSUME NEW path \in TypedPaths, path.parts # <<>>, NEW order, NEW whole,
         NEW p \in Lookup(path, order, whole)
  PROVE  p \in TypedPaths /\ p.parts # <<>>
<1>1. PICK k \in 0 .. Len(order) :
        /\ p = Variant(path, order, k)
        /\ k > 0 => <<Last(path.parts), order[k]>> \in DOMAIN WithExt
  BY DEF Lookup, First, Openable
<1> DEFINE P == path.parts
           N == Names \cup {".", ".."}
<1>2. CASE k = 0
  BY <1>1, <1>2 DEF Variant
<1>3. CASE k > 0
  <2> DEFINE c == WithExt[<<Last(P), order[k]>>]
  <2>1. P \in Seq(N) /\ c \in N
    BY <1>1, <1>3, ShellAssumption DEF TypedPaths
  <2>2. Append(Front(P), c) \in Seq(N) /\ Append(Front(P), c) # <<>>
    BY <2>1, FrontIs, AppendProperties
  <2>3. p = [path EXCEPT !.parts = Append(Front(P), c)]
    BY <1>1, <1>3 DEF Variant
  <2> HIDE DEF c
  <2>4. QED
    BY <2>2, <2>3 DEF TypedPaths
<1>4. QED
  BY <1>1, <1>2, <1>3

LEMMA ProgramStep == ASSUME StateSound, [Next]_vars PROVE ProgramOK'
<1>1. ProgramOK
  BY StateIs
<1>2. Current \in {"A", "C"}
  BY DEF Current, VolumeOf
<1>3. ASSUME NEW p, program' = File(p) PROVE ProgramOK'
  BY <1>2, <1>3 DEF ProgramOK, File, Located
<1>4. ASSUME NEW p \in TypedPaths, program' = [File(p) EXCEPT !.driver = <<p>>] PROVE ProgramOK'
  <2>1. program'.file = <<Current, Resolve(p)>> /\ program'.driver = <<p>>
    BY <1>4 DEF File
  <2>2. QED
    BY <1>2, <2>1 DEF ProgramOK, Located
<1>5. CASE UNCHANGED program
  BY <1>1, <1>5 DEF ProgramOK
<1>6. CASE program' = NoProgram
  BY <1>6 DEF ProgramOK, NoProgram, Located
<1>7. ASSUME NEW path \in TypedPaths, Dvcmgr(path) PROVE ProgramOK'
  BY <1>4, <1>7, FoundIsTyped DEF Dvcmgr
<1>8. QED
  BY <1>3, <1>5, <1>6, <1>7, ShellAssumption
  DEF Next, vars, Cd, Mkdir, Del, Run, BareWord, Rename, Fatfs, Mount, Reboot, ProgramCd,
      ProgramReturns

LEMMA RegistryStep == ASSUME StateSound, [Next]_vars PROVE RegistryOK'
<1>1. RegistryOK /\ program.driver \in Seq(TypedPaths) /\ Len(program.driver) <= 1
  BY StateIs DEF ProgramOK
<1>2. CASE UNCHANGED drivers
  BY <1>1, <1>2 DEF RegistryOK, IsInjective
<1>3. ASSUME NEW code, ProgramReturns(code), drivers' # drivers PROVE RegistryOK'
  <2> DEFINE names == program.driver
  <2>1. /\ drivers' = drivers \o names
        /\ ~(Range(names) \subseteq Range(drivers)) /\ Len(drivers) # DriverSlots
    BY <1>3 DEF ProgramReturns, Register
  <2>2. /\ drivers \in Seq(TypedPaths) /\ Len(drivers) <= DriverSlots
        /\ \A a, b \in DOMAIN drivers : drivers[a] = drivers[b] => a = b
    BY <1>1 DEF RegistryOK, IsInjective
  <2>3. names # <<>>
    BY <2>1 DEF Range
  <2>4. Len(names) = 1 /\ names[1] \in TypedPaths
    <3>1. names \in Seq(TypedPaths) /\ Len(names) <= 1
      BY <1>1
    <3> HIDE DEF names
    <3>2. Len(names) \in Nat /\ Len(names) # 0
      BY <2>3, <3>1
    <3>3. \A n \in Nat : n # 0 /\ n <= 1 => n = 1
      OBVIOUS
    <3>4. Len(names) = 1
      BY <3>1, <3>2, <3>3
    <3>5. QED
      BY <3>1, <3>4, ElementOfSeq
  <2>5. names[1] \notin Range(drivers)
    <3>1. Range(names) = {names[1]}
      BY <1>1, <2>4 DEF Range
    <3>2. QED
      BY <2>1, <3>1
  <2> HIDE DEF names
  <2>6. /\ drivers' \in Seq(TypedPaths) /\ Len(drivers') = Len(drivers) + 1
        /\ \A i \in 1 .. Len(drivers) + 1 :
             drivers'[i] = IF i <= Len(drivers) THEN drivers[i] ELSE names[i - Len(drivers)]
    BY <1>1, <2>1, <2>2, <2>4, ConcatProperties DEF names
  <2>7. drivers'[Len(drivers) + 1] = names[1] /\ Len(drivers') <= DriverSlots
    BY <2>1, <2>2, <2>6, ShellAssumption
  <2>8. IsInjective(drivers')
    <3>1. SUFFICES ASSUME NEW a \in 1 .. Len(drivers) + 1, NEW b \in 1 .. Len(drivers) + 1,
                          drivers'[a] = drivers'[b]
                   PROVE  a = b
      BY <2>6 DEF IsInjective
    <3>2. \A i \in 1 .. Len(drivers) : drivers'[i] = drivers[i] /\ drivers'[i] # names[1]
      BY <2>2, <2>5, <2>6 DEF Range
    <3>3. QED
      BY <2>2, <2>7, <3>1, <3>2
  <2>9. QED
    BY <2>6, <2>7, <2>8 DEF RegistryOK
<1>4. CASE drivers' = <<>>
  BY <1>4, ShellAssumption DEF RegistryOK, IsInjective
<1>5. QED
  BY <1>2, <1>3, <1>4
  DEF Next, vars, Cd, Mkdir, Del, Run, BareWord, Dvcmgr, Rename, Fatfs, Mount, Reboot,
      ProgramCd, ProgramReturns

LEMMA StateInit == Init => StateSound
<1> SUFFICES ASSUME Init PROVE StateSound
  OBVIOUS
<1>1. PathOK
  BY ShellAssumption DEF Init, PathOK, Letters
<1>2. MountsOK
  <2>1. present \in BOOLEAN /\ ata_if \in BOOLEAN
    BY Zenon DEF Init
  <2>2. QED
    BY <2>1, ShellAssumption DEF Init, MountsOK, Mounts
<1>3. TreesOK
  BY ShellAssumption, EmptyTree DEF Init, TreesOK
<1>4. ProgramOK
  BY DEF Init, ProgramOK, NoProgram, Located
<1>5. RegistryOK
  BY ShellAssumption DEF Init, RegistryOK, IsInjective
<1>6. QED
  BY <1>1, <1>2, <1>3, <1>4, <1>5, StateIs

\* The volumes stay trees and no driver is registered twice (StateSound, FAT32.h:605-684 and
\* kernel64.cpp:699), for any images, paths and programs.
THEOREM ShellStateSound == Spec => []StateSound
<1>1. StateSound /\ [Next]_vars => StateSound'
  BY PathStep, MountsStep, TreesStep, ProgramStep, RegistryStep
  DEF StateSound, TypeOK, DriversOnce, PathOK, MountsOK, TreesOK, ProgramOK, RegistryOK
<1>2. QED
  BY <1>1, StateInit, PTL DEF Spec

(***************************************************************************)
(* What a command finds, and where cd leads.                               *)
(***************************************************************************)

\* A path that opens is the first of its own variants, whatever the order.
LEMMA OpensIsFirst ==
  ASSUME NEW path, NEW order, Len(order) \in Nat, Opens(path)
  PROVE  Lookup(path, order, TRUE) = {path}
<1> DEFINE found == Openable(path, order)
<1>1. Variant(path, order, 0) = path
  BY DEF Variant
<1>2. 0 \in found
  BY <1>1 DEF Openable
<1>3. \A k \in found : k \in Nat
  BY DEF Openable
<1>4. Lookup(path, order, TRUE) = {Variant(path, order, k) : k \in First(found)}
  BY DEF Lookup
<1> HIDE DEF found
<1>5. First(found) = {0}
  BY <1>2, <1>3 DEF First
<1>6. QED
  BY <1>1, <1>4, <1>5

\* What a lookup finds opens, and any lookup may find it when reads fail.
LEMMA LookupOpens ==
  ASSUME NEW path, NEW order, NEW whole, NEW p \in Lookup(path, order, whole)
  PROVE  \E k \in Openable(path, order) : p = Variant(path, order, k) /\ Opens(p)
  BY DEF Lookup, First, Openable

\* What the two lookups of a bare word come to is a variant of the word: a name with an
\* extension has no further variants, and the two orders hold the same extensions.
LEMMA WordVariant ==
  ASSUME NEW path \in TypedPaths, path.parts # <<>>,
         NEW k \in Openable(path, SearchOrder), NEW found, found = Variant(path, SearchOrder, k),
         NEW j \in Openable(found, RunOrder), NEW p, p = Variant(found, RunOrder, j)
  PROVE  \E i \in Openable(path, SearchOrder) : p = Variant(path, SearchOrder, i)
<1> DEFINE P == path.parts
           N == Names \cup {".", ".."}
<1>1. P \in Seq(N) /\ P # <<>>
  BY DEF TypedPaths
<1>2. /\ Len(SearchOrder) = 3 /\ Len(RunOrder) = 3
      /\ SearchOrder[1] = "ELF" /\ SearchOrder[2] = "SYS" /\ SearchOrder[3] = "EXE"
      /\ RunOrder[1] = "ELF" /\ RunOrder[2] = "EXE" /\ RunOrder[3] = "SYS"
  BY DEF SearchOrder, RunOrder
<1>3. CASE j = 0
  BY <1>3 DEF Variant
<1>4. CASE k = 0 /\ j # 0
  <2>1. found = path
    BY <1>4 DEF Variant
  <2>2. /\ j \in 1 .. 3 /\ <<Last(P), RunOrder[j]>> \in DOMAIN WithExt /\ Opens(p)
    BY <1>2, <1>4, <2>1 DEF Openable
  <2> DEFINE i == IF j = 1 THEN 1 ELSE IF j = 2 THEN 3 ELSE 2
  <2>3. i \in 1 .. 3 /\ SearchOrder[i] = RunOrder[j]
    BY <1>2, <2>2
  <2> HIDE DEF i
  <2>4. p = Variant(path, SearchOrder, i)
    BY <1>4, <2>1, <2>2, <2>3 DEF Variant
  <2>5. i \in Openable(path, SearchOrder)
    BY <1>2, <2>2, <2>3, <2>4 DEF Openable
  <2>6. QED
    BY <2>4, <2>5
<1>5. CASE k # 0 /\ j # 0
  <2>1. k \in 1 .. 3 /\ <<Last(P), SearchOrder[k]>> \in DOMAIN WithExt
    BY <1>2, <1>5 DEF Openable
  <2> DEFINE x == <<Last(P), SearchOrder[k]>>
  <2>2. WithExt[x] \in N
    BY <2>1, ShellAssumption
  <2>3. found.parts = Append(Front(P), WithExt[x])
    <3>1. found = [path EXCEPT !.parts = Append(Front(P), WithExt[x])]
      BY <1>5 DEF Variant
    <3> HIDE DEF x, P
    <3>2. QED
      BY <3>1 DEF TypedPaths
  <2>4. Last(found.parts) = WithExt[x]
    <3>1. Front(P) \in Seq(N)
      BY <1>1, FrontIs
    <3> HIDE DEF x, P, N
    <3>2. /\ Len(Append(Front(P), WithExt[x])) = Len(Front(P)) + 1
          /\ Append(Front(P), WithExt[x])[Len(Front(P)) + 1] = WithExt[x]
      BY <2>2, <3>1, AppendProperties
    <3>3. QED
      BY <2>3, <3>2 DEF Last
  <2>5. <<Last(found.parts), RunOrder[j]>> \in DOMAIN WithExt
    BY <1>5 DEF Openable
  <2> DEFINE y == <<Last(found.parts), RunOrder[j]>>
  <2>6. y[1] = WithExt[x]
    BY <2>4
  <2>7. x \in DOMAIN WithExt /\ y \in DOMAIN WithExt
    BY <2>1, <2>5
  <2> HIDE DEF x, y
  <2>8. QED
    BY <2>6, <2>7, ShellAssumption
<1>6. QED
  BY <1>3, <1>4, <1>5

\* A bare word runs the very file that was found for it unless a read of the second lookup
\* fails, and one of its own variants then (FoundIsRun, kernel64.cpp:1352-1408), whatever the
\* trees, the words, the names with an extension and the directory a program left behind.
THEOREM ShellFoundIsRun == Spec => FoundIsRun
<1>1. ASSUME [Next]_vars, program = NoProgram, program' # NoProgram, asked'.cmd = "word"
      PROVE  /\ asked'.whole => program' = File(asked'.found)
             /\ \E p \in Lookup(asked'.path, SearchOrder, FALSE) : program' = File(p)
  <2>1. PICK path \in Paths : BareWord(path)
    <3>1. /\ \A path : ~ Run(path) /\ ~ Dvcmgr(path)
      BY <1>1 DEF Run, Dvcmgr, Asks
    <3>2. /\ \A path : ~ Cd(path) /\ ~ Mkdir(path) /\ ~ Del(path) /\ ~ ProgramCd(path)
          /\ \A path, name : ~ Rename(path, name)
          /\ \A letter, glued : ~ Fatfs(letter, glued)
          /\ \A code : ~ ProgramReturns(code)
          /\ ~ Mount /\ ~ Reboot /\ ~ UNCHANGED vars
      BY <1>1 DEF vars, Cd, Mkdir, Del, Rename, Fatfs, Mount, Reboot, ProgramCd, ProgramReturns
    <3>3. QED
      BY <1>1, <3>1, <3>2 DEF Next
  <2>2. PICK search \in Whole, whole \in Whole :
          \E found \in Lookup(path, SearchOrder, search) :
            /\ \E p \in Lookup(found, RunOrder, whole) : program' = File(p)
            /\ asked' = [cmd |-> "word", path |-> path, found |-> found, whole |-> whole]
    BY <2>1 DEF BareWord, Word
  <2>3. PICK found \in Lookup(path, SearchOrder, search) :
           /\ \E p \in Lookup(found, RunOrder, whole) : program' = File(p)
           /\ asked' = [cmd |-> "word", path |-> path, found |-> found, whole |-> whole]
    BY <2>2
  <2>4. PICK p \in Lookup(found, RunOrder, whole) : program' = File(p)
    BY <2>3
  <2>5. /\ asked'.path = path /\ asked'.found = found /\ asked'.whole = whole
        /\ Len(RunOrder) = 3
    BY <2>3 DEF RunOrder
  <2>6. PICK k \in Openable(path, SearchOrder) : found = Variant(path, SearchOrder, k) /\ Opens(found)
    BY LookupOpens
  <2>7. PICK j \in Openable(found, RunOrder) : p = Variant(found, RunOrder, j)
    BY LookupOpens
  <2>8. ASSUME whole PROVE program' = File(found)
    <3>1. whole = TRUE
      BY <2>8 DEF Whole
    <3>2. Len(RunOrder) \in Nat
      BY <2>5
    <3>3. Lookup(found, RunOrder, TRUE) = {found}
      BY <2>6, <3>2, OpensIsFirst
    <3>4. p \in Lookup(found, RunOrder, TRUE)
      BY <3>1, Zenon
    <3>5. QED
      BY <2>4, <3>3, <3>4
  <2>9. \E i \in Openable(path, SearchOrder) : p = Variant(path, SearchOrder, i)
    <3>1. path \in TypedPaths /\ path.parts # <<>>
      BY <2>1, ShellAssumption DEF BareWord
    <3>2. QED
      BY <2>6, <2>7, <3>1, WordVariant
  <2>10. p \in Lookup(path, SearchOrder, FALSE)
    BY <2>9 DEF Lookup
  <2>11. QED
    BY <2>4, <2>5, <2>8, <2>10
<1>2. QED
  BY <1>1, PTL DEF Spec, FoundIsRun

\* The paths the two lookups of cd agree on.
AgreedPaths == {path \in TypedPaths :
                  IsUp(path) \/ IsRoot(path) \/ IsVolume(path)
                    \/ (Plain(path) /\ path.parts # <<".">>)}

LEMMA CdStep ==
  ASSUME StateSound, CwdLeads, NEW path \in AgreedPaths, Cd(path)
  PROVE  CwdLeads'
<1>1. /\ cwd \in Seq(Components) /\ volume \in Letters
      /\ \A v \in {"A", "C"} : <<>> \in tree[v].dirs
  BY StateIs DEF PathOK, TreesOK, IsTree
<1>2. /\ path \in TypedPaths
      /\ PathCd(path) /\ MayCd(path)
      /\ UNCHANGED <<mounts, tree>>
  BY DEF Cd, AgreedPaths
<1>3. Current' \in {"A", "C"} /\ \A v : Seen(v)' = Seen(v)
  BY <1>2 DEF Current, VolumeOf, Seen, Reads, Object, mounts
<1>4. CASE cwd' = <<>>
  <2>1. cwd' \in Seq(Components) /\ Len(cwd') = 0
    BY <1>4
  <2>2. Along(Seen(Current)', cwd')[0] = {<<>>}
    BY <2>1, FirstStep
  <2>3. <<>> \in Along(Seen(Current)', cwd')[Len(cwd')]
    BY <2>1, <2>2
  <2>4. <<>> \in tree[Current]'.dirs
    BY <1>1, <1>2, <1>3
  <2>5. QED
    BY <2>3, <2>4 DEF CwdLeads, Walk
<1>5. CASE IsUp(path) /\ cwd # <<>>
  \* What leads to a directory went through one.
  <2>1. cwd' = Front(cwd) /\ volume' = volume
    BY <1>2, <1>5 DEF PathCd, Up, IsUp, Plain, IsVolume
  <2> DEFINE t == Seen(Current)
             at == Along(t, Front(cwd))[Len(Front(cwd))]
  <2>2. Along(t, cwd)[Len(cwd)] = EnterFrom(t, at, Last(cwd))
    BY <1>1, <1>5, LastStep
  <2>3. EnterFrom(t, at, Last(cwd)) # {}
    BY <2>2 DEF CwdLeads, Walk
  <2> HIDE DEF at
  <2>4. at \cap t.dirs # {}
    BY <2>3 DEF EnterFrom
  <2>5. t.dirs \subseteq tree[Current].dirs
    BY <1>1 DEF Seen, Empty, Current, VolumeOf
  <2>6. Walk(Current, cwd)' = at
    BY <1>2, <2>1 DEF Walk, at, Current, Seen, Reads, Object, mounts
  <2>7. tree[Current]' = tree[Current]
    BY <1>2, <2>1 DEF Current
  <2>8. QED
    BY <2>4, <2>5, <2>6, <2>7 DEF CwdLeads
<1>6. CASE Plain(path) /\ path.parts # <<"..">> /\ path.parts # <<".">>
  <2>1. Leads(path)
    BY <1>2, <1>6 DEF MayCd, Special, Plain, IsVolume, IsUp, IsRoot
  <2>2. cwd' = cwd \o path.parts /\ volume' = volume
    BY <1>2, <1>6 DEF PathCd, Plain, IsUp, IsRoot, IsVolume, Appended
  <2>3. Resolve(path) = cwd'
    BY <1>6, <2>2 DEF Resolve
  <2>4. Walk(Current, cwd') \cap tree[Current].dirs # {}
    BY <2>1, <2>3 DEF Leads, IsDirectory
  <2>5. Walk(Current, cwd)' = Walk(Current, cwd')
    BY <1>2, <2>2 DEF Walk, Current, Seen, Reads, Object, mounts
  <2>6. QED
    BY <1>2, <2>2, <2>4, <2>5 DEF CwdLeads, Current
<1>7. QED
  <2>1. IsUp(path) /\ cwd = <<>> => cwd' = <<>>
    BY <1>2 DEF PathCd, Up
  <2>2. IsRoot(path) \/ IsVolume(path) => cwd' = <<>>
    BY <1>2 DEF PathCd, IsUp, IsRoot, IsVolume, Plain
  <2>3. IsUp(path) \/ IsRoot(path) \/ IsVolume(path) \/ (Plain(path) /\ path.parts # <<".">>)
    BY DEF AgreedPaths
  <2>4. Plain(path) /\ path.parts = <<"..">> => IsUp(path)
    BY DEF IsUp
  <2>5. QED
    BY <1>4, <1>5, <1>6, <2>1, <2>2, <2>3, <2>4

\* From a directory that exists the user's cd leads to one that exists (CdLeads, vfs.h:104), for
\* every tree and every relative path, .., / and volume.
THEOREM ShellCdLeads == ASSUME CdPaths \subseteq AgreedPaths PROVE Spec => CdLeads
<1>1. ASSUME StateSound, [Next]_vars, program = NoProgram, CwdLeads,
             <<volume, cwd>>' # <<volume, cwd>>
      PROVE  CwdLeads'
  <2>1. CASE Reboot
    <3>1. cwd' = <<>> /\ volume' = "C" /\ <<>> \in tree'["C"].dirs
      BY <1>1, <2>1, StateIs DEF Reboot, TreesOK, IsTree
    <3>2. <<>> \in Walk(Current, cwd)'
      <4>1. cwd' \in Seq(Components) /\ Len(cwd') = 0
        BY <3>1
      <4>2. Along(Seen(Current)', cwd')[0] = {<<>>}
        BY <4>1, FirstStep
      <4>3. QED
        BY <4>1, <4>2 DEF Walk
    <3>3. QED
      BY <3>1, <3>2 DEF CwdLeads, Current, VolumeOf
  <2>2. CASE ~Reboot
    <3>1. PICK path \in CdPaths : Cd(path)
      BY <1>1, <2>2 DEF Next, vars, Mkdir, Del, Run, BareWord, Dvcmgr, Rename, Fatfs, Mount,
                        ProgramCd, ProgramReturns
    <3>2. QED
      BY <1>1, <3>1, CdStep
  <2>3. QED
    BY <2>1, <2>2
<1>2. QED
  BY <1>1, ShellStateSound, PTL DEF Spec, CdLeads

(***************************************************************************)
(* No command reaches an object that was not made.                         *)
(***************************************************************************)

\* What the tests of the commands rely on: an object of C: is only ever there with an
\* interface, except where a mount has just called a null one; and it is mounted only with
\* an interface and a formatted disk.
MountInv ==
  /\ fs # "null" /\ fault = "none" => ata_if
  /\ fs = "mounted" => ata_if /\ disk = "fat"
  /\ fault # "volume"
  /\ fault = "interface" => ~ata_if

LEMMA MountInit == Init => MountInv
<1> SUFFICES ASSUME Init PROVE MountInv
  OBVIOUS
<1>1. ata_if = present
  BY Zenon DEF Init
<1>2. fault = "none" /\ fs \in {"null"} \cup IF present THEN Mounts ELSE {}
  BY Zenon DEF Init
<1>3. QED
  BY <1>1, <1>2 DEF MountInv, Mounts

LEMMA MountStep == ASSUME MountInv, [Next]_vars PROVE MountInv'
<1> USE DEF MountInv
<1>1. CASE UNCHANGED <<mounts, fault>>
  BY <1>1 DEF mounts
<1>2. ASSUME NEW path, Mkdir(path) PROVE MountInv'
  \* require_fs stands for the object of either volume.
  BY <1>2 DEF Mkdir, RequireFs, Object, mounts
<1>3. ASSUME NEW letter, NEW glued, Fatfs(letter, glued) PROVE MountInv'
  BY <1>3 DEF Fatfs, AtPrompt, Object, mounts
<1>4. CASE Mount
  BY <1>4 DEF Mount, AtPrompt, Mounts, mounts
<1>5. CASE Reboot
  <2>1. ata_if' = present' /\ fault' = "none"
    BY <1>5, Zenon DEF Reboot
  <2>2. fs' \in {"null"} \cup IF present' THEN Mounts ELSE {}
    BY <1>5 DEF Reboot
  <2>3. disk' = disk
    BY <1>5 DEF Reboot
  <2>4. QED
    BY <2>1, <2>2, <2>3 DEF Mounts
<1>6. QED
  BY <1>1, <1>2, <1>3, <1>4, <1>5
  DEF Next, vars, mounts, Cd, Del, Rename, Run, BareWord, Dvcmgr, ProgramCd, ProgramReturns

\* No command calls a FAT32 object that was not made, none but a mount after a boot that did
\* not find the disk an interface that was not, and a mounted volume has an interface and a
\* formatted disk (VolumesReal, kernel64.cpp:439-461, 531, 997 and 1086), through boots,
\* detections, mounts and formats that succeed and that fail.
THEOREM ShellVolumesReal == Spec => []VolumesReal
<1>1. MountInv => VolumesReal
  BY DEF MountInv, VolumesReal
<1>2. QED
  BY <1>1, MountInit, MountStep, PTL DEF Spec
=============================================================================
