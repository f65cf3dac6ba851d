---------------------------- MODULE CommandProofs ----------------------------
(***************************************************************************)
(* Proofs about the prompt and about the program a command runs.           *)
(*                                                                         *)
(* The prompt, for any line length, any ring and any width of the screen:  *)
(* nothing leaves its bounds, UP and DOWN walk through the last commands   *)
(* in the order they were entered, and the row shows what is typed.        *)
(* TypeOK is inductive, and so is RowInv with it.                          *)
(*                                                                         *)
(* Running a file, for any disk and any heap: what is allocated is given   *)
(* back, a program starts from what its file holds, and a DOS program from *)
(* its image with each relocation applied once.                            *)
(***************************************************************************)
EXTENDS Prompt, Programs, SequenceTheorems, FiniteSetTheorems, WellFoundedInduction, TLAPS

-----------------------------------------------------------------------------
(***************************************************************************)
(* Induction over the naturals, for a set in place of a predicate.         *)
(***************************************************************************)
Less == {ss \in Nat \X Nat : ss[1] < ss[2]}

LEMMA SetInduction ==
  ASSUME NEW S, 0 \in S, \A n \in Nat : n \in S => n + 1 \in S
  PROVE  Nat \subseteq S
<1> SUFFICES ASSUME Nat \ S # {} PROVE FALSE
  OBVIOUS
<1>1. IsWellFoundedOn(Less, Nat)
  BY NatLessThanWellFounded DEF OpToRel, Less
<1>2. PICK x \in Nat \ S : \A y \in Nat \ S : ~ (<<y, x>> \in Less)
  BY <1>1, WFMin
<1>3. x # 0 /\ x - 1 \in Nat /\ <<x - 1, x>> \in Less
  BY <1>2 DEF Less
<1>4. x - 1 \in S
  BY <1>2, <1>3
<1>5. (x - 1) + 1 \in S
  BY <1>3, <1>4
<1>6. QED
  BY <1>2, <1>5

-----------------------------------------------------------------------------
Slots == 0 .. HistorySize - 1

\* The slot of the i-th most recent command.
Slot(i) == (history_head - i + HistorySize * 2) % HistorySize

-----------------------------------------------------------------------------
(***************************************************************************)
(* Lines.                                                                  *)
(***************************************************************************)
LEMMA EmptyLine == <<>> \in Lines /\ Len(<<>>) = 0
  BY PromptAssumption DEF Lines

LEMMA SplitLine ==
  ASSUME NEW l \in Lines, NEW m \in 0 .. Len(l), NEW n \in m .. Len(l)
  PROVE  /\ SubSeq(l, 1, m) \in Seq(Chars) /\ Len(SubSeq(l, 1, m)) = m
         /\ SubSeq(l, n + 1, Len(l)) \in Seq(Chars)
         /\ Len(SubSeq(l, n + 1, Len(l))) = Len(l) - n
<1>1. l \in Seq(Chars) /\ Len(l) \in Nat /\ m \in Nat /\ n \in Nat
  BY DEF Lines
<1>2. \A i \in 1 .. Len(l) : l[i] \in Chars
  BY <1>1
<1>3. SubSeq(l, 1, m) \in Seq(Chars) /\ Len(SubSeq(l, 1, m)) = IF 1 <= m THEN m - 1 + 1 ELSE 0
  BY <1>1, <1>2, SubSeqProperties
<1>4. /\ SubSeq(l, n + 1, Len(l)) \in Seq(Chars)
      /\ Len(SubSeq(l, n + 1, Len(l)))
           = IF n + 1 <= Len(l) THEN Len(l) - (n + 1) + 1 ELSE 0
  BY <1>1, <1>2, SubSeqProperties
<1>5. QED
  BY <1>1, <1>3, <1>4

\* A line that loses the character after its first k.
LEMMA WithoutLine ==
  ASSUME line \in Lines, NEW k \in 0 .. Len(line) - 1
  PROVE  Without(k) \in Lines /\ Len(Without(k)) = Len(line) - 1
<1> DEFINE a == SubSeq(line, 1, k)
           b == SubSeq(line, k + 2, Len(line))
<1>1. line \in Seq(Chars) /\ Len(line) \in Nat /\ Len(line) <= LineMax
  BY DEF Lines
<1>2. k \in 0 .. Len(line) /\ k + 1 \in k .. Len(line) /\ k + 1 + 1 = k + 2
  BY <1>1
<1>3. a \in Seq(Chars) /\ Len(a) = k
  BY <1>2, SplitLine
<1>4. /\ SubSeq(line, k + 1 + 1, Len(line)) \in Seq(Chars)
      /\ Len(SubSeq(line, k + 1 + 1, Len(line))) = Len(line) - (k + 1)
  BY <1>2, SplitLine
<1>5. b \in Seq(Chars) /\ Len(b) = Len(line) - (k + 1)
  BY <1>2, <1>4
<1>6. Without(k) = a \o b
  BY DEF Without
<1> HIDE DEF a, b
<1>7. a \o b \in Seq(Chars) /\ Len(a \o b) = k + (Len(line) - (k + 1))
  BY <1>3, <1>5, ConcatProperties
<1>8. QED
  BY <1>1, <1>2, <1>6, <1>7, PromptAssumption DEF Lines

\* A line that gains character c after its first m.
LEMMA LongerLine ==
  ASSUME NEW l \in Lines, NEW m \in 0 .. Len(l), NEW c \in Chars, Len(l) < LineMax
  PROVE  LET s == SubSeq(l, 1, m) \o <<c>> \o SubSeq(l, m + 1, Len(l))
         IN  s \in Lines /\ Len(s) = Len(l) + 1
<1> DEFINE a == SubSeq(l, 1, m)
           b == SubSeq(l, m + 1, Len(l))
<1>1. Len(l) \in Nat /\ m \in Nat /\ m \in m .. Len(l)
  BY DEF Lines
<1>2. a \in Seq(Chars) /\ b \in Seq(Chars) /\ Len(a) = m /\ Len(b) = Len(l) - m
  BY <1>1, SplitLine
<1>3. <<c>> \in Seq(Chars) /\ Len(<<c>>) = 1
  OBVIOUS
<1> HIDE DEF a, b
<1>4. a \o <<c>> \in Seq(Chars) /\ Len(a \o <<c>>) = m + 1
  BY <1>2, <1>3, ConcatProperties
<1>5. \A d \in Seq(Chars) : d \o b \in Seq(Chars) /\ Len(d \o b) = Len(d) + Len(b)
  BY <1>2, ConcatProperties
<1>6. a \o <<c>> \o b \in Lines /\ Len(a \o <<c>> \o b) = Len(l) + 1
  BY <1>1, <1>2, <1>4, <1>5, PromptAssumption DEF Lines
<1>7. QED
  BY <1>6 DEF a, b

-----------------------------------------------------------------------------
(***************************************************************************)
(* The ring.                                                               *)
(***************************************************************************)
\* The remainder of what is at most three times the divisor.
LEMMA Modulo ==
  \A n \in Nat \ {0}, a \in Nat :
    a < n => a % n = a /\ (a + n) % n = a /\ (a + n * 2) % n = a
  OBVIOUS

\* Where the commands are, and where they are after one more has been entered.
LEMMA SlotOf ==
  ASSUME NEW h \in Slots, NEW i \in 1 .. HistorySize
  PROVE  (h - i + HistorySize * 2) % HistorySize = IF i <= h THEN h - i ELSE h - i + HistorySize
<1>1. CASE i <= h
  <2>1. h - i \in Nat /\ h - i < HistorySize
    BY <1>1, PromptAssumption DEF Slots
  <2>2. QED
    BY <1>1, <2>1, Modulo, PromptAssumption
<1>2. CASE i > h
  <2>1. h - i + HistorySize \in Nat /\ h - i + HistorySize < HistorySize
    BY <1>2, PromptAssumption DEF Slots
  <2>2. (h - i + HistorySize) + HistorySize = h - i + HistorySize * 2
    BY PromptAssumption DEF Slots
  <2>3. ((h - i + HistorySize) + HistorySize) % HistorySize = h - i + HistorySize
    BY <2>1, Modulo, PromptAssumption
  <2>4. QED
    BY <1>2, <2>2, <2>3, PromptAssumption DEF Slots
<1>3. QED
  BY <1>1, <1>2, PromptAssumption DEF Slots

LEMMA NextHead ==
  ASSUME NEW h \in Slots
  PROVE  (h + 1) % HistorySize = IF h = HistorySize - 1 THEN 0 ELSE h + 1
<1>1. CASE h = HistorySize - 1
  <2>1. (0 + HistorySize) % HistorySize = 0
    BY Modulo, PromptAssumption
  <2>2. QED
    BY <1>1, <2>1, PromptAssumption DEF Slots
<1>2. CASE h # HistorySize - 1
  BY <1>2, Modulo, PromptAssumption DEF Slots
<1>3. QED
  BY <1>1, <1>2

LEMMA SlotType ==
  ASSUME TypeOK
  PROVE  \A i \in 1 .. history_count : Slot(i) \in Slots /\ history_get(i) = history[Slot(i)]
                                       /\ history_get(i) \in Lines
<1> TAKE i \in 1 .. history_count
<1>1. history_head \in Slots /\ i \in 1 .. HistorySize
  BY PromptAssumption DEF TypeOK, Slots
<1>2. Slot(i) \in Slots
  BY <1>1, SlotOf, PromptAssumption DEF Slot, Slots
<1>3. history_get(i) = history[Slot(i)]
  BY DEF history_get, Slot
<1>4. history[Slot(i)] \in Lines
  BY <1>2 DEF TypeOK, Slots
<1>5. QED
  BY <1>2, <1>3, <1>4

\* history_add looks at the most recent command.
LEMMA LastSlot == ASSUME TypeOK PROVE last = Slot(1)
<1>1. history_head \in Slots /\ 1 \in 1 .. HistorySize
  BY PromptAssumption DEF TypeOK, Slots
<1>2. Slot(1) = IF 1 <= history_head THEN history_head - 1 ELSE history_head - 1 + HistorySize
  BY <1>1, SlotOf DEF Slot
<1>3. CASE 1 <= history_head
  <2>1. history_head - 1 \in Nat /\ history_head - 1 < HistorySize
    BY <1>1, <1>3, PromptAssumption DEF Slots
  <2>2. QED
    BY <1>2, <1>3, <2>1, Modulo, PromptAssumption DEF last
<1>4. CASE history_head = 0
  <2>1. history_head - 1 + HistorySize \in Nat /\ history_head - 1 + HistorySize < HistorySize
    BY <1>4, PromptAssumption
  <2>2. QED
    BY <1>2, <1>4, <2>1, Modulo, PromptAssumption DEF last
<1>5. QED
  BY <1>1, <1>3, <1>4, PromptAssumption DEF Slots

-----------------------------------------------------------------------------
(***************************************************************************)
(* Nothing leaves its bounds.                                              *)
(***************************************************************************)
LEMMA PromptInit == Init => TypeOK
  BY EmptyLine, PromptAssumption DEF Init, TypeOK

\* What history_add does to the ring.
LEMMA AddType ==
  ASSUME TypeOK, NEW cmd \in Lines, history_add(cmd)
  PROVE  /\ history' \in [0 .. HistorySize - 1 -> Lines]
         /\ history_head' \in 0 .. HistorySize - 1
         /\ history_count' \in 0 .. HistorySize
<1>1. CASE UNCHANGED ring
  BY <1>1 DEF ring, TypeOK
<1>2. CASE ~ UNCHANGED ring
  <2>1. /\ history' = [history EXCEPT ![history_head] = cmd]
        /\ history_head' = (history_head + 1) % HistorySize
        /\ history_count' = IF history_count < HistorySize THEN history_count + 1
                            ELSE history_count
    BY <1>2 DEF history_add
  <2>2. history_head' \in 0 .. HistorySize - 1
    BY <2>1, NextHead, PromptAssumption DEF TypeOK, Slots
  <2>3. QED
    BY <2>1, <2>2, PromptAssumption DEF TypeOK
<1>3. QED
  BY <1>1, <1>2

LEMMA PromptTypeStep == ASSUME TypeOK, [Next]_vars PROVE TypeOK'
<1>0. line \in Lines /\ Len(line) \in Nat /\ cursor \in 0 .. Len(line) /\ hist_pos \in Nat
      /\ history_count \in Nat
  BY DEF TypeOK, Lines
<1>1. CASE Enter
  <2>1. line' = <<>> /\ cursor' = 0 /\ saved' = <<>> /\ hist_pos' = 0 /\ history_add(line)
    BY <1>1 DEF Enter
  <2>2. history_count' \in 0 .. HistorySize
    BY <1>0, <2>1, AddType
  <2>3. 0 \in 0 .. history_count'
    BY <2>2, PromptAssumption
  <2>4. QED
    BY <1>0, <2>1, <2>3, AddType, EmptyLine DEF TypeOK
<1>2. ASSUME NEW c \in Chars, Insert(c) PROVE TypeOK'
  <2>1. line' \in Lines /\ cursor' \in 0 .. Len(line')
    <3>1. CASE Len(line) >= LineMax
      BY <1>0, <1>2, <3>1 DEF Insert, Redrawn
    <3>2. CASE ~(Len(line) >= LineMax)
      <4> DEFINE s == SubSeq(line, 1, cursor) \o <<c>> \o SubSeq(line, cursor + 1, Len(line))
      <4>1. line' = s /\ cursor' = cursor + 1
        BY <1>2, <3>2 DEF Insert, Redrawn
      <4>2. Len(line) < LineMax
        BY <1>0, <3>2, PromptAssumption
      <4>3. s \in Lines /\ Len(s) = Len(line) + 1
        BY <1>0, <4>2, LongerLine
      <4> HIDE DEF s
      <4>4. QED
        BY <1>0, <4>1, <4>3
    <3>3. QED
      BY <3>1, <3>2
  <2>2. QED
    BY <1>2, <2>1 DEF Insert, ring, TypeOK
<1>3. CASE Backspace
  <2>1. line' \in Lines /\ cursor' \in 0 .. Len(line')
    <3>1. CASE cursor <= 0
      BY <1>0, <1>3, <3>1 DEF Backspace, Redrawn
    <3>2. CASE ~(cursor <= 0)
      <4>1. line' = Without(cursor - 1) /\ cursor' = cursor - 1
        BY <1>3, <3>2 DEF Backspace, Redrawn
      <4>2. cursor - 1 \in 0 .. Len(line) - 1
        BY <1>0, <3>2
      <4>3. line' \in Lines /\ Len(line') = Len(line) - 1
        BY <4>1, <4>2, WithoutLine DEF TypeOK
      <4>4. QED
        BY <1>0, <4>1, <4>2, <4>3
    <3>3. QED
      BY <3>1, <3>2
  <2>2. QED
    BY <1>3, <2>1 DEF Backspace, ring, TypeOK
<1>4. CASE Delete
  <2>1. line' \in Lines /\ cursor' \in 0 .. Len(line')
    <3>1. CASE cursor >= Len(line)
      BY <1>0, <1>4, <3>1 DEF Delete, Redrawn
    <3>2. CASE ~(cursor >= Len(line))
      <4>1. line' = Without(cursor) /\ cursor' = cursor
        BY <1>4, <3>2 DEF Delete, Redrawn
      <4>2. cursor \in 0 .. Len(line) - 1
        BY <1>0, <3>2
      <4>3. line' \in Lines /\ Len(line') = Len(line) - 1
        BY <4>1, <4>2, WithoutLine DEF TypeOK
      <4>4. QED
        BY <1>0, <4>1, <4>2, <4>3
    <3>3. QED
      BY <3>1, <3>2
  <2>2. QED
    BY <1>4, <2>1 DEF Delete, ring, TypeOK
<1>5. CASE Left \/ Home
  BY <1>0, <1>5 DEF Left, Home, Leftwards, ring, TypeOK
<1>6. CASE Right \/ End
  BY <1>0, <1>6 DEF Right, End, Rightwards, ring, TypeOK
<1>7. CASE Up
  <2>1. saved' \in Lines /\ UNCHANGED ring
    BY <1>0, <1>7 DEF Up, TypeOK
  <2>2. CASE hist_pos < history_count
    <3>1. hist_pos + 1 \in 1 .. history_count
      BY <1>0, <2>2
    <3>2. line' = history_get(hist_pos + 1) /\ cursor' = Len(line') /\ hist_pos' = hist_pos + 1
      BY <1>7, <2>2 DEF Up, Redrawn
    <3>3. line' \in Lines /\ Len(line') \in Nat
      BY <3>1, <3>2, SlotType DEF Lines
    <3>4. QED
      BY <2>1, <3>1, <3>2, <3>3 DEF ring, TypeOK
  <2>3. CASE ~(hist_pos < history_count)
    BY <1>7, <2>1, <2>3 DEF Up, Redrawn, ring, TypeOK
  <2>4. QED
    BY <2>2, <2>3
<1>8. CASE Down
  <2>1. hist_pos > 0 /\ hist_pos' = hist_pos - 1 /\ UNCHANGED <<saved, ring>> /\ cursor' = Len(line')
        /\ line' = IF hist_pos = 1 THEN saved ELSE history_get(hist_pos - 1)
    BY <1>8 DEF Down, Redrawn
  <2>2. hist_pos # 1 => hist_pos - 1 \in 1 .. history_count
    BY <1>0, <2>1 DEF TypeOK
  <2>3. line' \in Lines /\ Len(line') \in Nat
    BY <2>1, <2>2, SlotType DEF TypeOK, Lines
  <2>4. QED
    BY <1>0, <2>1, <2>3 DEF ring, TypeOK
<1>9. CASE UNCHANGED vars
  BY <1>9 DEF vars, typed, ring, TypeOK
<1>10. QED
  BY <1>1, <1>2, <1>3, <1>4, <1>5, <1>6, <1>7, <1>8, <1>9 DEF Next

\* Lines and commands fit their buffers, the cursor stays within its line, and what is
\* recalled is in the ring, for buffers and rings of any size (prompt.h:115,
\* kernel64.cpp:1484).
THEOREM PromptTypeOK == Spec => []TypeOK
  BY PromptInit, PromptTypeStep, PTL DEF Spec

-----------------------------------------------------------------------------
(***************************************************************************)
(* The ring implements the recall of past commands.                        *)
(***************************************************************************)
LEMMA PastType ==
  ASSUME TypeOK
  PROVE  /\ Past \in Seq(Lines) /\ Len(Past) = history_count
         /\ \A i \in 1 .. history_count : Past[i] = history_get(i)
<1>1. history_count \in Nat
  BY PromptAssumption DEF TypeOK
<1>2. \A i \in 1 .. history_count : history_get(i) \in Lines
  BY SlotType
<1>3. QED
  BY <1>1, <1>2 DEF Past

LEMMA RecallInit == Init => Recall!Init
<1> SUFFICES ASSUME Init PROVE Recall!Init
  OBVIOUS
<1>1. Past = <<>>
  BY DEF Init, Past
<1>2. QED
  BY <1>1 DEF Init, Recall!Init

\* A ring that does not change holds the same commands.
LEMMA SamePast == ASSUME UNCHANGED ring PROVE Past' = Past
  BY DEF ring, Past, history_get

\* history_add puts a command in front of those kept.
LEMMA AddRemembers ==
  ASSUME TypeOK, NEW cmd \in Lines, history_add(cmd)
  PROVE  Past' = Recall!Remember(cmd)
<1>0. /\ history_head \in Slots /\ history_count \in 0 .. HistorySize
      /\ history \in [Slots -> Lines] /\ HistorySize \in Nat \ {0}
  BY PromptAssumption DEF TypeOK, Slots
<1> DEFINE kept == cmd = <<>> \/ (history_count > 0 /\ history[last] = cmd)
<1>1. kept <=> cmd = <<>> \/ (Past # <<>> /\ Past[1] = cmd)
  <2>1. history_count > 0 <=> Past # <<>>
    BY <1>0, PastType
  <2>2. history_count > 0 => Past[1] = history[last]
    BY <1>0, PastType, SlotType, LastSlot
  <2>3. QED
    BY <2>1, <2>2
<1>2. CASE kept
  BY <1>1, <1>2, SamePast DEF history_add, Recall!Remember
<1>3. CASE ~kept
  <2>1. /\ history' = [history EXCEPT ![history_head] = cmd]
        /\ history_head' = (history_head + 1) % HistorySize
        /\ history_count' = IF history_count < HistorySize THEN history_count + 1
                            ELSE history_count
    BY <1>3 DEF history_add
  <2>2. history_head' = IF history_head = HistorySize - 1 THEN 0 ELSE history_head + 1
    BY <1>0, <2>1, NextHead
  <2>3. history_head' \in Slots
    BY <1>0, <2>2 DEF Slots
  <2>4. history_count' = Recall!Shorter(Len(Past) + 1, HistorySize)
    BY <1>0, <2>1, PastType DEF Recall!Shorter
  <2>5. ASSUME NEW i \in 1 .. history_count'
        PROVE  history_get(i)' = IF i = 1 THEN cmd ELSE Past[i - 1]
    <3>1. i \in 1 .. HistorySize /\ i \in Nat
      BY <1>0, <2>1
    <3> DEFINE t == (history_head' - i + HistorySize * 2) % HistorySize
    <3>2. history_get(i)' = history'[t]
      BY DEF history_get
    <3>3. t = IF i <= history_head' THEN history_head' - i ELSE history_head' - i + HistorySize
      BY <2>3, <3>1, SlotOf
    <3> HIDE DEF t
    <3>4. CASE i = 1
      <4>1. t = history_head
        BY <1>0, <2>2, <3>3, <3>4 DEF Slots
      <4>2. QED
        BY <1>0, <2>1, <3>2, <3>4, <4>1
    <3>5. CASE i # 1
      <4>1. i - 1 \in 1 .. HistorySize /\ i - 1 \in 1 .. history_count
        BY <1>0, <2>1, <3>1, <3>5
      <4>2. Slot(i - 1) = IF i - 1 <= history_head THEN history_head - (i - 1)
                          ELSE history_head - (i - 1) + HistorySize
        BY <1>0, <4>1, SlotOf DEF Slot
      <4>3. t = Slot(i - 1) /\ t # history_head /\ t \in Slots
        BY <1>0, <2>2, <3>1, <3>3, <3>5, <4>1, <4>2 DEF Slots
      <4>4. history'[t] = history[t]
        BY <1>0, <2>1, <4>3
      <4>5. Past[i - 1] = history[Slot(i - 1)]
        BY <4>1, PastType, SlotType
      <4>6. QED
        BY <3>2, <3>5, <4>3, <4>4, <4>5
    <3>6. QED
      BY <3>4, <3>5
  <2>6. Past' = [i \in 1 .. history_count' |-> history_get(i)']
    BY DEF Past
  <2>7. Past' = [i \in 1 .. history_count' |-> IF i = 1 THEN cmd ELSE Past[i - 1]]
    BY <2>5, <2>6
  <2>8. QED
    BY <1>1, <1>3, <2>4, <2>7 DEF Recall!Remember
<1>4. QED
  BY <1>2, <1>3

LEMMA RecallStep == ASSUME TypeOK, TypeOK', [Next]_vars PROVE [Recall!Next]_(Recall!vars)
<1> DEFINE draft == IF hist_pos = 0 THEN <<>> ELSE saved
<1>0. /\ line \in Lines /\ line' \in Lines /\ saved \in Lines
      /\ hist_pos \in 0 .. history_count /\ history_count \in Nat
  BY PromptAssumption DEF TypeOK
<1>1. CASE Enter
  <2>1. Past' = Recall!Remember(line)
    BY <1>0, <1>1, AddRemembers DEF Enter
  <2>2. Recall!Submit
    BY <1>1, <2>1 DEF Enter, Recall!Submit
  <2>3. QED
    BY <2>2 DEF Recall!Next
<1>2. ASSUME UNCHANGED <<saved, hist_pos, ring>> PROVE [Recall!Next]_(Recall!vars)
  <2>1. Past' = Past
    BY <1>2, SamePast DEF ring
  <2>2. Recall!Type
    BY <1>0, <1>2, <2>1 DEF Recall!Type
  <2>3. QED
    BY <2>2 DEF Recall!Next
<1>3. CASE (\E c \in Chars : Insert(c)) \/ Backspace \/ Delete
  BY <1>2, <1>3 DEF Insert, Backspace, Delete
<1>4. CASE Left \/ Right \/ Home \/ End
  BY <1>2, <1>4 DEF Left, Right, Home, End, Leftwards, Rightwards
<1>5. CASE Up
  <2>1. Past' = Past
    BY <1>5, SamePast DEF Up
  <2>2. CASE hist_pos < history_count
    <3>1. hist_pos + 1 \in 1 .. history_count /\ hist_pos + 1 # 0
      BY <1>0, <2>2
    <3>2. hist_pos < Len(Past) /\ Past[hist_pos + 1] = history_get(hist_pos + 1)
      BY <2>2, <3>1, PastType
    <3>3. /\ line' = history_get(hist_pos + 1) /\ hist_pos' = hist_pos + 1
          /\ saved' = IF hist_pos = 0 THEN line ELSE saved
      BY <1>5, <2>2 DEF Up, Redrawn
    <3>4. draft' = IF hist_pos = 0 THEN line ELSE draft
      BY <3>1, <3>3
    <3>5. Recall!Older
      BY <2>1, <3>2, <3>3, <3>4 DEF Recall!Older
    <3>6. QED
      BY <3>5 DEF Recall!Next
  <2>3. CASE ~(hist_pos < history_count)
    <3>1. line' = line /\ hist_pos' = hist_pos /\ draft' = draft
      BY <1>5, <2>3 DEF Up, Redrawn
    <3>2. UNCHANGED Recall!vars
      BY <2>1, <3>1 DEF Recall!vars
    <3>3. QED
      BY <3>2
  <2>4. QED
    BY <2>2, <2>3
<1>6. CASE Down
  <2>1. Past' = Past
    BY <1>6, SamePast DEF Down, ring
  <2>2. /\ hist_pos > 0 /\ hist_pos' = hist_pos - 1 /\ saved' = saved
        /\ line' = IF hist_pos = 1 THEN saved ELSE history_get(hist_pos - 1)
    BY <1>6 DEF Down, Redrawn
  <2>3. draft' = (IF hist_pos = 1 THEN <<>> ELSE draft) /\ draft = saved
    BY <1>0, <2>2
  <2>4. hist_pos # 1 => Past[hist_pos - 1] = history_get(hist_pos - 1)
    BY <1>0, <2>2, PastType
  <2>5. Recall!Newer
    BY <2>1, <2>2, <2>3, <2>4 DEF Recall!Newer
  <2>6. QED
    BY <2>5 DEF Recall!Next
<1>7. CASE UNCHANGED vars
  <2>1. Past' = Past
    BY <1>7, SamePast DEF vars
  <2>2. QED
    BY <1>7, <2>1 DEF vars, typed, Recall!vars
<1>8. QED
  BY <1>1, <1>3, <1>4, <1>5, <1>6, <1>7 DEF Next

\* UP and DOWN recall the last commands in order, and the line being typed after the
\* newest, for a ring of any size (ImplementsRecall, kernel64.cpp:1468-1487).
THEOREM PromptImplementsRecall == Spec => ImplementsRecall
  BY PromptInit, PromptTypeStep, RecallInit, RecallStep, PTL DEF Spec, ImplementsRecall, Recall!Spec

-----------------------------------------------------------------------------
(***************************************************************************)
(* The row, character after character.                                     *)
(***************************************************************************)
AreDrawn(s, text, at, n) ==
  at = [k \in 0 .. n |-> IF k = 0 THEN s ELSE putchar(at[k - 1], text[k])]

LEMMA DrawnExist ==
  ASSUME NEW s, NEW text, NEW l \in Nat
  PROVE  \E at : AreDrawn(s, text, at, l)
<1> DEFINE Is(at, n) == AreDrawn(s, text, at, n)
           Exists    == {n \in Nat : \E at : Is(at, n)}
<1> USE DEF AreDrawn
<1>1. 0 \in Exists
  <2>1. Is([k \in 0 .. 0 |-> s], 0)
    OBVIOUS
  <2> HIDE DEF Is
  <2>2. QED
    BY <2>1
<1>2. ASSUME NEW n \in Nat, n \in Exists PROVE n + 1 \in Exists
  <2>1. PICK at : Is(at, n)
    BY <1>2
  <2> DEFINE next == [k \in 0 .. n + 1 |-> IF k = n + 1 THEN putchar(at[n], text[n + 1])
                                           ELSE at[k]]
  <2>2. next = [k \in 0 .. n + 1 |-> IF k = 0 THEN s ELSE putchar(next[k - 1], text[k])]
    <3>1. at = [k \in 0 .. n |-> IF k = 0 THEN s ELSE putchar(at[k - 1], text[k])]
      BY <2>1
    <3>2. ASSUME NEW k \in 0 .. n + 1
          PROVE  next[k] = IF k = 0 THEN s ELSE putchar(next[k - 1], text[k])
      <4>1. CASE k = n + 1
        BY <4>1, k # 0, k - 1 = n, n \in 0 .. n + 1, next[n] = at[n]
      <4>2. CASE k = 0
        BY <3>1, <4>2, 0 # n + 1
      <4>3. CASE k # 0 /\ k # n + 1
        <5>1. k \in 1 .. n /\ k - 1 \in 0 .. n /\ k - 1 # n + 1
          BY <4>3
        <5>2. next[k] = at[k] /\ next[k - 1] = at[k - 1]
          BY <4>3, <5>1
        <5>3. at[k] = putchar(at[k - 1], text[k])
          BY <3>1, <5>1
        <5>4. QED
          BY <4>3, <5>2, <5>3
      <4>4. QED
        BY <4>1, <4>2, <4>3
    <3>3. QED
      <4>1. next = [k \in 0 .. n + 1 |-> next[k]]
        OBVIOUS
      <4> HIDE DEF next
      <4>2. QED
        BY <3>2, <4>1
  <2> HIDE DEF next
  <2>3. Is(next, n + 1)
    BY <2>2
  <2> HIDE DEF Is
  <2>4. QED
    BY <2>3
<1>3. l \in Exists
  <2> HIDE DEF Exists
  <2>1. QED
    BY <1>1, <1>2, SetInduction
<1>4. QED
  <2> HIDE DEF AreDrawn
  <2>1. QED
    BY <1>3

Symbols == STRING \cup {Blank, "\r", Back}

Texts == Seq(Symbols)

LEMMA DrawnAre ==
  ASSUME NEW s, NEW text \in Texts
  PROVE  /\ Drawn(s, text)[0] = s
         /\ \A k \in 1 .. Len(text) :
              Drawn(s, text)[k] = putchar(Drawn(s, text)[k - 1], text[k])
<1>1. Len(text) \in Nat
  BY DEF Texts
<1>2. \E at : AreDrawn(s, text, at, Len(text))
  BY <1>1, DrawnExist
<1>3. AreDrawn(s, text, Drawn(s, text), Len(text))
  BY <1>2, Zenon DEF Drawn, AreDrawn
<1> DEFINE at == Drawn(s, text)
<1>4. at = [k \in 0 .. Len(text) |-> IF k = 0 THEN s ELSE putchar(at[k - 1], text[k])]
  BY <1>3 DEF AreDrawn
<1> HIDE DEF at
<1>5. at[0] = s /\ \A k \in 1 .. Len(text) : at[k] = putchar(at[k - 1], text[k])
  BY <1>1, <1>4
<1>6. QED
  BY <1>5 DEF at

\* Writing two texts is writing one after the other.
LEMMA PrintedTwice ==
  ASSUME NEW s, NEW a \in Texts, NEW b \in Texts
  PROVE  Printed(s, a \o b) = Printed(Printed(s, a), b)
<1> DEFINE r == Printed(s, a)
           A == Drawn(s, a)
           B == Drawn(r, b)
           C == Drawn(s, a \o b)
<1>1. /\ a \o b \in Texts /\ Len(a) \in Nat /\ Len(b) \in Nat /\ Len(a \o b) = Len(a) + Len(b)
      /\ \A i \in 1 .. Len(a) + Len(b) : (a \o b)[i] = IF i <= Len(a) THEN a[i] ELSE b[i - Len(a)]
  BY ConcatProperties DEF Texts
<1>2. A[0] = s /\ \A k \in 1 .. Len(a) : A[k] = putchar(A[k - 1], a[k])
  BY DrawnAre
<1>3. B[0] = r /\ \A k \in 1 .. Len(b) : B[k] = putchar(B[k - 1], b[k])
  BY DrawnAre
<1>4. C[0] = s /\ \A k \in 1 .. Len(a) + Len(b) : C[k] = putchar(C[k - 1], (a \o b)[k])
  <2> DEFINE ab == a \o b
  <2>1. ab \in Texts /\ Len(ab) = Len(a) + Len(b)
    BY <1>1
  <2> HIDE DEF ab
  <2>2. /\ Drawn(s, ab)[0] = s
        /\ \A k \in 1 .. Len(ab) : Drawn(s, ab)[k] = putchar(Drawn(s, ab)[k - 1], ab[k])
    BY <2>1, DrawnAre
  <2>3. /\ Drawn(s, ab)[0] = s
        /\ \A k \in 1 .. Len(a) + Len(b) : Drawn(s, ab)[k] = putchar(Drawn(s, ab)[k - 1], ab[k])
    BY <2>1, <2>2
  <2>4. QED
    BY <2>3 DEF ab
<1>5. r = A[Len(a)] /\ Printed(s, a \o b) = C[Len(a) + Len(b)] /\ Printed(r, b) = B[Len(b)]
  BY <1>1 DEF Printed
<1> HIDE DEF A, B, C, r
<1> DEFINE First  == {k \in Nat : k <= Len(a) => C[k] = A[k]}
           Second == {k \in Nat : k <= Len(b) => C[Len(a) + k] = B[k]}
<1>6. Len(a) \in First
  <2>1. 0 \in First
    BY <1>2, <1>4
  <2>2. ASSUME NEW k \in Nat, k \in First PROVE k + 1 \in First
    <3>1. SUFFICES ASSUME k + 1 <= Len(a) PROVE C[k + 1] = A[k + 1]
      OBVIOUS
    <3>2. k + 1 \in 1 .. Len(a) /\ k + 1 \in 1 .. Len(a) + Len(b) /\ (k + 1) - 1 = k /\ k <= Len(a)
      BY <1>1, <3>1
    <3>3. C[k] = A[k] /\ (a \o b)[k + 1] = a[k + 1]
      BY <1>1, <2>2, <3>1, <3>2
    <3>4. QED
      BY <1>2, <1>4, <3>2, <3>3
  <2> HIDE DEF First
  <2>3. QED
    BY <1>1, <2>1, <2>2, SetInduction
<1>7. Len(b) \in Second
  <2>1. 0 \in Second
    BY <1>1, <1>3, <1>5, <1>6
  <2>2. ASSUME NEW k \in Nat, k \in Second PROVE k + 1 \in Second
    <3>1. SUFFICES ASSUME k + 1 <= Len(b) PROVE C[Len(a) + (k + 1)] = B[k + 1]
      OBVIOUS
    <3> DEFINE j == Len(a) + (k + 1)
    <3>2. /\ k + 1 \in 1 .. Len(b) /\ j \in 1 .. Len(a) + Len(b) /\ (k + 1) - 1 = k /\ k <= Len(b)
          /\ j - 1 = Len(a) + k /\ ~(j <= Len(a)) /\ j - Len(a) = k + 1
      BY <1>1, <3>1
    <3>3. C[Len(a) + k] = B[k] /\ (a \o b)[j] = b[k + 1]
      BY <1>1, <2>2, <3>2
    <3>4. QED
      BY <1>3, <1>4, <3>2, <3>3
  <2> HIDE DEF Second
  <2>3. QED
    BY <1>1, <2>1, <2>2, SetInduction
<1>8. QED
  BY <1>1, <1>5, <1>7 DEF r

-----------------------------------------------------------------------------
(***************************************************************************)
(* What is on the row.                                                     *)
(***************************************************************************)
Cells == 0 .. Width - 1

Rows == [cells : [Cells -> Symbols], col : Cells]

LEMMA PutKeepsRow == ASSUME NEW s \in Rows, NEW c \in Symbols PROVE putchar(s, c) \in Rows
<1>0. Blank \in Symbols
  BY DEF Symbols
<1>1. 0 \in Cells
  BY PromptAssumption DEF Cells
<1>2. s.col # 0 => s.col - 1 \in Cells
  BY PromptAssumption DEF Rows, Cells
<1>3. ~(s.col + 1 >= Width) => s.col + 1 \in Cells
  BY PromptAssumption DEF Rows, Cells
<1> HIDE DEF Cells
<1>4. QED
  BY <1>0, <1>1, <1>2, <1>3 DEF Rows, putchar

LEMMA PrintedRow == ASSUME NEW s \in Rows, NEW text \in Texts PROVE Printed(s, text) \in Rows
<1> DEFINE D == Drawn(s, text)
           Good == {k \in Nat : k <= Len(text) => D[k] \in Rows}
<1>1. D[0] = s /\ \A k \in 1 .. Len(text) : D[k] = putchar(D[k - 1], text[k])
  BY DrawnAre
<1>2. Len(text) \in Nat /\ Printed(s, text) = D[Len(text)]
      /\ \A k \in 1 .. Len(text) : text[k] \in Symbols
  BY DEF Printed, Texts
<1> HIDE DEF D
<1>3. 0 \in Good
  BY <1>1
<1>4. ASSUME NEW k \in Nat, k \in Good PROVE k + 1 \in Good
  <2>1. SUFFICES ASSUME k + 1 <= Len(text) PROVE D[k + 1] \in Rows
    OBVIOUS
  <2>2. k + 1 \in 1 .. Len(text) /\ (k + 1) - 1 = k /\ k <= Len(text)
    BY <1>2, <2>1
  <2>3. D[k] \in Rows /\ text[k + 1] \in Symbols
    BY <1>2, <1>4, <2>2
  <2>4. D[k + 1] = putchar(D[k], text[k + 1])
    BY <1>1, <2>2
  <2>5. QED
    BY <2>3, <2>4, PutKeepsRow
<1>5. Len(text) \in Good
  <2> HIDE DEF Good
  <2>1. QED
    BY <1>2, <1>3, <1>4, SetInduction
<1>6. QED
  BY <1>2, <1>5

\* The row shows the text from a column on, and nothing after it.
Shows(s, from, text) ==
  /\ s.col = from + Len(text)
  /\ \A i \in 1 .. Len(text) : s.cells[from + i - 1] = text[i]
  /\ \A i \in s.col .. Width - 1 : s.cells[i] = Blank

\* Characters that are written where there is room for them.
LEMMA PlainShows ==
  ASSUME NEW s \in Rows, NEW from \in Nat, NEW t \in Seq(Plain), NEW u \in Seq(Plain),
         Shows(s, from, t), from + Len(t) + Len(u) < Width
  PROVE  Shows(Printed(s, u), from, t \o u)
<1> DEFINE D == Drawn(s, u)
           a == from + Len(t)
           At(r, k) == /\ r \in Rows /\ r.col = a + k
                       /\ \A i \in Cells : r.cells[i] = IF i \in a .. a + k - 1 THEN u[i - a + 1]
                                                       ELSE s.cells[i]
           Good == {k \in Nat : k <= Len(u) => At(D[k], k)}
<1>0. Len(t) \in Nat /\ Len(u) \in Nat /\ a \in Nat /\ s.col = a /\ a + Len(u) < Width
  BY DEF Shows
<1>1. u \in Texts /\ \A k \in 1 .. Len(u) : u[k] \in Symbols /\ u[k] # "\r" /\ u[k] # Back
  BY DEF Texts, Symbols, Plain
<1>2. D[0] = s /\ \A k \in 1 .. Len(u) : D[k] = putchar(D[k - 1], u[k])
  BY <1>1, DrawnAre
<1>3. Printed(s, u) = D[Len(u)]
  BY DEF Printed
<1> HIDE DEF D, a
<1>4. 0 \in Good
  BY <1>0, <1>2
<1>5. ASSUME NEW k \in Nat, k \in Good PROVE k + 1 \in Good
  <2>1. SUFFICES ASSUME k + 1 <= Len(u) PROVE At(D[k + 1], k + 1)
    OBVIOUS
  <2>2. k + 1 \in 1 .. Len(u) /\ (k + 1) - 1 = k /\ k <= Len(u)
    BY <1>0, <2>1
  <2> DEFINE r == D[k]
             c == u[k + 1]
  <2>3. At(r, k) /\ c \in Symbols /\ c # "\r" /\ c # Back /\ D[k + 1] = putchar(r, c)
    BY <1>1, <1>2, <1>5, <2>2
  <2>4. putchar(r, c) \in Rows
    BY <2>3, PutKeepsRow
  <2> HIDE DEF r, c
  <2>5. putchar(r, c) = [cells |-> [r.cells EXCEPT ![a + k] = c], col |-> a + k + 1]
    BY <1>0, <2>1, <2>3, PromptAssumption DEF putchar
  <2>6. a + k \in Cells /\ r.cells \in [Cells -> Symbols]
    BY <1>0, <2>1, <2>3 DEF Cells, Rows
  <2>7. ASSUME NEW i \in Cells
        PROVE  [r.cells EXCEPT ![a + k] = c][i]
                 = IF i \in a .. a + (k + 1) - 1 THEN u[i - a + 1] ELSE s.cells[i]
    <3>1. i \in Int
      BY PromptAssumption DEF Cells
    <3>2. CASE i = a + k
      BY <1>0, <2>6, <3>2 DEF c
    <3>3. CASE i # a + k
      <4>1. [r.cells EXCEPT ![a + k] = c][i] = r.cells[i]
        BY <2>6, <3>3
      <4>2. i \in a .. a + (k + 1) - 1 <=> i \in a .. a + k - 1
        BY <1>0, <3>1, <3>3
      <4>3. QED
        BY <2>3, <4>1, <4>2
    <3>4. QED
      BY <3>2, <3>3
  <2>8. QED
    BY <1>0, <2>3, <2>4, <2>5, <2>7
<1>6. At(D[Len(u)], Len(u))
  <2>1. Len(u) \in Good
    <3> HIDE DEF Good
    <3>1. QED
      BY <1>0, <1>4, <1>5, SetInduction
  <2>2. QED
    BY <1>0, <2>1
<1> DEFINE r == D[Len(u)]
           v == t \o u
<1>7. /\ Len(v) = Len(t) + Len(u)
      /\ \A i \in 1 .. Len(t) + Len(u) : v[i] = IF i <= Len(t) THEN t[i] ELSE u[i - Len(t)]
  BY ConcatProperties
<1> HIDE DEF r, v
<1>8. r.col = from + Len(v)
  BY <1>0, <1>6, <1>7 DEF r, a
<1>9. ASSUME NEW i \in 1 .. Len(v) PROVE r.cells[from + i - 1] = v[i]
  <2>1. from + i - 1 \in Cells /\ i \in 1 .. Len(t) + Len(u) /\ i \in Nat
    BY <1>0, <1>7, PromptAssumption DEF a, Cells
  <2>2. CASE i <= Len(t)
    <3>1. ~(from + i - 1 \in a .. a + Len(u) - 1) /\ i \in 1 .. Len(t)
      BY <1>0, <2>1, <2>2 DEF a
    <3>2. s.cells[from + i - 1] = t[i]
      BY <3>1 DEF Shows
    <3> DEFINE j == from + i - 1
    <3>3. r.cells[j] = IF j \in a .. a + Len(u) - 1 THEN u[j - a + 1] ELSE s.cells[j]
      <4>1. j \in Cells
        BY <2>1
      <4> HIDE DEF j
      <4>2. QED
        BY <1>6, <4>1 DEF r
    <3>4. QED
      BY <1>7, <2>1, <2>2, <3>1, <3>2, <3>3
  <2>3. CASE ~(i <= Len(t))
    <3>1. from + i - 1 \in a .. a + Len(u) - 1 /\ from + i - 1 - a + 1 = i - Len(t)
      BY <1>0, <2>1, <2>3 DEF a
    <3> DEFINE j == from + i - 1
    <3>2. r.cells[j] = IF j \in a .. a + Len(u) - 1 THEN u[j - a + 1] ELSE s.cells[j]
      <4>1. j \in Cells
        BY <2>1
      <4> HIDE DEF j
      <4>2. QED
        BY <1>6, <4>1 DEF r
    <3>3. j - a + 1 = i - Len(t)
      BY <1>0, <2>1 DEF a
    <3>7. v[i] = u[i - Len(t)]
      <4> HIDE DEF j
      <4>1. QED
        BY <1>7, <2>1, <2>3
    <3>4. r.cells[j] = u[j - a + 1]
      BY <3>1, <3>2
    <3> HIDE DEF j
    <3>5. r.cells[j] = v[i]
      BY <3>3, <3>4, <3>7
    <3>6. QED
      BY <3>5 DEF j
  <2>4. QED
    BY <2>2, <2>3
<1>10. ASSUME NEW i \in r.col .. Width - 1 PROVE r.cells[i] = Blank
  <2>1. r.col = a + Len(u)
    BY <1>6 DEF r
  <2>2. i \in Cells /\ ~(i \in a .. a + Len(u) - 1) /\ i \in a .. Width - 1
    BY <1>0, <2>1, PromptAssumption DEF Cells
  <2>3. s.cells[i] = Blank
    BY <1>0, <2>2 DEF Shows
  <2>4. QED
    BY <1>6, <2>2, <2>3 DEF r
<1>11. QED
  BY <1>3, <1>8, <1>9, <1>10 DEF Shows, r, v

\* Erasing as many characters as the end of the text has.
LEMMA BacksShow ==
  ASSUME NEW s \in Rows, NEW from \in Nat, NEW t \in Seq(Plain), NEW u \in Seq(Plain),
         Shows(s, from, t \o u)
  PROVE  Shows(Printed(s, Times(Len(u), Back)), from, t)
<1> DEFINE b == Times(Len(u), Back)
           v == t \o u
           D == Drawn(s, b)
           e == from + Len(t) + Len(u)
           At(r, k) == /\ r \in Rows /\ r.col = e - k
                       /\ \A i \in Cells : r.cells[i] = IF i \in e - k .. e - 1 THEN Blank
                                                       ELSE s.cells[i]
           Good == {k \in Nat : k <= Len(u) => At(D[k], k)}
<1>0. Len(t) \in Nat /\ Len(u) \in Nat /\ e \in Nat
  OBVIOUS
<1>1. /\ Len(v) = Len(t) + Len(u)
      /\ \A i \in 1 .. Len(t) + Len(u) : v[i] = IF i <= Len(t) THEN t[i] ELSE u[i - Len(t)]
  BY ConcatProperties
<1>2. b \in Texts /\ Len(b) = Len(u) /\ \A k \in 1 .. Len(u) : b[k] = Back
  BY <1>0 DEF Times, Texts, Symbols
<1> HIDE DEF v, b
<1>3. s.col = e /\ e \in Cells
  BY <1>1 DEF Shows, v, Rows
<1>4. D[0] = s /\ \A k \in 1 .. Len(u) : D[k] = putchar(D[k - 1], Back)
  BY <1>2, DrawnAre
<1>5. Printed(s, b) = D[Len(u)]
  BY <1>2 DEF Printed
<1> HIDE DEF D, e
<1>6. 0 \in Good
  BY <1>0, <1>3, <1>4
<1>7. ASSUME NEW k \in Nat, k \in Good PROVE k + 1 \in Good
  <2>1. SUFFICES ASSUME k + 1 <= Len(u) PROVE At(D[k + 1], k + 1)
    OBVIOUS
  <2>2. k + 1 \in 1 .. Len(u) /\ (k + 1) - 1 = k /\ k <= Len(u)
    BY <1>0, <2>1
  <2> DEFINE r == D[k]
  <2>3. At(r, k) /\ D[k + 1] = putchar(r, Back)
    BY <1>4, <1>7, <2>2
  <2>4. putchar(r, Back) \in Rows
    BY <2>3, PutKeepsRow DEF Symbols
  <2> HIDE DEF r
  <2>5. e - k > 0 /\ e - k - 1 \in Cells
    BY <1>0, <1>3, <2>1, PromptAssumption DEF Cells, e
  <2>6. putchar(r, Back) = [cells |-> [r.cells EXCEPT ![e - k - 1] = Blank], col |-> e - k - 1]
    BY <2>3, <2>5 DEF putchar, Back
  <2>7. r.cells \in [Cells -> Symbols]
    BY <2>3 DEF Rows
  <2>8. ASSUME NEW i \in Cells
        PROVE  [r.cells EXCEPT ![e - k - 1] = Blank][i]
                 = IF i \in e - (k + 1) .. e - 1 THEN Blank ELSE s.cells[i]
    <3>1. i \in Int
      BY PromptAssumption DEF Cells
    <3>2. CASE i = e - k - 1
      BY <1>0, <2>5, <2>7, <3>2
    <3>3. CASE i # e - k - 1
      <4>1. [r.cells EXCEPT ![e - k - 1] = Blank][i] = r.cells[i]
        BY <2>7, <3>3
      <4>2. i \in e - (k + 1) .. e - 1 <=> i \in e - k .. e - 1
        BY <1>0, <3>1, <3>3
      <4>3. QED
        BY <2>3, <4>1, <4>2
    <3>4. QED
      BY <3>2, <3>3
  <2>9. e - k - 1 = e - (k + 1)
    BY <1>0
  <2>10. QED
    BY <2>3, <2>4, <2>6, <2>8, <2>9
<1>8. At(D[Len(u)], Len(u))
  <2>1. Len(u) \in Good
    <3> HIDE DEF Good
    <3>1. QED
      BY <1>0, <1>6, <1>7, SetInduction
  <2>2. QED
    BY <1>0, <2>1
<1> DEFINE r == D[Len(u)]
<1> HIDE DEF r
<1>9. r.col = from + Len(t) /\ e - Len(u) = from + Len(t)
  BY <1>0, <1>8 DEF r, e
<1>10. ASSUME NEW i \in 1 .. Len(t) PROVE r.cells[from + i - 1] = t[i]
  <2> DEFINE j == from + i - 1
  <2>1. /\ j \in Cells /\ ~(j \in e - Len(u) .. e - 1) /\ i \in 1 .. Len(v)
        /\ i \in 1 .. Len(t) + Len(u) /\ i <= Len(t)
    BY <1>0, <1>1, <1>3, PromptAssumption DEF Cells, e
  <2>2. s.cells[j] = v[i]
    BY <2>1 DEF Shows, v
  <2> HIDE DEF j
  <2>3. r.cells[j] = s.cells[j]
    BY <1>8, <2>1 DEF r
  <2>4. v[i] = t[i]
    BY <1>1, <2>1
  <2>5. r.cells[j] = t[i]
    BY <2>2, <2>3, <2>4
  <2>6. QED
    BY <2>5 DEF j
<1>11. ASSUME NEW i \in r.col .. Width - 1 PROVE r.cells[i] = Blank
  <2>1. i \in Cells /\ i \in Int
    BY <1>0, <1>9, PromptAssumption DEF Cells
  <2>2. CASE i < e
    <3>1. i \in e - Len(u) .. e - 1
      BY <1>0, <1>9, <2>1, <2>2
    <3>2. QED
      BY <1>8, <2>1, <3>1 DEF r
  <2>3. CASE ~(i < e)
    <3>1. i \in s.col .. Width - 1 /\ ~(i \in e - Len(u) .. e - 1)
      BY <1>0, <1>3, <2>1, <2>3, PromptAssumption DEF Cells
    <3>2. s.cells[i] = Blank
      BY <3>1 DEF Shows
    <3>3. QED
      BY <1>8, <2>1, <3>1, <3>2 DEF r
  <2>4. QED
    BY <2>2, <2>3
<1>12. QED
  BY <1>5, <1>9, <1>10, <1>11 DEF Shows, r, b

\* A row that is written over with blanks, from wherever the column is.
LEMMA BlanksShow ==
  ASSUME NEW s \in Rows
  PROVE  Shows(Printed(s, Times(Width, Blank) \o <<"\r">>), 0, <<>>)
<1> DEFINE b == Times(Width, Blank)
           D == Drawn(s, b)
           a == s.col
           Done(i, k) == i \in a .. a + k - 1 \/ i < a + k - Width
           At(r, k) == /\ r \in Rows
                       /\ r.col = IF a + k < Width THEN a + k ELSE a + k - Width
                       /\ \A i \in Cells : Done(i, k) => r.cells[i] = Blank
           Good == {k \in Nat : k <= Width => At(D[k], k)}
<1>0. Width \in Nat \ {0} /\ a \in Cells /\ a \in Nat /\ a < Width
  BY PromptAssumption DEF Rows, Cells
<1>1. b \in Texts /\ Len(b) = Width /\ \A k \in 1 .. Width : b[k] = Blank
  BY <1>0 DEF Times, Texts, Symbols
<1> HIDE DEF b
<1>2. D[0] = s /\ \A k \in 1 .. Width : D[k] = putchar(D[k - 1], Blank)
  BY <1>1, DrawnAre
<1>3. Printed(s, b) = D[Width]
  BY <1>1 DEF Printed
<1> HIDE DEF D, a
<1>4. 0 \in Good
  BY <1>0, <1>2 DEF a, Cells
<1>5. ASSUME NEW k \in Nat, k \in Good PROVE k + 1 \in Good
  <2>1. SUFFICES ASSUME k + 1 <= Width PROVE At(D[k + 1], k + 1)
    OBVIOUS
  <2>2. k + 1 \in 1 .. Width /\ (k + 1) - 1 = k /\ k <= Width
    BY <1>0, <2>1
  <2> DEFINE r == D[k]
             c == IF a + k < Width THEN a + k ELSE a + k - Width
  <2>3. At(r, k) /\ D[k + 1] = putchar(r, Blank)
    BY <1>2, <1>5, <2>2
  <2>4. putchar(r, Blank) \in Rows
    BY <2>3, PutKeepsRow DEF Symbols
  <2> HIDE DEF r
  <2>5. r.col = c /\ r.cells \in [Cells -> Symbols]
    BY <2>3 DEF Rows
  <2>6. c \in Cells /\ c \in Nat
    BY <1>0, <2>1 DEF Cells
  <2>7. /\ putchar(r, Blank).cells = [r.cells EXCEPT ![c] = Blank]
        /\ putchar(r, Blank).col = IF c + 1 >= Width THEN 0 ELSE c + 1
    BY <2>5 DEF putchar, Blank, Back
  <2>8. putchar(r, Blank).col = IF a + (k + 1) < Width THEN a + (k + 1) ELSE a + (k + 1) - Width
    BY <1>0, <2>1, <2>7
  <2>9. ASSUME NEW i \in Cells, Done(i, k + 1) PROVE putchar(r, Blank).cells[i] = Blank
    <3>1. i \in Int
      BY <1>0 DEF Cells
    <3>2. CASE i = c
      BY <2>5, <2>6, <2>7, <3>2
    <3>3. CASE i # c
      <4>1. Done(i, k)
        BY <1>0, <1>5, <2>1, <2>9, <3>1, <3>3 DEF Cells
      <4>2. r.cells[i] = Blank
        BY <2>3, <4>1
      <4>3. QED
        BY <2>5, <2>7, <3>3, <4>2
    <3>4. QED
      BY <3>2, <3>3
  <2> HIDE DEF c, Done
  <2>10. QED
    BY <2>3, <2>4, <2>8, <2>9
<1>6. At(D[Width], Width)
  <2>1. Width \in Good
    <3> HIDE DEF Good
    <3>1. QED
      BY <1>0, <1>4, <1>5, SetInduction
  <2> HIDE DEF At
  <2>2. QED
    BY <1>0, <2>1
<1> DEFINE r == D[Width]
<1> HIDE DEF r
<1>7. ASSUME NEW i \in Cells PROVE r.cells[i] = Blank
  <2>1. Done(i, Width)
    BY <1>0 DEF Cells
  <2>2. QED
    BY <1>6, <2>1 DEF r
<1> DEFINE p == Printed(r, <<"\r">>)
<1>8. p.cells = r.cells /\ p.col = 0
  <2>1. <<"\r">> \in Texts /\ Len(<<"\r">>) = 1
    BY DEF Texts, Symbols
  <2>2. Drawn(r, <<"\r">>)[0] = r /\ Drawn(r, <<"\r">>)[1] = putchar(r, "\r")
    BY <2>1, DrawnAre
  <2>3. p = putchar(r, "\r")
    BY <2>1, <2>2 DEF Printed
  <2> HIDE DEF p
  <2>4. QED
    BY <2>3 DEF putchar
<1>9. p = Printed(s, b \o <<"\r">>)
  <2>1. <<"\r">> \in Texts
    BY DEF Texts, Symbols
  <2>2. QED
    BY <1>1, <1>3, <2>1, PrintedTwice DEF r
<1> HIDE DEF p
<1>10. Shows(p, 0, <<>>)
  BY <1>0, <1>7, <1>8 DEF Shows, Cells
<1>11. QED
  BY <1>9, <1>10 DEF b

LEMMA Joined ==
  ASSUME NEW S, NEW x \in Seq(S), NEW y \in Seq(S), NEW z \in Seq(S)
  PROVE  (x \o y) \o z = x \o (y \o z)
  BY ConcatAssociative

\* What comes before a place in a line, and what comes after it up to another.
LEMMA Halves ==
  ASSUME NEW S, NEW l \in Seq(S), NEW j \in 0 .. Len(l), NEW i \in 0 .. j
  PROVE  LET a == SubSeq(l, 1, i)
             b == SubSeq(l, i + 1, j)
         IN  /\ a \o b = SubSeq(l, 1, j) /\ a \in Seq(S) /\ b \in Seq(S)
             /\ Len(a) = i /\ Len(b) = j - i
<1> DEFINE a == SubSeq(l, 1, i)
           b == SubSeq(l, i + 1, j)
<1>1. /\ 1 \in 1 .. Len(l) + 1 /\ i \in 1 - 1 .. Len(l) /\ j \in i .. Len(l)
      /\ 1 \in Int /\ i \in Int /\ i + 1 \in Int /\ j \in Int /\ i >= 0 /\ i <= j
  OBVIOUS
<1>2. a \o b = SubSeq(l, 1, j)
  BY <1>1, ConcatAdjacentSubSeq
<1>3. \A n \in 1 .. Len(l) : l[n] \in S
  BY ElementOfSeq
<1>4. (\A n \in 1 .. i : l[n] \in S) /\ (\A n \in i + 1 .. j : l[n] \in S)
  BY <1>1, <1>3
<1>5. a \in Seq(S) /\ Len(a) = IF 1 <= i THEN i - 1 + 1 ELSE 0
  BY <1>1, <1>4, SubSeqProperties
<1>6. b \in Seq(S) /\ Len(b) = IF i + 1 <= j THEN j - (i + 1) + 1 ELSE 0
  BY <1>1, <1>4, SubSeqProperties
<1> HIDE DEF a, b
<1>7. Len(a) = i
  BY <1>1, <1>5
<1>8. Len(b) = j - i
  BY <1>1, <1>6
<1>9. QED
  BY <1>2, <1>5, <1>6, <1>7, <1>8 DEF a, b

\* The row that redraw leaves, from any row.
LEMMA RedrawShows ==
  ASSUME screen \in Rows, NEW l \in Seq(Plain), NEW k \in 0 .. Len(l)
  PROVE  /\ redraw(l, k) \in Rows
         /\ Len(PromptText) + Len(l) < Width
              => Shows(redraw(l, k), 0, PromptText \o SubSeq(l, 1, k))
<1> DEFINE w == Times(Width, Blank) \o <<"\r">>
           P == PromptText
           b == Times(Len(l) - k, Back)
           u == SubSeq(l, 1, k)
           v == SubSeq(l, k + 1, Len(l))
           s1 == Printed(screen, w)
           s2 == Printed(s1, P)
           s3 == Printed(s2, l)
           s4 == Printed(s3, b)
<1>1. /\ P \in Seq(Plain) /\ P \in Texts /\ l \in Texts /\ Len(P) \in Nat
      /\ Len(l) \in Nat /\ k \in Nat /\ k <= Len(l)
  BY TextsArePlain DEF Texts, Plain, Symbols
<1>2. w \in Texts
  <2>1. Times(Width, Blank) \in Texts /\ <<"\r">> \in Texts
    BY PromptAssumption DEF Times, Texts, Symbols
  <2>2. QED
    BY <2>1, ConcatProperties DEF Texts
<1>3. b \in Texts
  BY <1>1 DEF Times, Texts, Symbols
<1>4. u \o v = l /\ u \in Seq(Plain) /\ v \in Seq(Plain) /\ Len(v) = Len(l) - k /\ Len(u) = k
  <2> DEFINE n == Len(l)
  <2>1. k \in 0 .. n /\ n \in 0 .. Len(l)
    BY <1>1
  <2>2. /\ u \o v = SubSeq(l, 1, n) /\ u \in Seq(Plain) /\ v \in Seq(Plain)
        /\ Len(v) = n - k /\ Len(u) = k
    <3>1. v = SubSeq(l, k + 1, n)
      OBVIOUS
    <3> HIDE DEF n, v
    <3>2. QED
      BY <2>1, <3>1, Halves
  <2>3. SubSeq(l, 1, Len(l)) = l
    BY SubSeqFull
  <2>4. QED
    BY <2>2, <2>3
<1>5. redraw(l, k) = s4
  <2> DEFINE wP == w \o P
             wPl == wP \o l
  <2> HIDE DEF w, P, b
  <2>1. wP \in Texts
    BY <1>1, <1>2, ConcatProperties DEF Texts
  <2>2. Printed(screen, wP) = s2
    BY <1>1, <1>2, PrintedTwice
  <2> HIDE DEF wP
  <2>3. wPl \in Texts
    BY <1>1, <2>1, ConcatProperties DEF Texts
  <2>4. Printed(screen, wPl) = s3
    BY <1>1, <2>1, <2>2, PrintedTwice
  <2> HIDE DEF wPl
  <2>5. Printed(screen, wPl \o b) = s4
    BY <1>3, <2>3, <2>4, PrintedTwice
  <2>6. redraw(l, k) = Printed(screen, wPl \o b)
    BY DEF redraw, wPl, wP, w, P, b
  <2>7. QED
    BY <2>5, <2>6
<1> HIDE DEF w, P, b, u, v
<1>6. s1 \in Rows /\ s2 \in Rows /\ s3 \in Rows /\ s4 \in Rows
  <2>1. s1 \in Rows
    BY <1>2, PrintedRow
  <2>2. s2 \in Rows
    BY <1>1, <2>1, PrintedRow
  <2>3. s3 \in Rows
    BY <1>1, <2>2, PrintedRow
  <2>4. s4 \in Rows
    BY <1>3, <2>3, PrintedRow
  <2>5. QED
    BY <2>1, <2>2, <2>3, <2>4
<1>7. ASSUME Len(P) + Len(l) < Width PROVE Shows(s4, 0, P \o u)
  <2>1. Shows(s1, 0, <<>>) /\ <<>> \in Seq(Plain) /\ Len(<<>>) = 0
    BY BlanksShow, EmptySeq DEF w
  <2> DEFINE none == <<>>
  <2>2. Shows(s1, 0, none) /\ none \in Seq(Plain) /\ Len(none) = 0
    BY <2>1
  <2>3. none \o P = P
    BY <1>1, ConcatEmptySeq
  <2> HIDE DEF none, s1
  <2>4. Shows(s2, 0, P)
    <3>1. 0 + Len(none) + Len(P) < Width /\ 0 \in Nat
      BY <1>1, <1>7, <2>2, PromptAssumption
    <3>2. Shows(Printed(s1, P), 0, none \o P)
      BY <1>1, <1>6, <2>2, <3>1, PlainShows
    <3>3. QED
      BY <2>3, <3>2
  <2> HIDE DEF s2
  <2>5. Shows(s3, 0, P \o l)
    <3>1. 0 + Len(P) + Len(l) < Width /\ 0 \in Nat
      BY <1>1, <1>7
    <3>2. QED
      BY <1>1, <1>6, <2>4, <3>1, PlainShows
  <2> HIDE DEF s3
  <2> DEFINE Pu == P \o u
  <2>6. P \o l = Pu \o v
    <3>0. P \in Seq(Plain) /\ u \in Seq(Plain) /\ v \in Seq(Plain)
      BY <1>1, <1>4
    <3>1. Pu \o v = P \o (u \o v)
      BY <3>0, Joined
    <3>2. QED
      BY <1>4, <3>1
  <2>7. Pu \in Seq(Plain)
    BY <1>1, <1>4, ConcatProperties
  <2> HIDE DEF Pu
  <2>8. Shows(Printed(s3, Times(Len(v), Back)), 0, Pu)
    BY <1>4, <1>6, <2>5, <2>6, <2>7, BacksShow
  <2>9. Times(Len(v), Back) = b
    BY <1>4 DEF b
  <2>10. Shows(s4, 0, Pu)
    BY <2>8, <2>9
  <2>11. QED
    BY <2>10 DEF Pu
<1>8. QED
  <2> HIDE DEF s4
  <2>1. QED
    BY <1>5, <1>6, <1>7 DEF P, u

LEMMA NewRowShows == NewRow \in Rows /\ Shows(NewRow, 0, <<>>)
<1>1. NewRow \in Rows
  BY PromptAssumption DEF NewRow, Rows, Cells, Symbols
<1>2. Shows(NewRow, 0, <<>>)
  BY PromptAssumption DEF NewRow, Shows
<1>3. QED
  BY <1>1, <1>2

\* The prompt on a new row, after what a command left there.
LEMMA BeginShows ==
  ASSUME NEW out \in Seq(Plain)
  PROVE  LET s == Printed(NewRow, out \o PromptText)
         IN  /\ s \in Rows
             /\ Len(out) + Len(PromptText) < Width => Shows(s, Len(out), PromptText)
<1> DEFINE P == PromptText
           none == <<>>
           text == out \o P
           s == Printed(NewRow, text)
<1>1. /\ P \in Seq(Plain) /\ none \in Seq(Plain) /\ Len(none) = 0 /\ Len(P) \in Nat
      /\ Len(out) \in Nat
  BY TextsArePlain, EmptySeq
<1>2. /\ text \in Seq(Plain) /\ Len(text) = Len(out) + Len(P)
      /\ \A i \in 1 .. Len(out) + Len(P) : text[i] = IF i <= Len(out) THEN out[i] ELSE P[i - Len(out)]
  BY <1>1, ConcatProperties
<1>3. none \o text = text
  BY <1>2, ConcatEmptySeq
<1>4. text \in Texts
  BY <1>2 DEF Texts, Plain, Symbols
<1>5. Shows(NewRow, 0, none)
  BY NewRowShows
<1> HIDE DEF P, none, text
<1>6. s \in Rows
  BY <1>4, NewRowShows, PrintedRow
<1>7. ASSUME Len(out) + Len(P) < Width PROVE Shows(s, Len(out), P)
  <2>1. 0 + Len(none) + Len(text) < Width /\ 0 \in Nat
    BY <1>1, <1>2, <1>7
  <2>2. Shows(s, 0, text)
    BY <1>1, <1>2, <1>3, <1>5, <2>1, NewRowShows, PlainShows
  <2> HIDE DEF s
  <2>3. ASSUME NEW i \in 1 .. Len(P) PROVE s.cells[Len(out) + i - 1] = P[i]
    <3> DEFINE j == Len(out) + i
    <3>1. j \in 1 .. Len(text) /\ j \in 1 .. Len(out) + Len(P) /\ ~(j <= Len(out)) /\ j - Len(out) = i
          /\ 0 + j - 1 = Len(out) + i - 1
      BY <1>1, <1>2
    <3> HIDE DEF j
    <3>2. s.cells[0 + j - 1] = text[j]
      BY <2>2, <3>1 DEF Shows
    <3>3. text[j] = P[i]
      BY <1>2, <3>1
    <3>4. QED
      BY <3>1, <3>2, <3>3
  <2>4. s.col = Len(out) + Len(P)
    BY <1>1, <1>2, <2>2 DEF Shows
  <2>5. QED
    BY <2>2, <2>3, <2>4 DEF Shows
<1>8. QED
  <2> HIDE DEF s
  <2>1. QED
    BY <1>6, <1>7 DEF s, text, P

-----------------------------------------------------------------------------
(***************************************************************************)
(* What every key leaves on the row.                                       *)
(***************************************************************************)
Shown == PromptText \o SubSeq(line, 1, cursor)

RowInv ==
  /\ screen \in Rows
  /\ Len(PromptText) + Len(line) < Width =>
       \E from \in Nat : (line # <<>> => from = 0) /\ Shows(screen, from, Shown)

LEMMA RowMeans == ASSUME TypeOK, RowInv PROVE RowShowsLine
<1> SUFFICES ASSUME Len(PromptText) + Len(line) < Width PROVE RowShowsLine
  BY DEF RowShowsLine
<1> DEFINE shown == Shown
<1>1. PICK from \in Nat : (line # <<>> => from = 0) /\ Shows(screen, from, shown)
  BY DEF RowInv
<1>2. Len(shown) \in Nat
  <2>1. line \in Seq(Chars) /\ cursor \in 0 .. Len(line) /\ Len(line) \in 0 .. Len(line)
    BY DEF TypeOK, Lines
  <2>2. SubSeq(line, 1, cursor) \in Seq(Plain)
    BY <2>1, Halves, TextsArePlain
  <2>3. shown \in Seq(Plain)
    BY <2>2, TextsArePlain, ConcatProperties DEF Shown
  <2> HIDE DEF shown
  <2>4. QED
    BY <2>3
<1> HIDE DEF shown
<1>3. screen.col - Len(shown) = from
  BY <1>1, <1>2 DEF Shows
<1>4. /\ from >= 0 /\ (line # <<>> => from = 0)
      /\ \A i \in 1 .. Len(shown) : screen.cells[from + i - 1] = shown[i]
      /\ \A i \in screen.col .. Width - 1 : screen.cells[i] = Blank
  BY <1>1 DEF Shows
<1>5. /\ screen.col - Len(shown) >= 0 /\ (line # <<>> => screen.col - Len(shown) = 0)
      /\ \A i \in 1 .. Len(shown) : screen.cells[screen.col - Len(shown) + i - 1] = shown[i]
  BY <1>3, <1>4
<1>6. QED
  BY <1>4, <1>5 DEF RowShowsLine, shown, Shown

LEMMA RowInit == Init => RowInv
<1> SUFFICES ASSUME Init PROVE RowInv
  OBVIOUS
<1> DEFINE none == <<>>
<1>1. none \in Seq(Plain) /\ Len(none) = 0 /\ line = none /\ cursor = 0 /\ PromptText \in Seq(Plain)
  BY TextsArePlain, EmptySeq DEF Init
<1>2. none \o PromptText = PromptText /\ SubSeq(line, 1, cursor) = none
  BY <1>1, ConcatEmptySeq, SubSeqEmpty
<1>3. PromptText \o none = PromptText
  BY <1>1, ConcatEmptySeq
<1>4. screen = Printed(NewRow, none \o PromptText)
  BY <1>2 DEF Init
<1> HIDE DEF none
<1>5. screen \in Rows /\ (Len(none) + Len(PromptText) < Width => Shows(screen, Len(none), PromptText))
  BY <1>1, <1>4, BeginShows
<1>6. Shown = PromptText
  BY <1>2, <1>3 DEF Shown
<1>7. QED
  BY <1>1, <1>5, <1>6 DEF RowInv

\* A key that draws the line again.
LEMMA RowRedrawn ==
  ASSUME RowInv, TypeOK', screen' = redraw(line', cursor')
  PROVE  RowInv'
<1> DEFINE l == line'
           k == cursor'
           sc == screen'
<1>1. l \in Seq(Plain) /\ k \in 0 .. Len(l)
  BY TextsArePlain DEF TypeOK, Lines
<1>2. sc = redraw(l, k)
  OBVIOUS
<1>3. Shown' = PromptText \o SubSeq(l, 1, k)
  BY DEF Shown
<1> HIDE DEF l, k, sc
<1>4. /\ sc \in Rows
      /\ Len(PromptText) + Len(l) < Width => Shows(sc, 0, PromptText \o SubSeq(l, 1, k))
  BY <1>1, <1>2, RedrawShows DEF RowInv
<1>5. /\ sc \in Rows
      /\ Len(PromptText) + Len(l) < Width
           => \E from \in Nat : (l # <<>> => from = 0) /\ Shows(sc, from, Shown')
  BY <1>3, <1>4
<1>6. Rows' = Rows /\ PromptText' = PromptText /\ Width' = Width
  BY DEF Rows, Cells, Symbols
<1>7. QED
  BY <1>5 DEF RowInv, Shows, sc, l, k
\* What the keys that move the cursor rest on.
LEMMA CursorParts ==
  ASSUME TypeOK, NEW i \in 0 .. Len(line), NEW j \in i .. Len(line)
  PROVE  LET u == SubSeq(line, i + 1, j)
             t == PromptText \o SubSeq(line, 1, i)
         IN  /\ t \in Seq(Plain) /\ u \in Seq(Plain) /\ Len(u) = j - i
             /\ t \o u = PromptText \o SubSeq(line, 1, j) /\ Len(t) = Len(PromptText) + i
<1> DEFINE a == SubSeq(line, 1, i)
           u == SubSeq(line, i + 1, j)
           P == PromptText
           t == P \o a
<1>1. line \in Seq(Plain) /\ j \in 0 .. Len(line) /\ i \in 0 .. j /\ P \in Seq(Plain)
  BY TextsArePlain DEF TypeOK, Lines
<1>2. a \o u = SubSeq(line, 1, j) /\ a \in Seq(Plain) /\ u \in Seq(Plain) /\ Len(a) = i /\ Len(u) = j - i
  BY <1>1, Halves
<1> HIDE DEF a, u, P
<1>3. t \in Seq(Plain) /\ Len(t) = Len(P) + i
  BY <1>1, <1>2, ConcatProperties
<1>4. t \o u = P \o (a \o u)
  <2>1. \A x, y, z \in Seq(Plain) : (x \o y) \o z = x \o (y \o z)
    BY Joined
  <2>2. (P \o a) \o u = P \o (a \o u)
    BY <1>1, <1>2, <2>1
  <2>3. QED
    BY <2>2
<1> HIDE DEF t
<1>5. QED
  BY <1>2, <1>3, <1>4 DEF t, a, u, P

LEMMA RowLeft ==
  ASSUME TypeOK, RowInv, NEW n \in 0 .. cursor, Leftwards(n)
  PROVE  RowInv'
<1> DEFINE i == cursor - n
           t == PromptText \o SubSeq(line, 1, i)
           u == SubSeq(line, i + 1, cursor)
           sc == screen'
<1>1. line' = line /\ cursor' = i /\ sc = Printed(screen, Times(n, Back))
  BY DEF Leftwards
<1>2. i \in 0 .. Len(line) /\ cursor \in i .. Len(line) /\ cursor - i = n /\ n \in Nat
  BY DEF TypeOK, Lines
<1>3. t \in Seq(Plain) /\ u \in Seq(Plain) /\ Len(u) = n /\ t \o u = Shown
  <2> HIDE DEF i
  <2>1. /\ t \in Seq(Plain) /\ u \in Seq(Plain) /\ Len(u) = cursor - i
        /\ t \o u = PromptText \o SubSeq(line, 1, cursor)
    BY <1>2, CursorParts
  <2>2. QED
    BY <1>2, <2>1 DEF Shown
<1>4. Shown' = t
  BY <1>1 DEF Shown
<1> HIDE DEF i, t, u, sc
<1>5. sc \in Rows
  <2>1. Times(n, Back) \in Texts
    BY <1>2 DEF Times, Texts, Symbols
  <2>2. QED
    BY <1>1, <2>1, PrintedRow DEF RowInv
<1>6. ASSUME Len(PromptText) + Len(line) < Width
      PROVE  \E from \in Nat : (line # <<>> => from = 0) /\ Shows(sc, from, t)
  <2>1. PICK from \in Nat : (line # <<>> => from = 0) /\ Shows(screen, from, Shown)
    BY <1>6 DEF RowInv
  <2>2. Shows(Printed(screen, Times(Len(u), Back)), from, t)
    BY <1>3, <2>1, BacksShow DEF RowInv
  <2>3. Shows(sc, from, t)
    BY <1>1, <1>3, <2>2
  <2>4. QED
    BY <2>1, <2>3
<1>7. QED
  BY <1>1, <1>4, <1>5, <1>6 DEF RowInv, Shows, Rows, Cells, Symbols, sc

LEMMA RowRight ==
  ASSUME TypeOK, RowInv, NEW n \in 0 .. Len(line) - cursor, Rightwards(n)
  PROVE  RowInv'
<1> DEFINE j == cursor + n
           t == Shown
           u == SubSeq(line, cursor + 1, j)
           sc == screen'
<1>1. line' = line /\ cursor' = j /\ sc = Printed(screen, u)
  BY DEF Rightwards
<1>2. /\ cursor \in 0 .. Len(line) /\ j \in cursor .. Len(line) /\ j - cursor = n /\ n \in Nat
      /\ Len(line) \in Nat
  BY DEF TypeOK, Lines
<1>3. /\ t \in Seq(Plain) /\ u \in Seq(Plain) /\ Len(u) = n
      /\ t \o u = PromptText \o SubSeq(line, 1, j) /\ Len(t) = Len(PromptText) + cursor
  <2> HIDE DEF j
  <2>1. /\ t \in Seq(Plain) /\ u \in Seq(Plain) /\ Len(u) = j - cursor
        /\ t \o u = PromptText \o SubSeq(line, 1, j) /\ Len(t) = Len(PromptText) + cursor
    BY <1>2, CursorParts DEF Shown
  <2>2. QED
    BY <1>2, <2>1
<1>4. Shown' = t \o u
  BY <1>1, <1>3 DEF Shown
<1>5. u \in Texts /\ Len(PromptText) \in Nat
  BY <1>3, TextsArePlain DEF Texts, Plain, Symbols
<1> HIDE DEF j, t, u, sc
<1>6. sc \in Rows
  BY <1>1, <1>5, PrintedRow DEF RowInv
<1>7. ASSUME Len(PromptText) + Len(line) < Width
      PROVE  \E from \in Nat : (line # <<>> => from = 0) /\ Shows(sc, from, t \o u)
  <2>1. PICK from \in Nat : (line # <<>> => from = 0) /\ Shows(screen, from, t)
    BY <1>7 DEF RowInv, t
  <2>2. from + Len(t) + Len(u) < Width
    <3>1. CASE line = <<>>
      <4>1. n = 0
        BY <1>2, <3>1
      <4>2. screen.col = from + Len(t) /\ screen.col < Width
        BY <2>1, PromptAssumption DEF Shows, RowInv, Rows, Cells
      <4>3. QED
        BY <1>2, <1>3, <1>5, <4>1, <4>2
    <3>2. CASE line # <<>>
      BY <1>2, <1>3, <1>5, <1>7, <2>1, <3>2, PromptAssumption DEF j
    <3>3. QED
      BY <3>1, <3>2
  <2>3. Shows(sc, from, t \o u)
    BY <1>1, <1>3, <2>1, <2>2, PlainShows DEF RowInv
  <2>4. QED
    BY <2>1, <2>3
<1>8. QED
  BY <1>1, <1>4, <1>6, <1>7 DEF RowInv, Shows, Rows, Cells, Symbols, sc

LEMMA RowEnter == ASSUME Enter PROVE RowInv'
<1> DEFINE none == <<>>
           sc == screen'
<1>1. PICK out \in Outputs : sc = Printed(NewRow, out \o PromptText)
  BY DEF Enter
<1>2. line' = none /\ cursor' = 0
  BY DEF Enter
<1>3. out \in Seq(Plain) /\ Len(out) + Len(PromptText) < Width /\ Len(out) \in Nat
  BY TextsArePlain, OutputsFit
<1>4. Shown' = PromptText
  <2>1. SubSeq(none, 1, 0) = none
    BY SubSeqEmpty
  <2>2. PromptText \o none = PromptText
    BY TextsArePlain, ConcatEmptySeq
  <2>3. QED
    BY <1>2, <2>1, <2>2 DEF Shown
<1> HIDE DEF sc, none
<1>5. sc \in Rows /\ Shows(sc, Len(out), PromptText)
  BY <1>1, <1>3, BeginShows
<1>6. QED
  BY <1>2, <1>3, <1>4, <1>5 DEF RowInv, Shows, Rows, Cells, Symbols, sc, none
LEMMA RowStep == ASSUME TypeOK, TypeOK', RowInv, [Next]_vars PROVE RowInv'
<1>1. CASE Enter
  BY <1>1, RowEnter
<1>2. CASE (\E c \in Chars : Insert(c)) \/ Backspace \/ Delete
  <2>1. screen' = redraw(line', cursor')
    BY <1>2 DEF Insert, Backspace, Delete, Redrawn
  <2>2. QED
    BY <2>1, RowRedrawn
<1>3. CASE Left \/ Home
  <2>1. PICK n \in 0 .. cursor : Leftwards(n)
    BY <1>3 DEF Left, Home, TypeOK
  <2>2. QED
    BY <2>1, RowLeft
<1>4. CASE Right \/ End
  <2>1. Len(line) \in Nat /\ cursor \in 0 .. Len(line)
    BY DEF TypeOK, Lines
  <2>2. PICK n \in 0 .. Len(line) - cursor : Rightwards(n)
    BY <1>4, <2>1 DEF Right, End
  <2>3. QED
    BY <2>2, RowRight
<1>5. CASE Up \/ Down
  <2>1. screen' = redraw(line', cursor')
    BY <1>5 DEF Up, Down, Redrawn
  <2>2. QED
    BY <2>1, RowRedrawn
<1>6. CASE UNCHANGED vars
  BY <1>6 DEF vars, typed, RowInv, Shown, Shows, Rows, Cells, Symbols
<1>7. QED
  BY <1>1, <1>2, <1>3, <1>4, <1>5, <1>6 DEF Next

\* The row of the prompt shows what has been typed up to the cursor and nothing after it,
\* whatever was drawn there before, on a screen of any width (prompt.h:143-150).
THEOREM PromptRowShowsLine == Spec => []RowShowsLine
<1>1. Init => TypeOK /\ RowInv
  BY PromptInit, RowInit
<1>2. TypeOK /\ RowInv /\ [Next]_vars => TypeOK' /\ RowInv'
  BY PromptTypeStep, RowStep
<1>3. TypeOK /\ RowInv => RowShowsLine
  BY RowMeans
<1>4. QED
  BY <1>1, <1>2, <1>3, PTL DEF Spec

-----------------------------------------------------------------------------
(***************************************************************************)
(* The memory after the segments of a file.                                *)
(***************************************************************************)
Segments == Seq([vaddr : Nat, data : Seq(Bytes), memsz : Nat])

AreStages(m, segs, at, n) ==
  at = [k \in 0..n |-> IF k = 0 THEN m ELSE Loaded(at[k - 1], segs[k])]

LEMMA StagesExist ==
  ASSUME NEW m, NEW segs, NEW l \in Nat
  PROVE  \E at : AreStages(m, segs, at, l)
<1> DEFINE Is(at, n) == AreStages(m, segs, at, n)
           Exists    == {n \in Nat : \E at : Is(at, n)}
<1> USE DEF AreStages
<1>1. 0 \in Exists
  <2>1. Is([k \in 0..0 |-> m], 0)
    OBVIOUS
  <2>2. QED
    BY <2>1
<1>2. ASSUME NEW n \in Nat, n \in Exists PROVE n + 1 \in Exists
  <2>1. PICK at : Is(at, n)
    BY <1>2
  <2> DEFINE up == [k \in 0..(n + 1) |-> IF k = n + 1 THEN Loaded(at[n], segs[n + 1]) ELSE at[k]]
  <2>2. ASSUME NEW k \in 0..(n + 1)
        PROVE  up[k] = IF k = 0 THEN m ELSE Loaded(up[k - 1], segs[k])
    <3>1. CASE k = n + 1
      BY <3>1
    <3>2. CASE k # n + 1
      <4>1. k \in 0..n /\ up[k] = at[k] /\ (k # 0 => up[k - 1] = at[k - 1])
        BY <3>2
      <4>2. at[k] = IF k = 0 THEN m ELSE Loaded(at[k - 1], segs[k])
        BY <2>1, <4>1
      <4>3. QED
        BY <4>1, <4>2
    <3>3. QED
      BY <3>1, <3>2
  <2>3. Is(up, n + 1)
    BY <2>2
  <2>4. \E at1 : Is(at1, n + 1)
    <3> HIDE DEF Is, up
    <3>1. QED
      BY <2>3, Zenon
  <2>5. QED
    BY <2>4
<1>3. l \in Exists
  <2> HIDE DEF Exists
  <2>1. QED
    BY <1>1, <1>2, SetInduction
<1>4. QED
  <2> HIDE DEF AreStages
  <2>1. QED
    BY <1>3

LEMMA StagesAre ==
  ASSUME NEW m, NEW segs \in Segments
  PROVE  /\ Stages(m, segs)[0] = m
         /\ \A k \in 1..Len(segs) : Stages(m, segs)[k] = Loaded(Stages(m, segs)[k - 1], segs[k])
<1>1. Len(segs) \in Nat
  BY DEF Segments
<1>2. \E at : AreStages(m, segs, at, Len(segs))
  BY <1>1, StagesExist
<1>3. AreStages(m, segs, Stages(m, segs), Len(segs))
  BY <1>2, Zenon DEF Stages, AreStages
<1> DEFINE at == Stages(m, segs)
<1>4. at = [k \in 0..Len(segs) |-> IF k = 0 THEN m ELSE Loaded(at[k - 1], segs[k])]
  BY <1>3 DEF AreStages
<1> HIDE DEF at
<1>5. at[0] = m /\ \A k \in 1..Len(segs) : at[k] = Loaded(at[k - 1], segs[k])
  BY <1>1, <1>4
<1>6. QED
  BY <1>5 DEF at

\* The byte the segments up to the n-th leave at an address: that of the last that covers it.
Over(segs, n, a) == {k \in 1..n : a \in Extent(segs[k])}
ByteOf(s, a) == IF a - s.vaddr < Len(s.data) THEN s.data[a - s.vaddr + 1] ELSE 0

\* The k-th segment is the last of the first n to cover the address.
IsTop(segs, n, a, k) == k \in Over(segs, n, a) /\ \A j \in Over(segs, n, a) : j <= k

LEMMA StageSays ==
  ASSUME NEW m, NEW segs \in Segments
  PROVE  \A n \in 0..Len(segs) :
           LET f == Stages(m, segs)[n]
           IN  /\ DOMAIN f = DOMAIN m
               /\ \A a \in DOMAIN m : \A k \in 1..n : IsTop(segs, n, a, k) => f[a] = ByteOf(segs[k], a)
<1> DEFINE at == Stages(m, segs)
           Says(n) == /\ DOMAIN at[n] = DOMAIN m
                      /\ \A a \in DOMAIN m : \A k \in 1..n :
                           IsTop(segs, n, a, k) => at[n][a] = ByteOf(segs[k], a)
           Good == {n \in Nat : n <= Len(segs) => Says(n)}
<1>0. Len(segs) \in Nat
  BY DEF Segments
<1> HIDE DEF at
<1>1. at[0] = m /\ \A k \in 1..Len(segs) : at[k] = Loaded(at[k - 1], segs[k])
  BY StagesAre DEF at
<1>2. 0 \in Good
  BY <1>1
<1>3. ASSUME NEW n \in Nat, n \in Good PROVE n + 1 \in Good
  <2> SUFFICES ASSUME n + 1 <= Len(segs) PROVE Says(n + 1)
    OBVIOUS
  <2>1. Says(n)
    BY <1>0, <1>3
  <2>2. at[n + 1] = Loaded(at[n], segs[n + 1])
    BY <1>0, <1>1
  <2>3. DOMAIN at[n + 1] = DOMAIN m
    BY <2>1, <2>2 DEF Loaded
  <2>4. ASSUME NEW a \in DOMAIN m, NEW k \in 1..(n + 1), IsTop(segs, n + 1, a, k)
        PROVE  at[n + 1][a] = ByteOf(segs[k], a)
    <3>1. CASE a \in Extent(segs[n + 1])
      <4>1. n + 1 \in Over(segs, n + 1, a)
        BY <3>1 DEF Over
      <4>2. k = n + 1
        BY <2>4, <4>1 DEF IsTop
      <4>3. QED
        BY <2>1, <2>2, <3>1, <4>2 DEF Loaded, ByteOf
    <3>2. CASE a \notin Extent(segs[n + 1])
      <4>1. Over(segs, n + 1, a) = Over(segs, n, a)
        BY <3>2 DEF Over
      <4>2. k \in 1..n /\ IsTop(segs, n, a, k)
        BY <2>4, <4>1 DEF IsTop, Over
      <4>3. at[n][a] = ByteOf(segs[k], a)
        BY <2>1, <4>2
      <4>4. at[n + 1][a] = at[n][a]
        BY <2>1, <2>2, <3>2 DEF Loaded
      <4>5. QED
        BY <4>3, <4>4
    <3>3. QED
      BY <3>1, <3>2
  <2>5. QED
    BY <2>3, <2>4
<1>4. Nat \subseteq Good
  <2> HIDE DEF Good
  <2>1. QED
    BY <1>2, <1>3, SetInduction
<1>5. QED
  BY <1>0, <1>4 DEF at

LEMMA Greatest ==
  ASSUME NEW n \in Nat, NEW S \in SUBSET (1..n), S # {}
  PROVE  \E k \in S : \A j \in S : j <= k
<1> DEFINE T == {n - k : k \in S}
<1>1. T \subseteq Nat /\ T # {}
  <2>1. \A k \in S : n - k \in Nat
    OBVIOUS
  <2>2. PICK k \in S : TRUE
    OBVIOUS
  <2>3. n - k \in T
    OBVIOUS
  <2>4. QED
    BY <2>1, <2>3
<1>2. IsWellFoundedOn(Less, Nat)
  BY NatLessThanWellFounded DEF OpToRel, Less
<1>3. PICK x \in T : \A y \in T : ~ (<<y, x>> \in Less)
  <2> HIDE DEF T
  <2>1. QED
    BY <1>1, <1>2, WFMin
<1>4. PICK k \in S : x = n - k
  OBVIOUS
<1>5. ASSUME NEW j \in S PROVE j <= k
  <2>1. n - j \in T /\ n - j \in Nat /\ n - k \in Nat
    OBVIOUS
  <2>2. ~ (n - j < n - k)
    BY <1>3, <1>4, <2>1 DEF Less
  <2>3. QED
    BY <2>1, <2>2
<1>6. QED
  BY <1>4, <1>5

LEMMA LoadSays ==
  ASSUME NEW f, ElfFile(f), NEW m, DOMAIN m = LoadArea
  PROVE  /\ DOMAIN LoadAll(m, f.segs) = LoadArea
         /\ \A a \in AllOf(f) : LoadAll(m, f.segs)[a] = Content(f, a)
<1> DEFINE segs == f.segs
<1>1. segs \in Segments /\ Len(segs) \in Nat /\ DOMAIN segs = 1..Len(segs)
  BY DEF ElfFile, Segments
<1>2. AllOf(f) \subseteq DOMAIN m
  BY DEF ElfFile
<1>3. Len(segs) \in 0..Len(segs)
  BY <1>1
<1>4. /\ DOMAIN LoadAll(m, segs) = LoadArea
      /\ \A a \in DOMAIN m : \A k \in 1..Len(segs) :
            IsTop(segs, Len(segs), a, k) => LoadAll(m, segs)[a] = ByteOf(segs[k], a)
  <2> HIDE DEF segs
  <2>1. QED
    BY <1>1, <1>3, StageSays DEF LoadAll
<1>5. ASSUME NEW a \in AllOf(f) PROVE LoadAll(m, segs)[a] = Content(f, a)
  <2> DEFINE over == Over(segs, Len(segs), a)
             top  == CHOOSE k \in over : \A j \in over : j <= k
  <2>1. over # {} /\ over \in SUBSET (1..Len(segs))
    BY <1>1 DEF AllOf, Range, Over
  <2>2. \E k \in over : \A j \in over : j <= k
    <3> HIDE DEF over, segs
    <3>1. QED
      BY <1>1, <2>1, Greatest
  <2>3. top \in over /\ \A j \in over : j <= top
    <3> HIDE DEF over
    <3>1. QED
      BY <2>2
  <2>4. IsTop(segs, Len(segs), a, top) /\ top \in 1..Len(segs)
    <3> HIDE DEF segs, top
    <3>1. QED
      BY <2>1, <2>3 DEF IsTop
  <2>5. LoadAll(m, segs)[a] = ByteOf(segs[top], a)
    <3> HIDE DEF top, segs, over
    <3>1. QED
      BY <1>2, <1>4, <2>4
  <2>6. over = {k \in DOMAIN f.segs : a \in Extent(f.segs[k])}
    BY <1>1 DEF Over
  <2>7. Content(f, a) = ByteOf(segs[top], a)
    <3> DEFINE cover == {k \in DOMAIN f.segs : a \in Extent(f.segs[k])}
    <3>1. Content(f, a) = ByteOf(f.segs[CHOOSE k \in cover : \A j \in cover : j <= k], a)
      BY DEF Content, ByteOf
    <3>2. over = cover
      BY <2>6
    <3> HIDE DEF cover, over
    <3>3. QED
      BY <3>1, <3>2
  <2>8. QED
    BY <2>5, <2>7
<1>6. QED
  BY <1>4, <1>5

-----------------------------------------------------------------------------
(***************************************************************************)
(* Programs.  Between two commands the kernel holds nothing of a load, and *)
(* in each step of one what Holding says.                                  *)
(***************************************************************************)
\* The pointer a client has, if it has one.
HasOne(c) == \E p : held[c] = {p}

Owned == \A c \in Kernel : IF pc \in Holding[c] THEN HasOne(c) ELSE held[c] = {}

\* The path being run was opened once, and build_real_mode_image has an MZ file.
Chosen ==
  /\ pc # "idle" => name \in DOMAIN Disk
  /\ image \in Range(Disk) \cup {Nothing}
  /\ pc \in {"mz", "psp", "copy", "relocate", "execute"} => image.kind = "mz"

RunInv ==
  /\ pc \in Labels /\ driver \in BOOLEAN
  /\ DOMAIN held = Clients /\ Owned
  /\ mine \subseteq held["program"]
  /\ Chosen
  /\ DOMAIN ram = LoadArea /\ code \in Int /\ reloc \in Nat

\* malloc gives the client one pointer more, of those no one else changes.
Gives(c) == \E p : held' = [held EXCEPT ![c] = @ \cup {p}]
Takes(c, p) == p \in held[c] /\ held' = [held EXCEPT ![c] = @ \ {p}]

LEMMA MallocGives == ASSUME NEW c, NEW n, Malloc(c, n) PROVE Gives(c)
  BY DEF Malloc, H!MallocReuse, H!MallocExtend, Gives

LEMMA FreeTakes == ASSUME NEW c, NEW p, H!Free(c, p) PROVE Takes(c, p)
  BY DEF H!Free, Takes

LEMMA FullKeeps == ASSUME NEW n, H!MallocFull(n) PROVE held' = held
  BY DEF H!MallocFull

\* A step of a load: what it allocates and frees is what the next one has to hold.
LEMMA GivesOne ==
  ASSUME RunInv, NEW c \in Kernel, pc \notin Holding[c], Gives(c)
  PROVE  /\ HasOne(c)' /\ DOMAIN held' = Clients
         /\ \A d \in Clients \ {c} : held'[d] = held[d]
  BY DEF RunInv, Owned, Gives, HasOne, Clients

LEMMA TakesOne ==
  ASSUME RunInv, NEW c \in Kernel, pc \in Holding[c], Takes(c, Pointer(c))
  PROVE  /\ held'[c] = {} /\ DOMAIN held' = Clients
         /\ \A d \in Clients \ {c} : held'[d] = held[d]
<1>1. PICK p : held[c] = {p}
  BY DEF RunInv, Owned, HasOne
<1>2. Pointer(c) = p
  BY <1>1 DEF Pointer
<1>3. QED
  BY <1>1, <1>2 DEF RunInv, Takes, Clients

LEMMA OwnedIs ==
  Owned <=> /\ IF pc \in Holding.buf THEN HasOne("buf") ELSE held["buf"] = {}
            /\ IF pc \in Holding.mem THEN HasOne("mem") ELSE held["mem"] = {}
            /\ IF pc \in Holding.psp THEN HasOne("psp") ELSE held["psp"] = {}
  BY DEF Owned, Kernel

LEMMA RunInit == ProgramsInit => RunInv
<1> SUFFICES ASSUME ProgramsInit PROVE RunInv
  OBVIOUS
<1>1. pc = "idle" /\ held = [c \in Clients |-> {}] /\ mine = {} /\ code = 0 /\ reloc = 0 /\ driver = FALSE
      /\ ram = [a \in LoadArea |-> 0] /\ image = Nothing
  BY DEF ProgramsInit, H!Init
<1>2. Owned
  BY <1>1, OwnedIs DEF Holding, Clients, Kernel
<1>3. driver \in BOOLEAN
  BY <1>1, Zenon
<1>4. QED
  BY <1>1, <1>2, <1>3 DEF RunInv, Chosen, Labels

\* A step that leaves the heap alone goes to where the same is held.
LEMMA Still ==
  ASSUME Owned, UNCHANGED held, \A c \in Kernel : pc' \in Holding[c] <=> pc \in Holding[c]
  PROVE  Owned'
  BY DEF Owned, HasOne

\* A step that gets or gives back one block changes what is held of it, and of it alone.
LEMMA Acquires ==
  ASSUME RunInv, NEW c \in Kernel, pc \notin Holding[c], Gives(c), pc' \in Holding[c],
         \A d \in Kernel \ {c} : pc' \in Holding[d] <=> pc \in Holding[d]
  PROVE  Owned' /\ DOMAIN held' = Clients /\ held'["program"] = held["program"]
<1>1. HasOne(c)' /\ DOMAIN held' = Clients /\ \A d \in Clients \ {c} : held'[d] = held[d]
  BY GivesOne
<1>2. \A d \in Kernel \ {c} : held'[d] = held[d]
  BY <1>1 DEF Clients
<1>3. Owned'
  BY <1>1, <1>2 DEF RunInv, Owned, HasOne
<1>4. QED
  BY <1>1, <1>3 DEF Clients, Kernel

LEMMA GivesBack ==
  ASSUME RunInv, NEW c \in Kernel, pc \in Holding[c], Takes(c, Pointer(c)), pc' \notin Holding[c],
         \A d \in Kernel \ {c} : pc' \in Holding[d] <=> pc \in Holding[d]
  PROVE  Owned' /\ DOMAIN held' = Clients /\ held'["program"] = held["program"]
<1>1. held'[c] = {} /\ DOMAIN held' = Clients /\ \A d \in Clients \ {c} : held'[d] = held[d]
  BY TakesOne
<1>2. \A d \in Kernel \ {c} : held'[d] = held[d]
  BY <1>1 DEF Clients
<1>3. Owned'
  BY <1>1, <1>2 DEF RunInv, Owned, HasOne
<1>4. QED
  BY <1>1, <1>3 DEF Clients, Kernel

\* Where the program itself gets or frees a block, the kernel's are left alone.
LEMMA ProgramsOwn ==
  ASSUME RunInv, Gives("program") \/ \E p : Takes("program", p),
         \A c \in Kernel : pc' \in Holding[c] <=> pc \in Holding[c]
  PROVE  Owned' /\ DOMAIN held' = Clients
<1>1. \A c \in Kernel : held'[c] = held[c]
  BY DEF RunInv, Gives, Takes, Clients, Kernel
<1>2. Owned'
  BY <1>1 DEF RunInv, Owned, HasOne
<1>3. QED
  BY <1>2 DEF RunInv, Gives, Takes

\* The loader writes to what there is, whatever file it was given.
LEMMA AccessibleFile ==
  ASSUME NEW f \in Range(Disk) \cup {Nothing}
  PROVE  /\ f.kind = "elf" => ElfFile(f)
         /\ f.kind = "mz" => MzFile(f)
  BY ProgramsAssumption DEF Range, Nothing

LEMMA LoadKeeps ==
  ASSUME Load, DOMAIN ram = LoadArea, image \in Range(Disk) \cup {Nothing}
  PROVE  DOMAIN ram' = LoadArea
<1>1. CASE Refusal(image) # 0
  BY <1>1 DEF Load
<1>2. CASE Refusal(image) = 0
  <2>1. ElfFile(image)
    BY <1>2, AccessibleFile DEF Refusal
  <2>2. \A m : DOMAIN m = LoadArea => DOMAIN LoadAll(m, image.segs) = LoadArea
    BY <2>1, LoadSays
  <2>3. ram' = IF driver THEN LoadAll(LoadAll(ram, image.segs), image.segs) ELSE LoadAll(ram, image.segs)
    BY <1>2 DEF Load
  <2>4. QED
    BY <2>2, <2>3
<1>3. QED
  BY <1>1, <1>2

LEMMA IdleTypes == ASSUME Idle PROVE driver' \in BOOLEAN /\ image' = Nothing /\ pc' = "idle" /\ name' = NoPath
<1>1. driver' = FALSE /\ image' = Nothing /\ pc' = "idle" /\ name' = NoPath
  BY DEF Idle, Goto
<1>2. driver' \in BOOLEAN
  BY <1>1, Zenon
<1>3. QED
  BY <1>1, <1>2

\* The invariant in each step of a load and of a program.
LEMMA RunStep == ASSUME RunInv, [ProgramsNext]_programs_vars PROVE RunInv'
<1> USE DEF Goto
<1>0. /\ pc \in Labels /\ driver \in BOOLEAN /\ DOMAIN held = Clients /\ Owned
      /\ mine \subseteq held["program"] /\ Chosen /\ DOMAIN ram = LoadArea /\ code \in Int /\ reloc \in Nat
  BY DEF RunInv
<1>1. ASSUME NEW path \in Typed, NEW as_driver \in BOOLEAN, Command(path, as_driver) PROVE RunInv'
  <2>1. Owned'
    BY <1>0, <1>1, Still DEF Command, heap, Holding, Kernel, Labels
  <2>2. QED
    BY <1>0, <1>1, <2>1 DEF Command, heap, dos, RunInv, Chosen, Labels
<1>2. CASE Open
  <2>1. Owned'
    BY <1>0, <1>2, Still DEF Open, Return, Idle, heap, Holding, Kernel, Labels
  <2>2. CASE Idle /\ code' \in {-100, -103}
    BY <1>0, <1>2, <2>1, <2>2, IdleTypes DEF Open, heap, dos, RunInv, Chosen, Labels
  <2>3. CASE pc' = "alloc" /\ UNCHANGED <<run, code>>
    BY <1>0, <1>2, <2>1, <2>3 DEF Open, run, heap, dos, RunInv, Chosen, Labels
  <2>4. QED
    BY <1>2, <2>2, <2>3 DEF Open, Return
<1>3. CASE AllocBuf
  <2>1. CASE Malloc("buf", File.size) /\ pc' = "read" /\ UNCHANGED <<run, code>>
    <3>1. Owned' /\ DOMAIN held' = Clients /\ held'["program"] = held["program"]
      BY <1>3, <2>1, MallocGives, Acquires DEF AllocBuf, Holding, Kernel, Labels
    <3>2. QED
      BY <1>0, <1>3, <2>1, <3>1 DEF AllocBuf, run, dos, RunInv, Chosen, Labels
  <2>2. CASE H!MallocFull(File.size) /\ Return(-101)
    <3>1. held' = held
      BY <2>2, FullKeeps
    <3>2. Owned'
      BY <1>0, <1>3, <2>2, <3>1, Still DEF AllocBuf, Return, Idle, Holding, Kernel, Labels
    <3>3. QED
      BY <1>0, <1>3, <2>2, <3>1, <3>2, IdleTypes DEF AllocBuf, Return, dos, RunInv, Chosen, Labels
  <2>3. QED
    BY <1>3, <2>1, <2>2 DEF AllocBuf
<1>4. CASE Read
  <2>1. pc' \in {"driver", "choose"}
    BY <1>4 DEF Read
  <2>2. Owned'
    BY <1>0, <1>4, <2>1, Still DEF Read, heap, Holding, Kernel, Labels
  <2>3. QED
    BY <1>0, <1>4, <2>1, <2>2 DEF Read, heap, dos, RunInv, Chosen, Labels
<1>5. CASE Choose
  <2>1. pc' \in {"elf", "mz"} /\ (pc' = "mz" => image.kind = "mz")
    BY <1>5 DEF Choose
  <2>2. Owned'
    BY <1>0, <1>5, <2>1, Still DEF Choose, heap, Holding, Kernel, Labels
  <2>3. QED
    BY <1>0, <1>5, <2>1, <2>2 DEF Choose, run, heap, dos, RunInv, Chosen, Labels
<1>6. CASE AllocMem
  <2>1. /\ pc = "mz" /\ UNCHANGED <<run, reloc, ram, mine>>
        /\ \/ held' = held /\ pc' = "free_buf" /\ code' \in {-2, -101}
           \/ Malloc("mem", RmSize) /\ pc' = "psp" /\ code' = code
    BY <1>6, FullKeeps DEF AllocMem, Fails, heap
  <2>2. Owned' /\ DOMAIN held' = Clients /\ held'["program"] = held["program"]
    <3>1. CASE held' = held /\ pc' = "free_buf"
      BY <1>0, <2>1, <3>1, Still DEF Holding, Kernel, Labels
    <3>2. CASE Malloc("mem", RmSize) /\ pc' = "psp"
      BY <2>1, <3>2, MallocGives, Acquires DEF Holding, Kernel, Labels
    <3>3. QED
      BY <2>1, <3>1, <3>2
  <2>3. QED
    BY <1>0, <2>1, <2>2 DEF run, RunInv, Chosen, Labels
<1>7. CASE AllocPsp
  <2>1. /\ pc = "psp" /\ UNCHANGED <<run, dos, ram, mine>>
        /\ \/ held' = held /\ pc' = "undo_mem" /\ code' = -101
           \/ Malloc("psp", PspSize) /\ pc' = "copy" /\ code' = code
    BY <1>7, FullKeeps DEF AllocPsp
  <2>2. Owned' /\ DOMAIN held' = Clients /\ held'["program"] = held["program"]
    <3>1. CASE held' = held /\ pc' = "undo_mem"
      BY <1>0, <2>1, <3>1, Still DEF Holding, Kernel, Labels
    <3>2. CASE Malloc("psp", PspSize) /\ pc' = "copy"
      BY <2>1, <3>2, MallocGives, Acquires DEF Holding, Kernel, Labels
    <3>3. QED
      BY <2>1, <3>1, <3>2
  <2>3. QED
    BY <1>0, <2>1, <2>2 DEF run, dos, RunInv, Chosen, Labels
<1>8. CASE CopyImage \/ Relocate \/ SetRegisters
  <2>1. /\ pc \in {"copy", "relocate"} /\ UNCHANGED <<heap, run, ram, mine>>
        /\ pc' \in {"relocate", "execute", "undo_psp"} /\ code' \in {code, -4, -5, -6}
        /\ reloc' \in {0, reloc, reloc + 1}
    BY <1>8 DEF CopyImage, Relocate, SetRegisters, Abandon
  <2>2. Owned'
    BY <1>0, <2>1, Still DEF heap, Holding, Kernel, Labels
  <2>3. QED
    BY <1>0, <2>1, <2>2 DEF heap, run, RunInv, Chosen, Labels
<1>9. CASE UndoPsp \/ FreePsp
  <2>1. /\ pc \in {"undo_psp", "free_psp"} /\ H!Free("psp", Pointer("psp"))
        /\ pc' \in {"undo_mem", "free_mem"} /\ UNCHANGED <<run, dos, ram, mine, code>>
    BY <1>9 DEF UndoPsp, FreePsp
  <2>2. Owned' /\ DOMAIN held' = Clients /\ held'["program"] = held["program"]
    BY <2>1, FreeTakes, GivesBack DEF Holding, Kernel, Labels
  <2>3. QED
    BY <1>0, <2>1, <2>2 DEF run, dos, RunInv, Chosen, Labels
<1>10. CASE UndoMem \/ FreeRealMode
  <2>1. /\ pc \in {"undo_mem", "free_mem"} /\ H!Free("mem", Pointer("mem"))
        /\ pc' = "free_buf" /\ reloc' = 0 /\ UNCHANGED <<run, ram, mine, code>>
    BY <1>10 DEF UndoMem, FreeRealMode, FreeMem
  <2>2. Owned' /\ DOMAIN held' = Clients /\ held'["program"] = held["program"]
    BY <2>1, FreeTakes, GivesBack DEF Holding, Kernel, Labels
  <2>3. QED
    BY <1>0, <2>1, <2>2 DEF run, RunInv, Chosen, Labels
<1>11. CASE Execute
  <2>1. /\ pc = "execute" /\ UNCHANGED <<heap, run, dos, ram, mine>> /\ pc' = "free_psp"
        /\ code' \in Returns \cup {-8, -10, -20, -21, -30}
    BY <1>11 DEF Execute
  <2>2. code' \in Int
    <3>1. Returns \subseteq Int
      BY ProgramsAssumption
    <3>2. QED
      BY <2>1, <3>1
  <2>3. Owned'
    BY <1>0, <2>1, Still DEF heap, Holding, Kernel, Labels
  <2>4. QED
    BY <1>0, <2>1, <2>2, <2>3 DEF heap, run, dos, RunInv, Chosen, Labels
<1>12. CASE Load
  <2>1. /\ pc \in {"elf", "driver"} /\ UNCHANGED <<heap, run, dos, mine>>
        /\ pc' \in {"free_buf", "lost", "running"}
    BY <1>12 DEF Load, Fails
  <2>2. code' \in Int
    BY <1>0, <1>12 DEF Load, Fails, Refusal
  <2>3. DOMAIN ram' = LoadArea
    BY <1>0, <1>12, LoadKeeps DEF Chosen
  <2>4. Owned'
    BY <1>0, <2>1, Still DEF heap, Holding, Kernel, Labels
  <2>5. QED
    BY <1>0, <2>1, <2>2, <2>3, <2>4 DEF heap, run, dos, RunInv, Chosen, Labels
<1>13. CASE Touch \/ SYS_EXIT \/ Leave
  <2>1. /\ pc = "running" /\ UNCHANGED <<heap, run, dos>> /\ pc' \in {"running", "free_buf"}
        /\ mine' \subseteq mine /\ DOMAIN ram' = DOMAIN ram /\ code' \in Returns \cup {code}
    BY <1>13 DEF Touch, SYS_EXIT, Leave
  <2>2. code' \in Int
    BY <1>0, <2>1, ProgramsAssumption
  <2>3. Owned'
    BY <1>0, <2>1, Still DEF heap, Holding, Kernel, Labels
  <2>4. QED
    BY <1>0, <2>1, <2>2, <2>3 DEF heap, run, dos, RunInv, Chosen, Labels
<1>14. CASE SYS_MALLOC
  <2>1. PICK n \in Sizes :
          \/ /\ Malloc("program", n)
             /\ mine' = mine \cup (held'["program"] \ held["program"])
             /\ pc' \in {"lost", "running"}
          \/ H!MallocFull(n) /\ UNCHANGED <<pc, mine>>
    BY <1>14 DEF SYS_MALLOC
  <2>2. pc = "running" /\ UNCHANGED <<run, dos, ram, code>>
    BY <1>14 DEF SYS_MALLOC
  <2>3. CASE Malloc("program", n) /\ mine' = mine \cup (held'["program"] \ held["program"]) /\ pc' \in {"lost", "running"}
    <3>1. Gives("program")
      BY <2>3, MallocGives
    <3>2. Owned' /\ DOMAIN held' = Clients
      BY <2>2, <2>3, <3>1, ProgramsOwn DEF Holding, Kernel, Labels
    <3>3. held["program"] \subseteq held'["program"]
      BY <1>0, <3>1 DEF Gives, Clients
    <3>4. mine' \subseteq held'["program"]
      BY <1>0, <2>3, <3>3
    <3>5. QED
      BY <1>0, <2>2, <2>3, <3>2, <3>4 DEF run, dos, RunInv, Chosen, Labels
  <2>4. CASE H!MallocFull(n) /\ UNCHANGED <<pc, mine>>
    <3>1. held' = held
      BY <2>4, FullKeeps
    <3>2. Owned'
      BY <1>0, <2>2, <2>4, <3>1, Still DEF Holding, Kernel, Labels
    <3>3. QED
      BY <1>0, <2>2, <2>4, <3>1, <3>2 DEF run, dos, RunInv, Chosen, Labels
  <2>5. QED
    BY <2>1, <2>3, <2>4
<1>15. CASE SYS_FREE
  <2>1. PICK p \in mine : H!Free("program", p) /\ mine' = mine \ {p}
    BY <1>15 DEF SYS_FREE
  <2>2. pc = "running" /\ UNCHANGED <<pc, run, dos, ram, code>>
    BY <1>15 DEF SYS_FREE
  <2>3. Takes("program", p)
    BY <2>1, FreeTakes
  <2>4. Owned' /\ DOMAIN held' = Clients
    BY <2>2, <2>3, ProgramsOwn DEF Holding, Kernel, Labels
  <2>5. held'["program"] = held["program"] \ {p}
    BY <1>0, <2>3 DEF Takes, Clients
  <2>6. QED
    BY <1>0, <2>1, <2>2, <2>4, <2>5 DEF run, dos, RunInv, Chosen, Labels
<1>16. CASE FreeBuf
  <2>1. /\ pc = "free_buf" /\ H!Free("buf", Pointer("buf"))
        /\ pc' = "idle" /\ driver' \in BOOLEAN /\ image' = Nothing /\ UNCHANGED <<dos, ram, mine, code>>
    BY <1>16, IdleTypes DEF FreeBuf
  <2>2. Owned' /\ DOMAIN held' = Clients /\ held'["program"] = held["program"]
    BY <2>1, FreeTakes, GivesBack DEF Holding, Kernel, Labels
  <2>3. QED
    BY <1>0, <2>1, <2>2 DEF dos, RunInv, Chosen, Labels
<1>17. CASE Lost \/ UNCHANGED programs_vars
  <2>1. UNCHANGED <<heap, pc, run, dos, ram, mine, code>>
    BY <1>17 DEF Lost, programs_vars
  <2>2. Owned'
    BY <1>0, <2>1, Still DEF heap
  <2>3. QED
    BY <1>0, <2>1, <2>2 DEF heap, run, dos, RunInv, Chosen
<1>18. QED
  BY <1>1, <1>2, <1>3, <1>4, <1>5, <1>6, <1>7, <1>8, <1>9, <1>10, <1>11, <1>12, <1>13, <1>14, <1>15, <1>16, <1>17
     DEF ProgramsNext

-----------------------------------------------------------------------------
(***************************************************************************)
(* What programs and the kernel do with the heap is what its callers may.  *)
(***************************************************************************)
LEMMA MallocIsHeaps ==
  ASSUME NEW c \in Clients, NEW n \in Requests, Malloc(c, n) \/ H!MallocFull(n)
  PROVE  H!Next
  BY DEF Malloc, H!Next

LEMMA FreeIsHeaps == ASSUME NEW c \in Clients, NEW p, H!Free(c, p) PROVE H!Next
  BY DEF H!Free, H!Next

LEMMA HeapStep == ASSUME RunInv, [ProgramsNext]_programs_vars PROVE [H!Next]_heap
<1>0. Clients = {"buf", "mem", "psp", "program"}
  BY DEF Clients, Kernel
<1>1. CASE UNCHANGED heap
  BY <1>1
<1>2. CASE AllocBuf
  <2>1. File.size \in Requests
    BY <1>2 DEF AllocBuf, RunInv, Chosen, File, Requests
  <2>2. Malloc("buf", File.size) \/ H!MallocFull(File.size)
    BY <1>2 DEF AllocBuf
  <2>3. QED
    BY <1>0, <2>1, <2>2, MallocIsHeaps
<1>3. CASE AllocMem
  <2>1. RmSize \in Requests
    BY DEF Requests
  <2>2. UNCHANGED heap \/ Malloc("mem", RmSize) \/ H!MallocFull(RmSize)
    BY <1>3 DEF AllocMem
  <2>3. QED
    BY <1>0, <2>1, <2>2, MallocIsHeaps
<1>4. CASE AllocPsp
  <2>1. PspSize \in Requests
    BY DEF Requests
  <2>2. Malloc("psp", PspSize) \/ H!MallocFull(PspSize)
    BY <1>4 DEF AllocPsp
  <2>3. QED
    BY <1>0, <2>1, <2>2, MallocIsHeaps
<1>5. CASE UndoPsp \/ FreePsp
  BY <1>0, <1>5, FreeIsHeaps DEF UndoPsp, FreePsp
<1>6. CASE UndoMem \/ FreeRealMode
  BY <1>0, <1>6, FreeIsHeaps DEF UndoMem, FreeRealMode, FreeMem
<1>7. CASE SYS_MALLOC
  <2>1. PICK n \in Sizes : Malloc("program", n) \/ H!MallocFull(n)
    BY <1>7 DEF SYS_MALLOC
  <2>2. n \in Requests
    BY DEF Requests
  <2>3. QED
    BY <1>0, <2>1, <2>2, MallocIsHeaps
<1>8. CASE SYS_FREE
  BY <1>0, <1>8, FreeIsHeaps DEF SYS_FREE
<1>9. CASE FreeBuf
  BY <1>0, <1>9, FreeIsHeaps DEF FreeBuf
<1>10. ASSUME NEW path \in Typed, NEW as_driver \in BOOLEAN, Command(path, as_driver) PROVE UNCHANGED heap
  BY <1>10 DEF Command
<1>11. CASE Open \/ Read \/ Choose \/ CopyImage \/ Relocate \/ SetRegisters \/ Execute
  BY <1>1, <1>11 DEF Open, Read, Choose, CopyImage, Relocate, SetRegisters, Execute
<1>12. CASE Load \/ Lost \/ Touch \/ SYS_EXIT \/ Leave \/ UNCHANGED programs_vars
  BY <1>1, <1>12 DEF Load, Lost, Touch, SYS_EXIT, Leave, programs_vars
<1>13. QED
  BY <1>1, <1>2, <1>3, <1>4, <1>5, <1>6, <1>7, <1>8, <1>9, <1>10, <1>11, <1>12 DEF ProgramsNext

\* Every run of commands and programs is one of the heap's: a pointer is freed by who holds it,
\* once, and what Heap shows of the block list is so under the loaders (kernel64.cpp 630-697,
\* mzexe.h 301-341, syscall.h 74-83).
THEOREM ProgramsUseTheHeap == ProgramsSpec => H!Spec
<1>1. ProgramsInit => H!Init
  BY DEF ProgramsInit
<1>2. RunInv /\ [ProgramsNext]_programs_vars => [H!Next]_heap
  BY HeapStep
<1>3. RunInv /\ [ProgramsNext]_programs_vars => [H!Next]_(H!vars)
  BY <1>2 DEF H!vars, heap
<1>4. QED
  BY <1>1, <1>3, RunInit, RunStep, PTL DEF ProgramsSpec, H!Spec

\* Every way out of a load gives back the image, the PSP and the memory of a DOS program, once
\* (TakenBack, kernel64.cpp 633-696, mzexe.h 301-336).
THEOREM ProgramsTakenBack == ProgramsSpec => []TakenBack
<1>1. RunInv => TakenBack
  <2> SUFFICES ASSUME RunInv, NEW c \in Kernel PROVE Cardinality(held[c]) = IF pc \in Holding[c] THEN 1 ELSE 0
    BY DEF TakenBack
  <2>1. CASE pc \in Holding[c]
    <3>1. PICK p : held[c] = {p}
      BY <2>1 DEF RunInv, Owned, HasOne
    <3>2. QED
      BY <2>1, <3>1, FS_Singleton
  <2>2. CASE pc \notin Holding[c]
    BY <2>2, FS_EmptySet DEF RunInv, Owned
  <2>3. QED
    BY <2>1, <2>2
<1>2. QED
  BY <1>1, RunInit, RunStep, PTL DEF ProgramsSpec

\* A program whose file was read starts from that file and cleared memory, whatever ran before
\* it, for any segments inside the memory there is (StartsFromItsFile, elf64.h 125-141, 171-193).
THEOREM ProgramsStartFromTheirFiles == ProgramsSpec => StartsFromItsFile
<1> DEFINE Starts == pc \in {"elf", "driver"} /\ pc' = "running" /\ image = File
                     => \A a \in AllOf(File) : ram'[a] = Content(File, a)
<1>1. ASSUME RunInv, ProgramsNext PROVE Starts
  <2> SUFFICES ASSUME pc \in {"elf", "driver"}, pc' = "running", image = File,
                      NEW a \in AllOf(File)
               PROVE  ram'[a] = Content(File, a)
    OBVIOUS
  <2>1. Load
    BY <1>1 DEF ProgramsNext, Command, Open, AllocBuf, Read, Choose, AllocMem, AllocPsp, CopyImage, Relocate,
       SetRegisters, UndoPsp, UndoMem, Execute, FreePsp, FreeRealMode, Lost, Touch, SYS_MALLOC, SYS_FREE,
       SYS_EXIT, Leave, FreeBuf
  <2>2. Refusal(image) = 0
    BY <2>1 DEF Load, Fails, Goto
  <2>3. ElfFile(File) /\ DOMAIN ram = LoadArea
    BY <1>1, <2>2, AccessibleFile DEF Refusal, RunInv, Chosen
  <2>4. \A m : DOMAIN m = LoadArea => /\ DOMAIN LoadAll(m, File.segs) = LoadArea
                                      /\ LoadAll(m, File.segs)[a] = Content(File, a)
    BY <2>3, LoadSays
  <2>5. ram' = IF driver THEN LoadAll(LoadAll(ram, File.segs), File.segs) ELSE LoadAll(ram, File.segs)
    BY <2>1, <2>2 DEF Load
  <2>6. QED
    BY <2>3, <2>4, <2>5
<1>2. RunInv /\ [ProgramsNext]_programs_vars => [Starts]_programs_vars
  BY <1>1
<1>3. QED
  BY <1>2, RunInit, RunStep, PTL DEF ProgramsSpec, StartsFromItsFile

\* A request that cannot wrap is rounded up, and ends where a sum says.
LEMMA ProgramsEnd ==
  ASSUME H!NoWrap, NEW n \in Requests, current \in HeapStart..(HeapStart + HeapSize)
  PROVE  /\ n \in Nat /\ H!Aligned(n) \in Nat
         /\ H!NewEnd(H!Aligned(n)) = current + 24 + H!Aligned(n)
<1>1. n \in Nat /\ HeapStart \in Nat /\ HeapSize \in Nat /\ WordSize \in Nat
      /\ HeapStart + HeapSize + 24 + n + 7 < WordSize
  BY ProgramsHeap DEF H!NoWrap, H!HeapAssumption, H!HeapEnd, H!Header
<1>2. H!Word(n + 7) = n + 7
  BY <1>1 DEF H!Word
<1>3. H!Aligned(n) \in Nat /\ H!Aligned(n) <= n + 7
  BY <1>1, <1>2 DEF H!Aligned
<1>4. current + 24 + H!Aligned(n) < WordSize
  BY <1>1, <1>3
<1>5. H!NewEnd(H!Aligned(n)) = current + 24 + H!Aligned(n)
  BY <1>4 DEF H!NewEnd, H!Word, H!Header
<1>6. QED
  BY <1>1, <1>3, <1>5

LEMMA HeapTypeStep == ASSUME H!NoWrap, H!TypeOK, [H!Next]_heap PROVE H!TypeOK'
<1> DEFINE B == [addr : Nat, size : Nat, used : BOOLEAN]
<1>0. /\ blocks \in Seq(B) /\ current \in HeapStart..(HeapStart + HeapSize)
      /\ held \in [Clients -> SUBSET Nat] /\ asked \in Nat
      /\ HeapStart \in Nat /\ HeapSize \in Nat
  BY ProgramsHeap DEF H!TypeOK, H!Block, H!HeapEnd, H!HeapAssumption
<1>1. \A i \in DOMAIN blocks : blocks[i] \in B
  <2> HIDE DEF B
  <2>1. QED
    BY <1>0, ElementOfSeq
<1>2. ASSUME NEW i \in DOMAIN blocks, NEW flag \in BOOLEAN PROVE H!SetUsed(i, flag) \in Seq(B)
  <2>1. i \in 1..Len(blocks) /\ Len(blocks) \in Nat
    BY <1>0
  <2>2. [blocks[i] EXCEPT !.used = flag] \in B
    BY <1>1
  <2>3. [blocks EXCEPT ![i] = [blocks[i] EXCEPT !.used = flag]] \in Seq(B)
    <3> HIDE DEF B
    <3>1. QED
      BY <1>0, <2>1, <2>2, ExceptSeq
  <2>4. QED
    BY <2>3 DEF H!SetUsed
<1>3. ASSUME NEW c \in Clients, NEW n \in Requests, H!MallocReuse(c, n) PROVE H!TypeOK'
  <2>1. PICK i \in DOMAIN blocks :
          /\ blocks' = H!SetUsed(i, TRUE) /\ held' = [held EXCEPT ![c] = @ \cup {H!Payload(blocks[i])}]
          /\ asked' = n /\ UNCHANGED current
    BY <1>3 DEF H!MallocReuse
  <2>2. n \in Nat
    BY <1>0, ProgramsEnd
  <2>3. H!Payload(blocks[i]) \in Nat
    BY <1>1 DEF H!Payload, H!Header
  <2>4. QED
    BY <1>0, <1>2, <2>1, <2>2, <2>3 DEF H!TypeOK, H!Block, H!HeapEnd
<1>4. ASSUME NEW c \in Clients, NEW n \in Requests, H!MallocExtend(c, n) PROVE H!TypeOK'
  <2> DEFINE size == H!Aligned(n)
  <2>1. n \in Nat /\ size \in Nat /\ H!NewEnd(size) = current + 24 + size
    BY <1>0, ProgramsEnd
  <2>2. /\ blocks' = Append(blocks, [addr |-> current, size |-> size, used |-> TRUE])
        /\ current' = H!NewEnd(size) /\ H!NewEnd(size) <= HeapStart + HeapSize
        /\ held' = [held EXCEPT ![c] = @ \cup {current + 24}] /\ asked' = n
    BY <1>4 DEF H!MallocExtend, H!HeapEnd, H!Header
  <2> HIDE DEF size
  <2>3. current' \in HeapStart..(HeapStart + HeapSize)
    BY <1>0, <2>1, <2>2
  <2>4. blocks' \in Seq(B)
    BY <1>0, <2>1, <2>2
  <2>5. QED
    BY <1>0, <2>1, <2>2, <2>3, <2>4 DEF H!TypeOK, H!Block, H!HeapEnd
<1>5. ASSUME NEW n \in Requests, H!MallocFull(n) PROVE H!TypeOK'
  <2>1. n \in Nat
    BY <1>0, ProgramsEnd
  <2>2. QED
    BY <1>0, <1>5, <2>1 DEF H!MallocFull, H!TypeOK, H!Block, H!HeapEnd
<1>6. ASSUME NEW c \in Clients, NEW p \in held[c], H!Free(c, p) PROVE H!TypeOK'
  <2>1. PICK i \in DOMAIN blocks : blocks' = H!SetUsed(i, FALSE)
    BY <1>6 DEF H!Free, H!Release
  <2>2. held' = [held EXCEPT ![c] = @ \ {p}] /\ UNCHANGED <<current, asked>>
    BY <1>6 DEF H!Free
  <2>3. QED
    BY <1>0, <1>2, <2>1, <2>2 DEF H!TypeOK, H!Block, H!HeapEnd
<1>7. CASE UNCHANGED heap
  BY <1>0, <1>7 DEF heap, H!TypeOK, H!Block, H!HeapEnd
<1>8. QED
  BY <1>3, <1>4, <1>5, <1>6, <1>7 DEF H!Next

\* The types, those of the heap included, hold under every load and every program, for files,
\* sizes and addresses that cannot wrap (kernel64.cpp 612-697).
THEOREM ProgramsTypes == ASSUME H!NoWrap PROVE ProgramsSpec => []ProgramsTypeOK
<1>1. ProgramsInit => H!TypeOK
  BY ProgramsHeap DEF ProgramsInit, H!Init, H!TypeOK, H!HeapAssumption, H!HeapEnd
<1>2. RunInv /\ H!TypeOK /\ [ProgramsNext]_programs_vars => H!TypeOK'
  BY HeapStep, HeapTypeStep
<1>3. RunInv /\ H!TypeOK => ProgramsTypeOK
  BY DEF RunInv, ProgramsTypeOK
<1>4. QED
  BY <1>1, <1>2, <1>3, RunInit, RunStep, PTL DEF ProgramsSpec

-----------------------------------------------------------------------------
(***************************************************************************)
(* Words and real-mode addresses.                                          *)
(***************************************************************************)
LEMMA Remainder ==
  ASSUME NEW w \in Nat, NEW n \in Nat \ {0}
  PROVE  /\ w % n \in 0..(n - 1) /\ w \div n \in Nat /\ w = (w % n) + (w \div n) * n
         /\ w < n => w % n = w
         /\ w < n * n => w \div n < n
  OBVIOUS

LEMMA Wraps ==
  ASSUME NEW w \in Nat, NEW n \in Nat \ {0}, NEW q \in Nat, w < n
  PROVE  (w + q * n) % n = w
  OBVIOUS

LEMMA SumOfRemainder ==
  ASSUME NEW w \in Nat, NEW n \in Nat \ {0}, NEW l \in Nat
  PROVE  ((w % n) + l) % n = (w + l) % n
<1> DEFINE r == w % n
           q == w \div n
           t == r + l
           s == t % n
           p == t \div n
<1>1. r \in Nat /\ q \in Nat /\ w = r + q * n
  BY Remainder
<1> HIDE DEF r, q
<1>2. s \in Nat /\ s < n /\ p \in Nat /\ r + l = s + p * n
  <2>1. t \in Nat
    BY <1>1
  <2>2. s \in 0..(n - 1) /\ p \in Nat /\ t = s + p * n
    <3> HIDE DEF t
    <3>1. QED
      BY <2>1, Remainder
  <2> HIDE DEF s, p
  <2>3. QED
    BY <2>2 DEF t
<1> HIDE DEF t, s, p
<1>3. w + l = s + (p + q) * n
  <2>1. (p + q) * n = p * n + q * n
    BY <1>1, <1>2
  <2>2. p * n \in Nat /\ q * n \in Nat
    BY <1>1, <1>2
  <2>3. QED
    BY <1>1, <1>2, <2>1, <2>2
<1>4. (w + l) % n = s
  <2>1. p + q \in Nat
    BY <1>1, <1>2
  <2>2. QED
    BY <1>2, <1>3, <2>1, Wraps
<1>5. QED
  BY <1>4 DEF r, s, t

LEMMA ByteFacts == Byte \in Nat \ {0} /\ 0 \in Bytes /\ Word \in Nat \ {0} /\ load_seg \in Nat /\ load_seg < Word
                   /\ PspSeg \in Nat /\ PspSeg <= load_seg
  BY ProgramsAssumption DEF Bytes, Word, load_seg

LEMMA WordOf ==
  ASSUME NEW lo \in Bytes, NEW hi \in Bytes
  PROVE  lo + Byte * hi \in Nat /\ lo + Byte * hi < Word
<1>1. Byte \in Nat /\ lo \in Nat /\ hi \in Nat /\ lo <= Byte - 1 /\ hi <= Byte - 1
  BY ByteFacts DEF Bytes
<1>2. Byte * hi <= Byte * (Byte - 1)
  BY <1>1
<1>3. Byte * (Byte - 1) = Byte * Byte - Byte
  BY <1>1
<1>4. QED
  BY <1>1, <1>2, <1>3 DEF Word

LEMMA ShiftedOnce ==
  ASSUME NEW w \in Nat, NEW n \in Nat
  PROVE  /\ Shifted(w, n) \in Nat
         /\ (Shifted(w, n) + load_seg) % Word = Shifted(w, n + 1)
         /\ w < Word => Shifted(w, 0) = w
<1> DEFINE x == w + n * load_seg
<1>1. x \in Nat /\ w + (n + 1) * load_seg = x + load_seg /\ w + 0 * load_seg = w
  BY ByteFacts
<1>2. Shifted(w, n) = x % Word /\ Shifted(w, n + 1) = (x + load_seg) % Word /\ Shifted(w, 0) = w % Word
  BY <1>1 DEF Shifted
<1> HIDE DEF x
<1>3. ((x % Word) + load_seg) % Word = (x + load_seg) % Word /\ x % Word \in Nat
  <2>1. ((x % Word) + load_seg) % Word = (x + load_seg) % Word
    BY <1>1, ByteFacts, SumOfRemainder
  <2>2. x % Word \in 0..(Word - 1)
    BY <1>1, ByteFacts, Remainder
  <2> HIDE DEF x
  <2>3. QED
    BY <2>1, <2>2, ByteFacts
<1>4. w < Word => w % Word = w
  BY ByteFacts, Remainder
<1>5. QED
  BY <1>2, <1>3, <1>4

\* An address whose segment does not wrap.
LEMMA LinearIs ==
  ASSUME NEW seg \in Nat, seg < Word, NEW off
  PROVE  linear(seg, off) = seg * Paragraph + off
  BY ByteFacts, Remainder DEF linear

LEMMA LoadAddress ==
  /\ linear(load_seg, 0) = load_seg * Paragraph /\ linear(load_seg, 0) \in Nat
  /\ linear(PspSeg, 0) = PspSeg * Paragraph /\ linear(PspSeg, 0) \in Nat
  /\ \A off \in DOMAIN PspBytes : /\ linear(PspSeg, off) = PspSeg * Paragraph + off
                                  /\ linear(PspSeg, off) \in 0..(linear(load_seg, 0) - 1)
                                  /\ linear(PspSeg, off) - linear(PspSeg, 0) = off
<1>1. Paragraph \in Nat /\ PspParagraphs \in Nat /\ load_seg = PspSeg + PspParagraphs
  BY ProgramsAssumption DEF load_seg
<1>2. load_seg * Paragraph = PspSeg * Paragraph + PspParagraphs * Paragraph
  BY <1>1, ByteFacts
<1>3. load_seg * Paragraph \in Nat /\ PspSeg * Paragraph \in Nat
  BY <1>1, ByteFacts
<1>4. /\ linear(load_seg, 0) = load_seg * Paragraph + 0 /\ linear(PspSeg, 0) = PspSeg * Paragraph + 0
      /\ \A off : linear(PspSeg, off) = PspSeg * Paragraph + off
  BY ByteFacts, LinearIs
<1>5. \A off \in DOMAIN PspBytes : off \in 0..(PspParagraphs * Paragraph - 1)
  BY ProgramsAssumption
<1> DEFINE under == PspSeg * Paragraph
           psp   == PspParagraphs * Paragraph
           at    == load_seg * Paragraph
<1>6. psp \in Int
  BY <1>1
<1> HIDE DEF under, psp, at
<1>7. at = under + psp /\ at \in Nat /\ under \in Nat
  BY <1>2, <1>3 DEF at, under, psp
<1>8. \A off \in DOMAIN PspBytes : off \in 0..(psp - 1) /\ linear(PspSeg, off) = under + off
  BY <1>4, <1>5 DEF under, psp
<1>9. linear(load_seg, 0) = at /\ linear(PspSeg, 0) = under
  BY <1>3, <1>4 DEF at, under
<1>10. \A off \in DOMAIN PspBytes : linear(PspSeg, off) \in 0..(at - 1) /\ linear(PspSeg, off) - under = off
  BY <1>6, <1>7, <1>8
<1>11. QED
  BY <1>7, <1>8, <1>9, <1>10 DEF at, under

\* A segment of an MZ file that lies in the memory does not wrap where the image is.
LEMMA NoSegmentWraps ==
  ASSUME NEW seg \in Words, NEW off \in Words, linear(load_seg, 0) + linear(seg, off) < RmSize
  PROVE  /\ linear(load_seg + seg, off) = linear(load_seg, 0) + linear(seg, off)
         /\ linear((load_seg + seg) % Word, off) = linear(load_seg, 0) + linear(seg, off)
         /\ linear(seg, off) \in Nat
<1>1. seg \in Nat /\ seg < Word /\ off \in Nat /\ Paragraph \in Nat \ {0} /\ RmSize \in Nat
      /\ RmSize <= Word * Paragraph
  BY ByteFacts, ProgramsAssumption DEF Words
<1>2. linear(seg, off) = seg * Paragraph + off
  BY <1>1, LinearIs
<1>3. (load_seg + seg) * Paragraph = load_seg * Paragraph + seg * Paragraph
  BY <1>1, ByteFacts
<1>4. load_seg * Paragraph \in Nat /\ seg * Paragraph \in Nat
  BY <1>1, ByteFacts
<1>5. load_seg + seg < Word
  <2> SUFFICES ASSUME load_seg + seg >= Word PROVE FALSE
    BY <1>1, ByteFacts
  <2>1. (load_seg + seg) * Paragraph >= Word * Paragraph
    BY <1>1, ByteFacts
  <2>2. (load_seg + seg) * Paragraph + off < RmSize
    BY <1>1, <1>2, <1>3, <1>4, LoadAddress
  <2>3. Word * Paragraph \in Nat
    BY <1>1, ByteFacts
  <2>4. QED
    BY <1>1, <1>3, <1>4, <2>1, <2>2, <2>3
<1>6. (load_seg + seg) % Word = load_seg + seg
  <2> DEFINE x == load_seg + seg
  <2>1. x \in Nat /\ x < Word
    BY <1>1, <1>5, ByteFacts
  <2> HIDE DEF x
  <2>2. x % Word = x
    BY <2>1, ByteFacts, Remainder
  <2>3. QED
    BY <2>2 DEF x
<1>7. linear(load_seg + seg, off) = (load_seg + seg) * Paragraph + off
  BY <1>1, <1>5, ByteFacts, LinearIs
<1>8. QED
  BY <1>1, <1>2, <1>3, <1>4, <1>6, <1>7, LoadAddress

-----------------------------------------------------------------------------
(***************************************************************************)
(* The image of a DOS program in its memory.                               *)
(***************************************************************************)
Spots(f) == {Spot(f, k) : k \in 1..f.count}
Patches(f, n, a) == Cardinality({k \in 1..n : Spot(f, k) = a})
FileByte(f, a) == f.image[a - linear(load_seg, 0) + 1]
ImageOf(f) == linear(load_seg, 0)..(linear(load_seg, 0) + Len(f.image) - 1)

\* The memory m when the first n relocations of file f were applied.
Relocated(m, f, n) ==
  /\ linear(load_seg, 0) + Len(f.image) < RmSize
  /\ m \in [0..(RmSize - 1) -> Bytes]
  /\ \A a \in Spots(f) : m[a] + Byte * m[a + 1] = Shifted(FileByte(f, a) + Byte * FileByte(f, a + 1), Patches(f, n, a))
  /\ \A a \in ImageOf(f) : a \notin Spots(f) /\ a - 1 \notin Spots(f) => m[a] = FileByte(f, a)
  /\ \A off \in DOMAIN PspBytes : m[linear(PspSeg, off)] = PspBytes[off]

LEMMA SpotFacts ==
  ASSUME NEW f, MzFile(f), Orderly(f), linear(load_seg, 0) + Len(f.image) < RmSize, NEW k \in 1..f.count
  PROVE  /\ Spot(f, k) \in ImageOf(f) /\ Spot(f, k) + 1 \in ImageOf(f)
         /\ Spot(f, k) \in Nat /\ Spot(f, k) + 1 < RmSize
         /\ linear(load_seg + f.relocs[k].segment, f.relocs[k].offset) = Spot(f, k)
<1> DEFINE seg == f.relocs[k].segment
           off == f.relocs[k].offset
           at  == linear(load_seg, 0)
<1>1. seg \in Words /\ off \in Words /\ Len(f.image) \in Nat
  <2> DEFINE T == [segment : Words, offset : Words]
  <2>1. f.relocs[k] \in T
    <3>1. f.relocs \in Seq(T) /\ k \in 1..Len(f.relocs)
      BY DEF MzFile
    <3> HIDE DEF T
    <3>2. QED
      BY <3>1, ElementOfSeq
  <2>2. QED
    BY <2>1 DEF MzFile
<1>2. Spot(f, k) = at + linear(seg, off)
  BY DEF Spot
<1> HIDE DEF seg, off
<1>3. linear(seg, off) \in Nat
  <2>1. seg \in Nat /\ seg < Word /\ off \in Nat /\ Paragraph \in Nat
    BY <1>1, ByteFacts, ProgramsAssumption DEF Words
  <2>2. seg * Paragraph \in Nat
    BY <2>1
  <2>3. QED
    BY <2>1, <2>2, LinearIs
<1>4. Spot(f, k) + 1 < at + Len(f.image)
  BY DEF Orderly
<1>5. at \in Nat /\ RmSize \in Nat
  BY LoadAddress, ProgramsAssumption
<1> HIDE DEF at
<1>6. at + linear(seg, off) < RmSize
  BY <1>1, <1>2, <1>3, <1>4, <1>5 DEF at
<1>7. linear(load_seg + seg, off) = at + linear(seg, off)
  BY <1>1, <1>6, NoSegmentWraps DEF at
<1>8. Spot(f, k) \in at..(at + Len(f.image) - 1) /\ Spot(f, k) + 1 \in at..(at + Len(f.image) - 1)
      /\ Spot(f, k) \in Nat /\ Spot(f, k) + 1 < RmSize
  BY <1>1, <1>2, <1>3, <1>4, <1>5 DEF at
<1>9. QED
  BY <1>2, <1>7, <1>8 DEF at, seg, off, ImageOf

\* The bytes of the image are those of the file.
LEMMA FileBytes ==
  ASSUME NEW f, MzFile(f), NEW a \in ImageOf(f)
  PROVE  FileByte(f, a) \in Bytes
<1> DEFINE at == linear(load_seg, 0)
<1>1. at \in Nat /\ Len(f.image) \in Nat /\ f.image \in Seq(Bytes)
  BY LoadAddress DEF MzFile
<1> HIDE DEF at
<1>2. a - at + 1 \in 1..Len(f.image)
  BY <1>1 DEF ImageOf, at
<1>3. f.image[a - at + 1] \in Bytes
  BY <1>1, <1>2
<1>4. QED
  BY <1>3 DEF FileByte, at

LEMMA SpotWord ==
  ASSUME NEW f, MzFile(f), Orderly(f), linear(load_seg, 0) + Len(f.image) < RmSize, NEW a \in Spots(f)
  PROVE  /\ FileByte(f, a) + Byte * FileByte(f, a + 1) \in Nat
         /\ FileByte(f, a) + Byte * FileByte(f, a + 1) < Word
<1>1. a \in ImageOf(f) /\ a + 1 \in ImageOf(f)
  BY SpotFacts DEF Spots
<1>2. QED
  BY <1>1, FileBytes, WordOf

\* One more relocation counts for its own word alone.
LEMMA PatchesFacts ==
  ASSUME NEW f, NEW n \in Nat, NEW a
  PROVE  /\ Patches(f, 0, a) = 0
         /\ Patches(f, n, a) \in Nat
         /\ Patches(f, n + 1, a) = IF Spot(f, n + 1) = a THEN Patches(f, n, a) + 1 ELSE Patches(f, n, a)
<1> DEFINE S(m) == {k \in 1..m : Spot(f, k) = a}
<1>1. S(0) = {} /\ Cardinality({}) = 0
  BY FS_EmptySet
<1>2. IsFiniteSet(S(n)) /\ Cardinality(S(n)) \in Nat
  <2>1. IsFiniteSet(1..n)
    BY FS_Interval
  <2>2. S(n) \subseteq 1..n
    OBVIOUS
  <2>3. IsFiniteSet(S(n))
    <3> HIDE DEF S
    <3>1. QED
      BY <2>1, <2>2, FS_Subset
  <2>4. QED
    <3> HIDE DEF S
    <3>1. QED
      BY <2>3, FS_CardinalityType
<1>3. CASE Spot(f, n + 1) = a
  <2>1. S(n + 1) = S(n) \cup {n + 1} /\ n + 1 \notin S(n)
    BY <1>3
  <2>2. Cardinality(S(n + 1)) = Cardinality(S(n)) + 1
    <3> HIDE DEF S
    <3>1. QED
      BY <1>2, <2>1, FS_AddElement
  <2>3. QED
    BY <1>1, <1>2, <1>3, <2>2 DEF Patches
<1>4. CASE Spot(f, n + 1) # a
  <2>1. S(n + 1) = S(n)
    BY <1>4
  <2>2. Cardinality(S(n + 1)) = Cardinality(S(n))
    BY <2>1
  <2>3. QED
    BY <1>1, <1>2, <1>4, <2>2 DEF Patches
<1>5. QED
  BY <1>3, <1>4

\* The word that Patched stores is the one it read plus the segment.
LEMMA PatchedWord ==
  ASSUME NEW m \in [0..(RmSize - 1) -> Bytes], NEW s \in Nat, s + 1 < RmSize
  PROVE  LET p == Patched(m, s)
         IN  /\ p \in [0..(RmSize - 1) -> Bytes]
             /\ p[s] + Byte * p[s + 1] = (m[s] + Byte * m[s + 1] + load_seg) % Word
             /\ \A a \in 0..(RmSize - 1) : a # s /\ a # s + 1 => p[a] = m[a]
<1> DEFINE w == (m[s] + Byte * m[s + 1] + load_seg) % Word
           p == [m EXCEPT ![s] = w % Byte, ![s + 1] = w \div Byte]
<1>1. s \in 0..(RmSize - 1) /\ s + 1 \in 0..(RmSize - 1) /\ s # s + 1 /\ RmSize \in Nat
  BY ProgramsAssumption
<1>2. m[s] + Byte * m[s + 1] \in Nat
  BY <1>1, WordOf
<1>3. w \in Nat /\ w < Word
  <2> DEFINE x == m[s] + Byte * m[s + 1] + load_seg
  <2>1. x \in Nat
    BY <1>2, ByteFacts
  <2> HIDE DEF x
  <2>2. x % Word \in 0..(Word - 1)
    BY <2>1, ByteFacts, Remainder
  <2>3. w = x % Word
    BY DEF x
  <2> HIDE DEF w
  <2>4. QED
    BY <2>2, <2>3, ByteFacts
<1>4. Patched(m, s) = p
  BY DEF Patched
<1> HIDE DEF w
<1> DEFINE lo == w % Byte
           hi == w \div Byte
<1>5. lo \in 0..(Byte - 1) /\ hi \in Nat /\ hi < Byte /\ w = lo + hi * Byte
  BY <1>3, ByteFacts, Remainder DEF Word
<1>6. lo \in Bytes /\ hi \in Bytes /\ lo + Byte * hi = w
  <2> HIDE DEF lo, hi
  <2>1. hi * Byte = Byte * hi
    BY <1>5, ByteFacts
  <2>2. QED
    BY <1>5, <2>1, ByteFacts DEF Bytes
<1>7. p = [m EXCEPT ![s] = lo, ![s + 1] = hi]
  OBVIOUS
<1> HIDE DEF p, lo, hi
<1>8. /\ p \in [0..(RmSize - 1) -> Bytes] /\ p[s] = lo /\ p[s + 1] = hi
      /\ \A a \in 0..(RmSize - 1) : a # s /\ a # s + 1 => p[a] = m[a]
  BY <1>1, <1>6, <1>7
<1>9. p[s] + Byte * p[s + 1] = w
  BY <1>6, <1>8
<1>10. QED
  BY <1>4, <1>8, <1>9 DEF w

LEMMA PatchStep ==
  ASSUME NEW f, MzFile(f), Orderly(f), NEW n \in Nat, n < f.count, NEW m, Relocated(m, f, n)
  PROVE  Relocated(Patched(m, Spot(f, n + 1)), f, n + 1)
<1> DEFINE s == Spot(f, n + 1)
           p == Patched(m, s)
           word(a) == FileByte(f, a) + Byte * FileByte(f, a + 1)
<1>1. f.count \in Nat /\ n + 1 \in 1..f.count
  BY DEF MzFile
<1>2. /\ linear(load_seg, 0) + Len(f.image) < RmSize /\ m \in [0..(RmSize - 1) -> Bytes]
      /\ \A a \in Spots(f) : m[a] + Byte * m[a + 1] = Shifted(word(a), Patches(f, n, a))
      /\ \A a \in ImageOf(f) : a \notin Spots(f) /\ a - 1 \notin Spots(f) => m[a] = FileByte(f, a)
      /\ \A off \in DOMAIN PspBytes : m[linear(PspSeg, off)] = PspBytes[off]
  BY DEF Relocated
<1>3. s \in ImageOf(f) /\ s \in Nat /\ s + 1 < RmSize /\ s \in Spots(f)
  BY <1>1, <1>2, SpotFacts DEF Spots
<1>4. /\ p \in [0..(RmSize - 1) -> Bytes]
      /\ p[s] + Byte * p[s + 1] = (m[s] + Byte * m[s + 1] + load_seg) % Word
      /\ \A a \in 0..(RmSize - 1) : a # s /\ a # s + 1 => p[a] = m[a]
  BY <1>2, <1>3, PatchedWord
<1>5. \A a \in Spots(f) : a \in Nat /\ a + 1 < RmSize /\ a # s + 1 /\ s # a + 1
  BY <1>1, <1>2, SpotFacts DEF Spots, Orderly
<1>6. RmSize \in Nat /\ linear(load_seg, 0) \in Nat /\ Len(f.image) \in Nat
  BY ProgramsAssumption, LoadAddress DEF MzFile
<1> HIDE DEF s, p
<1>7. ASSUME NEW a \in Spots(f) PROVE p[a] + Byte * p[a + 1] = Shifted(word(a), Patches(f, n + 1, a))
  <2>1. word(a) \in Nat /\ word(a) < Word
    BY <1>2, SpotWord
  <2>2. m[a] + Byte * m[a + 1] = Shifted(word(a), Patches(f, n, a)) /\ Patches(f, n, a) \in Nat
    BY <1>2, PatchesFacts
  <2> HIDE DEF word
  <2>3. CASE a = s
    <3>1. Patches(f, n + 1, a) = Patches(f, n, a) + 1
      BY <2>3, PatchesFacts DEF s
    <3>2. (Shifted(word(a), Patches(f, n, a)) + load_seg) % Word = Shifted(word(a), Patches(f, n, a) + 1)
      BY <2>1, <2>2, ShiftedOnce
    <3>3. QED
      BY <1>4, <2>2, <2>3, <3>1, <3>2
  <2>4. CASE a # s
    <3>1. Patches(f, n + 1, a) = Patches(f, n, a)
      BY <2>4, PatchesFacts DEF s
    <3>2. p[a] = m[a] /\ p[a + 1] = m[a + 1]
      BY <1>3, <1>4, <1>5, <1>6, <2>4
    <3>3. QED
      BY <2>2, <3>1, <3>2
  <2>5. QED
    BY <2>3, <2>4
<1>8. ASSUME NEW a \in ImageOf(f), a \notin Spots(f), a - 1 \notin Spots(f) PROVE p[a] = FileByte(f, a)
  <2>1. a \in 0..(RmSize - 1)
    BY <1>2, <1>6 DEF ImageOf
  <2>2. a # s /\ a # s + 1
    BY <1>3, <1>8, <2>1
  <2>3. QED
    BY <1>2, <1>4, <1>8, <2>1, <2>2
<1>9. ASSUME NEW off \in DOMAIN PspBytes PROVE p[linear(PspSeg, off)] = PspBytes[off]
  <2>1. linear(PspSeg, off) \in 0..(linear(load_seg, 0) - 1)
    BY LoadAddress
  <2>2. linear(PspSeg, off) \in 0..(RmSize - 1) /\ linear(PspSeg, off) # s /\ linear(PspSeg, off) # s + 1
    BY <1>2, <1>3, <1>6, <2>1 DEF ImageOf
  <2>3. QED
    BY <1>2, <1>4, <2>2
<1>10. Relocated(p, f, n + 1)
  BY <1>2, <1>4, <1>7, <1>8, <1>9 DEF Relocated
<1>11. QED
  BY <1>10 DEF p, s

\* What CopyImage leaves.
LEMMA CopyStep ==
  ASSUME NEW f, MzFile(f), Orderly(f), NEW m, m = [a \in 0..(RmSize - 1) |-> 0],
         linear(load_seg, 0) + Len(f.image) < RmSize,
         NEW c, c = [a \in DOMAIN prepare_dos_environment(m) |->
                       IF a \in ImageOf(f) THEN FileByte(f, a) ELSE prepare_dos_environment(m)[a]]
  PROVE  Relocated(c, f, 0)
<1> DEFINE e == prepare_dos_environment(m)
           word(a) == FileByte(f, a) + Byte * FileByte(f, a + 1)
<1>1. RmSize \in Nat /\ linear(load_seg, 0) \in Nat /\ Len(f.image) \in Nat
  BY ProgramsAssumption, LoadAddress DEF MzFile
<1>2. /\ DOMAIN e = 0..(RmSize - 1)
      /\ \A a \in 0..(RmSize - 1) : e[a] = IF a - linear(PspSeg, 0) \in DOMAIN PspBytes
                                           THEN PspBytes[a - linear(PspSeg, 0)] ELSE 0
  BY DEF prepare_dos_environment
<1>3. \A a \in 0..(RmSize - 1) : e[a] \in Bytes
  BY <1>2, ProgramsAssumption, ByteFacts
<1>4. c = [a \in DOMAIN e |-> IF a \in ImageOf(f) THEN FileByte(f, a) ELSE e[a]]
  OBVIOUS
<1> HIDE DEF e
<1>5. c \in [0..(RmSize - 1) -> Bytes]
  <2>1. \A a \in ImageOf(f) : FileByte(f, a) \in Bytes
    BY FileBytes
  <2>2. QED
    BY <1>2, <1>3, <1>4, <2>1
<1>6. \A a \in ImageOf(f) : c[a] = FileByte(f, a)
  BY <1>1, <1>2, <1>4 DEF ImageOf
<1>7. ASSUME NEW a \in Spots(f) PROVE c[a] + Byte * c[a + 1] = Shifted(word(a), Patches(f, 0, a))
  <2>1. a \in ImageOf(f) /\ a + 1 \in ImageOf(f)
    BY SpotFacts DEF Spots
  <2>2. word(a) \in Nat /\ word(a) < Word
    BY SpotWord
  <2>3. c[a] + Byte * c[a + 1] = word(a)
    BY <1>6, <2>1
  <2>4. Patches(f, 0, a) = 0
    BY PatchesFacts
  <2> HIDE DEF word
  <2>5. QED
    BY <2>2, <2>3, <2>4, ShiftedOnce
<1>8. ASSUME NEW off \in DOMAIN PspBytes PROVE c[linear(PspSeg, off)] = PspBytes[off]
  <2>1. linear(PspSeg, off) \in 0..(linear(load_seg, 0) - 1) /\ linear(PspSeg, off) - linear(PspSeg, 0) = off
    BY LoadAddress
  <2>2. linear(PspSeg, off) \in 0..(RmSize - 1) /\ linear(PspSeg, off) \notin ImageOf(f)
    BY <1>1, <2>1 DEF ImageOf
  <2>3. QED
    BY <1>2, <1>4, <2>1, <2>2
<1>9. QED
  BY <1>5, <1>6, <1>7, <1>8 DEF Relocated

\* The memory of the DOS program in each step of its load: cleared until the image is copied,
\* then the image with as many relocations applied as were read.
DosInv ==
  /\ pc \in {"psp", "copy"} => rm = [a \in 0..(RmSize - 1) |-> 0]
  /\ pc \in {"relocate", "execute"} /\ image = File /\ Orderly(File) =>
       reloc \in 0..File.count /\ Relocated(rm, File, reloc)
  /\ pc = "execute" /\ image = File /\ Orderly(File) =>
       /\ reloc = File.count
       /\ linear(regs.cs, regs.ip) = linear(load_seg, 0) + linear(File.cs, File.ip)

LEMMA DosCopy == ASSUME RunInv, DosInv, CopyImage PROVE DosInv'
<1>1. pc = "copy" /\ image.kind = "mz" /\ rm = [a \in 0..(RmSize - 1) |-> 0] /\ UNCHANGED <<name, image>>
  BY DEF RunInv, Chosen, DosInv, CopyImage, run
<1>2. MzFile(image)
  BY <1>1, AccessibleFile DEF RunInv, Chosen
<1>3. File' = File
  BY <1>1 DEF File
<1>4. pc' \in {"relocate", "undo_psp"} /\ reloc' = 0
  BY DEF CopyImage, Abandon, Goto
<1>5. ASSUME pc' = "relocate", image = File, Orderly(File)
      PROVE  reloc' \in 0..File.count /\ Relocated(rm', File, reloc')
  <2> DEFINE at == linear(load_seg, 0)
             m  == prepare_dos_environment(rm)
  <2>1. MzFile(File)
    BY <1>2, <1>5
  <2>2. image.size - image.header = Len(File.image) /\ Len(File.image) \in Nat /\ File.count \in Nat
    BY <1>5, <2>1 DEF MzFile
  <2>3. ~ (at + Len(File.image) >= RmSize)
        /\ rm' = [a \in DOMAIN m |-> IF a \in at..(at + Len(File.image) - 1)
                                     THEN File.image[a - at + 1] ELSE m[a]]
    BY <1>5, <2>2 DEF CopyImage, Abandon, Goto
  <2>4. at + Len(File.image) < RmSize
    BY <2>2, <2>3, LoadAddress, ProgramsAssumption
  <2>5. rm' = [a \in DOMAIN m |-> IF a \in ImageOf(File) THEN FileByte(File, a) ELSE m[a]]
    BY <2>3 DEF ImageOf, FileByte
  <2> HIDE DEF m
  <2>6. Relocated(rm', File, 0)
    BY <1>1, <1>5, <2>1, <2>4, <2>5, CopyStep DEF m
  <2>7. QED
    BY <1>4, <2>2, <2>6
<1>6. (rm' = [a \in 0..(RmSize - 1) |-> 0]) \/ pc' \notin {"psp", "copy"}
  BY <1>4
<1>7. pc' = "relocate" /\ image' = File' /\ Orderly(File') =>
        reloc' \in 0..File'.count /\ Relocated(rm', File', reloc')
  BY <1>1, <1>3, <1>5
<1>8. QED
  BY <1>4, <1>7 DEF DosInv, Relocated

LEMMA DosRelocate == ASSUME RunInv, DosInv, Relocate PROVE DosInv'
<1>1. pc = "relocate" /\ image.kind = "mz" /\ UNCHANGED <<name, image>> /\ reloc \in Nat
  BY DEF RunInv, Chosen, Relocate, run
<1>2. MzFile(image)
  BY <1>1, AccessibleFile DEF RunInv, Chosen
<1>3. File' = File
  BY <1>1 DEF File
<1>4. pc' \in {"relocate", "undo_psp"}
  BY <1>1 DEF Relocate, Abandon, Goto
<1>5. ASSUME pc' = "relocate", image = File, Orderly(File)
      PROVE  reloc' \in 0..File.count /\ Relocated(rm', File, reloc')
  <2> DEFINE entry == File.relocs[reloc + 1]
             a == linear(load_seg + entry.segment, entry.offset)
  <2>1. MzFile(File) /\ reloc < File.count /\ Relocated(rm, File, reloc) /\ File.count \in Nat
    BY <1>1, <1>2, <1>5 DEF DosInv, Relocate, MzFile
  <2>2. rm' = Patched(rm, a) /\ reloc' = reloc + 1
    BY <1>5 DEF Relocate, Abandon, Goto
  <2>3. reloc + 1 \in 1..File.count
    BY <1>1, <2>1
  <2>4. a = Spot(File, reloc + 1)
    BY <1>5, <2>1, <2>3, SpotFacts DEF Relocated
  <2> HIDE DEF a
  <2>5. Relocated(rm', File, reloc + 1)
    BY <1>1, <1>5, <2>1, <2>2, <2>4, PatchStep
  <2>6. QED
    BY <2>2, <2>3, <2>5
<1>6. pc' = "relocate" /\ image' = File' /\ Orderly(File') =>
        reloc' \in 0..File'.count /\ Relocated(rm', File', reloc')
  BY <1>1, <1>3, <1>5
<1>7. QED
  BY <1>4, <1>6 DEF DosInv, Relocated

LEMMA DosRegisters == ASSUME RunInv, DosInv, SetRegisters PROVE DosInv'
<1>1. pc = "relocate" /\ image.kind = "mz" /\ UNCHANGED <<name, image, rm, reloc>> /\ reloc = image.count
      /\ pc' = "execute"
      /\ regs'.cs = (load_seg + image.cs) % Word /\ regs'.ip = image.ip
  BY DEF RunInv, Chosen, SetRegisters, run, Goto
<1>2. MzFile(image)
  BY <1>1, AccessibleFile DEF RunInv, Chosen
<1>3. File' = File
  BY <1>1 DEF File
<1>4. ASSUME image = File, Orderly(File)
      PROVE  /\ reloc \in 0..File.count /\ Relocated(rm, File, reloc) /\ reloc = File.count
             /\ linear(regs'.cs, regs'.ip) = linear(load_seg, 0) + linear(File.cs, File.ip)
  <2>1. reloc \in 0..File.count /\ Relocated(rm, File, reloc)
    BY <1>1, <1>4 DEF DosInv
  <2>2. File.cs \in Words /\ File.ip \in Words /\ Len(File.image) \in Nat
    BY <1>2, <1>4 DEF MzFile
  <2>3. linear(load_seg, 0) + Len(File.image) < RmSize /\ linear(File.cs, File.ip) < Len(File.image)
    BY <1>4, <2>1 DEF Relocated, Orderly
  <2>4. linear(load_seg, 0) + linear(File.cs, File.ip) < RmSize
    <3>1. linear(File.cs, File.ip) \in Int
      BY <2>2, ByteFacts, ProgramsAssumption DEF linear, Words
    <3>2. QED
      BY <2>2, <2>3, <3>1, LoadAddress, ProgramsAssumption
  <2>5. QED
    BY <1>1, <1>4, <2>1, <2>2, <2>4, NoSegmentWraps
<1>5. image' = File' /\ Orderly(File') =>
        /\ reloc' \in 0..File'.count /\ Relocated(rm', File', reloc') /\ reloc' = File'.count
        /\ linear(regs'.cs, regs'.ip) = linear(load_seg, 0) + linear(File'.cs, File'.ip)
  BY <1>1, <1>3, <1>4
<1>6. QED
  BY <1>1, <1>5 DEF DosInv, Relocated

LEMMA DosStep == ASSUME RunInv, DosInv, [ProgramsNext]_programs_vars PROVE DosInv'
<1>1. CASE AllocMem
  <2>1. pc' \in {"free_buf", "psp"} /\ (pc' = "psp" => rm' = [a \in 0..(RmSize - 1) |-> 0])
    BY <1>1 DEF AllocMem, Fails, Goto
  <2>2. QED
    BY <2>1 DEF DosInv
<1>2. CASE AllocPsp
  <2>1. pc' \in {"copy", "undo_mem"} /\ rm' = [a \in 0..(RmSize - 1) |-> 0]
    BY <1>2 DEF AllocPsp, Goto, DosInv, dos
  <2>2. QED
    BY <2>1 DEF DosInv
<1>3. CASE CopyImage \/ Relocate \/ SetRegisters
  BY <1>3, DosCopy, DosRelocate, DosRegisters
<1>4. CASE UNCHANGED <<pc, run, dos>>
  <2>1. File' = File
    BY <1>4 DEF File, run
  <2>2. UNCHANGED <<pc, image, rm, regs, reloc>>
    BY <1>4 DEF run, dos
  <2>3. QED
    BY <2>1, <2>2 DEF DosInv, Relocated
<1>5. CASE pc' \notin {"psp", "copy", "relocate", "execute"}
  BY <1>5 DEF DosInv
<1>6. ASSUME NEW path \in Typed, NEW as_driver \in BOOLEAN, Command(path, as_driver)
      PROVE  pc' = "open"
  BY <1>6 DEF Command, Goto
<1>7. ASSUME Open \/ AllocBuf \/ Read \/ Choose \/ UndoPsp \/ UndoMem \/ Execute \/ FreePsp \/ FreeRealMode
             \/ Load \/ SYS_MALLOC \/ SYS_FREE \/ Leave \/ FreeBuf
      PROVE  UNCHANGED <<pc, run, dos>> \/ pc' \notin {"psp", "copy", "relocate", "execute"}
  BY <1>7 DEF Open, AllocBuf, Read, Choose, UndoPsp, UndoMem, Execute, FreePsp, FreeRealMode, Load, Fails,
     SYS_MALLOC, SYS_FREE, Leave, FreeBuf, Idle, Return, Goto
<1>8. ASSUME Lost \/ Touch \/ SYS_EXIT \/ UNCHANGED programs_vars
      PROVE  UNCHANGED <<pc, run, dos>>
  BY <1>8 DEF Lost, Touch, SYS_EXIT, programs_vars
<1>9. QED
  BY <1>1, <1>2, <1>3, <1>4, <1>5, <1>6, <1>7, <1>8 DEF ProgramsNext

\* When a DOS program starts, its memory holds its file, relocated once for each entry, and its
\* PSP, and CS:IP is the entry point, for every file whose relocations and entry point are in
\* the image (ImageFaithful, mzexe.h 302-357).
THEOREM ProgramsImageFaithful == ProgramsSpec => []ImageFaithful
<1>1. ProgramsInit => DosInv
  BY DEF ProgramsInit, DosInv
<1>2. RunInv /\ DosInv => ImageFaithful
  <2> SUFFICES ASSUME RunInv, DosInv, pc = "execute", image = File, Orderly(File)
               PROVE  ImageFaithful
    BY DEF ImageFaithful
  <2>1. /\ Relocated(rm, File, File.count)
        /\ linear(regs.cs, regs.ip) = linear(load_seg, 0) + linear(File.cs, File.ip)
    BY DEF DosInv
  <2>2. QED
    BY <2>1 DEF ImageFaithful, Relocated, Spots, Patches, FileByte, ImageOf
<1>3. QED
  BY <1>1, <1>2, RunInit, RunStep, DosStep, PTL DEF ProgramsSpec

=============================================================================
