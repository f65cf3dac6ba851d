----------------------------- MODULE InputProofs -----------------------------
(***************************************************************************)
(* Theorems about Input, for every keyboard, every pair of tables, any     *)
(* number of keys held at once and of bytes typed ahead: the flags of the  *)
(* driver say which keys are down, and a key that is read gives the        *)
(* character it stood for when it was typed.                               *)
(*                                                                         *)
(* The argument is about the bytes on their way.  Each one says what was   *)
(* down when it was typed; the driver, read with the first, must hold what *)
(* the second expects, and so on, until the last leaves the keys as they   *)
(* are now.                                                                *)
(***************************************************************************)
EXTENDS Input, SequenceTheorems, TLAPS

MouseBytes == {Packet[1], Packet[2], Packet[3]}

\* What the driver holds, what it should hold when b is read, and when all of them are.
Driver == <<shift, capslock, extended>>
Leaves(b) == <<b.shift, b.lock, b.code = "E0">>
Final == <<ShiftHeld(held), caps, FALSE>>

\* A modifier after E0 is not followed.
Strange(b) == b.ext /\ b.code \in Modifiers

\* What b leaves is what the driver makes of it when it holds d.
Follows(d, b) ==
  \/ Strange(b)
  \/ /\ b.shift = (IF b.code \in Shifts THEN ~b.up ELSE d[1])
     /\ b.lock = (d[2] # (b.code = "CAPS" /\ ~b.up))
     /\ b.code # "E0" => b.ext = d[3]

\* What the driver should hold before the i-th byte of s, when it holds d before the first.
Before(d, s, i) == IF i = 1 THEN d ELSE Leaves(s[i - 1])

\* The bytes of s take the driver from d to f.
Chained(d, s, f) ==
  /\ \A i \in 1..Len(s) : Follows(Before(d, s, i), s[i])
  /\ Before(d, s, Len(s) + 1) = f

Chain ==
  IF port.from = "keyboard"
  THEN Follows(Driver, port) /\ Chained(Leaves(port), sending, Final)
  ELSE Chained(Driver, sending, Final)

Types ==
  /\ port \in {Empty} \cup MouseBytes \cup KeyBytes
  /\ sending \in Seq(KeyBytes) /\ Len(sending) <= MaxAhead + 4
  /\ moving \in Seq(MouseBytes)
  /\ shift \in BOOLEAN /\ capslock \in BOOLEAN /\ extended \in BOOLEAN
  /\ caps \in BOOLEAN /\ muddled \in BOOLEAN
  /\ held \subseteq Keys

Inv == Types /\ (~muddled => Chain)

-----------------------------------------------------------------------------
(***************************************************************************)
(* Bytes.                                                                  *)
(***************************************************************************)
LEMMA IsKeyByte ==
  ASSUME NEW c \in Codes \cup Shifts \cup {"E0"}, NEW u \in BOOLEAN, NEW e \in BOOLEAN,
         NEW sh \in BOOLEAN, NEW lock \in BOOLEAN
  PROVE  Byte("keyboard", c, u, e, <<sh, lock>>) \in KeyBytes
  <1> DEFINE C == Codes \cup Shifts \cup {"E0"}
             T(x, y, z, v, w) == Byte("keyboard", x, y, z, <<v, w>>)
  <1>1. KeyBytes = {T(x, y, z, v, w) : x \in C, y \in BOOLEAN, z \in BOOLEAN, v \in BOOLEAN, w \in BOOLEAN}
    BY DEF KeyBytes
  <1>2. c \in C
    OBVIOUS
  <1> HIDE DEF C, T
  <1>3. T(c, u, e, sh, lock) \in {T(x, y, z, v, w) : x \in C, y \in BOOLEAN, z \in BOOLEAN, v \in BOOLEAN, w \in BOOLEAN}
    BY <1>2
  <1>4. T(c, u, e, sh, lock) \in KeyBytes
    BY <1>1, <1>3
  <1> QED BY <1>4 DEF T

LEMMA KeyByteFields ==
  ASSUME NEW b \in KeyBytes
  PROVE  /\ b.from = "keyboard" /\ b.code \in Codes \cup Shifts \cup {"E0"} /\ b.up \in BOOLEAN
         /\ b.ext \in BOOLEAN /\ b.shift \in BOOLEAN /\ b.lock \in BOOLEAN
         /\ b # Empty /\ b \notin MouseBytes
  BY DEF KeyBytes, Byte, Other, Empty, MouseBytes, Packet

LEMMA MouseByteFields ==
  ASSUME NEW b \in MouseBytes
  PROVE  b.from = "mouse" /\ b.code \notin Modifiers \cup {"E0"} /\ b # Empty
  BY DEF MouseBytes, Packet, Byte, Other, Empty, Modifiers, Shifts

LEMMA EmptyFields == Empty.from = "none" /\ Empty.code = "none"
  BY DEF Empty, Byte, Other

LEMMA WhoseByte ==
  ASSUME Types
  PROVE  port.from = "keyboard" <=> port \in KeyBytes
  BY KeyByteFields, MouseByteFields, EmptyFields DEF Types

LEMMA ShiftHeldBoolean == \A h : ShiftHeld(h) \in BOOLEAN
  BY DEF ShiftHeld

-----------------------------------------------------------------------------
(***************************************************************************)
(* Chains.                                                                 *)
(***************************************************************************)
LEMMA BeforeConcat ==
  ASSUME NEW s \in Seq(KeyBytes), NEW t \in Seq(KeyBytes), NEW d, NEW f,
         Before(d, s, Len(s) + 1) = f, NEW i \in 1..Len(s) + Len(t) + 1
  PROVE  Before(d, s \o t, i) = IF i <= Len(s) THEN Before(d, s, i) ELSE Before(f, t, i - Len(s))
  <1>1. Len(s) \in Nat /\ Len(t) \in Nat /\ i \in Nat
    OBVIOUS
  <1>2. \A j \in 1..Len(s) + Len(t) : (s \o t)[j] = IF j <= Len(s) THEN s[j] ELSE t[j - Len(s)]
    BY ConcatProperties
  <1> DEFINE u == s \o t
  <1>3. \A j \in 1..Len(s) + Len(t) : u[j] = IF j <= Len(s) THEN s[j] ELSE t[j - Len(s)]
    BY <1>2
  <1> HIDE DEF u
  <1>4. CASE i <= Len(s)
    <2>1. i = 1 \/ (i - 1 \in 1..Len(s) + Len(t) /\ i - 1 <= Len(s))
      BY <1>1, <1>4
    <2>2. i = 1 \/ u[i - 1] = s[i - 1]
      BY <1>3, <2>1
    <2> QED BY <1>4, <2>2 DEF Before, u
  <1>5. CASE i = Len(s) + 1
    <2>1. Before(f, t, i - Len(s)) = f
      BY <1>1, <1>5 DEF Before
    <2>2. i = 1 \/ (i - 1 \in 1..Len(s) + Len(t) /\ i - 1 <= Len(s))
      BY <1>1, <1>5
    <2>3. i = 1 \/ u[i - 1] = s[i - 1]
      BY <1>3, <2>2
    <2>4. Before(d, u, i) = Before(d, s, i)
      BY <2>3 DEF Before
    <2> QED BY <1>1, <1>5, <2>1, <2>4 DEF u
  <1>6. CASE i > Len(s) + 1
    <2>1. i - 1 \in 1..Len(s) + Len(t) /\ ~(i - 1 <= Len(s)) /\ i # 1 /\ i - Len(s) # 1
          /\ (i - 1) - Len(s) = (i - Len(s)) - 1 /\ ~(i <= Len(s))
      BY <1>1, <1>6
    <2>2. u[i - 1] = t[(i - Len(s)) - 1]
      BY <1>3, <2>1
    <2> QED BY <2>1, <2>2 DEF Before, u
  <1> QED BY <1>1, <1>4, <1>5, <1>6

LEMMA ConcatChained ==
  ASSUME NEW s \in Seq(KeyBytes), NEW t \in Seq(KeyBytes), NEW d, NEW f, NEW g,
         Chained(d, s, f), Chained(f, t, g)
  PROVE  Chained(d, s \o t, g)
  <1> DEFINE u == s \o t
  <1>1. Len(s) \in Nat /\ Len(t) \in Nat
    OBVIOUS
  <1>2. Len(u) = Len(s) + Len(t)
        /\ \A j \in 1..Len(u) : u[j] = IF j <= Len(s) THEN s[j] ELSE t[j - Len(s)]
    BY ConcatProperties
  <1>3. \A i \in 1..Len(u) + 1 :
          Before(d, u, i) = IF i <= Len(s) THEN Before(d, s, i) ELSE Before(f, t, i - Len(s))
    BY <1>2, BeforeConcat DEF Chained
  <1> HIDE DEF u
  <1>4. ASSUME NEW i \in 1..Len(u) PROVE Follows(Before(d, u, i), u[i])
    <2>1. i \in 1..Len(u) + 1 /\ i \in Nat
      BY <1>1, <1>2
    <2>2. CASE i <= Len(s)
      <3>1. i \in 1..Len(s)
        BY <1>1, <2>1, <2>2
      <3>2. Before(d, u, i) = Before(d, s, i) /\ u[i] = s[i]
        BY <1>2, <1>3, <2>1, <2>2
      <3> QED BY <3>1, <3>2 DEF Chained
    <2>3. CASE ~(i <= Len(s))
      <3>1. i - Len(s) \in 1..Len(t)
        BY <1>1, <1>2, <2>1, <2>3
      <3>2. Before(d, u, i) = Before(f, t, i - Len(s)) /\ u[i] = t[i - Len(s)]
        BY <1>2, <1>3, <2>1, <2>3
      <3> QED BY <3>1, <3>2 DEF Chained
    <2> QED BY <2>2, <2>3
  <1>5. Before(d, u, Len(u) + 1) = g
    <2>1. Len(u) + 1 \in 1..Len(u) + 1 /\ ~(Len(u) + 1 <= Len(s)) /\ (Len(u) + 1) - Len(s) = Len(t) + 1
      BY <1>1, <1>2
    <2>2. Before(d, u, Len(u) + 1) = Before(f, t, Len(t) + 1)
      BY <1>3, <2>1
    <2> QED BY <2>2 DEF Chained
  <1> QED BY <1>4, <1>5 DEF Chained, u

LEMMA TailChained ==
  ASSUME NEW s \in Seq(KeyBytes), s # <<>>, NEW d, NEW f, Chained(d, s, f)
  PROVE  Follows(d, Head(s)) /\ Chained(Leaves(Head(s)), Tail(s), f)
  <1> DEFINE h == Head(s)
             t == Tail(s)
  <1>1. Len(s) \in Nat \ {0} /\ h = s[1] /\ t \in Seq(KeyBytes) /\ Len(t) = Len(s) - 1
        /\ \A i \in 1..Len(t) : t[i] = s[i + 1]
    BY HeadTailProperties, EmptySeq
  <1> HIDE DEF h, t
  <1>2. Follows(d, h)
    <2>1. 1 \in 1..Len(s) /\ Before(d, s, 1) = d
      BY <1>1 DEF Before
    <2> QED BY <1>1, <2>1 DEF Chained
  <1>3. ASSUME NEW i \in 1..Len(t) + 1 PROVE Before(Leaves(h), t, i) = Before(d, s, i + 1)
    <2>1. i + 1 # 1 /\ (i + 1) - 1 = i /\ i \in Nat
      BY <1>1
    <2>2. CASE i = 1
      BY <1>1, <2>1, <2>2 DEF Before
    <2>3. CASE i # 1
      <3>1. i - 1 \in 1..Len(t) /\ (i - 1) + 1 = i
        BY <1>1, <2>1, <2>3
      <3>2. t[i - 1] = s[i]
        BY <1>1, <3>1
      <3> QED BY <2>1, <2>3, <3>2 DEF Before
    <2> QED BY <2>2, <2>3
  <1>4. ASSUME NEW i \in 1..Len(t) PROVE Follows(Before(Leaves(h), t, i), t[i])
    <2>1. i + 1 \in 1..Len(s) /\ i \in 1..Len(t) + 1
      BY <1>1
    <2>2. Before(Leaves(h), t, i) = Before(d, s, i + 1) /\ t[i] = s[i + 1]
      BY <1>1, <1>3, <2>1
    <2> QED BY <2>1, <2>2 DEF Chained
  <1>5. Before(Leaves(h), t, Len(t) + 1) = f
    <2>1. Len(t) + 1 \in 1..Len(t) + 1 /\ (Len(t) + 1) + 1 = Len(s) + 1
      BY <1>1
    <2> QED BY <1>3, <2>1 DEF Chained
  <1> QED BY <1>2, <1>4, <1>5 DEF Chained, h, t

LEMMA NothingChained == ASSUME NEW d, NEW f PROVE Chained(d, <<>>, f) <=> d = f
  BY DEF Chained, Before

LEMMA OneChained ==
  ASSUME NEW d, NEW b \in KeyBytes, Follows(d, b)
  PROVE  Chained(d, <<b>>, Leaves(b))
  BY DEF Chained, Before

LEMMA AppendSecond ==
  ASSUME NEW S, NEW s \in Seq(S), NEW c \in S, Len(s) = 1
  PROVE  Append(s, c) \in Seq(S) /\ Len(Append(s, c)) = 2 /\ Append(s, c)[1] = s[1] /\ Append(s, c)[2] = c
  BY AppendProperties

LEMMA WithSecond ==
  ASSUME NEW S, NEW s \in Seq(S), NEW c \in S, Len(s) = 1
  PROVE  s \o <<c>> = <<s[1], c>>
  <1> DEFINE u == Append(s, c)
             v == <<s[1], c>>
  <1>1. s \o <<c>> = u
    BY AppendIsConcat
  <1>2. u \in Seq(S) /\ Len(u) = 2 /\ u[1] = s[1] /\ u[2] = c
    BY AppendSecond
  <1>3. s[1] \in S
    <2>1. 1 \in 1..Len(s)
      OBVIOUS
    <2> QED BY <2>1, ElementOfSeq
  <1>4. v \in Seq(S) /\ Len(v) = 2 /\ v[1] = s[1] /\ v[2] = c
    BY <1>3
  <1> HIDE DEF u, v
  <1>5. \A i \in 1..Len(u) : u[i] = v[i]
    BY <1>2, <1>4
  <1>6. u = v
    BY <1>2, <1>4, <1>5, SeqEqual
  <1> QED BY <1>1, <1>6 DEF v

LEMMA Two ==
  ASSUME NEW S, NEW b \in S, NEW c \in S
  PROVE  <<b>> \in Seq(S) /\ <<c>> \in Seq(S) /\ <<b>> \o <<c>> = <<b, c>>
  <1>1. <<b>> \in Seq(S) /\ <<c>> \in Seq(S) /\ Len(<<b>>) = 1 /\ <<b>>[1] = b
    OBVIOUS
  <1> DEFINE one == <<b>>
  <1>2. one \in Seq(S) /\ Len(one) = 1 /\ one[1] = b
    BY <1>1
  <1> HIDE DEF one
  <1>3. one \o <<c>> = <<one[1], c>>
    BY <1>2, WithSecond
  <1>4. one \o <<c>> = <<b, c>>
    BY <1>2, <1>3
  <1> QED BY <1>1, <1>4 DEF one

LEMMA TwoChained ==
  ASSUME NEW d, NEW b \in KeyBytes, NEW c \in KeyBytes, Follows(d, b), Follows(Leaves(b), c)
  PROVE  Chained(d, <<b, c>>, Leaves(c))
  <1>1. Chained(d, <<b>>, Leaves(b)) /\ Chained(Leaves(b), <<c>>, Leaves(c))
    BY OneChained
  <1>2. <<b>> \in Seq(KeyBytes) /\ <<c>> \in Seq(KeyBytes) /\ <<b>> \o <<c>> = <<b, c>>
    BY Two
  <1> QED BY <1>1, <1>2, ConcatChained

-----------------------------------------------------------------------------
(***************************************************************************)
(* The keys.                                                               *)
(***************************************************************************)
LEMMA InitInv == Init => Inv
  <1> SUFFICES ASSUME Init PROVE Inv
    OBVIOUS
  <1>1. Types
    <2>1. moving \in Seq(MouseBytes) /\ sending \in Seq(KeyBytes) /\ Len(sending) <= MaxAhead + 4
      BY InputAssumption DEF Init, InputAssumption
    <2> QED BY <2>1 DEF Init, Types
  <1>2. Driver = Final
    BY DEF Init, Driver, Final, ShiftHeld
  <1>3. port.from # "keyboard"
    BY EmptyFields DEF Init
  <1>4. Chain
    <2>1. sending = <<>>
      BY DEF Init
    <2> QED BY <1>2, <1>3, <2>1, NothingChained DEF Chain
  <1> QED BY <1>1, <1>4 DEF Inv

\* The byte before a grey key.
LEMMA E0Byte ==
  ASSUME Types
  PROVE  /\ E0 \in KeyBytes /\ E0.code = "E0" /\ Follows(Final, E0)
         /\ Leaves(E0) = <<ShiftHeld(held), caps, TRUE>>
  <1>1. E0 \in KeyBytes
    BY ShiftHeldBoolean, IsKeyByte DEF Types, E0, Now
  <1>2. E0.code = "E0" /\ E0.shift = ShiftHeld(held) /\ E0.lock = caps
    BY DEF E0, Now, Byte
  <1>3. Follows(Final, E0)
    <2>1. E0.code \notin Shifts /\ (E0.code = "CAPS" /\ ~E0.up) = FALSE
      BY <1>2 DEF Shifts
    <2>2. E0.lock = (caps # (E0.code = "CAPS" /\ ~E0.up))
      BY <1>2, <2>1 DEF Types
    <2> QED BY <1>2, <2>1, <2>2 DEF Follows, Final
  <1> QED BY <1>1, <1>2, <1>3 DEF Leaves

\* A shift that nobody pressed changes nothing the keys hold.
LEMMA PretendedChained ==
  ASSUME Types, NEW k \in Keys, NEW up \in BOOLEAN, NEW fake \in Pretended(k, up)
  PROVE  fake \in Seq(KeyBytes) /\ Len(fake) <= 2 /\ Chained(Final, fake, Final)
  <1>1. CASE fake = <<>>
    BY <1>1, NothingChained
  <1>2. CASE fake # <<>>
    <2> DEFINE f == Byte("keyboard", "LSHIFT", up, TRUE, Now)
    <2>1. fake = <<E0, f>>
      BY <1>2 DEF Pretended
    <2>2. f \in KeyBytes
      <3>1. "LSHIFT" \in Codes \cup Shifts \cup {"E0"} /\ ShiftHeld(held) \in BOOLEAN /\ caps \in BOOLEAN
        BY ShiftHeldBoolean DEF Types, Shifts
      <3> QED BY <3>1, IsKeyByte DEF Now
    <2>3. Leaves(f) = Final /\ Strange(f)
      BY DEF Leaves, Final, Strange, Byte, Now, Modifiers, Shifts
    <2> HIDE DEF f
    <2>4. Follows(Leaves(E0), f)
      BY <2>3 DEF Follows
    <2>5. Chained(Final, <<E0, f>>, Final)
      BY <2>2, <2>3, <2>4, E0Byte, TwoChained
    <2> QED BY <2>1, <2>2, <2>5, E0Byte
  <1> QED BY <1>1, <1>2

LEMMA SentBytes ==
  ASSUME Types, caps' \in BOOLEAN, NEW k \in Keys, NEW u \in BOOLEAN
  PROVE  Sent(k, u) \in Seq(KeyBytes) /\ Len(Sent(k, u)) <= 2
  <1>1. \A ext \in BOOLEAN : Byte("keyboard", k[1], u, ext, Now') \in KeyBytes
    <2>1. k[1] \in Codes
      BY DEF Codes
    <2>2. ShiftHeld(held') \in BOOLEAN
      BY ShiftHeldBoolean DEF Types
    <2> QED BY <2>1, <2>2, IsKeyByte DEF Now
  <1> DEFINE b == Byte("keyboard", k[1], u, TRUE, Now')
             c == Byte("keyboard", k[1], u, FALSE, Now')
  <1>2. Sent(k, u) = IF k[2] THEN <<E0, b>> ELSE <<c>>
    BY DEF Sent
  <1>3. b \in KeyBytes /\ c \in KeyBytes
    BY <1>1
  <1> HIDE DEF b, c
  <1>4. <<E0, b>> \in Seq(KeyBytes) /\ Len(<<E0, b>>) = 2 /\ <<c>> \in Seq(KeyBytes) /\ Len(<<c>>) = 1
    BY <1>3, E0Byte
  <1> QED BY <1>2, <1>4

\* A key takes the driver from what was down to what is.
LEMMA SentChained ==
  ASSUME Types, caps' \in BOOLEAN, NEW k \in Keys, NEW u \in BOOLEAN,
         ShiftHeld(held') = (IF k[1] \in Shifts THEN ~u ELSE ShiftHeld(held)),
         caps' = (caps # (k[1] = "CAPS" /\ ~u))
  PROVE  Chained(Final, Sent(k, u), Final')
  <1> DEFINE b == Byte("keyboard", k[1], u, k[2], Now')
  <1>1. b \in KeyBytes
    <2>1. k[1] \in Codes /\ k[2] \in BOOLEAN
      BY InputAssumption DEF Codes, InputAssumption
    <2>2. ShiftHeld(held') \in BOOLEAN
      BY ShiftHeldBoolean DEF Types
    <2> QED BY <2>1, <2>2, IsKeyByte DEF Now
  <1>2. b.code = k[1] /\ b.up = u /\ b.ext = k[2] /\ b.shift = ShiftHeld(held') /\ b.lock = caps'
    BY DEF Byte, Now
  <1>3. k[1] # "E0" /\ k[2] \in BOOLEAN
    BY InputAssumption DEF InputAssumption
  <1>4. Leaves(b) = Final'
    BY <1>2, <1>3 DEF Leaves, Final
  <1>5. Sent(k, u) = IF k[2] THEN <<E0, b>> ELSE <<b>>
    BY <1>3 DEF Sent
  <1> HIDE DEF b
  <1>6. \A d : d[1] = ShiftHeld(held) /\ d[2] = caps /\ d[3] = k[2] => Follows(d, b)
    BY <1>2 DEF Follows
  <1>7. CASE k[2]
    <2>0. k[2] = TRUE
      BY <1>3, <1>7
    <2>1. Leaves(E0)[1] = ShiftHeld(held) /\ Leaves(E0)[2] = caps /\ Leaves(E0)[3] = k[2]
      <3>1. Leaves(E0) = <<ShiftHeld(held), caps, k[2]>>
        BY <2>0, E0Byte
      <3> QED BY <3>1
    <2>2. Follows(Leaves(E0), b)
      BY <1>6, <2>1
    <2> QED BY <1>1, <1>4, <1>5, <1>7, <2>2, E0Byte, TwoChained
  <1>8. CASE ~k[2]
    <2>1. Final[1] = ShiftHeld(held) /\ Final[2] = caps /\ Final[3] = k[2]
      BY <1>3, <1>8 DEF Final
    <2>2. Follows(Final, b)
      BY <1>6, <2>1
    <2> QED BY <1>1, <1>4, <1>5, <1>8, <2>2, OneChained
  <1> QED BY <1>7, <1>8

\* With everything read and the flags right, the chain begins again.
LEMMA Begins == ASSUME Inv, ~muddled \/ Clear PROVE Chain
  <1>1. CASE ~muddled
    BY <1>1 DEF Inv
  <1>2. CASE Clear
    <2>1. Driver = Final
      BY <1>2, ShiftHeldBoolean DEF Clear, Agrees, Driver, Final, Inv, Types
    <2> QED BY <1>2, <2>1, NothingChained DEF Clear, Quiet, Chain
  <1> QED BY <1>1, <1>2

\* The bytes of a key that is typed.
LEMMA TypedInv ==
  ASSUME Inv, NEW bytes \in Seq(KeyBytes), Len(bytes) <= 4, Send(bytes),
         UNCHANGED <<moving, port, flags>>, held' \subseteq Keys, caps' \in BOOLEAN, muddled' \in BOOLEAN,
         ~muddled' => (~muddled \/ Clear) /\ Chained(Final, bytes, Final')
  PROVE  Inv'
  <1>1. /\ sending \in Seq(KeyBytes) /\ sending' = sending \o bytes
        /\ Len(sending) <= MaxAhead /\ MaxAhead \in Nat
    BY InputAssumption DEF InputAssumption, Inv, Types, Send
  <1>2. sending' \in Seq(KeyBytes) /\ Len(sending') <= MaxAhead + 4
    <2>1. (sending \o bytes) \in Seq(KeyBytes) /\ Len(sending \o bytes) = Len(sending) + Len(bytes)
      BY <1>1, ConcatProperties
    <2>2. Len(sending) \in Nat /\ Len(bytes) \in Nat
      BY <1>1
    <2> QED BY <1>1, <2>1, <2>2
  <1>3. Types'
    BY <1>2 DEF Inv, Types, flags
  <1>4. ASSUME ~muddled' PROVE Chain'
    <2>1. Chain /\ Chained(Final, bytes, Final')
      BY <1>4, Begins
    <2>2. \A d : Chained(d, sending, Final) => Chained(d, sending', Final')
      BY <1>1, <2>1, ConcatChained
    <2>3. port' = port /\ Driver' = Driver
      BY DEF Driver, flags
    <2>4. Follows(Driver, port) => Follows(Driver', port')
      BY <2>3
    <2> QED BY <2>1, <2>2, <2>3, <2>4 DEF Chain
  <1> QED BY <1>3, <1>4 DEF Inv

LEMMA KeyTypes ==
  ASSUME Inv, NEW k \in Keys, Press(k) \/ Lift(k) \/ Repeat(k)
  PROVE  /\ held' \subseteq Keys /\ caps' \in BOOLEAN /\ muddled' \in BOOLEAN
         /\ UNCHANGED <<moving, port, flags>>
         /\ ShiftHeld(held) \in BOOLEAN
  BY ShiftHeldBoolean DEF Inv, Types, Press, Lift, Repeat

LEMMA PressInv == ASSUME Inv, NEW k \in Keys, Press(k) PROVE Inv'
  <1> PICK fake \in Pretended(k, ShiftHeld(held)) : Send(fake \o Sent(k, FALSE))
    BY DEF Press
  <1>1. fake \in Seq(KeyBytes) /\ Len(fake) <= 2 /\ Chained(Final, fake, Final)
    BY KeyTypes, PretendedChained DEF Inv
  <1>2. Sent(k, FALSE) \in Seq(KeyBytes) /\ Len(Sent(k, FALSE)) <= 2
    BY KeyTypes, SentBytes DEF Inv
  <1>3. Chained(Final, Sent(k, FALSE), Final')
    <2>1. ShiftHeld(held') = (IF k[1] \in Shifts THEN ~FALSE ELSE ShiftHeld(held))
      BY DEF Press, ShiftHeld
    <2>2. caps' = (caps # (k[1] = "CAPS" /\ ~FALSE))
      BY DEF Press
    <2> QED BY <2>1, <2>2, KeyTypes, SentChained DEF Inv
  <1> DEFINE bytes == fake \o Sent(k, FALSE)
  <1>4. bytes \in Seq(KeyBytes) /\ Len(bytes) <= 4 /\ Chained(Final, bytes, Final')
    <2> DEFINE sent == Sent(k, FALSE)
    <2>1. sent \in Seq(KeyBytes) /\ Len(sent) <= 2 /\ Chained(Final, sent, Final')
      BY <1>2, <1>3
    <2> HIDE DEF sent
    <2>2. (fake \o sent) \in Seq(KeyBytes) /\ Len(fake \o sent) = Len(fake) + Len(sent)
          /\ Len(fake) \in Nat /\ Len(sent) \in Nat
      BY <1>1, <2>1, ConcatProperties
    <2>3. Chained(Final, fake \o sent, Final')
      BY <1>1, <2>1, ConcatChained
    <2>4. Len(fake \o sent) <= 4
      BY <1>1, <2>1, <2>2
    <2> QED BY <2>2, <2>3, <2>4 DEF sent
  <1>5. muddled' = (muddled /\ ~Clear) /\ Send(bytes)
    BY DEF Press
  <1> HIDE DEF bytes
  <1> QED BY <1>4, <1>5, KeyTypes, TypedInv

LEMMA LiftInv == ASSUME Inv, NEW k \in Keys, Lift(k) PROVE Inv'
  <1> PICK fake \in Pretended(k, ~ShiftHeld(held)) : Send(Sent(k, TRUE) \o fake)
    BY DEF Lift
  <1>1. fake \in Seq(KeyBytes) /\ Len(fake) <= 2
    BY KeyTypes, PretendedChained DEF Inv
  <1>2. Sent(k, TRUE) \in Seq(KeyBytes) /\ Len(Sent(k, TRUE)) <= 2
    BY KeyTypes, SentBytes DEF Inv
  <1> DEFINE bytes == Sent(k, TRUE) \o fake
  <1>3. bytes \in Seq(KeyBytes) /\ Len(bytes) <= 4
    <2> DEFINE sent == Sent(k, TRUE)
    <2>1. sent \in Seq(KeyBytes) /\ Len(sent) <= 2
      BY <1>2
    <2> HIDE DEF sent
    <2>2. (sent \o fake) \in Seq(KeyBytes) /\ Len(sent \o fake) = Len(fake) + Len(sent)
          /\ Len(fake) \in Nat /\ Len(sent) \in Nat
      BY <1>1, <2>1, ConcatProperties
    <2>3. Len(sent \o fake) <= 4
      BY <1>1, <2>1, <2>2
    <2> QED BY <2>2, <2>3 DEF sent
  <1>4. ASSUME ~muddled' PROVE (~muddled \/ Clear) /\ Chained(Final, bytes, Final')
    <2>1. (~muddled \/ Clear) /\ ~(k[1] \in Shifts /\ ShiftHeld(held'))
      BY <1>4 DEF Lift
    <2>2. ShiftHeld(held') = (IF k[1] \in Shifts THEN ~TRUE ELSE ShiftHeld(held))
      BY <2>1 DEF Lift, ShiftHeld
    <2>3. caps' = (caps # (k[1] = "CAPS" /\ ~TRUE))
      BY DEF Lift, Inv, Types
    <2>4. Chained(Final, Sent(k, TRUE), Final')
      BY <2>2, <2>3, KeyTypes, SentChained DEF Inv
    <2>5. Chained(Final', fake, Final')
      <3>1. CASE fake = <<>>
        BY <3>1, NothingChained
      <3>2. CASE fake # <<>>
        <4>1. k[1] \notin Modifiers
          BY <3>2 DEF Pretended
        <4>2. Final' = Final
          BY <2>2, <4>1 DEF Final, Modifiers, Lift
        <4> QED BY <4>2, KeyTypes, PretendedChained DEF Inv
      <3> QED BY <3>1, <3>2
    <2> QED BY <1>1, <1>2, <2>1, <2>4, <2>5, ConcatChained
  <1>5. Send(bytes)
    BY DEF Lift
  <1> HIDE DEF bytes
  <1> QED BY <1>3, <1>4, <1>5, KeyTypes, TypedInv

LEMMA RepeatInv == ASSUME Inv, NEW k \in Keys, Repeat(k) PROVE Inv'
  <1> DEFINE bytes == Sent(k, FALSE)
  <1>1. bytes \in Seq(KeyBytes) /\ Len(bytes) <= 4
    <2>1. bytes \in Seq(KeyBytes) /\ Len(bytes) <= 2
      BY KeyTypes, SentBytes DEF Inv
    <2> HIDE DEF bytes
    <2>2. Len(bytes) \in Nat
      BY <2>1
    <2> QED BY <2>1, <2>2
  <1>2. ASSUME ~muddled' PROVE (~muddled \/ Clear) /\ Chained(Final, bytes, Final')
    <2>1. (~muddled \/ Clear) /\ k[1] # "CAPS"
      BY <1>2 DEF Repeat
    <2>2. ShiftHeld(held') = (IF k[1] \in Shifts THEN ~FALSE ELSE ShiftHeld(held))
      BY DEF Repeat, ShiftHeld
    <2>3. caps' = (caps # (k[1] = "CAPS" /\ ~FALSE))
      BY <2>1 DEF Repeat, Inv, Types
    <2> QED BY <2>1, <2>2, <2>3, KeyTypes, SentChained DEF Inv
  <1>3. Send(bytes)
    BY DEF Repeat
  <1> HIDE DEF bytes
  <1> QED BY <1>1, <1>2, <1>3, KeyTypes, TypedInv

-----------------------------------------------------------------------------
(***************************************************************************)
(* The port.                                                               *)
(***************************************************************************)
LEMMA ArriveInv == ASSUME Inv, Arrive PROVE Inv'
  <1> USE DEF flags
  <1>0. /\ port = Empty /\ port.from # "keyboard" /\ UNCHANGED <<held, caps, shift, capslock, extended, muddled>>
        /\ Len(sending) \in Nat
    BY EmptyFields DEF Arrive, Inv, Types
  <1>1. CASE sending # <<>> /\ port' = Head(sending) /\ sending' = Tail(sending) /\ UNCHANGED moving
    <2>1. port' \in KeyBytes /\ sending' \in Seq(KeyBytes) /\ Len(sending') = Len(sending) - 1
      BY <1>1, HeadTailProperties DEF Inv, Types
    <2>2. port'.from = "keyboard"
      BY <2>1, KeyByteFields
    <2>3. Types'
      BY <1>0, <1>1, <2>1, InputAssumption DEF InputAssumption, Inv, Types
    <2>4. ASSUME ~muddled' PROVE Chain'
      <3>1. Chained(Driver, sending, Final)
        BY <1>0, <2>4 DEF Inv, Chain
      <3>2. Follows(Driver, Head(sending)) /\ Chained(Leaves(Head(sending)), Tail(sending), Final)
        BY <1>1, <3>1, TailChained DEF Inv, Types
      <3>3. Driver' = Driver /\ Final' = Final
        BY <1>0 DEF Driver, Final
      <3> QED BY <1>1, <2>2, <3>2, <3>3 DEF Chain
    <2> QED BY <2>3, <2>4 DEF Inv
  <1>2. CASE moving # <<>> /\ port' = Head(moving) /\ moving' = Tail(moving) /\ UNCHANGED sending
    <2>1. port' \in MouseBytes /\ moving' \in Seq(MouseBytes)
      BY <1>2 DEF Inv, Types
    <2>2. Types'
      BY <1>0, <1>2, <2>1 DEF Inv, Types
    <2>3. port'.from # "keyboard"
      BY <2>1, MouseByteFields
    <2>4. Driver' = Driver /\ Final' = Final
      BY <1>0 DEF Driver, Final
    <2> QED BY <1>0, <1>2, <2>2, <2>3, <2>4 DEF Inv, Chain
  <1> QED BY <1>1, <1>2 DEF Arrive

\* The mouse takes a byte of its own, nothing, or one of the keyboard, which is muddled then.
LEMMA TakenByMouse ==
  ASSUME Inv, port' = Empty, UNCHANGED <<sending, moving, held, caps, shift, capslock, extended>>,
         muddled' = (muddled \/ port.from = "keyboard")
  PROVE  Inv'
  <1>1. Types'
    BY DEF Inv, Types
  <1>2. Driver' = Driver /\ Final' = Final /\ port'.from # "keyboard"
    BY EmptyFields DEF Driver, Final
  <1> QED BY <1>1, <1>2 DEF Inv, Chain

\* A step that changes nothing the argument is about.
LEMMA Still ==
  ASSUME Inv, UNCHANGED <<sending, port, moving, held, caps, shift, capslock, extended, muddled>>
  PROVE  Inv'
  <1>1. Driver' = Driver /\ Final' = Final
    BY DEF Driver, Final
  <1> QED BY <1>1 DEF Inv, Types, Chain

LEMMA MouseInv == ASSUME Inv, MousePoll \/ MouseWait PROVE Inv'
  <1> USE DEF flags, keyboard
  <1>1. CASE port' = Empty
    <2>1. muddled' = (muddled \/ port.from = "keyboard")
      BY <1>1, EmptyFields DEF MousePoll, MouseWait, Inv, Types
    <2> QED BY <1>1, <2>1, TakenByMouse DEF MousePoll, MouseWait
  <1>2. CASE port' # Empty
    BY <1>2, Still DEF MousePoll, MouseWait
  <1> QED BY <1>1, <1>2

LEMMA MoveInv == ASSUME Inv, Move PROVE Inv'
  <1>1. moving' \in Seq(MouseBytes)
    BY DEF Move, Packet, MouseBytes
  <1>2. Types'
    BY <1>1 DEF Inv, Types, Move, flags, keyboard
  <1>3. Driver' = Driver /\ Final' = Final
    BY DEF Driver, Final, Move, flags, keyboard
  <1> QED BY <1>2, <1>3 DEF Inv, Chain, Move, flags, keyboard

-----------------------------------------------------------------------------
(***************************************************************************)
(* The driver.                                                             *)
(***************************************************************************)
LEMMA ReadTypes == ASSUME Inv, Read PROVE Types'
  <1>1. port' = Empty /\ UNCHANGED <<caps, held, sending, moving>> /\ muddled' \in BOOLEAN
    BY DEF Read, keyboard, Inv, Types
  <1>2. shift' \in BOOLEAN /\ capslock' \in BOOLEAN /\ extended' \in BOOLEAN
    <2>1. CASE IsModifier(port) /\ handle_modifier(port)
      <3>1. port \in KeyBytes
        BY <2>1, MouseByteFields, EmptyFields DEF Inv, Types, IsModifier, Modifiers, Shifts
      <3>2. port.up \in BOOLEAN
        BY <3>1, KeyByteFields
      <3> QED BY <2>1, <3>2 DEF Inv, Types, handle_modifier
    <2>2. CASE ~(IsModifier(port) /\ handle_modifier(port))
      BY <2>2 DEF Read, Understand, Inv, Types
    <2> QED BY <2>1, <2>2
  <1> QED BY <1>1, <1>2 DEF Inv, Types

\* A byte of the keyboard leaves the driver as it should.
LEMMA KeyByteRead ==
  ASSUME Inv, Read, port \in KeyBytes, ~Strange(port), Follows(Driver, port)
  PROVE  Driver' = Leaves(port)
  <1>1. /\ port.from = "keyboard" /\ port.up \in BOOLEAN /\ port.ext \in BOOLEAN
        /\ capslock \in BOOLEAN /\ shift \in BOOLEAN /\ extended \in BOOLEAN
    BY KeyByteFields DEF Inv, Types
  <1>2. /\ port.shift = (IF port.code \in Shifts THEN ~port.up ELSE shift)
        /\ port.lock = (capslock # (port.code = "CAPS" /\ ~port.up))
        /\ port.code # "E0" => port.ext = extended
    BY DEF Follows, Driver
  <1>3. CASE IsModifier(port) /\ handle_modifier(port)
    <2>1. port.code # "E0" /\ (port.code = "CAPS") = (port.code = "CAPS" /\ ~port.up)
      BY <1>1, <1>3 DEF IsModifier, Modifiers, Shifts
    <2>2. shift' = port.shift
      BY <1>1, <1>2, <1>3 DEF handle_modifier
    <2>3. capslock' = port.lock
      BY <1>2, <1>3, <2>1 DEF handle_modifier
    <2>4. extended' = FALSE
      BY <1>1, <1>2, <1>3, <2>1 DEF IsModifier, Strange, handle_modifier
    <2> QED BY <2>1, <2>2, <2>3, <2>4 DEF Driver, Leaves
  <1>4. CASE port.code = "E0" /\ extended' = TRUE /\ UNCHANGED <<shift, capslock>>
    <2>1. port.code \notin Shifts /\ (port.code = "CAPS" /\ ~port.up) = FALSE
      BY <1>4 DEF Shifts
    <2>2. port.shift = shift /\ port.lock = capslock
      BY <1>1, <1>2, <2>1
    <2> QED BY <1>4, <2>2 DEF Driver, Leaves
  <1>5. CASE ~IsModifier(port) /\ port.code # "E0" /\ extended' = FALSE /\ UNCHANGED <<shift, capslock>>
    <2>1. port.code \notin Shifts /\ (port.code = "CAPS" /\ ~port.up) = FALSE
      BY <1>1, <1>5 DEF IsModifier, Modifiers, Shifts
    <2>2. port.shift = shift /\ port.lock = capslock
      BY <1>1, <1>2, <2>1
    <2> QED BY <1>5, <2>2 DEF Driver, Leaves
  <1> QED BY <1>1, <1>3, <1>4, <1>5 DEF Read, Understand

LEMMA ReadInv == ASSUME Inv, Read PROVE Inv'
  <1> USE DEF keyboard
  <1>1. port' = Empty /\ port # Empty /\ port'.from # "keyboard" /\ UNCHANGED <<sending, moving, held, caps>>
    BY EmptyFields DEF Read
  <1>2. CASE port \in MouseBytes
    <2>1. UNCHANGED <<shift, capslock, extended>>
      BY <1>2, MouseByteFields DEF Read, Understand, IsModifier
    <2>2. muddled' = (muddled \/ port.from = "keyboard")
      BY <1>2, MouseByteFields DEF Read
    <2> QED BY <1>1, <2>1, <2>2, TakenByMouse
  <1>3. CASE port \in KeyBytes
    <2>1. ASSUME ~muddled' PROVE Chain'
      <3>1. ~muddled /\ ~Strange(port)
        BY <2>1 DEF Read, Strange
      <3>2. Follows(Driver, port) /\ Chained(Leaves(port), sending, Final)
        BY <1>3, <3>1, KeyByteFields DEF Inv, Chain
      <3>3. Driver' = Leaves(port)
        BY <1>3, <3>1, <3>2, KeyByteRead
      <3>4. Final' = Final
        BY <1>1 DEF Final
      <3> QED BY <1>1, <3>2, <3>3, <3>4 DEF Chain
    <2> QED BY <2>1, ReadTypes DEF Inv
  <1> QED BY <1>1, <1>2, <1>3 DEF Inv, Types

LEMMA NextInv == Inv /\ [Next]_vars => Inv'
  <1> SUFFICES ASSUME Inv, [Next]_vars PROVE Inv'
    OBVIOUS
  <1>1. CASE \E k \in Keys : Press(k) \/ Lift(k) \/ Repeat(k)
    BY <1>1, PressInv, LiftInv, RepeatInv
  <1>2. CASE Move \/ Arrive \/ MousePoll \/ MouseWait
    BY <1>2, MoveInv, ArriveInv, MouseInv
  <1>3. CASE Read
    BY <1>3, ReadInv
  <1>4. CASE KeyboardPoll \/ ReadLine
    BY <1>3, <1>4, Still DEF KeyboardPoll, ReadLine, keyboard, flags
  <1>5. CASE ChooseLayout \/ Call \/ UNCHANGED vars
    BY <1>5, Still DEF ChooseLayout, Call, vars, keyboard, flags
  <1> QED BY <1>1, <1>2, <1>4, <1>5 DEF Next

LEMMA SpecInv == Spec => []Inv
  BY InitInv, NextInv, PTL DEF Spec

-----------------------------------------------------------------------------
\* With every byte of the keyboard read, the flags say which keys are down and how the lock was
\* set, however many keys were typed ahead, as long as nothing happened that the driver does not
\* follow (keyboard.h 57-73, 136-162).
THEOREM InputUnderstood == Spec => []Understood
  <1>1. Inv => Understood
    <2> SUFFICES ASSUME Inv, Quiet, ~muddled PROVE Agrees
      BY DEF Understood
    <2>1. Driver = Final
      BY NothingChained DEF Inv, Quiet, Chain
    <2> QED BY <2>1 DEF Driver, Final, Agrees
  <1> QED BY <1>1, SpecInv, PTL

-----------------------------------------------------------------------------
\* The key that is read gives the character it stood for when it was typed, with the keys that
\* were down then, whatever has been typed since (keyboard.h 57-73, 109-162).
THEOREM InputDelivers == Spec => Delivers
  <1> DEFINE Reads == /\ port.from = "keyboard" /\ port' = Empty /\ pc \in {"keyboard", "line"}
                      /\ port.code \notin Modifiers \cup {"E0"} /\ ~port.up /\ ~muddled
             Gives == Reads => key' = Meaning(port)
  <1>1. Inv /\ [Next]_vars => [Gives]_vars
    <2> SUFFICES ASSUME Inv, Next, Reads PROVE key' = Meaning(port)
      OBVIOUS
    <2>1. port \in KeyBytes /\ port # Empty
      BY WhoseByte, EmptyFields DEF Inv
    <2>2. Read
      BY <2>1 DEF Next, Press, Lift, Repeat, Move, Arrive, MousePoll, MouseWait, KeyboardPoll, ChooseLayout,
                  Call, ReadLine
    <2>3. key' = translate(port.code)
      BY <2>1, <2>2, KeyByteFields DEF Read, Understand, IsModifier
    <2>4. Follows(Driver, port) /\ ~Strange(port)
      BY DEF Inv, Chain, Strange
    <2>5. port.shift = shift /\ port.lock = capslock /\ port.ext = extended
      <3>1. port.code \notin Shifts /\ (port.code = "CAPS" /\ ~port.up) = FALSE /\ capslock \in BOOLEAN
        BY DEF Modifiers, Inv, Types
      <3> QED BY <2>4, <3>1 DEF Follows, Driver
    <2> QED BY <2>3, <2>5 DEF translate, Meaning
  <1> QED BY <1>1, SpecInv, PTL DEF Spec, Delivers

-----------------------------------------------------------------------------
(***************************************************************************)
(* The packet, the character and the place in the loop.                    *)
(***************************************************************************)
Queues ==
  /\ moving \in {SubSeq(Packet, i, 3) : i \in 1..4}
  /\ has_layout \in BOOLEAN

\* A packet loses its first byte.
LEMMA PacketTail ==
  ASSUME NEW m \in {SubSeq(Packet, i, 3) : i \in 1..4}, m # <<>>
  PROVE  Tail(m) \in {SubSeq(Packet, i, 3) : i \in 1..4}
  <1> DEFINE P == Packet
  <1>1. P \in Seq(MouseBytes) /\ Len(P) = 3
    BY DEF Packet, MouseBytes
  <1> HIDE DEF P
  <1>2. PICK i \in 1..4 : m = SubSeq(P, i, 3)
    BY DEF P
  <1>3. i # 4
    <2> SUFFICES ASSUME i = 4 PROVE FALSE
      OBVIOUS
    <2>1. SubSeq(P, 4, 3) = <<>>
      BY SubSeqEmpty
    <2> QED BY <1>2, <2>1
  <1>4. i \in 1..Len(P) /\ 3 \in i..Len(P) /\ i + 1 \in 1..4
    BY <1>1, <1>3
  <1>5. Tail(m) = SubSeq(P, i + 1, 3)
    BY <1>1, <1>2, <1>4, HeadTailOfSubSeq
  <1> QED BY <1>4, <1>5 DEF P

LEMMA QueuesInit == Init => Queues
  <1>1. ASSUME Init PROVE moving \in {SubSeq(Packet, i, 3) : i \in 1..4}
    <2>1. SubSeq(Packet, 4, 3) = <<>>
      BY SubSeqEmpty
    <2>2. SubSeq(Packet, 4, 3) \in {SubSeq(Packet, i, 3) : i \in 1..4}
      OBVIOUS
    <2> QED BY <1>1, <2>1, <2>2 DEF Init
  <1>2. ASSUME Init PROVE has_layout \in BOOLEAN
    BY <1>2, Zenon DEF Init
  <1> QED BY <1>1, <1>2 DEF Queues

LEMMA QueuesStep == ASSUME Queues, [Next]_vars PROVE Queues'
  <1> USE DEF keyboard, flags
  <1>1. CASE \E k \in Keys : Press(k) \/ Lift(k) \/ Repeat(k)
    BY <1>1 DEF Press, Lift, Repeat, Queues
  <1>2. CASE Move
    <2>1. SubSeq(Packet, 1, 3) = Packet
      <3>1. Packet \in Seq(MouseBytes) /\ Len(Packet) = 3
        BY DEF Packet, MouseBytes
      <3> QED BY <3>1, SubSeqFull
    <2>2. Packet \in {SubSeq(Packet, i, 3) : i \in 1..4}
      BY <2>1
    <2> QED BY <1>2, <2>2 DEF Move, Queues
  <1>3. CASE Arrive
    <2>1. CASE UNCHANGED moving
      BY <1>3, <2>1 DEF Arrive, Queues
    <2>2. CASE moving # <<>> /\ moving' = Tail(moving)
      <3>1. moving' \in {SubSeq(Packet, i, 3) : i \in 1..4}
        BY <2>2, PacketTail DEF Queues
      <3> QED BY <1>3, <3>1 DEF Arrive, Queues
    <2> QED BY <1>3, <2>1, <2>2 DEF Arrive
  <1>4. CASE ChooseLayout
    BY <1>4 DEF ChooseLayout, Queues
  <1>5. CASE MousePoll \/ MouseWait \/ KeyboardPoll \/ Call \/ ReadLine \/ UNCHANGED vars
    BY <1>5 DEF MousePoll, MouseWait, KeyboardPoll, Call, ReadLine, Read, vars, Queues
  <1> QED BY <1>1, <1>2, <1>3, <1>4, <1>5 DEF Next

\* What a key stands for is a character.
LEMMA ReadKey == ASSUME Inv, has_layout \in BOOLEAN, Read PROVE key' \in Characters \cup {None}
  <1>1. CASE key' = None
    BY <1>1
  <1>2. CASE /\ port.from = "keyboard" /\ port.code # "E0" /\ ~IsModifier(port) /\ ~port.up
             /\ key' = translate(port.code)
    <2>1. port \in KeyBytes
      BY <1>2, WhoseByte DEF Inv
    <2>2. port.code \in Codes \ Modifiers
      <3>1. port.code \in Codes \cup Shifts \cup {"E0"}
        BY <2>1, KeyByteFields
      <3>2. port.code \notin Modifiers
        BY <1>2 DEF IsModifier
      <3> QED BY <1>2, <3>1, <3>2 DEF Modifiers
    <2> DEFINE up == shift # capslock
               c == port.code
    <2>3. up \in BOOLEAN
      OBVIOUS
    <2> HIDE DEF up, c
    <2>4. Builtin[up][c] \in Characters /\ Layout[up][c] \in Characters
      <3>1. ASSUME NEW t \in Tables PROVE t[up][c] \in Characters
        BY <2>2, <2>3 DEF Characters, c
      <3>2. Builtin \in Tables /\ Layout \in Tables
        BY DEF Tables
      <3> QED BY <3>1, <3>2
    <2>5. Named \subseteq Characters
      BY DEF Characters
    <2>6. key' \in {c, None, Builtin[up][c], Layout[up][c]} /\ (key' = c => c \in Named \cup {None}
                                                               \/ key' = Builtin[up][c] \/ key' = Layout[up][c])
      BY <1>2 DEF translate, up, c
    <2> QED BY <2>4, <2>5, <2>6
  <1> QED BY <1>1, <1>2 DEF Read, Understand

-----------------------------------------------------------------------------
(***************************************************************************)
(* The line, and the row it is shown on.                                   *)
(***************************************************************************)
LineTypes ==
  /\ key \in Characters \cup {None}
  /\ pc \in {"mouse", "b2", "b3", "keyboard", "line"}
  /\ max \in LineSizes \cup {1} /\ Len(buf) + 1 <= max
  /\ pc = "line" => Len(buf) + 1 < max
  /\ buf \in Seq(Characters \ {None}) /\ row \in Seq(Characters \cup {"?"})

\* What stood there may have lost its only character.
Echo ==
  /\ \A i \in 2..Len(buf) : buf[i] # Back
  /\ pc = "line" => \E left \in {<<>>, Asked} : row = left \o Shown(buf)

LEMMA ButLast ==
  ASSUME NEW S, NEW s \in Seq(S), NEW e \in S
  PROVE  But(Append(s, e)) = s
  <1> DEFINE t == Append(s, e)
             b == But(t)
  <1>1. t \in Seq(S) /\ Len(t) = Len(s) + 1 /\ Len(s) \in Nat
    BY AppendProperties
  <1>2. \A i \in 1..Len(s) : t[i] = s[i]
    BY AppendProperties
  <1>3. b = SubSeq(t, 1, Len(s))
    BY <1>1 DEF But
  <1> HIDE DEF t, b
  <1> DEFINE n == Len(s)
  <1>4. n \in Int /\ 1 \in Int /\ (\A i \in 1..n : t[i] \in S)
    BY <1>2, ElementOfSeq
  <1>5. b = SubSeq(t, 1, n)
    BY <1>3
  <1> HIDE DEF n
  <1>6. /\ b \in Seq(S) /\ Len(b) = IF 1 <= n THEN n - 1 + 1 ELSE 0
        /\ \A i \in 1..n - 1 + 1 : b[i] = t[1 + i - 1]
    BY <1>4, <1>5, SubSeqProperties
  <1>7. Len(b) = Len(s)
    BY <1>1, <1>6 DEF n
  <1>8. ASSUME NEW i \in 1..Len(s) PROVE b[i] = s[i]
    <2>1. i \in 1..n - 1 + 1 /\ 1 + i - 1 = i
      BY <1>1 DEF n
    <2>2. b[i] = t[i]
      BY <1>6, <2>1
    <2> QED BY <1>2, <2>2
  <1>9. b = s
    BY <1>6, <1>7, <1>8, SeqEqual
  <1> QED BY <1>9 DEF b, t

LEMMA ButNothing == But(<<>>) = <<>>
  BY SubSeqEmpty DEF But

LEMMA ButAsked == But(Asked) = <<>>
  <1>1. Len(Asked) - 1 = 0
    BY DEF Asked
  <1>2. SubSeq(Asked, 1, 0) = <<>>
    BY SubSeqEmpty
  <1> QED BY <1>1, <1>2 DEF But

LEMMA ButShorter ==
  ASSUME NEW S, NEW s \in Seq(S), s # <<>>
  PROVE  \E t \in Seq(S), e \in S : s = Append(t, e) /\ But(s) = t /\ Len(s) = Len(t) + 1 /\ Len(t) \in Nat
  <1>1. PICK t \in Seq(S), e \in S : s = Append(t, e)
    BY SequenceEmptyOrAppend
  <1>2. But(s) = t
    BY <1>1, ButLast
  <1>3. Len(s) = Len(t) + 1 /\ Len(t) \in Nat
    BY <1>1, AppendProperties
  <1> QED BY <1>1, <1>2, <1>3

\* One more character is shown unless it is a backspace that begins the line.
LEMMA ShownGrows ==
  ASSUME NEW S, NEW s \in Seq(S), NEW e \in S
  PROVE  Shown(Append(s, e)) = IF s = <<>> /\ e = Back THEN <<>> ELSE Append(Shown(s), e)
  <1> DEFINE t == Append(s, e)
  <1>1. t \in Seq(S) /\ t # <<>> /\ Len(s) \in Nat /\ Len(t) = Len(s) + 1
        /\ \A i \in 1..Len(s) + 1 : t[i] = IF i <= Len(s) THEN s[i] ELSE e
    BY AppendProperties
  <1>2. CASE s = <<>>
    <2>1. t = <<e>>
      BY <1>2
    <2> HIDE DEF t
    <2>2. Head(t) = e /\ Tail(t) = <<>> /\ t # <<>>
      BY <2>1
    <2>3. Shown(t) = IF e = Back THEN <<>> ELSE <<e>>
      BY <2>1, <2>2 DEF Shown
    <2>4. Append(Shown(s), e) = <<e>>
      BY <1>2 DEF Shown
    <2> QED BY <1>2, <2>3, <2>4 DEF t
  <1>3. CASE s # <<>>
    <2>1. Len(s) > 0
      BY <1>1, <1>3, EmptySeq
    <2>2. Head(t) = Head(s)
      BY <1>1, <2>1
    <2>3. Tail(t) = Append(Tail(s), e)
      <3> DEFINE u == Tail(s)
                 v == Append(u, e)
                 w == Tail(t)
      <3>1. u \in Seq(S) /\ Len(u) = Len(s) - 1 /\ \A i \in 1..Len(u) : u[i] = s[i + 1]
        BY <1>3, HeadTailProperties
      <3> HIDE DEF u
      <3>2. v \in Seq(S) /\ Len(v) = Len(s) /\ \A i \in 1..Len(s) : v[i] = IF i <= Len(u) THEN u[i] ELSE e
        BY <1>1, <3>1, AppendProperties
      <3> HIDE DEF v, t
      <3>3. w \in Seq(S) /\ Len(w) = Len(s) /\ \A i \in 1..Len(w) : w[i] = t[i + 1]
        BY <1>1, HeadTailProperties
      <3> HIDE DEF w
      <3>4. ASSUME NEW i \in 1..Len(s) PROVE w[i] = v[i]
        <4>1. w[i] = t[i + 1] /\ i + 1 \in 1..Len(s) + 1 /\ Len(s) \in Nat /\ i \in Nat
          BY <1>1, <3>3
        <4>2. CASE i <= Len(u)
          <5>1. i \in 1..Len(u) /\ i + 1 <= Len(s)
            BY <3>1, <4>1, <4>2
          <5>2. v[i] = s[i + 1] /\ t[i + 1] = s[i + 1]
            BY <1>1, <3>1, <3>2, <4>1, <5>1
          <5> QED BY <4>1, <5>2
        <4>3. CASE ~(i <= Len(u))
          <5>1. ~(i + 1 <= Len(s))
            BY <3>1, <4>1, <4>3
          <5>2. v[i] = e /\ t[i + 1] = e
            BY <1>1, <3>2, <4>1, <4>3, <5>1
          <5> QED BY <4>1, <5>2
        <4> QED BY <4>2, <4>3
      <3>5. w = v
        BY <3>2, <3>3, <3>4, SeqEqual
      <3> QED BY <3>5 DEF w, v, u
    <2> HIDE DEF t
    <2>4. Shown(t) = Append(Shown(s), e)
      BY <1>1, <1>3, <2>2, <2>3 DEF Shown
    <2> QED BY <1>3, <2>4 DEF t
  <1> QED BY <1>2, <1>3

LEMMA ShownType == ASSUME NEW S, NEW s \in Seq(S) PROVE Shown(s) \in Seq(S)
  BY HeadTailProperties DEF Shown

\* Writing a character after what stands on the row.
LEMMA AppendAfter ==
  ASSUME NEW S, NEW s \in Seq(S), NEW t \in Seq(S), NEW e \in S
  PROVE  s \o Append(t, e) = Append(s \o t, e)
  <1>1. Append(t, e) = t \o <<e>> /\ <<e>> \in Seq(S)
    BY AppendIsConcat
  <1>2. s \o t \in Seq(S)
    BY ConcatProperties
  <1>3. Append(s \o t, e) = (s \o t) \o <<e>>
    BY <1>2, AppendIsConcat
  <1>4. (s \o t) \o <<e>> = s \o (t \o <<e>>)
    BY <1>1, ConcatAssociative
  <1> QED BY <1>1, <1>3, <1>4

LEMMA LineInit == Init => LineTypes /\ Echo
  BY DEF Init, LineTypes, Echo

LEMMA LineTypesStep ==
  ASSUME LineTypes, NEW c \in Characters \cup {None}, pc = "line", GetLine(c), key' = c
  PROVE  LineTypes'
  <1> USE DEF lineVars
  <1>0. /\ Len(buf) \in Nat /\ max \in Nat /\ Len(buf) + 1 < max
        /\ buf \in Seq(Characters \ {None}) /\ row \in Seq(Characters \cup {"?"})
    BY InputAssumption DEF LineTypes
  <1>1. CASE UNCHANGED lineVars /\ pc' \in {"line", "mouse"}
    BY <1>0, <1>1 DEF LineTypes
  <1>2. But(row) \in Seq(Characters \cup {"?"})
    <2>1. CASE row = <<>>
      BY <1>0, <2>1, ButNothing
    <2>2. CASE row # <<>>
      BY <1>0, <2>2, ButShorter
    <2> QED BY <2>1, <2>2
  <1>3. CASE c = Back /\ buf # <<>> /\ buf' = But(buf) /\ row' = But(row) /\ UNCHANGED <<pc, max>>
    <2>1. buf' \in Seq(Characters \ {None}) /\ Len(buf') = Len(buf) - 1
      BY <1>0, <1>3, ButShorter
    <2> QED BY <1>0, <1>2, <1>3, <2>1 DEF LineTypes
  <1>4. CASE /\ c \notin {None, Enter} /\ buf' = Append(buf, c)
             /\ row' = IF c = Back THEN But(row) ELSE Append(row, c)
             /\ pc' = IF Len(buf') < max - 1 THEN "line" ELSE "mouse"
             /\ UNCHANGED max
    <2>1. buf' \in Seq(Characters \ {None}) /\ Len(buf') = Len(buf) + 1
      BY <1>0, <1>4, AppendProperties
    <2>2. row' \in Seq(Characters \cup {"?"})
      BY <1>0, <1>2, <1>4, AppendProperties
    <2> QED BY <1>0, <1>4, <2>1, <2>2 DEF LineTypes
  <1> QED BY <1>1, <1>3, <1>4 DEF GetLine

LEMMA EchoStep ==
  ASSUME LineTypes, Echo, NEW c \in Characters \cup {None}, pc = "line", GetLine(c)
  PROVE  Echo'
  <1> USE DEF lineVars
  <1> DEFINE T == Characters \cup {"?"}
             B == Characters \ {None}
  <1>0. buf \in Seq(B) /\ buf \in Seq(T) /\ row \in Seq(T) /\ Len(buf) \in Nat
    BY DEF LineTypes
  <1>1. PICK left \in {<<>>, Asked} : row = left \o Shown(buf)
    BY DEF Echo
  <1>2. left \in Seq(T) /\ Shown(buf) \in Seq(T)
    <2>1. Shown(buf) \in Seq(T)
      <3> HIDE DEF T
      <3> QED BY <1>0, ShownType
    <2>2. <<>> \in Seq(T) /\ Asked \in Seq(T)
      BY DEF Asked
    <2> QED BY <2>1, <2>2
  <1> HIDE DEF T, B
  <1>3. CASE UNCHANGED lineVars /\ pc' \in {"line", "mouse"}
    BY <1>3 DEF Echo
  <1>4. CASE c = Back /\ buf # <<>> /\ buf' = But(buf) /\ row' = But(row)
    <2>1. PICK s \in Seq(T), e \in T : buf = Append(s, e) /\ But(buf) = s /\ Len(buf) = Len(s) + 1 /\ Len(s) \in Nat
      BY <1>0, <1>4, ButShorter
    <2>2. \A i \in 2..Len(buf') : buf'[i] # Back
      <3>1. \A i \in 1..Len(s) : buf[i] = s[i]
        BY <2>1, AppendProperties
      <3> QED BY <1>4, <2>1, <3>1 DEF Echo
    <2>3. CASE s = <<>> /\ e = Back
      <3>1. Shown(buf) = <<>> /\ Shown(s) = <<>>
        BY <2>1, <2>3, ShownGrows DEF Shown
      <3>2. row = left
        BY <1>1, <1>2, <3>1, ConcatEmptySeq
      <3>3. But(Asked) = <<>> /\ But(<<>>) = <<>>
        BY ButNothing, ButAsked
      <3>4. row' = <<>>
        BY <1>4, <3>2, <3>3
      <3>5. row' = <<>> \o Shown(buf')
        BY <1>4, <2>1, <3>1, <3>4
      <3> QED BY <2>2, <3>5 DEF Echo
    <2>4. CASE ~(s = <<>> /\ e = Back)
      <3>1. Shown(buf) = Append(Shown(s), e) /\ Shown(s) \in Seq(T)
        BY <2>1, <2>4, ShownGrows, ShownType
      <3>2. row = Append(left \o Shown(s), e)
        BY <1>1, <1>2, <3>1, AppendAfter
      <3>3. left \o Shown(s) \in Seq(T)
        BY <1>2, <3>1, ConcatProperties
      <3>4. row' = left \o Shown(s)
        BY <1>4, <3>2, <3>3, ButLast
      <3>5. row' = left \o Shown(buf')
        BY <1>4, <2>1, <3>4
      <3> QED BY <2>2, <3>5 DEF Echo
    <2> QED BY <2>3, <2>4
  <1>5. CASE /\ c \notin {None, Enter} /\ ~(c = Back /\ buf # <<>>) /\ buf' = Append(buf, c)
             /\ row' = IF c = Back THEN But(row) ELSE Append(row, c)
    <2>1. c \in T
      BY <1>5 DEF T
    <2>2. \A i \in 2..Len(buf') : buf'[i] # Back
      <3>1. Len(buf') = Len(buf) + 1
            /\ \A i \in 1..Len(buf) + 1 : buf'[i] = IF i <= Len(buf) THEN buf[i] ELSE c
        BY <1>0, <1>5, <2>1, AppendProperties
      <3>2. ASSUME NEW i \in 2..Len(buf') PROVE buf'[i] # Back
        <4>1. CASE i <= Len(buf)
          BY <1>0, <3>1, <4>1 DEF Echo
        <4>2. CASE ~(i <= Len(buf))
          <5>1. buf'[i] = c /\ buf # <<>>
            BY <1>0, <3>1, <4>2
          <5> QED BY <1>5, <5>1
        <4> QED BY <4>1, <4>2
      <3> QED BY <3>2
    <2>3. CASE c = Back
      <3>1. buf = <<>> /\ Shown(buf) = <<>> /\ row' = But(row)
        BY <1>5, <2>3 DEF Shown
      <3>2. Shown(buf') = <<>>
        BY <1>0, <1>5, <2>1, <2>3, <3>1, ShownGrows
      <3>3. row = left
        BY <1>1, <1>2, <3>1, ConcatEmptySeq
      <3>4. But(Asked) = <<>> /\ But(<<>>) = <<>>
        BY ButNothing, ButAsked
      <3>5. row' = <<>> \o Shown(buf')
        BY <3>1, <3>2, <3>3, <3>4
      <3> QED BY <2>2, <3>5 DEF Echo
    <2>4. CASE c # Back
      <3>1. Shown(buf') = Append(Shown(buf), c)
        BY <1>0, <1>5, <2>1, <2>4, ShownGrows
      <3>2. row' = Append(left \o Shown(buf), c)
        BY <1>1, <1>5, <2>4
      <3>3. row' = left \o Shown(buf')
        <4>1. left \o Append(Shown(buf), c) = Append(left \o Shown(buf), c)
          BY <1>2, <2>1, AppendAfter
        <4> QED BY <3>1, <3>2, <4>1
      <3> QED BY <2>2, <3>3 DEF Echo
    <2> QED BY <2>3, <2>4
  <1> QED BY <1>3, <1>4, <1>5 DEF GetLine

LEMMA LineStep ==
  ASSUME Inv, Queues, LineTypes, Echo, [Next]_vars
  PROVE  LineTypes' /\ Echo'
  <1> USE DEF lineVars, flags, keyboard
  <1>1. CASE (\E k \in Keys : Press(k) \/ Lift(k) \/ Repeat(k)) \/ Move \/ Arrive \/ ChooseLayout \/ UNCHANGED vars
    BY <1>1 DEF Press, Lift, Repeat, Move, Arrive, ChooseLayout, vars, LineTypes, Echo
  <1>2. CASE MousePoll
    BY <1>2 DEF MousePoll, LineTypes, Echo
  <1>3. CASE MouseWait
    BY <1>3 DEF MouseWait, LineTypes, Echo
  <1>4. CASE KeyboardPoll
    <2>1. key' \in Characters \cup {None}
      BY <1>4, ReadKey DEF KeyboardPoll, Queues
    <2> QED BY <1>4, <2>1 DEF KeyboardPoll, LineTypes, Echo
  <1>5. CASE Call
    <2>1. PICK n \in LineSizes : max' = n /\ pc' = IF n = 1 THEN "mouse" ELSE "line"
      BY <1>5 DEF Call
    <2>2. n \in Nat \ {0}
      BY InputAssumption
    <2>3. buf' = <<>> /\ row' = Asked /\ key' = key
      BY <1>5 DEF Call
    <2>4. LineTypes'
      <3>1. Asked \in Seq(Characters \cup {"?"}) /\ <<>> \in Seq(Characters \ {None}) /\ Len(<<>>) = 0
        BY DEF Asked
      <3> QED BY <2>1, <2>2, <2>3, <3>1 DEF LineTypes
    <2>5. Echo'
      <3>1. Asked \o <<>> = Asked /\ Shown(<<>>) = <<>>
        BY DEF Asked, Shown
      <3>2. row' = Asked \o Shown(buf')
        BY <2>3, <3>1
      <3>3. \A i \in 2..Len(buf') : buf'[i] # Back
        BY <2>3
      <3>4. Asked' = Asked /\ Asked \in {<<>>, Asked}
        BY DEF Asked
      <3> QED BY <3>2, <3>3, <3>4 DEF Echo
    <2> QED BY <2>4, <2>5
  <1>6. CASE ReadLine
    <2>1. key' \in Characters \cup {None} /\ pc = "line" /\ GetLine(key')
      BY <1>6, ReadKey DEF ReadLine, Queues
    <2> QED BY <2>1, LineTypesStep, EchoStep
  <1> QED BY <1>1, <1>2, <1>3, <1>4, <1>5, <1>6 DEF Next

LEMMA SpecLine == Spec => [](Inv /\ Queues /\ LineTypes /\ Echo)
  <1>1. Init => Inv /\ Queues /\ LineTypes /\ Echo
    BY InitInv, QueuesInit, LineInit
  <1>2. Inv /\ Queues /\ LineTypes /\ Echo /\ [Next]_vars => Inv' /\ Queues' /\ LineTypes' /\ Echo'
    BY NextInv, QueuesStep, LineStep
  <1> QED BY <1>1, <1>2, PTL DEF Spec

-----------------------------------------------------------------------------
\* The line and the byte that ends it fit the buffer of the program, for keyboards, tables and
\* buffers of any size (syscall.h 97-111).
THEOREM InputTypeOK == Spec => []TypeOK
  <1>1. Inv /\ Queues /\ LineTypes => TypeOK
    BY DEF Inv, Types, Queues, LineTypes, TypeOK
  <1> QED BY <1>1, SpecLine, PTL

-----------------------------------------------------------------------------
\* The row shows the line that SYS_GETLINE reads, whatever was typed and taken back
\* (syscall.h 97-111).
THEOREM InputEchoShowsLine == Spec => []EchoShowsLine
  <1>1. Echo => EchoShowsLine
    <2> SUFFICES ASSUME Echo, pc = "line"
                 PROVE  \E n \in 0..Len(Asked) : row = SubSeq(Asked, 1, n) \o Shown(buf)
      BY DEF EchoShowsLine, Echo
    <2>1. PICK left \in {<<>>, Asked} : row = left \o Shown(buf)
      BY DEF Echo
    <2>2. SubSeq(Asked, 1, 0) = <<>> /\ SubSeq(Asked, 1, 1) = Asked /\ Len(Asked) = 1
      <3>1. Asked \in Seq({"?"}) /\ Len(Asked) = 1
        BY DEF Asked
      <3> QED BY <3>1, SubSeqEmpty, SubSeqFull
    <2>3. CASE left = <<>>
      BY <2>1, <2>2, <2>3, 0 \in 0..Len(Asked)
    <2>4. CASE left = Asked
      BY <2>1, <2>2, <2>4, 1 \in 0..Len(Asked)
    <2> QED BY <2>1, <2>3, <2>4
  <1> QED BY <1>1, SpecLine, PTL
=============================================================================
