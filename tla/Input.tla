------------------------------- MODULE Input -------------------------------
(***************************************************************************)
(* What is typed and what the kernel reads: the output port the keyboard   *)
(* and the mouse share, class Keyboard of kernel/drivers/keyboard.h,       *)
(* PS2Mouse::poll of kernel/drivers/mouse.h, the loop of                   *)
(* kernel/kernel64.cpp that polls both, and SYS_GETLINE of                 *)
(* kernel/syscall.h.                                                       *)
(*                                                                         *)
(* A key is its scancode and whether 0xE0 comes before it.  The port holds *)
(* one byte and says whose it is; the keyboard goes on while it is full,   *)
(* and keeps the bytes of the keys to come.  What the flags ctrl and alt   *)
(* hold is read nowhere, and altgr is never set: they are left out.        *)
(***************************************************************************)
EXTENDS Integers, Sequences, FiniteSets

CONSTANTS
  Keys,        \* <<scancode, extended>>
  Named,       \* the scancodes translate knows after 0xE0: arrows, home, end, delete
  Builtin,     \* [upper -> [scancode -> character or None]]: FALLBACK_NORMAL, FALLBACK_SHIFTED
  Layout,      \* the same, of a .KTT file; None for what is_valid_char refuses
  MaxHeld,     \* bound: keys held at once
  MaxAhead,    \* bound: bytes the keyboard keeps when a key is typed; it has room for 16
  LineSizes    \* the sizes of the buffers programs give SYS_GETLINE

ASSUME InputAssumption ==
  /\ {MaxHeld, MaxAhead} \subseteq Nat /\ LineSizes \subseteq Nat \ {0}
  /\ \A k \in Keys : k[1] # "E0" /\ k[2] \in BOOLEAN

VARIABLES
  held, caps,                     \* the keys that are down, and the lock as the user set it
  sending, moving, port,          \* bytes the keyboard and the mouse have to send, the byte in the port
  shift, capslock, extended, has_layout,
  pc, key,                        \* the loop, and the character it read last
  buf, max, row,                  \* the line being read, and what its row shows
  muddled                         \* history: since the flags last agreed with the keys, something
                                  \* happened that the driver does not follow

keyboard == <<held, caps, sending>>
flags == <<shift, capslock, extended, has_layout>>
lineVars == <<buf, max, row>>
vars == <<keyboard, moving, port, flags, pc, key, lineVars, muddled>>

None == "none"
Enter == "enter"
Back == "backspace"
Shifts == {"LSHIFT", "RSHIFT"}
Modifiers == Shifts \cup {"CAPS", "CTRL", "ALT"}

\* A byte, with the shift keys and the lock as they were when it was typed: no part of the byte,
\* but what its key meant then.
Byte(from, code, up, ext, typed) ==
  [from |-> from, code |-> code, up |-> up, ext |-> ext, shift |-> typed[1], lock |-> typed[2]]
Other(from, code) == Byte(from, code, FALSE, FALSE, <<FALSE, FALSE>>)
Empty == Other("none", "none")
Packet == <<Other("mouse", "first"), Other("mouse", "second"), Other("mouse", "third")>>

\* What stands on the row before the line.
Asked == <<"?">>

Init ==
  /\ held = {} /\ caps = FALSE /\ sending = <<>> /\ moving = <<>> /\ port = Empty
  /\ shift = FALSE /\ capslock = FALSE /\ extended = FALSE /\ has_layout = FALSE
  /\ pc = "mouse" /\ key = None /\ buf = <<>> /\ max = 1 /\ row = <<>> /\ muddled = FALSE

-----------------------------------------------------------------------------
(***************************************************************************)
(* The devices.                                                            *)
(***************************************************************************)
ShiftHeld(h) == \E k \in h : k[1] \in Shifts
Agrees == shift = ShiftHeld(held) /\ capslock = caps /\ ~extended
Quiet == sending = <<>> /\ port.from # "keyboard"

\* Whether a shift key is down, and the lock.
Now == <<ShiftHeld(held), caps>>
E0 == Byte("keyboard", "E0", FALSE, TRUE, Now)

\* What a key sends, after what it does to the keys that are down and the lock.  E0 is a byte of
\* its own.
Sent(k, up) ==
  IF k[2] THEN <<E0, Byte("keyboard", k[1], up, TRUE, Now')>> ELSE <<Byte("keyboard", k[1], up, FALSE, Now')>>

\* Around a grey key the keyboard may send a shift that nobody pressed, to undo the one that is
\* down or the lock of the keypad.
Pretended(k, up) ==
  {<<>>} \cup (IF k[2] /\ k[1] \notin Modifiers THEN {<<E0, Byte("keyboard", "LSHIFT", up, TRUE, Now)>>} ELSE {})

Send(bytes) == Len(sending) <= MaxAhead /\ sending' = sending \o bytes
Clear == Quiet /\ Agrees

Press(k) ==
  /\ k \notin held /\ Cardinality(held) < MaxHeld
  /\ held' = held \cup {k} /\ caps' = (caps # (k[1] = "CAPS"))
  /\ \E fake \in Pretended(k, ShiftHeld(held)) : Send(fake \o Sent(k, FALSE))
  /\ muddled' = (muddled /\ ~Clear)
  /\ UNCHANGED <<moving, port, flags, pc, key, lineVars>>

\* The driver does not know that the other shift key is still down.
Lift(k) ==
  /\ k \in held
  /\ held' = held \ {k} /\ UNCHANGED caps
  /\ \E fake \in Pretended(k, ~ShiftHeld(held)) : Send(Sent(k, TRUE) \o fake)
  /\ muddled' = ((muddled /\ ~Clear) \/ (k[1] \in Shifts /\ ShiftHeld(held')))
  /\ UNCHANGED <<moving, port, flags, pc, key, lineVars>>

\* A key that is down repeats, the lock too: the driver turns it over each time.
Repeat(k) ==
  /\ k \in held /\ UNCHANGED <<held, caps>>
  /\ Send(Sent(k, FALSE))
  /\ muddled' = ((muddled /\ ~Clear) \/ k[1] = "CAPS")
  /\ UNCHANGED <<moving, port, flags, pc, key, lineVars>>

Move ==
  /\ moving = <<>> /\ moving' = Packet
  /\ UNCHANGED <<keyboard, port, flags, pc, key, lineVars, muddled>>

Arrive ==
  /\ port = Empty
  /\ \/ sending # <<>> /\ port' = Head(sending) /\ sending' = Tail(sending) /\ UNCHANGED moving
     \/ moving # <<>> /\ port' = Head(moving) /\ moving' = Tail(moving) /\ UNCHANGED sending
  /\ UNCHANGED <<held, caps, flags, pc, key, lineVars, muddled>>

-----------------------------------------------------------------------------
(***************************************************************************)
(* PS2Mouse::poll.                                                         *)
(***************************************************************************)
\* A byte that is not a first one passes for one if its bit 3 is set.  The line read before is
\* the program's by now.
MousePoll ==
  /\ pc = "mouse"
  /\ IF port.from = "mouse"
     THEN port' = Empty /\ pc' \in (IF port.code = "first" THEN {"b2"} ELSE {"b2", "keyboard"})
     ELSE UNCHANGED port /\ pc' = "keyboard"
  /\ key' = None /\ buf' = <<>> /\ max' = 1 /\ row' = <<>>
  /\ UNCHANGED <<keyboard, moving, flags, muddled>>

\* The second and the third byte are read whosever they are.  The wait is counted: when it ends
\* the port is read as it is.
MouseWait ==
  /\ pc \in {"b2", "b3"}
  /\ port' = Empty
  /\ pc' = IF pc = "b2" THEN "b3" ELSE "keyboard"
  /\ muddled' = (muddled \/ port.from = "keyboard")
  /\ UNCHANGED <<keyboard, moving, flags, key, lineVars>>

-----------------------------------------------------------------------------
(***************************************************************************)
(* Keyboard::poll, and getchar, which is poll until there is a character.  *)
(***************************************************************************)
\* Mutant of translate: shift does not undo the lock.
translate_or(code) ==
  LET upper == shift \/ capslock
  IN  IF extended THEN IF code \in Named THEN code ELSE None
      ELSE IF has_layout /\ Layout[upper][code] # None THEN Layout[upper][code]
      ELSE Builtin[upper][code]

translate(code) ==
  LET upper == shift # capslock
  IN  IF extended THEN IF code \in Named THEN code ELSE None
      ELSE IF has_layout /\ Layout[upper][code] # None THEN Layout[upper][code]
      ELSE Builtin[upper][code]

\* Mutant of handle_modifier: the right shift key is not released.
handle_modifier_left(b) ==
  /\ shift' = IF b.code \in Shifts /\ (b.code = "LSHIFT" \/ ~b.up) THEN ~b.up ELSE shift
  /\ capslock' = (capslock # (b.code = "CAPS"))
  /\ UNCHANGED extended

handle_modifier(b) ==
  /\ shift' = IF b.code \in Shifts THEN ~b.up ELSE shift
  /\ capslock' = (capslock # (b.code = "CAPS"))
  /\ UNCHANGED extended

\* The lock is a modifier when it goes down only.
IsModifier(b) == b.code \in Modifiers /\ ~(b.code = "CAPS" /\ b.up)

\* A byte of the mouse is dropped.
Understand(b) ==
  \/ b.from = "mouse" /\ key' = None /\ UNCHANGED <<shift, capslock, extended>>
  \/ b.code = "E0" /\ extended' = TRUE /\ key' = None /\ UNCHANGED <<shift, capslock>>
  \/ IsModifier(b) /\ handle_modifier(b) /\ key' = None
  \/ /\ b.from = "keyboard" /\ b.code # "E0" /\ ~IsModifier(b)
     /\ extended' = FALSE
     /\ key' = IF b.up THEN None ELSE translate(b.code)
     /\ UNCHANGED <<shift, capslock>>

\* 0xE0 stays when what follows it is a modifier.
Read ==
  /\ port # Empty /\ port' = Empty
  /\ Understand(port)
  /\ muddled' = (muddled \/ (port.code \in Modifiers /\ port.ext))
  /\ UNCHANGED <<keyboard, moving, has_layout>>

KeyboardPoll ==
  /\ pc = "keyboard" /\ pc' = "mouse"
  /\ \/ Read
     \/ port = Empty /\ key' = None /\ UNCHANGED <<keyboard, moving, port, flags, muddled>>
  /\ UNCHANGED lineVars

\* load_layout and unload_layout.
ChooseLayout ==
  /\ pc = "mouse" /\ has_layout' = ~has_layout
  /\ UNCHANGED <<keyboard, moving, port, shift, capslock, extended, pc, key, lineVars, muddled>>

-----------------------------------------------------------------------------
(***************************************************************************)
(* SYS_GETLINE, on a row wide enough for the line.                         *)
(***************************************************************************)
Call ==
  /\ pc = "mouse"
  /\ \E n \in LineSizes : max' = n /\ pc' = IF n = 1 THEN "mouse" ELSE "line"
  /\ buf' = <<>> /\ row' = Asked
  /\ UNCHANGED <<keyboard, moving, port, flags, key, muddled>>

But(s) == SubSeq(s, 1, Len(s) - 1)

\* Mutant of GetLine: the last character is taken off the line, not off the row.
GetLineSilent(c) ==
  \/ c = None /\ UNCHANGED <<pc, lineVars>>
  \/ c = Enter /\ pc' = "mouse" /\ UNCHANGED lineVars
  \/ c = Back /\ buf # <<>> /\ buf' = But(buf) /\ UNCHANGED <<row, pc, max>>
  \/ /\ c \notin {None, Enter} /\ ~(c = Back /\ buf # <<>>)
     /\ buf' = Append(buf, c)
     /\ row' = IF c = Back THEN But(row) ELSE Append(row, c)
     /\ pc' = IF Len(buf') < max - 1 THEN "line" ELSE "mouse"
     /\ UNCHANGED max

\* Mutant of GetLine: the byte that ends the line is not counted.
GetLineWide(c) ==
  \/ c = None /\ UNCHANGED <<pc, lineVars>>
  \/ c = Enter /\ pc' = "mouse" /\ UNCHANGED lineVars
  \/ c = Back /\ buf # <<>> /\ buf' = But(buf) /\ row' = But(row) /\ UNCHANGED <<pc, max>>
  \/ /\ c \notin {None, Enter} /\ ~(c = Back /\ buf # <<>>)
     /\ buf' = Append(buf, c)
     /\ row' = IF c = Back THEN But(row) ELSE Append(row, c)
     /\ pc' = IF Len(buf') < max THEN "line" ELSE "mouse"
     /\ UNCHANGED max

\* A backspace at the beginning of the line goes into it, and takes off the row what stood
\* before.  A line that fills its buffer ends without Enter.
GetLine(c) ==
  \/ c = None /\ UNCHANGED <<pc, lineVars>>
  \/ c = Enter /\ pc' = "mouse" /\ UNCHANGED lineVars
  \/ c = Back /\ buf # <<>> /\ buf' = But(buf) /\ row' = But(row) /\ UNCHANGED <<pc, max>>
  \/ /\ c \notin {None, Enter} /\ ~(c = Back /\ buf # <<>>)
     /\ buf' = Append(buf, c)
     /\ row' = IF c = Back THEN But(row) ELSE Append(row, c)
     /\ pc' = IF Len(buf') < max - 1 THEN "line" ELSE "mouse"
     /\ UNCHANGED max

ReadLine == pc = "line" /\ Read /\ GetLine(key')

Next ==
  \/ \E k \in Keys : Press(k) \/ Lift(k) \/ Repeat(k)
  \/ Move
  \/ Arrive
  \/ MousePoll
  \/ MouseWait
  \/ KeyboardPoll
  \/ ChooseLayout
  \/ Call
  \/ ReadLine

Spec == Init /\ [][Next]_vars

-----------------------------------------------------------------------------
(***************************************************************************)
(* Properties.                                                             *)
(***************************************************************************)
Codes == {k[1] : k \in Keys}
Tables == {Builtin, Layout}
Characters == Named \cup UNION {{t[u][c] : u \in BOOLEAN, c \in Codes \ Modifiers} : t \in Tables}

KeyBytes == {Byte("keyboard", c, up, ext, <<sh, lock>>) :
               c \in Codes \cup Shifts \cup {"E0"}, up \in BOOLEAN, ext \in BOOLEAN, sh \in BOOLEAN, lock \in BOOLEAN}

\* Type invariant: the line and the byte that ends it fit the buffer of the program
\* (syscall.h 97-111).
TypeOK ==
  /\ held \subseteq Keys /\ caps \in BOOLEAN
  /\ sending \in Seq(KeyBytes) /\ Len(sending) <= MaxAhead + 4
  /\ moving \in {SubSeq(Packet, i, 3) : i \in 1..4}
  /\ shift \in BOOLEAN /\ capslock \in BOOLEAN /\ extended \in BOOLEAN /\ has_layout \in BOOLEAN
  /\ pc \in {"mouse", "b2", "b3", "keyboard", "line"} /\ key \in Characters \cup {None}
  /\ max \in LineSizes \cup {1} /\ Len(buf) + 1 <= max
  /\ buf \in Seq(Characters \ {None}) /\ row \in Seq(Characters \cup {"?"})
  /\ muddled \in BOOLEAN

\* With every byte of the keyboard read, the flags say which keys are down and how the lock was
\* set, however many keys were typed ahead, as long as the mouse took no byte of the keyboard, no
\* modifier came after 0xE0, the lock was not held until it repeats and no shift key was lifted
\* while the other was down (keyboard.h 57-73, 136-162).
Understood == Quiet /\ ~muddled => Agrees

\* The key that is read gives the character it stood for when it was typed, with the keys that
\* were down then, whatever has been typed since (keyboard.h 57-73, 109-162).
Meaning(b) ==
  LET upper == b.shift # b.lock
  IN  IF b.ext THEN IF b.code \in Named THEN b.code ELSE None
      ELSE IF has_layout /\ Layout[upper][b.code] # None THEN Layout[upper][b.code]
      ELSE Builtin[upper][b.code]

Delivers ==
  [][/\ port.from = "keyboard" /\ port' = Empty /\ pc \in {"keyboard", "line"}
     /\ port.code \notin Modifiers \cup {"E0"} /\ ~port.up /\ ~muddled
     => key' = Meaning(port)]_vars

\* The row shows the line that is read, whatever was typed and taken back, after what the
\* backspaces at its beginning left of what stood there (syscall.h 97-111).  Only a backspace
\* that begins the line is a character of it.
Shown(l) == IF l # <<>> /\ Head(l) = Back THEN Tail(l) ELSE l
EchoShowsLine ==
  pc = "line" => /\ \A i \in 2..Len(buf) : buf[i] # Back
                 /\ \E n \in 0..Len(Asked) : row = SubSeq(Asked, 1, n) \o Shown(buf)
=============================================================================
