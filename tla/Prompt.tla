------------------------------- MODULE Prompt -------------------------------
(***************************************************************************)
(* The line editor of the prompt (kernel/prompt.h), the ring of past       *)
(* commands it recalls (kernel64.cpp, history_add and history_get) and the *)
(* row of the text screen it draws on (Terminal).                          *)
(*                                                                         *)
(* A line is the sequence of its characters: what a buffer holds past its  *)
(* length is read nowhere, the byte Enter ends the line with excepted.     *)
(* Rows under the one being typed on are blank.  Every action is one key.  *)
(***************************************************************************)
EXTENDS Integers, Sequences

CONSTANTS
  Chars,
  PromptText,     \* what get_prompt writes, a sequence of cells
  Outputs,        \* what a command may leave on its last row
  LineMax,        \* 255 in the code
  HistorySize,    \* HISTORY_SIZE, 16
  Width           \* 80

ASSUME PromptAssumption ==
  /\ LineMax \in Nat
  /\ HistorySize \in Nat \ {0}
  /\ Width \in Nat \ {0}

Blank == " "
Back  == "backspace"   \* '\b'

\* The characters that are drawn, and the only ones a key, a prompt or the last row of
\* a command holds.
Plain == STRING \ {"\r", Back}

ASSUME TextsArePlain ==
  Chars \subseteq Plain /\ PromptText \in Seq(Plain) /\ Outputs \subseteq Seq(Plain)

\* A command leaves room for the prompt on its last row.
ASSUME OutputsFit == \A out \in Outputs : Len(out) + Len(PromptText) < Width

VARIABLES
  line, cursor,                           \* buf and len, cursor
  saved,                                  \* saved and saved_len
  hist_pos,
  history, history_head, history_count,
  screen                                  \* the cells of the row and the column

typed == <<line, cursor>>
ring  == <<history, history_head, history_count>>
vars  == <<typed, saved, hist_pos, ring, screen>>

-----------------------------------------------------------------------------
(***************************************************************************)
(* The row of the screen.                                                  *)
(***************************************************************************)
putchar(s, c) ==
  IF c = "\r" THEN [cells |-> s.cells, col |-> 0]
  ELSE IF c = Back
       THEN IF s.col = 0 THEN s
            ELSE [cells |-> [s.cells EXCEPT ![s.col - 1] = Blank], col |-> s.col - 1]
       ELSE [cells |-> [s.cells EXCEPT ![s.col] = c],
             col   |-> IF s.col + 1 >= Width THEN 0 ELSE s.col + 1]

\* The row after each of the characters of the text.
Drawn(s, text) ==
  LET after[k \in 0 .. Len(text)] ==
        IF k = 0 THEN s ELSE putchar(after[k - 1], text[k])
  IN  after

Printed(s, text) == Drawn(s, text)[Len(text)]
Times(n, c) == [i \in 1 .. n |-> c]

NewRow == [cells |-> [i \in 0 .. Width - 1 |-> Blank], col |-> 0]

\* Mutant of redraw: the row is not blanked first.
redrawOver(l, k) ==
  Printed(screen, <<"\r">> \o PromptText \o l \o Times(Len(l) - k, Back))

\* The row with line l and the cursor after its first k characters.
redraw(l, k) ==
  Printed(screen, Times(Width, Blank) \o <<"\r">> \o PromptText
                    \o l \o Times(Len(l) - k, Back))

-----------------------------------------------------------------------------
(***************************************************************************)
(* The ring of past commands.                                              *)
(***************************************************************************)
\* The offset-th most recent command, offset \in 1 .. history_count.
history_get(offset) == history[(history_head - offset + HistorySize * 2) % HistorySize]

last == (history_head - 1 + HistorySize) % HistorySize

history_add(cmd) ==
  IF cmd = <<>> \/ (history_count > 0 /\ history[last] = cmd) THEN UNCHANGED ring
  ELSE /\ history'       = [history EXCEPT ![history_head] = cmd]
       /\ history_head'  = (history_head + 1) % HistorySize
       /\ history_count' = IF history_count < HistorySize THEN history_count + 1
                           ELSE history_count

-----------------------------------------------------------------------------
(***************************************************************************)
(* The keys.                                                               *)
(***************************************************************************)
Init ==
  /\ line = <<>> /\ cursor = 0 /\ saved = <<>> /\ hist_pos = 0
  /\ history = [i \in 0 .. HistorySize - 1 |-> <<>>]
  /\ history_head = 0 /\ history_count = 0
  /\ screen = Printed(NewRow, PromptText)

\* Line l with the cursor after k characters, drawn again.
Redrawn(l, k) == line' = l /\ cursor' = k /\ screen' = redraw(l, k)

\* The line is run, and the prompt begins again after what the command printed.
Enter ==
  /\ history_add(line)
  /\ \E out \in Outputs :
       /\ line = <<>> => out = <<>>
       /\ screen' = Printed(NewRow, out \o PromptText)
  /\ line' = <<>> /\ cursor' = 0 /\ saved' = <<>> /\ hist_pos' = 0

\* Mutant of Insert: the length is not tested.
InsertAlways(c) ==
  /\ Redrawn(SubSeq(line, 1, cursor) \o <<c>> \o SubSeq(line, cursor + 1, Len(line)), cursor + 1)
  /\ UNCHANGED <<saved, hist_pos, ring>>

Insert(c) ==
  /\ IF Len(line) >= LineMax THEN Redrawn(line, cursor)
     ELSE Redrawn(SubSeq(line, 1, cursor) \o <<c>> \o SubSeq(line, cursor + 1, Len(line)),
                  cursor + 1)
  /\ UNCHANGED <<saved, hist_pos, ring>>

\* The line without the character after its first k.
Without(k) == SubSeq(line, 1, k) \o SubSeq(line, k + 2, Len(line))

Backspace ==
  /\ IF cursor <= 0 THEN Redrawn(line, cursor) ELSE Redrawn(Without(cursor - 1), cursor - 1)
  /\ UNCHANGED <<saved, hist_pos, ring>>

Delete ==
  /\ IF cursor >= Len(line) THEN Redrawn(line, cursor) ELSE Redrawn(Without(cursor), cursor)
  /\ UNCHANGED <<saved, hist_pos, ring>>

\* The cursor moves to the left over n characters, which disappear from the row, or
\* to the right over n, which are drawn again.
Leftwards(n) ==
  /\ cursor' = cursor - n /\ screen' = Printed(screen, Times(n, Back))
  /\ UNCHANGED <<line, saved, hist_pos, ring>>

Rightwards(n) ==
  /\ cursor' = cursor + n
  /\ screen' = Printed(screen, SubSeq(line, cursor + 1, cursor + n))
  /\ UNCHANGED <<line, saved, hist_pos, ring>>

Left  == cursor > 0 /\ Leftwards(1)
Home  == Leftwards(cursor)
Right == cursor < Len(line) /\ Rightwards(1)
End   == Rightwards(Len(line) - cursor)

\* Mutant of Up: the line being typed is saved at every key.
UpSavesAgain ==
  /\ saved' = line
  /\ IF hist_pos < history_count
     THEN /\ hist_pos' = hist_pos + 1
          /\ Redrawn(history_get(hist_pos + 1), Len(history_get(hist_pos + 1)))
     ELSE UNCHANGED hist_pos /\ Redrawn(line, cursor)
  /\ UNCHANGED ring

Up ==
  /\ saved' = IF hist_pos = 0 THEN line ELSE saved
  /\ IF hist_pos < history_count
     THEN /\ hist_pos' = hist_pos + 1
          /\ Redrawn(history_get(hist_pos + 1), Len(history_get(hist_pos + 1)))
     ELSE UNCHANGED hist_pos /\ Redrawn(line, cursor)
  /\ UNCHANGED ring

Down ==
  /\ hist_pos > 0
  /\ hist_pos' = hist_pos - 1
  /\ LET l == IF hist_pos = 1 THEN saved ELSE history_get(hist_pos - 1)
     IN  Redrawn(l, Len(l))
  /\ UNCHANGED <<saved, ring>>

Next ==
  \/ Enter \/ (\E c \in Chars : Insert(c)) \/ Backspace \/ Delete
  \/ Left \/ Right \/ Home \/ End
  \/ Up \/ Down

Spec == Init /\ [][Next]_vars

-----------------------------------------------------------------------------
(***************************************************************************)
(* Properties.                                                             *)
(***************************************************************************)
Lines == {l \in Seq(Chars) : Len(l) <= LineMax}

\* Lines and commands fit their buffers, the cursor stays within the line, and a
\* command is recalled only if the ring holds it (prompt.h:115, kernel64.cpp:1484).
TypeOK ==
  /\ line \in Lines /\ cursor \in 0 .. Len(line) /\ saved \in Lines
  /\ history \in [0 .. HistorySize - 1 -> Lines]
  /\ history_head \in 0 .. HistorySize - 1
  /\ history_count \in 0 .. HistorySize
  /\ hist_pos \in 0 .. history_count

\* The row shows the prompt and the line up to the cursor, and nothing after, whatever
\* was recalled, erased or printed before, as long as it all fits on the row
\* (prompt.h:143-150): the cursor of the screen is where the next character goes.
RowShowsLine ==
  LET shown == PromptText \o SubSeq(line, 1, cursor)
      from  == screen.col - Len(shown)
  IN  Len(PromptText) + Len(line) < Width =>
        /\ from >= 0 /\ (line # <<>> => from = 0)
        /\ \A i \in 1 .. Len(shown) : screen.cells[from + i - 1] = shown[i]
        /\ \A i \in screen.col .. Width - 1 : screen.cells[i] = Blank

\* The commands in the ring, the most recent first.
Past == [i \in 1 .. history_count |-> history_get(i)]

Recall == INSTANCE CommandRecall WITH
  past <- Past, at <- hist_pos, Depth <- HistorySize,
  draft <- IF hist_pos = 0 THEN <<>> ELSE saved

\* UP and DOWN walk through the last commands, each where it was entered and none twice
\* in a row, and end at the line that was being typed, wherever the ring has wrapped
\* (prompt.h:188-203, kernel64.cpp:1468-1487).
ImplementsRecall == Recall!Spec
=============================================================================
