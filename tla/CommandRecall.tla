---------------------------- MODULE CommandRecall ----------------------------
(***************************************************************************)
(* What the prompt promises of the commands entered at it: the last ones   *)
(* can be recalled one after the other, a command entered twice in a row   *)
(* is kept once, and the line being typed comes back after the newest.     *)
(***************************************************************************)
EXTENDS Integers, Sequences

CONSTANTS Lines, Depth

VARIABLES
  past,    \* the commands kept, the most recent first
  line,
  at,      \* how far back the line shown is, 0 for the one being typed
  draft    \* the line being typed while another is shown

vars == <<past, line, at, draft>>

Shorter(m, n) == IF m < n THEN m ELSE n

Remember(l) ==
  IF l = <<>> \/ (past # <<>> /\ past[1] = l) THEN past
  ELSE [i \in 1 .. Shorter(Len(past) + 1, Depth) |-> IF i = 1 THEN l ELSE past[i - 1]]

Init == past = <<>> /\ line = <<>> /\ at = 0 /\ draft = <<>>

Type == line' \in Lines /\ UNCHANGED <<past, at, draft>>

Submit ==
  /\ past' = Remember(line)
  /\ line' = <<>> /\ at' = 0 /\ draft' = <<>>

Older ==
  /\ at < Len(past)
  /\ line' = past[at + 1] /\ at' = at + 1
  /\ draft' = IF at = 0 THEN line ELSE draft
  /\ UNCHANGED past

Newer ==
  /\ at > 0
  /\ line' = IF at = 1 THEN draft ELSE past[at - 1]
  /\ draft' = IF at = 1 THEN <<>> ELSE draft
  /\ at' = at - 1
  /\ UNCHANGED past

Next == Type \/ Submit \/ Older \/ Newer

Spec == Init /\ [][Next]_vars
=============================================================================
