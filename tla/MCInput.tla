------------------------------ MODULE MCInput ------------------------------
(***************************************************************************)
(* A letter, Enter, backspace, both shift keys, the lock and the grey      *)
(* arrow, two of them held at once, repeating, and one typed while the     *)
(* last byte of another is still in the port.  The layout has no capital   *)
(* of its own, so that it falls back to the table in the code.             *)
(***************************************************************************)
EXTENDS Input

MCKeys == {<<"A", FALSE>>, <<"ENTER", FALSE>>, <<"BACK", FALSE>>, <<"LSHIFT", FALSE>>,
           <<"RSHIFT", FALSE>>, <<"CAPS", FALSE>>, <<"UP", TRUE>>}

Table(lower, upper) ==
  [u \in BOOLEAN |-> [c \in {k[1] : k \in MCKeys} |->
     CASE c = "A" -> IF u THEN upper ELSE lower
       [] c = "ENTER" -> Enter
       [] c = "BACK" -> Back
       [] OTHER -> None]]

MCBuiltin == Table("a", "A")
MCLayout == Table("q", None)
=============================================================================
