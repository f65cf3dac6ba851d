------------------------------ MODULE MCPrompt ------------------------------
(***************************************************************************)
(* Two letters, lines of up to two of them, a ring of two commands and a   *)
(* row on which the prompt and the longest line do not fit.                *)
(***************************************************************************)
EXTENDS Prompt

MCPromptText == <<"C", ">">>
MCOutputs    == {<<>>, <<"o">>}
=============================================================================
