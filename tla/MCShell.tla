------------------------------- MODULE MCShell -------------------------------
(***************************************************************************)
(* Two trees the host may have written on C:, with one program under one   *)
(* or several extensions, and a typed path of each form.                   *)
(***************************************************************************)
EXTENDS Shell

Typed(vol, abs, parts) == [vol |-> vol, abs |-> abs, parts |-> parts]
Rel(parts)             == Typed(NoVolume, FALSE, parts)

MCNames == {"D", "P", "P.ELF", "P.SYS", "P.EXE"}
MCPaths == {Rel(<<"D">>), Rel(<<"P">>), Rel(<<"D", "P">>), Typed(NoVolume, TRUE, <<"P">>),
            Typed("C", TRUE, <<"D", "P">>)}
MCCdPaths  == {Rel(<<"D">>), Rel(<<"..">>), Typed(NoVolume, TRUE, <<>>),
               Typed("A", FALSE, <<>>), Typed("C", FALSE, <<>>)}
MCNewNames == {"P.ELF"}
MCProgramCds == {Rel(<<"D">>), Typed("B", FALSE, <<>>)}
MCWithExt == [x \in {"P"} \X {"ELF", "SYS", "EXE"} |->
                CASE x[2] = "ELF" -> "P.ELF" [] x[2] = "SYS" -> "P.SYS" [] OTHER -> "P.EXE"]
MCImages  == {[dirs |-> {<<>>, <<"D">>}, files |-> {<<"P.SYS">>, <<"P.EXE">>, <<"D", "P.ELF">>}],
              [dirs |-> {<<>>}, files |-> {<<"P">>, <<"P.ELF">>, <<"P.SYS">>}]}

\* The properties read what a command asks only in the step that asks it.
WithoutAsked == <<volume, cwd, mounts, tree, program, drivers, fault>>
=============================================================================
