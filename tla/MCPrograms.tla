----------------------------- MODULE MCPrograms -----------------------------
(***************************************************************************)
(* Files for the model Programs: one of each kind of outcome.              *)
(***************************************************************************)
EXTENDS Programs, TLC

Mz(header, bytes, relocs, count, table) ==
  [kind |-> "mz", size |-> header + Len(bytes), header |-> header, image |-> bytes,
   relocs |-> relocs, count |-> count, table |-> table, cs |-> 0, ip |-> 1, ss |-> 1, sp |-> 4]
At(segment, offset) == [segment |-> segment, offset |-> offset]
Elf(size, segs, type, machine) ==
  [kind |-> "elf", size |-> size, segs |-> segs, type |-> type, machine |-> machine]
Seg(vaddr, data, memsz) == [vaddr |-> vaddr, data |-> data, memsz |-> memsz]

HELLO == <<"hello", ".EXE">>
PROG == <<"prog", ".ELF">>
DRV == <<"drv", ".SYS">>

MCDisk ==
     HELLO :> Mz(8, <<1, 2, 15, 15, 3, 4>>, <<At(0, 1), At(0, 3), At(0, 1)>>, 3, 0)
  @@ <<"short", ".EXE">> :> Mz(16, <<>>, <<>>, 0, 0)
  @@ <<"large", ".EXE">> :> Mz(8, [k \in 1..16 |-> 1], <<>>, 0, 0)
  @@ <<"cut", ".EXE">> :> Mz(8, <<1, 2, 3, 4>>, <<At(0, 0), At(0, 2), At(0, 0)>>, 3, 4)
  @@ <<"wild", ".EXE">> :> Mz(8, <<1, 2, 3, 4>>, <<At(8, 0)>>, 1, 0)
  @@ PROG :> Elf(14, <<Seg(200, <<1, 2>>, 3), Seg(201, <<3>>, 2)>>, 2, 62)
  @@ DRV :> Elf(16, <<Seg(202, <<5>>, 2)>>, 2, 62)
  @@ <<"obj", ".ELF">> :> Elf(16, <<>>, 1, 62)
  @@ <<"arm", ".ELF">> :> Elf(16, <<>>, 2, 40)
  @@ <<"text", ".ELF">> :> [kind |-> "text", size |-> 16]
  @@ <<"empty", ".ELF">> :> Nothing

MCTyped == {<<p[1], "">> : p \in DOMAIN MCDisk} \cup {HELLO}
MCPsp == 0 :> 12 @@ 1 :> 2 @@ 3 :> 9
=============================================================================
