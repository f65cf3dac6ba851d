-------------------------------- MODULE Cpu --------------------------------
(***************************************************************************)
(* The real-mode processor of src/kernel/mzexe.h: MZExeLoader::            *)
(* emulate_step, one instruction at a time, under the loop of              *)
(* execute_real_mode_stub with its detector of loops and its budget.       *)
(*                                                                         *)
(* An instruction is a record; len is the number of bytes it takes.  A     *)
(* word is two bytes of Byte values each, so that the halves of a register *)
(* and the carry out of a byte or of a word are those of the code.  Memory *)
(* is the bytes written so far: the loader clears its block of MemSize     *)
(* bytes first.  An address a segment and an offset can make goes past the *)
(* block: the bytes from MemSize on are the heap behind it, with what the  *)
(* image says they hold.  A program does not write over its instructions,  *)
(* which are kept apart.                                                   *)
(***************************************************************************)
EXTENDS Integers, Sequences, TLC, Bitwise, Functions

CONSTANTS
  Byte,          \* values of a byte: 256 in the code
  Paragraph,     \* bytes from a segment to the next: 16
  MemSize,       \* RM_MEM_SIZE
  VgaFirst, VgaLast,  \* writes to these addresses go to the screen
  IntBits,       \* bits of an int of the host: 32
  MaxSteps,      \* the budget given to execute_real_mode_stub
  MaxRepeats,    \* 10000: steps on one instruction before it is a loop
  Dollar,        \* the byte that ends the text of INT 21h/09
  MaxText,       \* 8192: characters of a text without one
  Service,       \* what INT 21h does for each value of AH
  Images         \* programs with the registers and memory they start from

ASSUME CpuAssumption ==
  /\ Byte \in Nat /\ Byte >= 16
  /\ {MemSize, Paragraph, IntBits, MaxSteps, MaxRepeats, MaxText} \subseteq Nat
  /\ \A image \in Images : DOMAIN image = {"name", "code", "regs", "mem", "in"}

VARIABLES
  image,         \* the program, never changed
  cpu,           \* [r |-> registers, m |-> memory]
  halt, exit_code,
  steps,         \* i of the loop
  last, repeat_count,
  rc,            \* what execute_real_mode_stub returned, or Running
  console        \* characters given to host_putc

vars == <<image, cpu, halt, exit_code, steps, last, repeat_count, rc, console>>

Running == 1   \* not a value execute_real_mode_stub returns
Trapped == 2   \* nor this: the host's processor refused, and fuckup stopped the kernel
Word == Byte * Byte
Lo(w) == w % Byte
Hi(w) == w \div Byte
SignedByte(b) == IF b < Byte \div 2 THEN b ELSE b - Byte
SignedWord(w) == IF w < Word \div 2 THEN w ELSE w - Word

(***************************************************************************)
(* Flags: the bits the conditions look at, CF, ZF, SF and PF in the low    *)
(* byte and DF and OF in the high one.                                     *)
(***************************************************************************)
CF == 1
ZF == 2
SF == 4
PF == 8
DF == Byte
OF == 2 * Byte

Has(s, bit) == (s.r.flags \div bit) % 2 = 1
Carry(s) == s.r.flags % 2
SetFlag(s, bit, on) ==
  IF Has(s, bit) = on THEN s
  ELSE [s EXCEPT !.r.flags = IF on THEN @ + bit ELSE @ - bit]

(***************************************************************************)
(* Registers and memory.                                                   *)
(***************************************************************************)
reg16_by_index == <<"ax", "cx", "dx", "bx", "sp", "bp", "si", "di">>

get_reg8(s, n) ==
  IF n < 4 THEN Lo(s.r[reg16_by_index[n + 1]]) ELSE Hi(s.r[reg16_by_index[n - 3]])

set_reg8(s, n, v) ==
  IF n < 4 THEN [s EXCEPT !.r[reg16_by_index[n + 1]] = Hi(@) * Byte + v]
           ELSE [s EXCEPT !.r[reg16_by_index[n - 3]] = Lo(@) + Byte * v]

linear(seg, off) == seg * Paragraph + off

Peek(s, a) == IF a \in DOMAIN s.m THEN s.m[a] ELSE 0
Poke(s, a, v) == [s EXCEPT !.m = (a :> v) @@ @]

WrittenAnywhere(a) == a \notin VgaFirst..VgaLast          \* mutant of Written

Written(a) == a \notin VgaFirst..VgaLast /\ a < MemSize
write_mem8(s, a, v) == IF Written(a) THEN Poke(s, a, v) ELSE s

write_mem16(s, a, w) == write_mem8(write_mem8(s, a, Lo(w)), a + 1, Hi(w))

read_mem16(s, a) ==
  IF a + 1 >= MemSize THEN 0 ELSE Peek(s, a) + Byte * Peek(s, a + 1)

Lower(s) == [s EXCEPT !.r.sp = (@ - 2) % Word]
StackTop(s) == linear(s.r.ss, s.r.sp)

\* PUSH and POP of a register go to the memory itself, every other push and pop by write_mem16
\* and read_mem16.
push16(s, w) == LET t == Lower(s) IN Poke(Poke(t, StackTop(t), Lo(w)), StackTop(t) + 1, Hi(w))
Push(s, w) == LET t == Lower(s) IN write_mem16(t, StackTop(t), w)

pop16(s) == Peek(s, StackTop(s)) + Byte * Peek(s, StackTop(s) + 1)
Top(s) == read_mem16(s, StackTop(s))
Drop(s, n) == [s EXCEPT !.r.sp = (@ + n) % Word]

(***************************************************************************)
(* Operands: a register, a segment register, a constant, or memory with    *)
(* the mod and rm fields and the displacement that follows them.           *)
(***************************************************************************)
DispLen(o) ==
  CASE o.k # "mem" -> 0
    [] o.mod = 1 -> 1
    [] o.mod = 2 \/ (o.mod = 0 /\ o.rm = 6) -> 2
    [] OTHER -> 0

Base(s, o) ==
  CASE o.rm = 0 -> s.r.bx + s.r.si
    [] o.rm = 1 -> s.r.bx + s.r.di
    [] o.rm = 2 -> s.r.bp + s.r.si
    [] o.rm = 3 -> s.r.bp + s.r.di
    [] o.rm = 4 -> s.r.si
    [] o.rm = 5 -> s.r.di
    [] o.rm = 6 -> IF o.mod = 0 THEN 0 ELSE s.r.bp
    [] o.rm = 7 -> s.r.bx

Displacement(o) ==
  CASE DispLen(o) = 0 -> 0
    [] DispLen(o) = 1 -> SignedByte(o.disp)
    [] DispLen(o) = 2 -> o.disp

OnStack(o) == o.rm \in {2, 3} \/ (o.rm = 6 /\ o.mod # 0)

get_effective_address(s, o) ==
  linear(IF OnStack(o) THEN s.r.ss ELSE s.r.ds, (Base(s, o) + Displacement(o)) % Word)

\* The value of operand o, of w bytes.
Get(s, o, w) ==
  CASE o.k = "imm" -> o.v
    [] o.k = "sreg" -> s.r[o.s]
    [] o.k = "reg" -> IF w = 1 THEN get_reg8(s, o.n) ELSE s.r[reg16_by_index[o.n + 1]]
    [] o.k = "mem" -> IF w = 1 THEN Peek(s, get_effective_address(s, o))
                               ELSE read_mem16(s, get_effective_address(s, o))

Put(s, o, w, v) ==
  CASE o.k = "sreg" -> IF o.s = "cs" THEN s ELSE [s EXCEPT !.r[o.s] = v]
    [] o.k = "reg" -> IF w = 1 THEN set_reg8(s, o.n, v)
                               ELSE [s EXCEPT !.r[reg16_by_index[o.n + 1]] = v]
    [] o.k = "mem" -> IF w = 1 THEN write_mem8(s, get_effective_address(s, o), v)
                               ELSE write_mem16(s, get_effective_address(s, o), v)

\* The constant of an instruction with a memory operand is read before the displacement is
\* stepped over: with a displacement, its bytes are what is read.
EarlyImm(o, v, w) ==
  CASE DispLen(o) = 0 -> v
    [] w = 1 -> Lo(o.disp)
    [] DispLen(o) = 2 -> o.disp
    [] OTHER -> o.disp + Byte * Lo(v)

\* The second operand of an instruction whose first is dst; form 83 extends the sign of a byte.
Operand(s, i) ==
  CASE i.src.k # "imm" -> Get(s, i.src, i.w)
    [] i.op = "alu" /\ i.form = "83" /\ DispLen(i.dst) > 0 -> SignedByte(Lo(i.dst.disp)) % (Byte * Byte)
    [] OTHER -> EarlyImm(i.dst, i.src.v, i.w)

Modulus(w) == IF w = 1 THEN Byte ELSE Word

(***************************************************************************)
(* The bytes an instruction steps over.  Shifts, the group F6 and INC and  *)
(* DEC of a byte do not count the displacement of a memory operand, and    *)
(* every instruction of the coprocessor with memory is taken for four.     *)
(***************************************************************************)
Skip(i) ==
  CASE i.op = "fpu" -> IF i.dst.k = "reg" THEN 2 ELSE 4
    [] i.op = "shift" \/ (i.op \in {"group3", "incdec"} /\ i.w = 1) ->
         i.len - DispLen(i.dst)
    [] OTHER -> i.len

After(i) == (cpu.r.ip + i.len) % Word
Advance(s, i) == [s EXCEPT !.r.ip = (cpu.r.ip + Skip(i)) % Word]
Goto(s, ip) == [s EXCEPT !.r.ip = ip]
Relative(i) == (After(i) + i.rel) % Word

(***************************************************************************)
(* One operator per family of instructions: the state it leaves.           *)
(***************************************************************************)
Flags(s, i) ==
  CASE i.op = "cmc" -> SetFlag(s, CF, ~Has(s, CF))
    [] i.op = "clc" -> SetFlag(s, CF, FALSE)
    [] i.op = "stc" -> SetFlag(s, CF, TRUE)
    [] i.op = "cld" -> SetFlag(s, DF, FALSE)
    [] i.op = "std" -> SetFlag(s, DF, TRUE)
    [] i.op = "pushf" -> Push(s, s.r.flags)
    [] i.op = "popf" -> Drop([s EXCEPT !.r.flags = Top(s)], 2)
    [] i.op = "sahf" -> [s EXCEPT !.r.flags = Hi(@) * Byte + Hi(s.r.ax)]
    [] i.op = "lahf" -> [s EXCEPT !.r.ax = Lo(@) + Byte * Lo(s.r.flags)]

AllPushed == <<"ax", "cx", "dx", "bx", "sp", "bp", "si", "di">>

\* The address of the n-th word below the top of the stack, or above it.
StackWord(s, n) == linear(s.r.ss, (s.r.sp - 2 * n) % Word)

PushAll(s) ==
  LET Cells == [a \in UNION {{StackWord(s, n), StackWord(s, n) + 1} : n \in 1..8} |->
                  LET n == CHOOSE n \in 1..8 : a - StackWord(s, n) \in 0..1
                      w == s.r[AllPushed[n]]
                  IN  IF a = StackWord(s, n) THEN Lo(w) ELSE Hi(w)]
  IN  [s EXCEPT !.m = Restrict(Cells, {a \in DOMAIN Cells : Written(a)}) @@ @, !.r.sp = (@ - 16) % Word]

PopAll(s) ==
  LET Popped == [name \in {"ax", "bx", "cx", "dx", "si", "di", "bp"} |->
                   read_mem16(s, StackWord(s, (CHOOSE n \in 1..8 : AllPushed[n] = name) - 8))]
  IN  [s EXCEPT !.r = Popped @@ [@ EXCEPT !.sp = (@ + 16) % Word]]

Stack(s, i) ==
  CASE i.op = "push" /\ i.src.k = "reg" /\ i.len = 1 -> push16(s, Get(s, i.src, 2))
    [] i.op = "push" -> Push(s, Get(s, i.src, 2))
    [] i.op = "pop" /\ i.dst.k = "reg" -> Put(Drop(s, 2), i.dst, 2, pop16(s))
    [] i.op = "pop" -> Put(Drop(s, 2), i.dst, 2, Top(s))
    [] i.op = "pusha" -> PushAll(s)
    [] i.op = "popa" -> PopAll(s)

\* XCHG of a byte takes the address of its memory before it changes the register (src), XCHG
\* of a word takes it again after.
Transfer(s, i) ==
  CASE i.op = "mov" -> Put(s, i.dst, i.w, Operand(s, i))
    [] i.op = "lea" -> Put(s, i.dst, 2, get_effective_address(s, i.src) % Word)
    [] i.op = "xchg" /\ i.w = 1 -> Put(Put(s, i.dst, 1, Get(s, i.src, 1)), i.src, 1, Get(s, i.dst, 1))
    [] i.op = "xchg" /\ i.w = 2 -> Put(Put(s, i.src, 2, Get(s, i.dst, 2)), i.dst, 2, Get(s, i.src, 2))
    [] i.op = "cbw" -> [s EXCEPT !.r.ax = SignedByte(Lo(@)) % Word]
    [] i.op = "cwd" -> [s EXCEPT !.r.dx = IF SignedWord(s.r.ax) < 0 THEN Word - 1 ELSE 0]
    [] i.op = "xlat" -> set_reg8(s, 0, Peek(s, linear(s.r.ds, (s.r.bx + Lo(s.r.ax)) % Word)))

AluResult(f, a, b, c, m) ==
  CASE f = "add" -> (a + b) % m
    [] f = "adc" -> (a + b + c) % m
    [] f = "sbb" -> (a - b - c) % m
    [] f \in {"sub", "cmp"} -> (a - b) % m
    [] f \in {"and", "test"} -> a & b
    [] f = "or" -> a | b
    [] f = "xor" -> a ^^ b

AluCarryAlone(s, i, a, b, m) == a + b >= m                  \* mutant of AluCarry

\* The carry, where the forms with a constant (80, 81, 83) are a little different: 80 leaves
\* the carry that comes in out of ADC's, 83 leaves CF as it was.
AluCarry(s, i, a, b, m) ==
  CASE i.f = "add" -> a + b >= m
    [] i.f = "adc" /\ i.form = "83" -> Has(s, CF)
    [] i.f = "adc" -> a + b + (IF i.form = "80" THEN 0 ELSE Carry(s)) >= m
    [] i.f \in {"sub", "cmp", "sbb"} -> a < b
    [] OTHER -> FALSE

Alu(s, i) ==
  LET m == Modulus(i.w)
      a == Get(s, i.dst, i.w)
      b == Operand(s, i)
      res == AluResult(i.f, a, b, Carry(s), m)
      t == IF i.f \in {"cmp", "test"} THEN s ELSE Put(s, i.dst, i.w, res)
  IN  SetFlag(SetFlag(t, ZF, res = 0), CF, AluCarry(s, i, a, b, m))

\* INC and DEC, which leave CF.  INC of a word by FF compares the sum before it is cut to a
\* word: ZF is never set.
IncDec(s, i) ==
  LET v == Get(s, i.dst, i.w)
      res == (v + i.by) % Modulus(i.w)
      wide == i.w = 2 /\ i.len > 1 /\ i.by = 1
  IN  SetFlag(Put(s, i.dst, i.w, res), ZF, res = 0 /\ ~wide)

\* The host shifts an int, and by its count modulo the bits of an int.
Shifted(f, v, count, m) ==
  LET n == count % IntBits
  IN  CASE f = "shl" -> (v * 2^n) % m
        [] f = "shr" -> v \div 2^n
        [] f = "sar" -> ((IF v < m \div 2 THEN v ELSE v - m) \div 2^n) % m
        [] OTHER -> v

\* Shifts by a constant or by CL of a byte work on the register whatever the mod field says.
Shift(s, i) ==
  LET m == Modulus(i.w)
      o == IF i.w = 1 /\ i.count # "one" /\ i.dst.k = "mem" THEN [k |-> "reg", n |-> i.dst.rm] ELSE i.dst
      v == Get(s, o, i.w)
      n == CASE i.count = "one" -> 1 [] i.count = "cl" -> Lo(s.r.cx) [] OTHER -> EarlyImm(i.dst, i.n, 1)
      res == Shifted(i.f, v, n, m)
      t == SetFlag(Put(s, o, i.w, res), ZF, res = 0)
  IN  IF i.count # "one" \/ i.f \notin {"shl", "shr"} THEN t
      ELSE SetFlag(t, CF, IF i.f = "shl" THEN v >= m \div 2 ELSE v % 2 = 1)

Quotient(a, b) == IF (a < 0) = (b < 0) THEN (IF a < 0 THEN -a ELSE a) \div (IF b < 0 THEN -b ELSE b)
                  ELSE -((IF a < 0 THEN -a ELSE a) \div (IF b < 0 THEN -b ELSE b))

Pair(s, v) == [s EXCEPT !.r.ax = v % Word, !.r.dx = (v \div Word) % Word]

\* The groups F6 and F7.  The divisions cut their quotient; F6's divides AL, and has no IDIV.
Group3(s, i) ==
  LET v == Get(s, i.dst, i.w)
      al == Lo(s.r.ax)
      wide == s.r.dx * Word + s.r.ax
      signed == SignedWord(s.r.dx) * Word + s.r.ax
      neg == (-v) % Modulus(i.w)
  IN  CASE i.f = "test" -> SetFlag(SetFlag(s, ZF, (v & (IF i.w = 1 THEN EarlyImm(i.dst, i.src.v, 1) ELSE i.src.v)) = 0), CF, FALSE)
        [] i.f = "not" -> Put(s, i.dst, i.w, Modulus(i.w) - 1 - v)
        [] i.f = "neg" -> SetFlag(Put(s, i.dst, i.w, neg), ZF, neg = 0)
        [] i.f = "mul" /\ i.w = 1 -> [s EXCEPT !.r.ax = al * v]
        [] i.f = "mul" /\ i.w = 2 -> Pair(s, s.r.ax * v)
        [] i.f = "imul" /\ i.w = 1 -> [s EXCEPT !.r.ax = (SignedByte(al) * SignedByte(v)) % Word]
        [] i.f = "imul" /\ i.w = 2 -> Pair(s, SignedWord(s.r.ax) * SignedWord(v))
        [] i.f = "div" /\ i.w = 1 -> [s EXCEPT !.r.ax = (al \div v) + Byte * (al % v)]
        [] i.f = "div" /\ i.w = 2 -> [s EXCEPT !.r.ax = (wide \div v) % Word, !.r.dx = wide % v]
        [] i.f = "idiv" /\ i.w = 1 -> s
        [] i.f = "idiv" /\ i.w = 2 ->
             LET q == Quotient(signed, SignedWord(v))
             IN  [s EXCEPT !.r.ax = q % Word, !.r.dx = (signed - q * SignedWord(v)) % Word]

Decimal(s, i) ==
  LET al == Lo(s.r.ax)
      sum == (Hi(s.r.ax) * i.base + al) % Byte
  IN  IF i.op = "aam"
      THEN SetFlag([s EXCEPT !.r.ax = (al \div i.base) * Byte + (al % i.base)], ZF, al % i.base = 0)
      ELSE SetFlag([s EXCEPT !.r.ax = sum], ZF, sum = 0)

Divides(i) == \/ i.op = "group3" /\ (i.f = "div" \/ (i.f = "idiv" /\ i.w = 2))
              \/ i.op = "aam"
Divisor(s, i) == IF i.op = "aam" THEN i.base ELSE Get(s, i.dst, i.w)

\* The one quotient of two ints that is no int.
Overflows(s, i) ==
  /\ i.op = "group3" /\ i.f = "idiv" /\ i.w = 2
  /\ s.r.dx = Word \div 2 /\ s.r.ax = 0 /\ Get(s, i.dst, 2) = Word - 1

String(s, i) ==
  LET step == (IF Has(s, DF) THEN -1 ELSE 1) * i.w
      from == linear(s.r.ds, s.r.si)
      to == linear(s.r.es, s.r.di)
      Si(t) == [t EXCEPT !.r.si = (@ + step) % Word]
      Di(t) == [t EXCEPT !.r.di = (@ + step) % Word]
      al == Lo(s.r.ax)
  IN  CASE i.op = "movs" /\ i.w = 1 -> Si(Di(Poke(s, to, Peek(s, from))))
        [] i.op = "movs" /\ i.w = 2 -> Si(Di(write_mem16(s, to, read_mem16(s, from))))
        [] i.op = "stos" /\ i.w = 1 -> Di(write_mem8(s, to, al))
        [] i.op = "stos" /\ i.w = 2 -> Di(write_mem16(s, to, s.r.ax))
        [] i.op = "lods" /\ i.w = 1 -> Si(set_reg8(s, 0, Peek(s, from)))
        [] i.op = "lods" /\ i.w = 2 -> Si([s EXCEPT !.r.ax = read_mem16(s, from)])
        [] i.op = "scas" -> Di(SetFlag(SetFlag(s, ZF, al = Peek(s, to)), CF, al < Peek(s, to)))

Holds(s, c) ==
  CASE c = "o" -> Has(s, OF) [] c = "no" -> ~Has(s, OF)
    [] c = "b" -> Has(s, CF) [] c = "ae" -> ~Has(s, CF)
    [] c = "e" -> Has(s, ZF) [] c = "ne" -> ~Has(s, ZF)
    [] c = "be" -> Has(s, CF) \/ Has(s, ZF)
    [] c = "a" -> ~Has(s, CF) /\ ~Has(s, ZF)
    [] c = "s" -> Has(s, SF) [] c = "ns" -> ~Has(s, SF)
    [] c = "p" -> Has(s, PF) [] c = "np" -> ~Has(s, PF)
    [] c = "l" -> Has(s, SF) # Has(s, OF)
    [] c = "ge" -> Has(s, SF) = Has(s, OF)
    [] c = "le" -> Has(s, ZF) \/ Has(s, SF) # Has(s, OF)
    [] c = "g" -> ~Has(s, ZF) /\ Has(s, SF) = Has(s, OF)

Branch(s, i) == IF Holds(s, i.c) THEN Goto(s, Relative(i)) ELSE Advance(s, i)

Loop(s, i) ==
  LET t == IF i.op = "jcxz" THEN s ELSE [s EXCEPT !.r.cx = (@ - 1) % Word]
      again == CASE i.op = "jcxz" -> t.r.cx = 0
                 [] i.op = "loop" -> t.r.cx # 0
                 [] i.op = "loope" -> t.r.cx # 0 /\ Has(t, ZF)
                 [] i.op = "loopne" -> t.r.cx # 0 /\ ~Has(t, ZF)
  IN  IF again THEN Goto(t, Relative(i)) ELSE Advance(t, i)

\* The far jump and call through memory take one byte of their operand for the address of the
\* pointer, in the first bytes of the memory.
Pointer(s, i) == LET a == Get(s, i.src, 1) IN [ip |-> read_mem16(s, a), cs |-> read_mem16(s, a + 2)]

Far(s, cs, ip) == [s EXCEPT !.r.cs = cs, !.r.ip = ip]

Jump(s, i) ==
  CASE i.op = "jmp" -> Goto(s, Relative(i))
    [] i.op = "jmp_rm" -> Goto(s, Get(s, i.src, 2))
    [] i.op = "jmp_far" -> Far(s, i.seg, i.off)
    [] i.op = "jmp_far_rm" -> Far(s, Pointer(s, i).cs, Pointer(s, i).ip)
    [] i.op = "call" -> Goto(Push(s, After(i)), Relative(i))
    [] i.op = "call_rm" -> Goto(Push(s, After(i)), Get(s, i.src, 2))
    [] i.op = "call_far" -> Far(Push(Push(s, s.r.cs), After(i)), i.seg, i.off)
    [] i.op = "call_far_rm" -> Far(Push(Push(s, s.r.cs), After(i)), Pointer(s, i).cs, Pointer(s, i).ip)
    [] i.op = "ret" -> Goto(Drop(s, 2 + i.n), Top(s))
    [] i.op = "retf" -> Far(Drop(s, 4 + i.n), Top(Drop(s, 2)), Top(s))

(***************************************************************************)
(* Interrupts.  INT 21h answers by AH (the constant date and time of 2Ah   *)
(* and 2Ch are left out); the BIOS calls the host handles leave the        *)
(* registers alone, and every other interrupt clears CF.                   *)
(***************************************************************************)
Text(s, from) ==
  LET Ends == {a \in from..(from + MaxText) : a = from + MaxText \/ a >= MemSize \/ Peek(s, a) = Dollar}
      n == (CHOOSE a \in Ends : \A b \in Ends : a <= b) - from
  IN  [j \in 1..n |-> Peek(s, from + j - 1)]

handle_int21(s) ==
  LET service == Service[Hi(s.r.ax)]
      answered == CASE service = "drive" -> [s EXCEPT !.r.ax = Hi(@) * Byte]
                    [] service = "vector" -> [s EXCEPT !.r.es = 0, !.r.bx = 0]
                    [] service = "version" -> [s EXCEPT !.r.ax = 7 * Byte, !.r.bx = 0]
                    [] service = "unknown" -> [s EXCEPT !.r.ax = 1]
                    [] OTHER -> s
  IN  SetFlag(answered, CF, service = "unknown")

Printed(s) ==
  LET service == Service[Hi(s.r.ax)]
  IN  CASE service = "putc" -> <<Lo(s.r.dx)>>
        [] service = "puts" -> Text(s, linear(s.r.ds, s.r.dx))
        [] OTHER -> <<>>

\* INT 10h: the kernel prints one character, or changes the mode of the screen.
mz_host_bios_int(s) == IF Service[Hi(s.r.ax)] = "teletype" THEN <<Lo(s.r.ax)>> ELSE <<>>

-----------------------------------------------------------------------------
Init ==
  /\ image \in Images
  /\ cpu = [r |-> image.regs, m |-> image.mem]
  /\ halt = FALSE /\ exit_code = 0
  /\ steps = 0 /\ last = <<Word - 1, Word - 1>> /\ repeat_count = 0
  /\ rc = Running /\ console = <<>>

(***************************************************************************)
(* The head of the loop: budget and detector, then the instruction at      *)
(* CS:IP.  The instructions lie at their linear addresses; an address that *)
(* holds none is never reached by the programs of a run, which a deadlock  *)
(* would show.                                                             *)
(***************************************************************************)
Place == <<cpu.r.cs, cpu.r.ip>>
RepeatsKept == IF Place = last THEN repeat_count + 1 ELSE repeat_count       \* mutant of Repeats

Repeats == IF Place = last THEN repeat_count + 1 ELSE 0
Looping == rc = Running /\ ~halt /\ steps < MaxSteps
Address == linear(cpu.r.cs, cpu.r.ip)
Fetched == image.code[Address]

\* Mutant of Executes: steps are counted only where the detector counts.
ExecutesUncounted(ops) ==
  /\ Looping /\ Repeats <= MaxRepeats
  /\ Address \in DOMAIN image.code
  /\ Fetched.op \in ops
  /\ steps' = (IF Place = last THEN steps + 1 ELSE steps)
  /\ last' = Place /\ repeat_count' = Repeats
  /\ UNCHANGED image

Executes(ops) ==
  /\ Looping /\ Repeats <= MaxRepeats
  /\ Address \in DOMAIN image.code
  /\ Fetched.op \in ops
  /\ steps' = steps + 1 /\ last' = Place /\ repeat_count' = Repeats
  /\ UNCHANGED image

Continues == UNCHANGED <<halt, exit_code, rc, console>>

StepFlags ==
  /\ Executes({"cmc", "clc", "stc", "cld", "std", "pushf", "popf", "sahf", "lahf"})
  /\ cpu' = Advance(Flags(cpu, Fetched), Fetched) /\ Continues

\* NOP, the prefixes (all ignored, REP too), CLI, STI, OUT and the coprocessor.
StepIgnored ==
  /\ Executes({"nop", "prefix", "cli", "sti", "out", "fpu"})
  /\ cpu' = Advance(cpu, Fetched) /\ Continues

StepStack ==
  /\ Executes({"push", "pop", "pusha", "popa"})
  /\ cpu' = Advance(Stack(cpu, Fetched), Fetched) /\ Continues

StepTransfer ==
  /\ Executes({"mov", "lea", "xchg", "cbw", "cwd", "xlat"})
  /\ cpu' = Advance(Transfer(cpu, Fetched), Fetched) /\ Continues

StepAlu ==
  /\ Executes({"alu", "incdec", "shift"})
  /\ cpu' = Advance(CASE Fetched.op = "alu" -> Alu(cpu, Fetched)
                      [] Fetched.op = "incdec" -> IncDec(cpu, Fetched)
                      [] Fetched.op = "shift" -> Shift(cpu, Fetched), Fetched)
  /\ Continues

StepArithmetic ==
  /\ Executes({"group3", "aam", "aad"})
  /\ Divides(Fetched) => Divisor(cpu, Fetched) # 0
  /\ ~Overflows(cpu, Fetched)
  /\ cpu' = Advance(IF Fetched.op = "group3" THEN Group3(cpu, Fetched) ELSE Decimal(cpu, Fetched), Fetched)
  /\ Continues

StepString ==
  /\ Executes({"movs", "stos", "lods", "scas"})
  /\ cpu' = Advance(String(cpu, Fetched), Fetched) /\ Continues

\* IN: any byte, in AL, or in the whole of AX.
StepIn ==
  /\ Executes({"in"})
  /\ \E b \in {0, Byte - 1} :
       cpu' = Advance(IF Fetched.w = 1 THEN set_reg8(cpu, 0, b) ELSE [cpu EXCEPT !.r.ax = b], Fetched)
  /\ Continues

StepBranch ==
  /\ Executes({"jcc", "loop", "loope", "loopne", "jcxz"})
  /\ cpu' = IF Fetched.op = "jcc" THEN Branch(cpu, Fetched) ELSE Loop(cpu, Fetched)
  /\ Continues

StepJump ==
  /\ Executes({"jmp", "jmp_rm", "jmp_far", "jmp_far_rm", "call", "call_rm", "call_far", "call_far_rm", "ret", "retf"})
  /\ cpu' = Jump(cpu, Fetched) /\ Continues

StepHalt ==
  /\ Executes({"hlt"})
  /\ halt' = TRUE
  /\ UNCHANGED <<cpu, exit_code, rc, console>>

StepInt ==
  /\ Executes({"int"})
  /\ LET service == Service[Hi(cpu.r.ax)]
         dos == Fetched.vector = "21"
     IN  /\ cpu' = Advance(CASE dos -> handle_int21(cpu)
                             [] Fetched.vector \in {"10", "16", "1A", "20"} -> cpu
                             [] OTHER -> SetFlag(cpu, CF, FALSE), Fetched)
         /\ halt' = (Fetched.vector = "20" \/ (dos /\ service \in {"kill", "exit"}))
         /\ exit_code' = IF dos /\ service = "exit" THEN Lo(cpu.r.ax) ELSE exit_code
         /\ console' = console \o (CASE dos -> Printed(cpu)
                                     [] Fetched.vector = "10" -> mz_host_bios_int(cpu)
                                     [] OTHER -> <<>>)
  /\ UNCHANGED rc

\* An instruction that is not implemented, or a division by zero.
StepFault ==
  /\ \/ Executes({"undefined"})
     \/ Executes({"group3", "aam"}) /\ Divides(Fetched) /\ Divisor(cpu, Fetched) = 0
  /\ rc' = -10
  /\ UNCHANGED <<cpu, halt, exit_code, console>>

\* The division of the host traps.
StepTrap ==
  /\ Executes({"group3"}) /\ Overflows(cpu, Fetched)
  /\ rc' = Trapped
  /\ UNCHANGED <<cpu, halt, exit_code, console>>

LoopDetected ==
  /\ Looping /\ Repeats > MaxRepeats
  /\ rc' = -30 /\ repeat_count' = Repeats
  /\ UNCHANGED <<image, cpu, halt, exit_code, steps, last, console>>

\* The loop of execute_real_mode_stub is left.
Return ==
  /\ rc = Running /\ (halt \/ steps = MaxSteps)
  /\ rc' = IF halt THEN 0 ELSE -8
  /\ UNCHANGED <<image, cpu, halt, exit_code, steps, last, repeat_count, console>>

Step ==
  \/ StepFlags \/ StepIgnored \/ StepStack \/ StepTransfer \/ StepAlu \/ StepArithmetic
  \/ StepString \/ StepIn \/ StepBranch \/ StepJump \/ StepHalt \/ StepInt \/ StepFault
  \/ StepTrap \/ LoopDetected \/ Return

\* The program has returned to the shell, or the kernel has stopped.
Returned == rc # Running /\ UNCHANGED vars

Next == Step \/ Returned

\* The loop executes: nothing in it waits.
Spec == Init /\ [][Next]_vars /\ WF_vars(Step)

-----------------------------------------------------------------------------
(***************************************************************************)
(* Properties.  What programs compute is stated in MCCpu, program by       *)
(* program.                                                                *)
(***************************************************************************)
Registers == {"ax", "bx", "cx", "dx", "si", "di", "bp", "sp", "ip", "flags",
              "cs", "ds", "es", "fs", "gs", "ss"}

Behind(m) == Restrict(m, {a \in DOMAIN m : a >= MemSize})
Unchecked(i) == (i.op = "push" /\ i.src.k = "reg" /\ i.len = 1) \/ (i.op = "movs" /\ i.w = 1)

\* The block of RM_MEM_SIZE bytes is all a program can write, whatever its segments, except by
\* the two instructions that do not ask: PUSH of a register and MOVSB (mzexe.h 80-90, 213-218,
\* 936).  Behind the block lies the heap of the kernel.
Contained == [][Behind(cpu'.m) # Behind(cpu.m) => Unchecked(Fetched)]_vars

\* Every program is left: it halts, faults, traps, is taken for a loop, or uses up its budget.
Stops == <>(rc # Running)
=============================================================================
