------------------------------- MODULE MCCpu -------------------------------
(***************************************************************************)
(* Programs for the model Cpu, each with all the inputs of a sample, and   *)
(* what a 8086 leaves when it has run them.  The programs named "one" are  *)
(* a single arithmetic instruction each, in every form and for every       *)
(* operand of the sample: where the emulator leaves something else than a  *)
(* 8086, Deviations says so, operand by operand.                           *)
(***************************************************************************)
EXTENDS Cpu, SequencesExt

MCByte == 16
MCWord == 256
Sample == {0, 1, 2, 15, 127, 128, 255}
Small == {0, 1, 3}

Reg(n) == [k |-> "reg", n |-> n]
AX == Reg(0)  CX == Reg(1)  DX == Reg(2)  BX == Reg(3)
SI == Reg(6)  DI == Reg(7)
AL == Reg(0)  BL == Reg(3)  AH == Reg(4)
Seg(s) == [k |-> "sreg", s |-> s]
Imm(v) == [k |-> "imm", v |-> v]
Mem(mod, rm, disp) == [k |-> "mem", mod |-> mod, rm |-> rm, disp |-> disp]
AtSI == Mem(0, 4, 0)

MCDispLen(o) == IF o.k # "mem" \/ o.mod = 0 THEN 0 ELSE o.mod
ImmLen(o, w) == IF o.k = "imm" THEN w ELSE 0

Op(op) == [op |-> op, len |-> 1]
Mov(dst, src, w) ==
  [op |-> "mov", dst |-> dst, src |-> src, w |-> w,
   len |-> IF src.k = "imm" /\ dst.k = "reg" THEN 1 + w
           ELSE 2 + MCDispLen(dst) + MCDispLen(src) + ImmLen(src, w)]
AluOp(form, f, dst, src, w) ==
  [op |-> "alu", form |-> form, f |-> f, dst |-> dst, src |-> src, w |-> w,
   len |-> 2 + MCDispLen(dst) + MCDispLen(src) + (IF form = "83" THEN 1 ELSE ImmLen(src, w))]
Rm(f, dst, src) == AluOp("rm", f, dst, src, 2)
Inc(dst, by, w, len) == [op |-> "incdec", f |-> "inc", dst |-> dst, by |-> by, w |-> w, len |-> len]
ShiftOne(f, dst) == [op |-> "shift", f |-> f, dst |-> dst, w |-> 2, count |-> "one", len |-> 2]
ShiftCl(f, dst) == [op |-> "shift", f |-> f, dst |-> dst, w |-> 2, count |-> "cl", len |-> 2]
ShiftBy(f, dst, w, count, n) ==
  [op |-> "shift", f |-> f, dst |-> dst, w |-> w, count |-> count, n |-> n, len |-> IF count = "imm" THEN 3 ELSE 2]
G3(f, dst, w) == [op |-> "group3", f |-> f, dst |-> dst, w |-> w, len |-> 2]
Push1(o) == [op |-> "push", src |-> o, len |-> 1]
Pop1(o) == [op |-> "pop", dst |-> o, len |-> 1]
Jcc(c, rel) == [op |-> "jcc", c |-> c, rel |-> rel, len |-> 2]
Rel(op, rel, len) == [op |-> op, rel |-> rel, len |-> len]
Str(op, w) == [op |-> op, w |-> w, len |-> 1]
Interrupt(vector) == [op |-> "int", vector |-> vector, len |-> 2]
Xchg(dst, src, w, len) == [op |-> "xchg", dst |-> dst, src |-> src, w |-> w, len |-> len]
Ret(op, n) == [op |-> op, n |-> n, len |-> 1]
Hlt == Op("hlt")

StartOf(seq, k) == FoldLeft(LAMBDA n, i : n + i.len, 0, SubSeq(seq, 1, k - 1))
Laid(seq, base) == [a \in {base + StartOf(seq, k) : k \in 1..Len(seq)} |->
                      seq[CHOOSE k \in 1..Len(seq) : base + StartOf(seq, k) = a]]

\* Code from 0, stack from 256, data from 512.
Stack0 == 64
Zeroed == [ax |-> 0, bx |-> 0, cx |-> 0, dx |-> 0, si |-> 0, di |-> 0, bp |-> 0, sp |-> Stack0,
           ip |-> 0, flags |-> 0, cs |-> 0, ds |-> 32, es |-> 32, fs |-> 0, gs |-> 0, ss |-> 16]
Data == 512

Program(name, seq, regs, in) ==
  [name |-> name, code |-> Laid(seq, 0), regs |-> regs @@ Zeroed, mem |-> <<>>, in |-> in]
ABCD(a, b, c, d) == [ax |-> a, bx |-> b, cx |-> c, dx |-> d]

\* Sums and differences of two words each, in registers and in memory.
WideAdd(a, b, c, d) == Program("wide", <<Rm("add", AX, BX), Rm("adc", DX, CX), Hlt>>, ABCD(a, b, c, d), <<a, b, c, d>>)
WideMem(a, b, c, d) ==
  Program("widemem", <<Mov(AtSI, AX, 2), Mov(Mem(1, 4, 2), DX, 2), Rm("add", AtSI, BX), Rm("adc", Mem(1, 4, 2), CX),
                       Mov(AX, AtSI, 2), Mov(DX, Mem(2, 4, 2), 2), Hlt>>, ABCD(a, b, c, d), <<a, b, c, d>>)
ShiftPair(a, b, c, d) ==
  Program("shift", <<ShiftOne("shl", AX), Rm("adc", DX, DX), Hlt>>, ABCD(a, b, c, d), <<a, b, c, d>>)

\* The larger of two, with the flags of the comparison kept on the stack meanwhile.
Largest(a, b) ==
  Program("max", <<Rm("cmp", AX, BX), Op("pushf"), Rm("xor", CX, CX), Push1(AX), Pop1(CX), Op("popf"),
                   Jcc("ae", 2), Mov(CX, BX, 2), Hlt>>, ABCD(a, b, 0, 0), <<a, b>>)
\* Which of the four orders hold, one bit each, after a comparison of bytes with a constant.
Orders(a, b) ==
  Program("orders", <<AluOp("80", "cmp", AL, Imm(b % MCByte), 1),
                      Jcc("be", 4), AluOp("83", "or", CX, Imm(1), 2), Op("nop"),
                      AluOp("80", "cmp", AL, Imm(b % MCByte), 1),
                      Jcc("a", 4), AluOp("83", "or", CX, Imm(2), 2), Op("nop"),
                      AluOp("80", "cmp", AL, Imm(b % MCByte), 1),
                      Jcc("ne", 4), AluOp("83", "or", CX, Imm(4), 2), Op("nop"),
                      Jcc("o", 2), Jcc("no", 0), Hlt>>, ABCD(a % MCByte, b, 0, 0), <<a, b>>)

\* A product by repeated addition: no addition at all when JCXZ sees zero.
Repeated(a, b) ==
  Program("product", <<Mov(CX, BX, 2), Rel("jcxz", 4, 2), Rm("add", DX, AX), Rel("loop", -4, 2), Hlt>>,
          ABCD(a, b, 0, 0), <<a, b>>)
MulDiv(a, b) == Program("muldiv", <<G3("mul", BX, 2), G3("div", BX, 2), Hlt>>, ABCD(a, b, 0, 9), <<a, b>>)
Signed(a, b) ==
  Program("signed", <<G3("imul", BX, 2), G3("idiv", BX, 2), Hlt>>, ABCD(a, b, 0, 9), <<a, b>>)
Negated(a, b) ==
  Program("negated", <<Mov(BX, AX, 2), G3("not", AX, 2), Op("stc"), Inc(AX, 1, 2, 1), Op("cmc"), Op("cmc"), G3("neg", BX, 2),
                       Rm("cmp", AX, BX), Jcc("e", 3), Mov(CX, Imm(1), 2), Hlt>>, ABCD(a, b, 0, 0), <<a, b>>)
Halves(a, b) ==
  Program("halves", <<Xchg(AH, AL, 1, 2), AluOp("rm", "xor", AL, AL, 1), Mov(BL, AH, 1), Op("lahf"), Op("sahf"),
                      [op |-> "push", src |-> BX, len |-> 2], Pop1(DX), Hlt>>, ABCD(a, b, 0, 0), <<a, b>>)
DecimalBack(a, b) ==
  Program("decimal", <<[op |-> "aam", base |-> b % MCByte, len |-> 2], [op |-> "aad", base |-> b % MCByte, len |-> 2], Hlt>>,
          ABCD(a, b, 0, 0), <<a, b>>)
Extended(a, b) == Program("extended", <<Op("cbw"), Op("cwd"), ShiftCl("sar", AX), Hlt>>, ABCD(a % MCByte, b, 1, 0), <<a, b>>)

\* A call whose callee spoils every register between PUSHA and POPA.
Called(a, b) ==
  Program("call", <<Push1(AX), Rel("call", 3, 3), Pop1(BX), Push1(Seg("ds")), Hlt,
                    Op("pusha"), Mov(AX, Imm(7), 2), Mov(BX, Imm(7), 2), Mov(SI, DI, 2), Op("popa"), Ret("ret", 0)>>,
          ABCD(a, b, 3, 4), <<a, b>>)
CalledFar(a, b) ==
  Program("far", <<[op |-> "call_far", seg |-> 0, off |-> 9, len |-> 5], Mov(CX, BX, 2), Hlt, Op("nop"),
                   Push1(AX), Push1(Seg("cs")), Pop1(Seg("es")), Pop1(BX), Ret("retf", 0)>>, ABCD(a, b, 0, 0), <<a, b>>)
Indirect(a, b) ==
  Program("indirect", <<[op |-> "call_rm", src |-> SI, len |-> 2], [op |-> "jmp_rm", src |-> DI, len |-> 2], Push1(BX), Ret("ret", 2),
                        Hlt>>, [si |-> 4, di |-> 6] @@ ABCD(a, 6, 0, 0), <<a, b>>)

\* Three bytes copied up, with and without the string instruction, or down from their ends.
Text3 == 512 :> 5 @@ 513 :> 6 @@ 514 :> 7
CopyUp(a, b) ==
  [Program("copy", <<Op("cld"), Mov(CX, Imm(3), 2), Str("movs", 1), Rel("loop", -3, 2), Hlt>>,
           [di |-> 32] @@ ABCD(a, b, 0, 0), <<a, b>>) EXCEPT !.mem = Text3]
CopyDown(a, b) ==
  [Program("copy", <<Op("std"), Mov(CX, Imm(3), 2), Str("lods", 1), Str("stos", 1), Rel("loop", -4, 2), Op("cld"), Hlt>>,
           [si |-> 2, di |-> 34] @@ ABCD(a, b, 0, 0), <<a, b>>) EXCEPT !.mem = Text3]
Sought(a, b) ==
  [Program("sought", <<Mov(CX, Imm(4), 2), Str("scas", 1), Rel("loopne", -3, 2), Str("lods", 2), Hlt>>,
           ABCD(6, b, 0, 0), <<a, b>>) EXCEPT !.mem = Text3]

Exits(a, b) ==
  Program("exit", <<Mov(AH, Imm(4), 1), Interrupt("21"), Rel("jmp", -2, 2)>>, ABCD(a % MCByte, b, 0, 0), <<a, b>>)
Prints(a, b) ==
  [Program("print", <<Mov(AH, Imm(2), 1), Interrupt("21"), Mov(AH, Imm(9), 1), Rm("xor", DX, DX), Interrupt("21"), Mov(AH, Imm(14), 1),
                      Interrupt("10"), Mov(AH, Imm(12), 1), Interrupt("21"), Jcc("b", 1), Hlt, Interrupt("13"), Mov(AH, Imm(3), 1), Interrupt("21"),
                      Mov(AH, Imm(5), 1), Interrupt("21"), Mov(AH, Imm(6), 1), Interrupt("21"), Interrupt("20")>>,
           [dx |-> 1] @@ ABCD(a, b, 0, 0), <<a, b>>) EXCEPT !.mem = Text3]
Idle(a, b) ==
  Program("idle", <<Op("nop"), Op("prefix"), Op("cli"), Op("sti"), Op("clc"), [op |-> "in", w |-> 1, len |-> 2],
                    [op |-> "out", len |-> 2], [op |-> "fpu", dst |-> AX, len |-> 2], [op |-> "in", w |-> 2, len |-> 2], Hlt>>,
          ABCD(a, b, 0, 0), <<a, b>>)

\* Delays by LOOP to itself, each within what the detector allows.
Delays(a, b) ==
  Program("delay", <<Mov(CX, Imm(7), 2), Rel("loop", -2, 2), Mov(CX, Imm(8), 2), Rel("loop", -2, 2), Hlt>>, ABCD(a, b, 0, 0), <<a, b>>)
Parity(a, b) ==
  Program("parity", <<Rel("call", 7, 3), Jcc("p", 1), Hlt, Jcc("np", 1), Hlt, Hlt, Op("lahf"), Mov(AL, Imm(15), 1),
                      Xchg(AL, AH, 1, 2), Op("sahf"), Ret("ret", 0)>>, ABCD(a, b, 0, 0), <<a, b>>)
\* A call through a far pointer, which is where the emulator looks for it.
FarPointer(a, b) ==
  [Program("farptr", <<[op |-> "call_far_rm", src |-> AX, len |-> 2], Hlt, Op("nop"), Ret("retf", 0)>>,
           ABCD(a, b, 0, 0), <<a, b>>) EXCEPT !.mem = a :> 4]
Spins(a, b) == Program("spin", <<Rel("jmp", -2, 2)>>, ABCD(a, b, 0, 0), <<a, b>>)
GoesRound(a, b) == Program("round", <<Op("nop"), Rel("jmp", -3, 2)>>, ABCD(a, b, 0, 0), <<a, b>>)
Undefined(a, b) == Program("undefined", <<Op("undefined")>>, ABCD(a, b, 0, 0), <<a, b>>)

\* The last segment: its first 16 bytes end the block, the rest lies behind it.
LastSeg == 255
Base0 == LastSeg * 16
HeapBehind == [x \in 4096..(Base0 + MCWord) |-> x % MCByte]
EdgeStack(a, sp) ==
  [Program("edgestack", <<Push1(AX), Pop1(BX), Push1(Seg("ds")), Pop1(Seg("es")), Op("pushf"), Op("pusha"), Hlt>>,
           [ss |-> LastSeg, sp |-> sp, es |-> 1] @@ ABCD(a, 0, 0, 0), <<a, sp>>) EXCEPT !.mem = HeapBehind]
EdgeByte(a, at) ==
  [Program("edgebyte", <<Mov(AtSI, AX, 1), Mov(CX, AtSI, 1), Str("scas", 1), Mov(AtSI, AX, 2), Mov(DX, AtSI, 2), Hlt>>,
           [si |-> at, di |-> at, ds |-> LastSeg, es |-> LastSeg] @@ ABCD(a, 0, 0, 0), <<a, at>>) EXCEPT !.mem = HeapBehind]
EdgeString(a, at) ==
  [Program("edgestring", <<Str("movs", 1), Str("stos", 1), Str("stos", 2), Str("movs", 2), Hlt>>,
           [di |-> at, es |-> LastSeg] @@ ABCD(a, 0, 0, 0), <<a, at>>) EXCEPT !.mem = Text3 @@ HeapBehind]

\* One instruction, on AX or on the word at DS:SI: both hold the first operand, a byte of it
\* under the digit 9.  in is the two operands and the carry that comes in.
Nibbles == {0, 1, 7, 8, 14, 15}
Values(w) == IF w = 1 THEN Nibbles ELSE Sample
Whole(w, v) == IF w = 1 THEN 9 * MCByte + v ELSE v
One(i, a, b, c, cx) ==
  [Program("one", <<i, Hlt>>, [flags |-> c] @@ ABCD(Whole(i.w, a), b % MCWord, cx, 0), <<a, b, c>>)
     EXCEPT !.mem = Data :> Lo(Whole(i.w, a)) @@ Data + 1 :> Hi(Whole(i.w, a))]
Extend(b) == IF b < MCByte \div 2 THEN b ELSE MCWord - MCByte + b
ByConstant == {"add", "or", "adc", "sbb", "and", "sub", "xor", "cmp"}
Alone ==
  UNION {
    {One(AluOp("rm", f, d, BX, w), a, b, c, 0) :
       f \in (ByConstant \ {"sbb"}) \cup {"test"}, d \in {AX, AtSI}, a \in Values(w), b \in Values(w), c \in 0..1} : w \in 1..2}
  \cup UNION {
    {One(AluOp(IF w = 1 THEN "80" ELSE "81", f, d, Imm(b), w), a, b, c, 0) :
       f \in ByConstant, d \in {AX, AtSI}, a \in Values(w), b \in Values(w), c \in 0..1} : w \in 1..2}
  \cup {One(AluOp("83", f, d, Imm(Extend(b)), 2), a, Extend(b), c, 0) :
           f \in ByConstant, d \in {AX, AtSI}, a \in Sample, b \in Nibbles, c \in 0..1}
  \cup UNION {
    {One(Inc(d, by, w, 2), a, by, c, 0) : d \in {AX, AtSI}, by \in {1, -1}, a \in Values(w), c \in 0..1} : w \in 1..2}
  \cup {One(Inc(AX, by, 2, 1), a, by, c, 0) : by \in {1, -1}, a \in Sample, c \in 0..1}
  \cup UNION {
    {One(ShiftBy(f, d, w, "one", 1), a, 1, c, 0) : f \in {"shl", "shr", "sar"}, d \in {AX, AtSI}, a \in Values(w), c \in 0..1} : w \in 1..2}
  \cup UNION {
    {One(ShiftBy(f, d, w, count, n), a, n, 0, n) : f \in {"shl", "shr", "sar"}, d \in IF w = 1 THEN {AX} ELSE {AX, AtSI},
       a \in Values(w), n \in 0..(MCByte - 1), count \in {"cl", "imm"}} : w \in 1..2}
  \cup UNION {
    {One([src |-> Imm(b)] @@ G3(f, d, w), a, b, c, 0) :
       f \in {"test", "not", "neg"}, d \in {AX, AtSI}, a \in Values(w), b \in {1, 8}, c \in 0..1} : w \in 1..2}
\* A product or a quotient: of DX:AX and BX, or of AL and BL.
Products ==
  {[Program("product8086", <<G3(f, BX, w), Hlt>>, ABCD(a, b, 0, d), <<a, b, d>>) EXCEPT !.mem = <<>>] :
     f \in {"mul", "imul", "div", "idiv"}, w \in 1..2, a \in Sample, b \in Sample, d \in {0, 1, 128, 255}}

MCImages ==
       {P : P \in UNION {{WideAdd(a, b, c, d), WideMem(a, b, c, d), ShiftPair(a, b, c, d)} :
                         a \in Sample, b \in {0, 1, 255}, c \in {0, 255}, d \in Sample}}
  \cup {P : P \in UNION {{Largest(a, b), Orders(a, b), MulDiv(a, b), Signed(a, b), Negated(a, b), Halves(a, b),
                          DecimalBack(a, b), Extended(a, b), Called(a, b), CalledFar(a, b)} : a, b \in Sample}}
  \cup {P : P \in UNION {{Repeated(a, b), Indirect(a, b), CopyUp(a, b), CopyDown(a, b), Sought(a, b), Exits(a, b), FarPointer(a, b),
                          Prints(a, b), Idle(a, b), Delays(a, b), Parity(a, b), Spins(a, b), GoesRound(a, b), Undefined(a, b)} : a, b \in Small}}
  \cup {P : P \in UNION {{EdgeStack(a, at), EdgeByte(a, at), EdgeString(a, at)} :
                         a \in {3, 200}, at \in {0, 1, 12, 13, 14, 15, 16, 17, 18, 40, 254, 255}}}
  \cup Alone \cup Products

MCService == [ah \in 0..(MCByte - 1) |->
  CASE ah = 0 -> "kill" [] ah = 2 -> "putc" [] ah = 3 -> "drive" [] ah = 4 -> "exit" [] ah = 5 -> "vector"
    [] ah = 6 -> "version" [] ah = 9 -> "puts" [] ah = 14 -> "teletype" [] ah = 12 -> "unknown" [] OTHER -> "ok"]
-----------------------------------------------------------------------------
Wide(hi, lo) == hi * MCWord + lo
Top16(x) == IF x < MCWord \div 2 THEN x ELSE x - MCWord

Top4(x) == IF x < MCByte \div 2 THEN x ELSE x - MCByte
Bits(v) == {k \in 0..7 : (v \div 2^k) % 2 = 1}
Number(bits) == FoldSet(LAMBDA k, n : n + 2^k, 0, bits)

\* The result of one instruction before it is cut to a byte or a word.
Uncut(i, a, b, c) ==
  CASE i.f \in {"add", "inc"} -> a + b
    [] i.f = "adc" -> a + b + c
    [] i.f \in {"sub", "cmp"} -> a - b
    [] i.f = "sbb" -> a - b - c
    [] i.f \in {"and", "test"} -> Number(Bits(a) \cap Bits(b))
    [] i.f = "or" -> Number(Bits(a) \cup Bits(b))
    [] i.f = "xor" -> Number((Bits(a) \cup Bits(b)) \ (Bits(a) \cap Bits(b)))
    [] i.f = "neg" -> -a
    [] i.f = "not" -> Number((0..(IF i.w = 1 THEN 3 ELSE 7)) \ Bits(a))
    [] i.f = "shl" -> a * 2^b
    [] i.f = "shr" -> a \div 2^b
    [] i.f = "sar" -> (IF i.w = 1 THEN Top4(a) ELSE Top16(a)) \div 2^b

\* The parts of the outcome that the emulator leaves different from a 8086 (mzexe.h):
Deviations(i, a, b, c, m) ==
  LET counted == i.op = "shift" /\ i.count # "one" IN
  UNION {
    \* 80 /2 leaves the carry that comes in out of the carry that goes out, 83 /2 leaves CF as it
    \* was (715, 753), and the three forms of SBB leave the borrow out of it (716, 735, 754);
    IF \/ i.f = "adc" /\ i.form = "80" /\ c = 1 /\ a + b = m - 1
       \/ i.f = "adc" /\ i.form = "83"
       \/ i.f = "sbb" /\ c = 1 /\ a = b
    \* NEG, SAR by one and the shifts by a count leave CF as it was (826, 779, 766);
       \/ i.f \in {"neg", "sar"} \/ counted THEN {"cf"} ELSE {},
    \* INC of a word by FF compares the sum before it is cut (880), a count of zero sets ZF (767);
    IF (i.f = "inc" /\ i.w = 2 /\ i.len > 1 /\ b = 1 /\ a = m - 1) \/ (counted /\ b = 0) THEN {"zf"} ELSE {},
    \* the host takes the count modulo the bits of an int (766).
    IF counted /\ b >= IntBits THEN {"zf", "value"} ELSE {}}

\* The value, ZF, CF, and nothing else: a 8086 sets SF, OF, AF and PF too.
OneAsOn8086 ==
  LET i == image.code[0]
      a == image.in[1]  b == image.in[2]  c == image.in[3]
      m == IF i.w = 1 THEN MCByte ELSE MCWord
      uncut == Uncut(i, a, b, c)
      off == Deviations(i, a, b, c, m)
      carry == CASE i.f \in {"inc", "not"} -> c = 1
                 [] i.f \in {"shr", "sar"} -> a % 2 = 1
                 [] OTHER -> uncut \notin 0..(m - 1)
      keeps == i.f = "not" \/ (i.op = "shift" /\ b = 0)
      held == IF i.dst = AX THEN cpu.r.ax ELSE cpu.m[Data] + MCByte * cpu.m[Data + 1]
  IN  \* ZF is clear when the instruction begins.
      /\ "value" \in off \/ held = Whole(i.w, IF i.f \in {"cmp", "test"} THEN a ELSE uncut % m)
      /\ "zf" \in off \/ Has(cpu, ZF) = (~keeps /\ uncut % m = 0)
      /\ "cf" \in off \/ Has(cpu, CF) = carry
      /\ \A x \in Registers \ {"ip", "flags"} : i.dst # AX \/ x # "ax" => cpu.r[x] = image.regs[x]
      /\ i.dst = AX => cpu.m = image.mem

Abs(x) == IF x < 0 THEN -x ELSE x

\* Not on a 8086: F6 DIV divides AL alone, F6 IDIV does nothing (852, 856), a quotient that does
\* not fit is cut instead of interrupting (867, 868).  CF and ZF are left as they were.
ProductAsOn8086 ==
  LET i == image.code[0]
      a == image.in[1]  b == image.in[2]  d == image.in[3]
      al == a % MCByte  bl == b % MCByte
      n == IF i.f = "div" THEN Wide(d, a) ELSE Top16(d) * MCWord + a
      q == IF i.f = "div" THEN cpu.r.ax ELSE Top16(cpu.r.ax)
      rest == IF i.f = "div" THEN cpu.r.dx ELSE Top16(cpu.r.dx)
      by == IF i.f = "div" THEN b ELSE Top16(b)
      fits == Abs(n) \div Abs(by) < (IF i.f = "div" THEN MCWord ELSE MCWord \div 2)
  IN  /\ CASE i.f = "mul" /\ i.w = 1 -> cpu.r.ax = al * bl
           [] i.f = "mul" /\ i.w = 2 -> Wide(cpu.r.dx, cpu.r.ax) = a * b
           [] i.f = "imul" /\ i.w = 1 -> Top16(cpu.r.ax) = Top4(al) * Top4(bl)
           [] i.f = "imul" /\ i.w = 2 -> Top16(cpu.r.dx) * MCWord + cpu.r.ax = Top16(a) * Top16(b)
           [] i.f = "div" /\ i.w = 1 -> a < MCByte => a = Lo(cpu.r.ax) * bl + Hi(cpu.r.ax) /\ Hi(cpu.r.ax) < bl
           [] i.w = 2 -> fits => n = q * by + rest /\ Abs(rest) < Abs(by) /\ rest * n >= 0
           [] OTHER -> TRUE
      /\ \A x \in Registers \ {"ax", "dx", "ip"} : cpu.r[x] = image.regs[x]
      /\ i.w = 1 => cpu.r.dx = d

\* Whether the word of the last segment at offset off is in the block.
InBlock(off) == Base0 + off + 1 < MemSize

\* What each program must leave in the registers, the memory and on the console.
Expected ==
  LET r == cpu.r
      in == image.in
      name == image.name
      larger == IF in[1] >= in[2] THEN in[1] ELSE in[2]
      al == in[1] % MCByte
      imm == in[2] % MCByte
      sext == IF al < MCByte \div 2 THEN al ELSE MCWord - MCByte + al
  IN  CASE name \in {"wide", "widemem"} ->
             Wide(r.dx, r.ax) = (Wide(in[4], in[1]) + Wide(in[3], in[2])) % (MCWord * MCWord)
        [] name = "shift" -> Wide(r.dx, r.ax) = (2 * Wide(in[4], in[1])) % (MCWord * MCWord)
        [] name = "max" -> r.cx = larger /\ r.sp = Stack0
        [] name = "orders" -> r.cx = (IF al > imm THEN 1 ELSE 2) + (IF al = imm THEN 4 ELSE 0)
        [] name = "product" -> r.dx = (in[1] * in[2]) % MCWord
        [] name = "muldiv" -> r.ax = in[1] /\ r.dx = 0
        [] name = "signed" -> r.ax = in[1] /\ r.dx = 0
        [] name = "negated" -> r.ax = (-in[1]) % MCWord /\ r.cx = 0
        [] name = "halves" -> r.dx = (in[2] \div MCByte) * MCByte + (in[1] % MCByte)
        [] name = "decimal" -> r.ax = al
        [] name = "extended" -> r.ax = (Top16(sext) \div 2) % MCWord /\ r.dx = (IF al < MCByte \div 2 THEN 0 ELSE MCWord - 1)
        [] name = "call" -> <<r.ax, r.bx, r.cx, r.dx, r.sp>> = <<in[1], in[1], 3, 4, Stack0 - 2>>
        [] name = "far" -> <<r.bx, r.cx, r.es, r.cs, r.sp>> = <<in[1], in[1], 0, 0, Stack0>>
        [] name = "indirect" -> r.ip = 6 /\ r.sp = Stack0
        [] name = "copy" -> \A j \in 0..2 : cpu.m[Data + 32 + j] = cpu.m[Data + j] /\ cpu.m[Data + j] = 5 + j
        [] name = "sought" -> r.di = 2 /\ r.cx = 2 /\ r.ax = 5 + MCByte * 6
        [] name = "exit" -> exit_code = al
        [] name = "print" -> console = <<1, 5, 6>> \o <<in[1] % MCByte>>
        [] name = "idle" -> r.sp = Stack0 /\ r.bx = in[2]
        [] name = "delay" -> r.cx = 0 /\ r.ax = in[1]
        [] name = "parity" -> r.ip = 8 /\ r.sp = Stack0
        [] name = "farptr" -> r.ip = 2 /\ r.cs = 0 /\ r.sp = Stack0
        [] name = "edgestack" -> r.bx = in[1] /\ r.es = IF InBlock((in[2] - 2) % MCWord) THEN 32 ELSE 0
        [] name = "edgebyte" ->
             /\ Lo(r.cx) = (IF Base0 + in[2] < MemSize THEN in[1] ELSE in[2]) % MCByte
             /\ r.dx = IF InBlock(in[2]) THEN in[1] ELSE 0
        [] name = "edgestring" -> cpu.m[Base0 + in[2]] = 5
        [] name = "one" -> OneAsOn8086
        [] name = "product8086" -> ProductAsOn8086
        [] OTHER -> FALSE

DividesByZero ==
  \/ image.name \in {"muldiv", "signed"} /\ image.in[2] = 0
  \/ image.name = "decimal" /\ image.in[2] % MCByte = 0
  \/ image.name = "product8086" /\ image.code[0].f \in {"div", "idiv"} /\
       image.in[2] % (IF image.code[0].w = 1 THEN MCByte ELSE MCWord) = 0

\* A program that runs to its end leaves what a 8086 leaves: every form of the arithmetic
\* instructions, operand by operand, except where Deviations and ProductAsOn8086 say what the
\* code does instead; and the families of emulate_step together, carries from one instruction to
\* the next, flags over the stack, halves of registers, calls within calls (mzexe.h 401-1035).
\* At the end of the block a 8086 goes round to address 0 and the emulator does not: there a
\* pair of PUSH and POP of a register still keeps its value, a byte behind the block is read and
\* not written, a word is neither.
Computes == rc = 0 => Expected

\* What execute_real_mode_stub returns for a program it does not see the end of is why: -10 only
\* for an instruction without a meaning, -30 only for one that jumps to itself for ever, not for
\* delays that are shorter than the detector's count, -8 only when the budget is used up
\* (mzexe.h 1058-1082).  Only the division of the least number by -1 stops the kernel.
CodesAreTrue ==
  /\ rc = -10 => image.name = "undefined" \/ DividesByZero
  /\ rc = -30 => image.name = "spin"
  /\ rc = -8 => image.name = "round" /\ steps = MaxSteps
  /\ rc = 0 => halt
  /\ rc = Trapped => image.name = "product8086" /\ image.in = <<0, MCWord - 1, MCWord \div 2>>
=============================================================================
