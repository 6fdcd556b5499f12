-------------------------------- MODULE C33 --------------------------------
(***************************************************************************)
(* The S1C33 core (core/cpu): how an instruction word is decoded, what     *)
(* each handler does to the registers and the bus, and the order of checks *)
(* in Cpu::step.  A core is a record; every handler is an operator on it.  *)
(*                                                                         *)
(* Widths are parameters (the code's values: 8, 13, 6, 8 bits); a word has *)
(* four bytes.  An instruction is a record with the fields the decoder     *)
(* extracts; op is <<family, name>>.                                       *)
(***************************************************************************)
EXTENDS C33Bus, Bitwise

CONSTANTS ExtW,         \* 13: bits of an EXT prefix
          ImmW,         \* 6: bits of an immediate operand
          BranchW,      \* 8: bits of a branch displacement
          NumRegs       \* 16

ASSUME CoreWidths ==
  /\ {ExtW, ImmW, BranchW, NumRegs} \subseteq Nat \ {0}
  /\ 2 * ExtW + ImmW = WordW            \* two prefixes fill a word
  /\ BranchW + ExtW < WordW - 1 /\ BranchW + 2 * ExtW >= WordW - 1

Wrap(x) == x % Word
\* sign_ext: bits wide two's complement, as an integer.
Signed(v, bits) == IF v % 2 ^ bits >= 2 ^ (bits - 1) THEN (v % 2 ^ bits) - 2 ^ bits ELSE v % 2 ^ bits
Bit(v, k) == (v \div 2 ^ k) % 2 = 1
Sign(v) == Bit(v, WordW - 1)

(***************************************************************************)
(* Instruction words: the encoders of c33insn.hpp and the dispatch table.  *)
(* Fields of a word that are neither are in the instruction's record.      *)
(***************************************************************************)
MemNames == <<"ld.b", "ld.ub", "ld.h", "ld.uh", "ld.w", "st.b", "st.h", "st.w">>
AluNames == <<"add", "sub", "cmp", "mov", "and", "or", "xor", "not">>
ShiftNames == <<"srl", "sll", "sra", "sla", "rr", "rl">>
CondNames == <<"gt", "ge", "lt", "le", "ugt", "uge", "ult", "ule", "eq", "ne">>
ControlNames == <<<<"nop", "slp", "halt", "-">>, <<"pushn", "popn", "-", "-">>,
                  <<"brk", "retd", "int", "reti">>, <<"call_rb", "ret", "jp_rb", "-">>>>
ScanNames == <<"scan0", "scan1", "swap", "mirror">>
DivNames == <<"div0s", "div0u", "div1", "div2s", "div3s">>
SpecialNames == <<"ld_sd", "ld_ss", "btst", "bclr", "bset", "bnot", "adc", "sbc">>
MoveNames == <<"ld.b", "ld.ub", "ld.h", "ld.uh">>
MulNames == <<"mlt.h", "mltu.h", "mlt.w", "mltu.w", "mac">>

Code(names, name) == CHOOSE k \in 0 .. Len(names) - 1 : names[k + 1] = name

\* Words are <<class, op1, op2>>; where op2's place holds immediate bits, those.
ControlWord(n) == LET row == CHOOSE k \in 1 .. 4 : n \in ToSet(ControlNames[k])
                  IN <<0, row - 1, Code(ControlNames[row], n)>>

EncodeLow(i) ==
  LET n == i.op[2]
      free == i.imm % 4
  IN CASE i.op[1] = "control" -> ControlWord(n)
       [] i.op[1] = "jr" -> <<0, 4 + Code(CondNames, n), free>>
       [] i.op[1] = "call" -> <<0, 14, free>>
       [] i.op[1] = "jp" -> <<0, 15, free>>
       [] i.op[1] = "ind" -> <<1, Code(MemNames, n), 0>>
       [] i.op[1] = "postinc" -> <<1, Code(MemNames, n), 1>>
       [] i.op[1] = "alu_rr" -> <<1, Code(AluNames, n), 2>>
       [] i.op[1] = "sp" -> <<2, Code(MemNames, n), free>>
       [] i.op[1] = "alu_imm" -> <<3, Code(AluNames, n), free>>

EncodeHigh(i) ==
  LET n == i.op[2]
  IN CASE i.op[1] = "sp_adjust" -> <<4, Code(<<"add", "sub">>, n), i.imm % 4>>
       [] i.op[1] = "shift_imm" -> <<4, 2 + Code(ShiftNames, n), 0>>
       [] i.op[1] = "shift_rs" -> <<4, 2 + Code(ShiftNames, n), 1>>
       [] i.op[1] = "scan" -> <<4, 2 + Code(ScanNames, n), 2>>
       [] i.op[1] = "div" -> <<4, 2 + Code(DivNames, n), 3>>
       [] i.op[1] = "special" -> <<5, Code(SpecialNames, n), 0>>
       [] i.op[1] = "move" -> <<5, Code(MoveNames, n), 1>>
       [] i.op[1] = "mul" -> <<5, Code(MulNames, n), 2>>
       [] i.op[1] = "ext" -> <<6, 0, 0>>
       [] OTHER -> <<7, 0, 0>>

Encode(i) == IF i.op[1] \in {"control", "jr", "call", "jp", "ind", "postinc", "alu_rr", "sp", "alu_imm"}
             THEN EncodeLow(i) ELSE EncodeHigh(i)

Undef == <<"undef", "-">>
Nth(family, names, k) == IF k < Len(names) /\ names[k + 1] # "-" THEN <<family, names[k + 1]>> ELSE Undef

\* build_table: classes 0 to 3.
DispatchLow(c, op1, op2) ==
  CASE c = 0 /\ op1 < 4 -> Nth("control", ControlNames[op1 + 1], op2)
    [] c = 0 /\ op1 \in 4 .. 13 -> Nth("jr", CondNames, op1 - 4)
    [] c = 0 -> IF op1 = 14 THEN <<"call", "simm8">> ELSE <<"jp", "simm8">>
    [] c = 1 -> CASE op2 = 0 -> Nth("ind", MemNames, op1)
                  [] op2 = 1 -> Nth("postinc", MemNames, op1)
                  [] op2 = 2 -> Nth("alu_rr", AluNames, op1)
                  [] OTHER -> Undef
    [] c = 2 -> Nth("sp", MemNames, op1)
    [] c = 3 -> Nth("alu_imm", AluNames, op1)

\* build_table: classes 4 to 7.
DispatchHigh(c, op1, op2) ==
  CASE c = 4 /\ op1 < 2 -> Nth("sp_adjust", <<"add", "sub">>, op1)
    [] c = 4 -> CASE op2 = 0 -> Nth("shift_imm", ShiftNames, op1 - 2)
                  [] op2 = 1 -> Nth("shift_rs", ShiftNames, op1 - 2)
                  [] op2 = 2 -> Nth("scan", ScanNames, op1 - 2)
                  [] OTHER -> Nth("div", DivNames, op1 - 2)
    [] c = 5 -> CASE op2 = 0 -> Nth("special", SpecialNames, op1)
                  [] op2 = 1 -> Nth("move", MoveNames, op1)
                  [] op2 = 2 -> Nth("mul", MulNames, op1)
                  [] OTHER -> Undef
    [] c = 6 -> <<"ext", "-">>
    [] OTHER -> Undef

Dispatch(w) == IF w[1] < 4 THEN DispatchLow(w[1], w[2], w[3]) ELSE DispatchHigh(w[1], w[2], w[3])

\* ext_capable: which words may follow a prefix.
ExtCapable(w) ==
  LET c == w[1] op1 == w[2] op2 == w[3]
  IN CASE c \in {2, 3, 6} -> TRUE
       [] c = 0 -> op1 >= 4
       [] c = 1 -> op2 = 0 \/ (op2 = 2 /\ op1 \notin {3, 7})
       [] c = 5 -> op2 = 0 /\ op1 \in 2 .. 5
       [] OTHER -> FALSE

\* Mutant: the bit operations pass for register moves.
SlotClass_bitOps(w) ==
  IF w[1] = 5 /\ w[3] = 0 THEN "ok" ELSE
  LET c == w[1] op1 == w[2] op2 == w[3]
  IN CASE c = 0 -> IF op1 = 0 /\ op2 = 0 THEN "ok" ELSE "hard"
       [] c = 1 -> IF op2 = 2 THEN "ok" ELSE "hard"
       [] c \in {3, 4} -> "ok"
       [] OTHER -> "hard"

\* delay_slot_class: what may stand in a delay slot.
SlotClass(w) ==
  LET c == w[1] op1 == w[2] op2 == w[3]
  IN CASE c = 0 -> IF op1 = 0 /\ op2 = 0 THEN "ok"
                   ELSE IF op1 = 0 /\ op2 <= 2 THEN "soft" ELSE "hard"
       [] c = 1 -> IF op2 = 2 THEN "ok" ELSE "hard"
       [] c = 3 -> "ok"
       [] c = 4 -> IF op1 <= 1 \/ op2 <= 2 THEN "ok" ELSE "soft"
       [] c = 5 -> CASE op2 = 0 -> IF op1 \in 2 .. 5 THEN "hard" ELSE "ok"
                     [] op2 = 1 -> "soft"
                     [] op2 = 2 -> IF op1 <= 1 THEN "ok" ELSE "hard"
                     [] OTHER -> "hard"
       [] OTHER -> "hard"

(***************************************************************************)
(* Status register.                                                        *)
(***************************************************************************)
NBit == 0
ZBit == 1
VBit == 2
CBit == 3
IeBit == 4
DsBit == 6
MoBit == 7

SetBit(psr, k, on) == psr - (IF Bit(psr, k) THEN 2 ^ k ELSE 0) + (IF on THEN 2 ^ k ELSE 0)
SetNz(psr, v) == SetBit(SetBit(psr, NBit, Sign(v)), ZBit, v = 0)

\* sum and diff are the exact results, before they are cut to a word.
SetAdd(psr, a, b, sum) ==
  SetBit(SetBit(SetNz(psr, Wrap(sum)), CBit, sum >= Word),
         VBit, Sign(a) = Sign(b) /\ Sign(a) # Sign(Wrap(sum)))

SetSub(psr, a, b, diff) ==
  SetBit(SetBit(SetNz(psr, Wrap(diff)), CBit, diff < 0),
         VBit, Sign(a) # Sign(b) /\ Sign(a) # Sign(Wrap(diff)))

Taken(psr, cond) ==
  LET n == Bit(psr, NBit) z == Bit(psr, ZBit) v == Bit(psr, VBit) c == Bit(psr, CBit)
  IN CASE cond = "gt" -> n = v /\ ~z
       [] cond = "ge" -> n = v
       [] cond = "lt" -> n # v
       [] cond = "le" -> n # v \/ z
       [] cond = "ugt" -> ~c /\ ~z
       [] cond = "uge" -> ~c
       [] cond = "ult" -> c
       [] cond = "ule" -> c \/ z
       [] cond = "eq" -> z
       [] cond = "ne" -> ~z

(***************************************************************************)
(* Prefixes.                                                               *)
(***************************************************************************)
Flush(s) == [s EXCEPT !.ext = <<>>]

\* ext_imm: prefix bits above the instruction's own (bits above a word are lost).
ExtImm(s, imm, w) ==
  Wrap(CASE Len(s.ext) = 0 -> imm
         [] Len(s.ext) = 1 -> s.ext[1] * 2 ^ w + imm
         [] OTHER -> (s.ext[1] * 2 ^ ExtW + s.ext[2]) * 2 ^ w + imm)

ExtSimm(s, imm, w) == Wrap(Signed(ExtImm(s, imm, w), w + ExtW * Len(s.ext)))

ExtRb(s) == IF s.ext = <<>> THEN 0
            ELSE IF Len(s.ext) = 1 THEN s.ext[1] ELSE s.ext[1] * 2 ^ ExtW + s.ext[2]

\* ext_pcrel: of the first of two prefixes only the upper bits fit.
ExtPcrel(s, imm) ==
  LET lost == BranchW + 2 * ExtW - (WordW - 1)
  IN CASE Len(s.ext) = 0 -> Signed(imm, BranchW)
       [] Len(s.ext) = 1 -> Signed(s.ext[1] * 2 ^ BranchW + imm, BranchW + ExtW)
       [] OTHER -> Signed(((s.ext[1] \div 2 ^ lost) * 2 ^ ExtW + s.ext[2]) * 2 ^ BranchW + imm,
                          WordW - 1)

(***************************************************************************)
(* Faults and traps.                                                       *)
(***************************************************************************)
Fault(s) == [s EXCEPT !.fault = TRUE, !.halt = TRUE]

Push(s, v) == LET sp == Wrap(s.sp - 4)
              IN [s EXCEPT !.sp = sp, !.bus = Write32(@, sp, v)]
Pop(s) == LET x == Read32(s.bus, s.sp)
          IN [v |-> x.v, s |-> [s EXCEPT !.sp = Wrap(@ + 4), !.bus = x.b]]

SetIl(psr, level) == (psr % 256) + 256 * level + ((psr \div 4096) * 4096)

DoTrap(s, no, level) ==
  IF no >= 16 /\ (~Bit(s.psr, IeBit) \/ level <= (s.psr \div 256) % 16) THEN s
  ELSE IF s.ext # <<>> \/ s.slot THEN [s EXCEPT !.deferred = <<no, level>>]
  ELSE LET x == Read32(s.bus, s.bus.ttbr + no * 4)
           p == Push(Push([s EXCEPT !.bus = x.b], s.pc), s.psr)
       IN [p EXCEPT !.pc = x.v, !.halt = FALSE,
                    !.psr = SetBit(IF no >= 16 THEN SetIl(@, level) ELSE @, IeBit, FALSE)]

ZeroDivide == 4

(***************************************************************************)
(* Class 0.                                                                *)
(***************************************************************************)
Jump(s, target, delayed) ==
  IF delayed THEN [s EXCEPT !.slot = TRUE, !.target = target] ELSE [s EXCEPT !.pc = target]

\* A delayed call returns behind its slot.
Call(s, target, delayed) ==
  LET p == Push(s, Wrap(s.pc + (IF delayed THEN 2 ELSE 0)))
  IN Jump([p EXCEPT !.caller = IF delayed THEN "call.d" ELSE @], target, delayed)

Relative(s, i) == Wrap(s.pc - 2 + 2 * ExtPcrel(s, i.imm))

Control(s, i) ==
  LET f == Flush(s)
      n == i.op[2]
      down == [k \in 1 .. i.rd + 1 |-> i.rd + 1 - k]
      up == [k \in 1 .. i.rd + 1 |-> k - 1]
      one == Pop(f)
      two == Pop(one.s)
  IN CASE n = "nop" -> f
       [] n \in {"slp", "halt"} -> [f EXCEPT !.halt = TRUE]
       [] n = "pushn" -> FoldLeft(LAMBDA t, k : Push(t, t.r[k]), f, down)
       [] n = "popn" -> FoldLeft(LAMBDA t, k : [Pop(t).s EXCEPT !.r[k] = Pop(t).v], f, up)
       [] n = "brk" -> DoTrap(f, 0, 0)
       [] n = "int" -> DoTrap(f, 12 + i.imm, 0)
       [] n = "retd" -> [two.s EXCEPT !.psr = two.v, !.slot = TRUE, !.target = one.v]
       [] n = "reti" -> [two.s EXCEPT !.psr = one.v, !.pc = two.v]
       [] n = "call_rb" -> Call(f, s.r[i.rd], i.d)
       [] n = "ret" -> Jump([one.s EXCEPT !.caller = IF i.d THEN "ret.d" ELSE @], one.v, i.d)
       [] n = "jp_rb" -> IF i.d THEN Fault(f) ELSE Jump(f, s.r[i.rd], FALSE)

JumpIf(s, i, taken) == IF taken THEN Jump(Flush(s), Relative(s, i), i.d) ELSE Flush(s)

(***************************************************************************)
(* Classes 1 to 3.                                                         *)
(***************************************************************************)
Size(name) == CASE name \in {"ld.b", "ld.ub", "st.b"} -> 1
                [] name \in {"ld.h", "ld.uh", "st.h"} -> 2
                [] OTHER -> 4

Load(s, name, ea, rd) ==
  LET n == Size(name)
      x == Read(s.bus, ea, n)
  IN [s EXCEPT !.bus = x.b,
               !.r[rd] = IF name \in {"ld.b", "ld.h"} THEN Wrap(Signed(x.v, n * ByteW)) ELSE x.v]

Store(s, name, ea, rd) == [s EXCEPT !.bus = Write(@, ea, Size(name), s.r[rd])]

Transfer(s, name, ea, rd) ==
  IF name \in {"st.b", "st.h", "st.w"} THEN Store(s, name, ea, rd) ELSE Load(s, name, ea, rd)

\* The increment adds to whatever the base holds after a load into it.
Indirect(s, i, postinc) ==
  LET t == Transfer(Flush(s), i.op[2], Wrap(s.r[i.rs] + ExtRb(s)), i.rd)
  IN IF postinc THEN [t EXCEPT !.r[i.rs] = Wrap(@ + Size(i.op[2]))] ELSE t

SpRelative(s, i) ==
  Transfer(Flush(s), i.op[2],
           Wrap(s.sp + (IF s.ext = <<>> THEN i.imm * Size(i.op[2]) ELSE ExtImm(s, i.imm, ImmW))), i.rd)

Alu(s, name, a, b, rd) ==
  LET put(v) == [s EXCEPT !.r[rd] = v, !.psr = SetNz(@, v)]
  IN CASE name = "add" -> [s EXCEPT !.r[rd] = Wrap(a + b), !.psr = SetAdd(@, a, b, a + b)]
       [] name = "sub" -> [s EXCEPT !.r[rd] = Wrap(a - b), !.psr = SetSub(@, a, b, a - b)]
       [] name = "cmp" -> [s EXCEPT !.psr = SetSub(@, a, b, a - b)]
       [] name = "mov" -> [s EXCEPT !.r[rd] = b]
       [] name = "and" -> put(a & b)
       [] name = "or" -> put(a | b)
       [] name = "xor" -> put(a ^^ b)
       [] name = "not" -> put(Word - 1 - b)

\* With a prefix there are three operands, except for mov and not.
AluRr(s, i) ==
  IF i.op[2] \notin {"mov", "not"} /\ s.ext # <<>>
  THEN Alu(Flush(s), i.op[2], s.r[i.rs], ExtRb(s), i.rd)
  ELSE Alu(Flush(s), i.op[2], s.r[i.rd], s.r[i.rs], i.rd)

AluImm(s, i) ==
  Alu(Flush(s), i.op[2], s.r[i.rd],
      IF i.op[2] \in {"add", "sub"} THEN ExtImm(s, i.imm, ImmW) ELSE ExtSimm(s, i.imm, ImmW), i.rd)

(***************************************************************************)
(* Class 4.                                                                *)
(***************************************************************************)
SpAdjust(s, i) == [Flush(s) EXCEPT !.sp = Wrap(IF i.op[2] = "add" THEN @ + 4 * i.imm ELSE @ - 4 * i.imm)]

\* Only N and Z change.
Shift(s, i, n) ==
  LET v == s.r[i.rd]
      x == CASE i.op[2] = "srl" -> v \div 2 ^ n
             [] i.op[2] \in {"sll", "sla"} -> Wrap(v * 2 ^ n)
             [] i.op[2] = "sra" -> Wrap(Signed(v, WordW) \div 2 ^ n)
             [] i.op[2] = "rr" -> (v \div 2 ^ n) + (v % 2 ^ n) * 2 ^ (WordW - n)
             [] i.op[2] = "rl" -> (v \div 2 ^ (WordW - n)) + Wrap(v * 2 ^ n)
  IN [Flush(s) EXCEPT !.r[i.rd] = x, !.psr = SetNz(@, x)]

\* shift_amt: the field counts to a byte's width and stays there.
ShiftAmount(imm) == IF imm >= ByteW THEN ByteW ELSE imm

\* The first 0 or 1 in the top byte, from above; a byte's width if none.
ScanFor(v, bit) ==
  LET found == {k \in 0 .. ByteW - 1 : Bit(v, WordW - 1 - k) = bit}
  IN IF found = {} THEN ByteW ELSE CHOOSE k \in found : \A j \in found : k <= j

Scan(s, i) ==
  LET f == Flush(s)
      v == s.r[i.rs]
      pos == ScanFor(v, i.op[2] = "scan1")
      perm(w) == [f EXCEPT !.r[i.rd] = w]
      bits(P(_)) == FoldLeft(LAMBDA x, k : x + (IF Bit(v, P(k - 1)) THEN 2 ^ (k - 1) ELSE 0), 0,
                             [k \in 1 .. WordW |-> k])
  IN CASE i.op[2] = "swap" -> perm(Bytes(v, 3) + Byte * Bytes(v, 2) + Half * (Bytes(v, 1) + Byte * Bytes(v, 0)))
       [] i.op[2] = "mirror" -> perm(bits(LAMBDA k : (k - (k % ByteW)) + (ByteW - 1 - (k % ByteW))))
       [] OTHER -> [f EXCEPT !.r[i.rd] = pos,
                             !.psr = SetBit(SetBit(SetBit(SetBit(@, ZBit, pos = 0), CBit, pos = ByteW),
                                                   VBit, FALSE), NBit, FALSE)]

\* Mutant: a remainder that comes out as zero does not count as a success.
DivStep_notZero(s, divisor) ==
  LET ahr == Wrap(2 * s.ahr) + (IF Sign(s.alr) THEN 1 ELSE 0)
      alr == Wrap(2 * s.alr)
      tmp == Wrap(IF Bit(s.psr, DsBit) = Bit(s.psr, NBit) THEN ahr - divisor ELSE ahr + divisor)
      q == CASE ~Bit(s.psr, DsBit) -> tmp < ahr /\ tmp # 0
             [] OTHER -> tmp >= ahr
  IN [s EXCEPT !.ahr = IF q THEN tmp ELSE ahr, !.alr = IF q THEN alr + 1 ELSE alr]

\* One bit of the quotient: AHR:ALR is shifted and the divisor tried.
DivStep(s, divisor) ==
  LET ahr == Wrap(2 * s.ahr) + (IF Sign(s.alr) THEN 1 ELSE 0)
      alr == Wrap(2 * s.alr)
      ds == Bit(s.psr, DsBit)
      n == Bit(s.psr, NBit)
      tmp == Wrap(IF ds = n THEN ahr - divisor ELSE ahr + divisor)
      q == CASE ~ds /\ ~n -> tmp <= ahr
             [] ~ds /\ n -> tmp < ahr
             [] ds /\ ~n -> tmp >= ahr
             [] ds /\ n -> tmp > ahr
  IN [s EXCEPT !.ahr = IF q THEN tmp ELSE ahr, !.alr = IF q THEN alr + 1 ELSE alr]

Div(s, i) ==
  LET f == Flush(s)
      divisor == s.r[i.rs]
      ds == Bit(s.psr, DsBit)
      n == Bit(s.psr, NBit)
      signs(d, k) == SetBit(SetBit(s.psr, DsBit, d), NBit, k)
      last == Wrap(IF n THEN s.ahr - divisor ELSE s.ahr + divisor)
  IN CASE i.op[2] \in {"div0s", "div0u"} /\ divisor = 0 -> DoTrap(f, ZeroDivide, 0)
       [] i.op[2] = "div0s" -> [f EXCEPT !.ahr = IF Sign(s.alr) THEN Word - 1 ELSE 0,
                                         !.psr = signs(Sign(s.alr), Sign(divisor))]
       [] i.op[2] = "div0u" -> [f EXCEPT !.ahr = 0, !.psr = signs(FALSE, FALSE)]
       [] i.op[2] = "div1" -> DivStep(f, divisor)
       [] i.op[2] = "div2s" -> IF ds /\ last = 0 THEN [f EXCEPT !.ahr = 0, !.alr = Wrap(@ + 1)] ELSE f
       [] i.op[2] = "div3s" -> IF ds # n THEN [f EXCEPT !.alr = Wrap(-@)] ELSE f

(***************************************************************************)
(* Class 5.                                                                *)
(***************************************************************************)
\* %psr, %sp, %alr, %ahr
SpecialMove(s, i) ==
  LET v == s.r[i.rs]
      from == CASE i.rs % 4 = 0 -> s.psr [] i.rs % 4 = 1 -> s.sp [] i.rs % 4 = 2 -> s.alr [] OTHER -> s.ahr
  IN IF i.op[2] = "ld_ss" THEN [Flush(s) EXCEPT !.r[i.rd] = from]
     ELSE CASE i.rd % 4 = 0 -> [Flush(s) EXCEPT !.psr = v]
            [] i.rd % 4 = 1 -> [Flush(s) EXCEPT !.sp = v]
            [] i.rd % 4 = 2 -> [Flush(s) EXCEPT !.alr = v]
            [] OTHER -> [Flush(s) EXCEPT !.ahr = v]

BitOp(s, i) ==
  LET ea == Wrap(s.r[i.rs] + ExtRb(s))
      x == Read8(s.bus, ea)
      f == [Flush(s) EXCEPT !.bus = x.b]
      on == Bit(x.v, i.imm)
      to == (i.op[2] = "bset") \/ (i.op[2] = "bnot" /\ ~on)
  IN IF i.op[2] = "btst" THEN [f EXCEPT !.psr = SetBit(@, ZBit, ~on)]
     ELSE [f EXCEPT !.bus = Write8(@, ea, SetBit(x.v, i.imm, to))]

Carry(s, i) ==
  LET a == s.r[i.rd]
      b == s.r[i.rs]
      c == IF Bit(s.psr, CBit) THEN 1 ELSE 0
  IN IF i.op[2] = "adc"
     THEN [Flush(s) EXCEPT !.r[i.rd] = Wrap(a + b + c), !.psr = SetAdd(@, a, b, a + b + c)]
     ELSE [Flush(s) EXCEPT !.r[i.rd] = Wrap(a - b - c), !.psr = SetSub(@, a, b, a - b - c)]

Special(s, i) == IF i.op[2] \in {"ld_sd", "ld_ss"} THEN SpecialMove(s, i)
                 ELSE IF i.op[2] \in {"adc", "sbc"} THEN Carry(s, i) ELSE BitOp(s, i)

Move(s, i) ==
  LET v == s.r[i.rs]
  IN [Flush(s) EXCEPT !.r[i.rd] = CASE i.op[2] = "ld.b" -> Wrap(Signed(v, ByteW))
                                    [] i.op[2] = "ld.ub" -> v % Byte
                                    [] i.op[2] = "ld.h" -> Wrap(Signed(v, 2 * ByteW))
                                    [] i.op[2] = "ld.uh" -> v % Half]

Multiply(s, i) ==
  LET signedOp == i.op[2] \in {"mlt.h", "mlt.w"}
      bits == IF i.op[2] \in {"mlt.h", "mltu.h"} THEN 2 * ByteW ELSE WordW
      arg(v) == IF signedOp THEN Signed(v, bits) ELSE v % 2 ^ bits
      res == arg(s.r[i.rd]) * arg(s.r[i.rs])
  IN [Flush(s) EXCEPT !.alr = Wrap(res), !.ahr = Wrap(res \div Word)]

(***************************************************************************)
(* mac: two fast paths and the loop they stand for.                        *)
(***************************************************************************)
Acc(s) == s.ahr * Word + s.alr

\* Adds delta to AHR:ALR; the overflow flag sticks.
Accumulate(s, delta) ==
  LET u == delta % (Word * Word)
      sum == (Acc(s) + u) % (Word * Word)
      top(x) == x >= (Word * Word) \div 2
      ov == top(Acc(s)) = top(u) /\ top(Acc(s)) # top(sum)
  IN [s EXCEPT !.alr = Wrap(sum), !.ahr = sum \div Word,
               !.psr = IF ov THEN SetBit(@, MoBit, TRUE) ELSE @]

Factor(v) == Signed(v, 2 * ByteW)

\* The slow path: one iteration reads both operands over the bus.
RECURSIVE MacLoop(_, _, _, _)
MacLoop(s, rs, r1, r2) ==
  IF s.r[rs] = 0 THEN s
  ELSE LET x == Read16(s.bus, s.r[r1])
           y == Read16(x.b, s.r[r2])
           t == Accumulate([s EXCEPT !.bus = y.b], Factor(x.v) * Factor(y.v))
       IN MacLoop([t EXCEPT !.r[r1] = Wrap(@ + 2), !.r[r2] = Wrap(@ + 2), !.r[rs] = @ - 1], rs, r1, r2)

\* The array index of the operand at register r, and a halfword there.  An
\* index below the array reads whatever the host's memory has in that place.
SramOffset(s, r) == Decoded(s.r[r]) - SramBase
SramHalf(b, i) == IF i \in 0 .. SramSize - 2 THEN Little(b.sram, i, 2) ELSE b.outside * (1 + Byte)

\* Mutant: the charge forgets the second operand.
MacSram_halfCost(s, rs, r1, r2) ==
  LET count == s.r[rs]
      term(k) == Factor(SramHalf(s.bus, SramOffset(s, r1) + 2 * (k - 1)))
                 * Factor(SramHalf(s.bus, SramOffset(s, r2) + 2 * (k - 1)))
      t == FoldLeft(LAMBDA u, k : Accumulate(u, term(k)), s, [k \in 1 .. count |-> k])
  IN [t EXCEPT !.bus = Charge(@, ExtRead(@, @.sramWait) * count),
               !.r[r1] = Decoded(@) + 2 * count, !.r[r2] = Decoded(@) + 2 * count,
               !.r[rs] = 0]

\* Fast path B: the products from the SRAM array, charged at once.  The
\* pointers come back without their undecoded bits.
MacSram(s, rs, r1, r2) ==
  LET count == s.r[rs]
      term(k) == Factor(SramHalf(s.bus, SramOffset(s, r1) + 2 * (k - 1)))
                 * Factor(SramHalf(s.bus, SramOffset(s, r2) + 2 * (k - 1)))
      t == FoldLeft(LAMBDA u, k : Accumulate(u, term(k)), s, [k \in 1 .. count |-> k])
  IN [t EXCEPT !.bus = Charge(@, ExtRead(@, @.sramWait) * 2 * count),
               !.r[r1] = Decoded(@) + 2 * count, !.r[r2] = Decoded(@) + 2 * count,
               !.r[rs] = 0]

\* Fast path A: every product is (-1) * (-1), and no cycle is charged.
MacOpenBus(s, rs, r1, r2) ==
  LET count == s.r[rs]
  IN [Accumulate(s, count) EXCEPT !.r[r1] = Wrap(@ + 2 * count), !.r[r2] = Wrap(@ + 2 * count),
                                  !.r[rs] = 0]

\* Their guards, in the code's 32-bit arithmetic: the first looks at the two
\* ends of a run, the second at the end of one.
BehindFlash(s, count, r) ==
  LET p == Decoded(s.r[r])
  IN p >= FlashBase + FlashSize /\ Wrap(p + 2 * (count - 1)) >= FlashBase + FlashSize
EndsInSram(s, count, r) == Wrap(Wrap(SramOffset(s, r)) + 2 * count) <= SramSize

MacPath(s, rs, r1, r2) ==
  LET all(Guard(_, _, _)) == s.bus.wps = <<>> /\ \A r \in {r1, r2} : Guard(s, s.r[rs], r)
  IN IF all(BehindFlash) THEN "open bus" ELSE IF all(EndsInSram) THEN "sram" ELSE "loop"

Mac(s, i) ==
  LET rs == i.rs
      r1 == (rs + 1) % NumRegs
      r2 == (rs + 2) % NumRegs
      f == Flush(s)
      path == MacPath(s, rs, r1, r2)
  IN IF s.r[rs] = 0 THEN f
     ELSE CASE path = "open bus" -> MacOpenBus(f, rs, r1, r2)
            [] path = "sram" -> MacSram(f, rs, r1, r2)
            [] path = "loop" -> MacLoop(f, rs, r1, r2)

(***************************************************************************)
(* Class 6: of three prefixes in a row the middle one is lost.             *)
(***************************************************************************)
Prefix(s, i) ==
  IF Len(s.ext) < 2 THEN [s EXCEPT !.ext = Append(@, i.imm)]
  ELSE LET t == [s EXCEPT !.ext[2] = i.imm] IN IF s.strict THEN Fault(t) ELSE t

Execute(s, i) ==
  LET f == i.op[1]
  IN CASE f = "control" -> Control(s, i)
       [] f = "jr" -> JumpIf(s, i, Taken(s.psr, i.op[2]))
       [] f = "jp" -> JumpIf(s, i, TRUE)
       [] f = "call" -> Call(Flush(s), Relative(s, i), i.d)
       [] f \in {"ind", "postinc"} -> Indirect(s, i, f = "postinc")
       [] f = "sp" -> SpRelative(s, i)
       [] f = "alu_rr" -> AluRr(s, i)
       [] f = "alu_imm" -> AluImm(s, i)
       [] f = "sp_adjust" -> SpAdjust(s, i)
       [] f = "shift_imm" -> Shift(s, i, ShiftAmount(i.imm))
       [] f = "shift_rs" -> Shift(s, i, s.r[i.rs] % WordW)
       [] f = "scan" -> Scan(s, i)
       [] f = "div" -> Div(s, i)
       [] f = "special" -> Special(s, i)
       [] f = "move" -> Move(s, i)
       [] f = "mul" -> IF i.op[2] = "mac" THEN Mac(s, i) ELSE Multiply(s, i)
       [] f = "ext" -> Prefix(s, i)
       [] OTHER -> Fault(s)

(***************************************************************************)
(* Cpu::step for a core that is not halted, at the instruction i.          *)
(***************************************************************************)
Refused(s, w) ==
  \/ s.slot /\ (s.ext # <<>> \/ SlotClass(w) = "hard" \/ (SlotClass(w) = "soft" /\ s.strict))
  \/ s.ext # <<>> /\ ~ExtCapable(w) /\ s.strict

TakeBusFault(s) ==
  IF ~s.bus.fault THEN s
  ELSE LET t == [s EXCEPT !.bus.fault = FALSE] IN IF s.fault THEN t ELSE Fault(t)

EndSlot(s, wasSlot, target) ==
  IF wasSlot /\ ~s.halt THEN [s EXCEPT !.slot = FALSE, !.caller = "other", !.pc = target] ELSE s

FireDeferred(s) ==
  IF s.ext = <<>> /\ ~s.slot /\ s.deferred # <<>> /\ ~s.fault
  THEN DoTrap([s EXCEPT !.deferred = <<>>], s.deferred[1], s.deferred[2]) ELSE s

Step(s, i) ==
  LET w == Encode(i)
      a == [s EXCEPT !.pc = Wrap(@ + 2), !.bus = Charge(@, FetchCost(@, s.pc)),
                     !.bus.debugPc = s.pc]
  IN IF s.pc \in s.breakpoints THEN [s EXCEPT !.halt = TRUE]
     ELSE IF Refused(s, w) THEN Fault(a)
     ELSE FireDeferred(EndSlot(TakeBusFault(Execute(a, [i EXCEPT !.op = Dispatch(w)])),
                               s.slot, s.target))
=============================================================================
