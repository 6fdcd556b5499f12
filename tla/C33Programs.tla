----------------------------- MODULE C33Programs -----------------------------
(***************************************************************************)
(* Small programs on the core of C33: the idioms that compilers and the    *)
(* device's libraries build from single instructions, each started with    *)
(* every combination of a few boundary values, and interrupted at most     *)
(* once, at any instruction.  A test is a record; its program lies at the  *)
(* start of the flash and ends where its last instruction is passed.       *)
(***************************************************************************)
EXTENDS C33

CONSTANTS Values,       \* operands: the boundaries of a word
          Wides,        \* halves of two-word operands
          Exts,     \* sampled EXT values
          Spots,        \* addresses that single accesses are tried at
          Operands,     \* addresses that runs of mac begin at
          Watches       \* lists of watchpoints

VARIABLES core, test, served

vars == <<core, test, served>>

Ins(family, name, rd, rs, imm) ==
  [op |-> <<family, name>>, rd |-> rd, rs |-> rs, imm |-> imm, d |-> FALSE]
Delayed(i) == [i EXCEPT !.d = TRUE]
DelayedIf(d, i) == [i EXCEPT !.d = d]

(***************************************************************************)
(* The programs.                                                           *)
(***************************************************************************)
DivSteps == [k \in 1 .. WordW |-> Ins("div", "div1", 0, 1, 0)]

UnsignedDiv == <<Ins("div", "div0u", 0, 1, 0)>> \o DivSteps
SignedDiv == <<Ins("div", "div0s", 0, 1, 0)>> \o DivSteps
             \o <<Ins("div", "div2s", 0, 1, 0), Ins("div", "div3s", 0, 0, 0)>>

\* r3 becomes 1 if the branch is taken; r2 counts the word behind it.
Compare(cond, d) ==
  <<Ins("alu_rr", "cmp", 0, 1, 0), DelayedIf(d, Ins("jr", cond, 0, 0, 3)),
    Ins("alu_imm", "add", 2, 0, 1), Ins("jp", "simm8", 0, 0, 2),
    Ins("alu_imm", "mov", 3, 0, 1)>>

\* r2:r0 and r3:r1, two words each.
WideSum(low, high) == <<Ins("alu_rr", low, 0, 1, 0), Ins("special", high, 2, 3, 0)>>

Prefixed(exts, op) ==
  [k \in 1 .. Len(exts) |-> Ins("ext", "-", 0, 0, exts[k])]
  \o <<op, Ins("alu_imm", "add", 1, 0, 1)>>

\* A call whose body saves what it uses; r2 counts the two slots.
CallAndReturn(direct, d, rd) ==
  <<DelayedIf(d, IF direct THEN Ins("call", "simm8", 0, 0, 3) ELSE Ins("control", "call_rb", 3, 0, 0)),
    Ins("alu_imm", "add", 2, 0, 1), Ins("jp", "simm8", 0, 0, 7),
    Ins("control", "pushn", 1, 0, 0), Ins("alu_imm", "mov", 0, 0, 3), Ins("alu_imm", "mov", 1, 0, 1),
    Ins("control", "popn", 1, 0, 0), DelayedIf(rd, Ins("control", "ret", 0, 0, 0)),
    Ins("alu_imm", "add", 2, 0, 2)>>

\* The normalising loop of a soft-float library: sll must keep scan1's carry.
Normalise ==
  <<Ins("scan", "scan1", 1, 0, 0), Ins("shift_rs", "sll", 0, 1, 0),
    Delayed(Ins("jr", "ult", 0, 0, 2 ^ BranchW - 2)), Ins("alu_rr", "add", 2, 1, 0)>>

Nop == Ins("control", "nop", 0, 0, 0)

Program(t) ==
  CASE t.kind = "udiv" -> UnsignedDiv
    [] t.kind = "sdiv" -> SignedDiv
    [] t.kind = "compare" -> Compare(t.cond, t.d)
    [] t.kind = "wide" -> WideSum(t.low, t.high)
    [] t.kind = "prefixed" -> Prefixed(t.exts, t.op)
    [] t.kind = "call" -> CallAndReturn(t.direct, t.d, t.rd)
    [] t.kind = "normalise" -> Normalise
    [] t.kind = "slot" -> <<Delayed(Ins("jp", "simm8", 0, 0, 2)), t.op>>
    [] OTHER -> <<t.op>>

\* Behind the program: an interrupt handler that uses registers and flags.
Handler == <<Ins("control", "pushn", 1, 0, 0), Ins("alu_imm", "mov", 0, 0, 2),
             Ins("alu_rr", "sub", 1, 0, 0), Ins("control", "popn", 1, 0, 0),
             Ins("control", "reti", 0, 0, 0)>>

At(index) == FlashBase + 2 * index
End(t) == At(Len(Program(t)))
HandlerPc == At(WordW + 4)
InHandler == core.pc >= HandlerPc
Done == core.pc = End(test)

Fetch(t, pc) ==
  LET k == (pc - FlashBase) \div 2
  IN IF pc >= HandlerPc THEN Handler[k - WordW - 3]
     ELSE IF pc < End(t) THEN Program(t)[k + 1] ELSE Nop

(***************************************************************************)
(* The tests.                                                              *)
(***************************************************************************)
Regs(a, b) == <<a, b, 0, 0>>
AllMem == {"ld.b", "ld.ub", "ld.h", "ld.uh", "ld.w", "st.b", "st.h", "st.w"}

Divisions == [kind : {"udiv", "sdiv"}, r : {Regs(0, b) : b \in Values}, alr : Values]
Compares == [kind : {"compare"}, cond : ToSet(CondNames), d : BOOLEAN,
             r : {Regs(a, b) : a, b \in Values}]
WideSums == {[kind |-> "wide", low |-> op[1], high |-> op[2], r |-> <<a, b, c, d>>] :
               op \in {<<"add", "adc">>, <<"sub", "sbc">>}, a, b, c, d \in Wides}
Prefixeds == [kind : {"prefixed"}, exts : UNION {[1 .. n -> Exts] : n \in 0 .. 3},
              op : {Ins("alu_imm", n, 0, 0, k) : n \in {"add", "mov", "xor"}, k \in {1, 2 ^ ImmW - 1}},
              r : {Regs(a, 0) : a \in Wides}]
Calls == [kind : {"call"}, direct : BOOLEAN, d : BOOLEAN, rd : BOOLEAN, r : {<<2, 5, 0, At(3)>>}]
Normalises == [kind : {"normalise"}, r : {Regs(a, 0) : a \in Values \ {0}}]

\* A transfer of every kind, at every spot, under every list of watchpoints.
Accesses == {[kind |-> "access", op |-> Ins("ind", n, 0, 1, 0), r |-> Regs(a * 5, a), wps |-> w] :
               n \in AllMem, a \in Spots, w \in Watches}

\* r0 products, operands behind r1 and r2; outside is a byte of the host's
\* memory outside the SRAM array.
Macs == {[kind |-> "mac", op |-> Ins("mul", "mac", 0, 0, 0), r |-> <<n, a, b, 0>>, alr |-> v, ahr |-> v,
          wps |-> w, outside |-> o] : n \in 0 .. 3, a, b \in Operands, v \in {0, Word - 1},
                                     w \in Watches, o \in {0, Byte - 1}}

\* Every word of the dispatch table, for the place behind a delayed jump.
Words == {Ins("control", n, 1, 0, 0) : n \in UNION {ToSet(ControlNames[k]) : k \in 1 .. 4} \ {"-"}}
         \cup UNION {{Ins(f[1], n, 1, 0, 1) : n \in ToSet(f[2])} :
              f \in {<<"jr", CondNames>>, <<"ind", MemNames>>, <<"postinc", MemNames>>, <<"sp", MemNames>>,
                     <<"alu_rr", AluNames>>, <<"alu_imm", AluNames>>, <<"sp_adjust", <<"add", "sub">>>>,
                     <<"shift_imm", ShiftNames>>, <<"shift_rs", ShiftNames>>, <<"scan", ScanNames>>,
                     <<"div", DivNames>>, <<"special", SpecialNames>>, <<"move", MoveNames>>,
                     <<"mul", MulNames>>}}
         \cup {Ins("call", "simm8", 0, 0, 1), Ins("jp", "simm8", 0, 0, 1), Ins("ext", "-", 0, 0, 1),
               Ins("undef", "-", 0, 0, 0)}
Slots == [kind : {"slot"}, op : Words, strict : BOOLEAN, r : {Regs(SramBase, 1), Regs(SramBase + 1, 0)}]

\* Memory has contents, and the vectors point at the handler.
Contents(b) ==
  [b EXCEPT !.sram = [i \in DOMAIN @ |-> (5 * i + 3) % Byte],
            !.io = [s \in DOMAIN @ |-> IF IoKind[s] \in {"plain", "bytes"} THEN (s * 7) % Half ELSE @[s]],
            !.sramWait = 2, !.flashWait = 1,
            !.iram = [i \in DOMAIN @ |-> Bytes(HandlerPc, i % 4)]]

Fresh(t) ==
  LET has(f, default) == IF f \in DOMAIN t THEN t[f] ELSE default
  IN [r |-> [k \in 0 .. NumRegs - 1 |-> t.r[k + 1]], pc |-> At(0), sp |-> SramBase + SramSize,
      alr |-> has("alr", 0), ahr |-> has("ahr", 0), psr |-> 2 ^ IeBit, ext |-> <<>>,
      slot |-> FALSE, target |-> 0, caller |-> "other", halt |-> FALSE, fault |-> FALSE,
      deferred |-> <<>>, strict |-> has("strict", FALSE), breakpoints |-> {},
      bus |-> [Contents(ResetBus(has("wps", <<>>))) EXCEPT !.outside = has("outside", 0)]]

Init == /\ test \in Divisions \cup Compares \cup WideSums \cup Prefixeds \cup Calls
                    \cup Normalises \cup Accesses \cup Macs \cup Slots
        /\ core = Fresh(test)
        /\ served = FALSE

\* Single accesses, multiplications and slots are not interrupted.
Interruptible == test.kind \notin {"access", "mac", "slot"}

Run == /\ ~Done \/ core.slot
       /\ ~core.halt
       /\ core' = Step(core, Fetch(test, core.pc))
       /\ UNCHANGED <<test, served>>

\* The interrupt controller asserts an interrupt between two instructions.
Interrupt == /\ Interruptible /\ ~served /\ ~Done /\ ~core.halt
             /\ core' = DoTrap(core, 16, 5)
             /\ served' = TRUE
             /\ UNCHANGED test

Next == Run \/ Interrupt
Spec == Init /\ [][Next]_vars

(***************************************************************************)
(* Properties.                                                             *)
(***************************************************************************)
Start == Fresh(test)
Finished == Done /\ ~core.slot /\ ~core.halt

Magnitude(x) == IF x < 0 THEN -x ELSE x
Sgn(x) == IF x < 0 THEN -1 ELSE 1

\* The division sequences of the manual leave the quotient, rounded to zero,
\* in ALR and the remainder, with the dividend's sign, in AHR; by zero they
\* trap before anything is changed.  Whatever interrupts them.
DivisionIsExact ==
  test.r[2] # 0 =>
    LET int(v) == IF test.kind = "sdiv" THEN Signed(v, WordW) ELSE v
        a == int(Start.alr)
        b == int(Start.r[1])
        q == Sgn(a) * Sgn(b) * (Magnitude(a) \div Magnitude(b))
    IN core.alr = Wrap(q) /\ core.ahr = Wrap(a - q * b)

Ordered(cond, a, b) ==
  LET x == Signed(a, WordW)
      y == Signed(b, WordW)
  IN CASE cond = "gt" -> x > y [] cond = "ge" -> x >= y [] cond = "lt" -> x < y [] cond = "le" -> x <= y
       [] cond = "ugt" -> a > b [] cond = "uge" -> a >= b [] cond = "ult" -> a < b [] cond = "ule" -> a <= b
       [] cond = "eq" -> a = b [] cond = "ne" -> a # b

\* A branch behind a comparison is taken when the operands are so ordered,
\* and the word behind a delayed branch runs whether it is taken or not.
Branches ==
  LET ordered == Ordered(test.cond, test.r[1], test.r[2])
  IN /\ (core.r[3] = 1) = ordered
     /\ (core.r[2] = 1) = (test.d \/ ~ordered)

\* Sums and differences of two words.
WideSumsCarry ==
  LET wide(lo, hi) == lo + Word * hi
      a == wide(test.r[1], test.r[3])
      b == wide(test.r[2], test.r[4])
  IN wide(core.r[0], core.r[2]) = (IF test.low = "add" THEN a + b ELSE a - b) % (Word * Word)

\* The prefixes an instruction sees: the first and the latest.
Effective(exts) == IF Len(exts) < 3 THEN exts ELSE <<exts[1], exts[Len(exts)]>>

\* A prefix extends the next instruction's operand and that one only.
PrefixesExtendOnce ==
  LET e == Effective(test.exts)
      all == FoldLeft(LAMBDA x, k : x * 2 ^ ExtW + k, 0, e) * 2 ^ ImmW + test.op.imm
      n == Signed(all, ImmW + ExtW * Len(e))
  IN /\ core.r[1] = 1
     /\ core.r[0] = CASE test.op.op[2] = "add" -> Wrap(test.r[1] + all)
                      [] test.op.op[2] = "mov" -> Wrap(n)
                      [] OTHER -> test.r[1] ^^ Wrap(n)

\* A call comes back behind its slot, each slot runs once, and the stack
\* and the registers the body saved are what they were.
CallComesBack ==
  /\ core.sp = Start.sp
  /\ core.r[0] = Start.r[0] /\ core.r[1] = Start.r[1]
  /\ core.r[2] = 1 + (IF test.rd THEN 2 ELSE 0)

\* The loop ends with the top bit set and has counted the shift.
LoopNormalises ==
  /\ Sign(core.r[0])
  /\ core.r[0] = Wrap(test.r[1] * 2 ^ core.r[2]) /\ test.r[1] * 2 ^ core.r[2] < Word

\* Idioms of several instructions compute what they are for, with an
\* interrupt at any instruction or without: the handlers in cpu_class0-6, the
\* flags of cpu.hpp and the deferral in do_trap and step fit together.
ProgramsCompute ==
  Finished =>
    /\ Interruptible => core.sp = Start.sp
    /\ test.kind \in {"udiv", "sdiv"} => DivisionIsExact
    /\ test.kind = "compare" => Branches
    /\ test.kind = "wide" => WideSumsCarry
    /\ test.kind = "prefixed" => PrefixesExtendOnce
    /\ test.kind = "call" => CallComesBack
    /\ test.kind = "normalise" => LoopNormalises

\* The operands the mac at r0 reads through pointer register k: their
\* addresses, as the loop would present them to the bus.
RunOf(k) == {Start.r[k] + 2 * n : n \in 0 .. Start.r[0] - 1}
PathTaken == MacPath(Start, 0, 1, 2)
IsMac == test.kind = "mac" /\ Start.r[0] # 0

\* Where the fast paths are meant to stand for the loop: halfword pointers,
\* and runs that neither pass the end of the decoded addresses nor come up to
\* the SRAM from below.  For an odd pointer the loop stops with a fault and the
\* fast paths do not; the other two are the subject of the next properties.
Ordinary(k) ==
  LET p == Decoded(Start.r[k])
      end == p + 2 * Start.r[0]
  IN p % 2 = 0 /\ end <= AddrSpace /\ ~(p < SramBase /\ SramBase <= end)

\* For such runs both fast paths of h_mac, which repeat by hand what the bus
\* does for each access, leave the memory, the accumulator, the flags, the
\* reports and the cycle count that the loop leaves, and pointers to the same
\* places: path B drops the address bits the bus does not decode.
MacPathsAgree ==
  Finished /\ test.kind = "mac" /\ Ordinary(1) /\ Ordinary(2) =>
    LET loop == MacLoop([Start EXCEPT !.bus = Charge(@, FetchCost(@, Start.pc)), !.bus.debugPc = Start.pc],
                        0, 1, 2)
        places(s) == [s EXCEPT !.r[1] = Decoded(@), !.r[2] = Decoded(@)]
    IN places(core) = places([loop EXCEPT !.pc = End(test)])

\* cpu_class5.cpp:154, of fast path A: "so every read returns 0xFFFF
\* unconditionally".  Not so for a run across the end of the decoded addresses.
OpenBusReadsOnes ==
  Finished /\ IsMac /\ PathTaken = "open bus" =>
    \A k \in 1 .. 2 : \A a \in RunOf(k) : Read16(Start.bus, a).v = Half - 1

\* cpu_class5.cpp:181, of fast path B: "both operand arrays lie entirely
\* within SRAM".  Not so for a run from below the SRAM whose offsets wrap.
SramPathStaysInside ==
  Finished /\ IsMac /\ PathTaken = "sram" =>
    \A k \in 1 .. 2 : \A a \in RunOf(k) : Decoded(a) \in SramBase .. SramBase + SramSize - 1

\* What the memory map of bus.hpp has at an address, byte by byte.
ByteAt(b, addr) ==
  LET a == addr % AddrSpace
  IN CASE a < IramSize -> b.iram[a]
       [] a \in IramSize .. IramSize + IramSize \div 2 - 1 -> b.iram[a - IramSize]
       [] a \in IoBase - IoSize .. IoBase + 2 * IoSize - 1 ->
            LET r == IoBase + ((a - (a % 2)) % IoSize)
            IN IF r \in DOMAIN IoKind THEN Bytes(b.io[r], a % 2) ELSE Byte - 1
       [] a \in SramBase .. SramBase + SramSize - 1 -> b.sram[a - SramBase]
       [] a \in FlashBase .. FlashBase + FlashSize - 1 -> RomByte(a - FlashBase)
       [] OTHER -> Byte - 1

Touched(t) == LET n == Size(t.op.op[2])
                  a == t.r[2] - (t.r[2] % n)
              IN a .. a + n - 1

IsStore(t) == t.op.op[2] \in {"st.b", "st.h", "st.w"}

Canonical(a) == CASE a \in IramSize .. IramSize + IramSize \div 2 - 1 -> a - IramSize
                  [] a \in IoBase - IoSize .. IoBase + 2 * IoSize - 1 -> IoBase + (a % IoSize)
                  [] OTHER -> a

\* Bytes that keep what is stored: memory, and registers of their own.
Keeping == (0 .. IramSize - 1) \cup (SramBase .. SramBase + SramSize - 1)
           \cup {s + k : s \in {x \in DOMAIN IoKind : IoKind[x] = "bytes"}, k \in 0 .. 1}

Loaded(t) ==
  LET n == Size(t.op.op[2])
      v == FoldLeft(LAMBDA x, a : Byte * x + ByteAt(Start.bus, a), 0,
                    Reverse(SetToSortSeq(Touched(t), <)))
  IN IF t.op.op[2] \in {"ld.b", "ld.h"} THEN Wrap(Signed(v, n * ByteW)) ELSE v

\* An access of any width, through whichever path of the bus, reads the bytes
\* that the memory map has there and writes those and no others, seen through
\* every mirror; a misaligned one faults.
AccessSeesMemory ==
    /\ core.fault = (test.r[2] % Size(test.op.op[2]) # 0)
    /\ ~IsStore(test) => core.r[0] = Loaded(test)
    /\ \A x \in Keeping :
         LET into == {a \in Touched(test) : Canonical(a) = x}
         IN ByteAt(core.bus, x) =
              IF IsStore(test) /\ into # {}
              THEN Bytes(Start.r[0], (CHOOSE a \in into : TRUE) % Size(test.op.op[2]))
              ELSE ByteAt(Start.bus, x)

\* A watchpoint reports an access of its kind exactly when a byte of it is
\* accessed and installed, whatever the width and the alignment.
AccessIsWatched ==
    LET kind == IF IsStore(test) THEN "write" ELSE "read"
        watched(w) == /\ w.type \in {kind, "rw"}
                      /\ Touched(test) \cap (w.addr .. w.addr + w.size - 1) # {}
                      /\ Touched(test) \subseteq SramBase .. SramBase + SramSize - 1
    IN ToSet(core.bus.fired) = {w \in ToSet(test.wps) : watched(w)}

\* What a load or store of any width and alignment does to memory and to the
\* watchpoints, at every boundary of the map (bus.hpp and bus.cpp).
AccessesAreExact ==
  core.pc = End(test) /\ test.kind = "access" => AccessSeesMemory /\ AccessIsWatched

Memory(b) == <<b.iram, b.sram, b.io>>

\* An instruction that delay_slot_class lets pass leaves memory alone and
\* takes the cycles of its fetch, and then the branch is made; unless it is
\* a division by zero, whose trap is taken at the target.
SlotIsOneCycle ==
  [][core.slot /\ ~core'.fault /\ test.kind = "slot"
       /\ ~(test.op.op[2] \in {"div0s", "div0u"} /\ core.r[test.op.rs] = 0) =>
     /\ Memory(core'.bus) = Memory(core.bus)
     /\ core'.bus.cycles = core.bus.cycles + FetchCost(core.bus, core.pc)
     /\ core'.halt \/ (core'.pc = core.target /\ ~core'.slot)]_vars

=============================================================================
