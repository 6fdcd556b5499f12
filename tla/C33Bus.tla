------------------------------- MODULE C33Bus -------------------------------
(***************************************************************************)
(* The bus of the S1C33209 (core/bus, soc/peripheral_bcu_area): which      *)
(* device an address reaches, what an access of 1, 2 or 4 bytes returns,   *)
(* costs and reports.  A bus is a record, an access an operator on it; a   *)
(* read returns the value v and the bus b after it.                        *)
(*                                                                         *)
(* A word has four bytes of ByteW bits (8 in the code).  The program in    *)
(* the flash is data the CPU module fetches; data reads of the flash see   *)
(* RomByte.  Flash commands are the subject of Sst39vf: here the flash is  *)
(* FlatFlashRom, which ignores writes.                                     *)
(***************************************************************************)
EXTENDS Integers, Sequences, FiniteSets, SequencesExt

CONSTANTS ByteW,        \* 8: bits of a byte
          AddrSpace,    \* 2^28: higher address bits are not decoded
          IramSize, IoBase, IoSize, SemihostEnd,
          SramBase, SramWindow, SramSize, FlashBase, FlashSize,
          IoKind        \* slots with a handler -> what kind of handler

Byte == 2 ^ ByteW
Half == Byte * Byte
Word == Half * Half
WordW == 4 * ByteW

ASSUME BusLayout ==
  /\ ByteW \in Nat \ {0} /\ Word % AddrSpace = 0
  /\ IramSize % 4 = 0 /\ IramSize + IramSize \div 2 <= IoBase - IoSize
  /\ IoBase % IoSize = 0 /\ IoBase + 2 * IoSize <= SemihostEnd
  /\ SemihostEnd <= SramBase /\ SramBase + SramWindow <= FlashBase
  /\ FlashBase + FlashSize <= AddrSpace /\ SramSize <= SramWindow
  /\ \A n \in {IoSize, SemihostEnd, SramBase, SramSize, FlashBase, FlashSize} : n % 4 = 0
  /\ DOMAIN IoKind \subseteq {a \in IoBase .. SemihostEnd - 1 : a % 2 = 0}

(***************************************************************************)
(* Addresses.                                                              *)
(***************************************************************************)
Decoded(a) == a % AddrSpace

\* normalize_io: three windows show the same registers.
NormalizeIo(a) == IF a < IoBase + 2 * IoSize THEN IoBase + (a % IoSize) ELSE a

\* Mutant: the last window is taken for open bus.
Classify_noMirror(a) ==
  CASE a \in SramBase .. SramBase + SramWindow - 1 -> "SRAM"
    [] a \in FlashBase .. FlashBase + FlashSize - 1 -> "FLASH"
    [] a \in IoBase - IoSize .. IoBase + IoSize - 1 -> "IO"
    [] a < IramSize + IramSize \div 2 -> "IRAM"
    [] OTHER -> "NONE"

Classify(a) ==
  CASE a \in SramBase .. SramBase + SramWindow - 1 -> "SRAM"
    [] a \in FlashBase .. FlashBase + FlashSize - 1 -> "FLASH"
    [] a \in IoBase - IoSize .. SemihostEnd - 1 -> "IO"
    [] a < IramSize + IramSize \div 2 -> "IRAM"
    [] OTHER -> "NONE"

Slot(a) == LET n == NormalizeIo(a) IN n - (n % 2)

(***************************************************************************)
(* Pieces of an access.                                                    *)
(***************************************************************************)
Charge(b, n) == [b EXCEPT !.cycles = @ + n]
ExtRead(b, wait) == (wait + 1) * b.div
ExtWrite(b, wait) == (wait + 2) * b.div

\* f[i] .. f[i + n - 1], little endian.
Little(f, i, n) ==
  IF n = 1 THEN f[i]
  ELSE IF n = 2 THEN f[i] + Byte * f[i + 1]
  ELSE f[i] + Byte * f[i + 1] + Half * (f[i + 2] + Byte * f[i + 3])

Bytes(v, k) == (v \div Byte ^ k) % Byte

Poke(f, i, n, v) ==
  [j \in DOMAIN f |-> IF j \in i .. i + n - 1 THEN Bytes(v, j - i) ELSE f[j]]

\* What a data read of the flash sees; any fixed contents would do.
RomByte(i) == (i * 3 + 1) % Byte
Rom == [i \in 0 .. FlashSize - 1 |-> RomByte(i)]

\* fire_wp: every watchpoint of the right kind that overlaps the access is
\* reported, in the order they were added.
FireWp(b, a, n, kind) ==
  [b EXCEPT !.fired = @ \o
     SelectSeq(b.wps, LAMBDA w : /\ w.type \in {kind, "rw"}
                                 /\ a < w.addr + w.size
                                 /\ a + n > w.addr)]

\* A misaligned halfword or word access is reported and then aligned.
Align(b, a, n) == [a |-> a - (a % n),
                   b |-> IF a % n = 0 THEN b ELSE [b EXCEPT !.fault = TRUE]]

(***************************************************************************)
(* I/O handlers.  A BCU register takes any write as a write of the whole   *)
(* halfword; "bytes" stands for the devices that also register write_byte. *)
(***************************************************************************)
ReadIo(b, a) == IF Slot(a) \in DOMAIN IoKind THEN b.io[Slot(a)] ELSE Half - 1

WriteHandler(b, a, v) ==
  LET s == Slot(a)
      c == [b EXCEPT !.io[s] = v]
  IN CASE s \notin DOMAIN IoKind -> b
       [] IoKind[s] = "absorb" -> b
       [] IoKind[s] = "sram_wait" -> [c EXCEPT !.sramWait = v % 8]
       [] IoKind[s] = "flash_wait" -> [c EXCEPT !.flashWait = v % 8]
       [] IoKind[s] = "ttbr_lo" -> [c EXCEPT !.ttbr = ((@ \div Half) * Half) + v]
       [] IoKind[s] = "ttbr_hi" -> [c EXCEPT !.ttbr = (@ % Half) + (Half * v)]
       [] OTHER -> c

WriteByteHandler(b, a, v) ==
  LET s == Slot(a)
  IN IF s \in DOMAIN IoKind /\ IoKind[s] = "bytes"
     THEN [b EXCEPT !.io[s] = IF a % 2 = 0 THEN @ - (@ % Byte) + v ELSE (@ % Byte) + (Byte * v)]
     ELSE WriteHandler(b, a, v)

(***************************************************************************)
(* Reads.                                                                  *)
(***************************************************************************)
\* SRAM of any width: charged by the halfword, open bus beyond what is
\* installed, watched only where there is memory.
ReadSram(b, a, n) ==
  LET c == Charge(b, ExtRead(b, b.sramWait) * (IF n = 4 THEN 2 ELSE 1))
  IN IF a - SramBase >= SramSize THEN [v |-> Byte ^ n - 1, b |-> c]
     ELSE [v |-> Little(b.sram, a - SramBase, n), b |-> FireWp(c, a, n, "read")]

ReadFlash(b, a, n) ==
  [v |-> Little(Rom, a - FlashBase, n),
   b |-> Charge(b, ExtRead(b, b.flashWait) * (IF n = 4 THEN 2 ELSE 1))]

Read8(b, addr) ==
  LET a == Decoded(addr)
  IN CASE Classify(a) = "IRAM" -> [v |-> b.iram[a % IramSize], b |-> b]
       [] Classify(a) = "SRAM" -> ReadSram(b, a, 1)
       [] Classify(a) = "FLASH" -> ReadFlash(b, a, 1)
       [] Classify(a) = "IO" -> [v |-> Bytes(ReadIo(b, a), a % 2), b |-> b]
       [] OTHER -> [v |-> Byte - 1, b |-> b]

\* read16 decides SRAM and flash before classify() is asked.
Read16(b, addr) ==
  LET x == Align(b, Decoded(addr), 2)
  IN CASE x.a \in SramBase .. SramBase + SramWindow - 1 -> ReadSram(x.b, x.a, 2)
       [] x.a >= FlashBase -> IF x.a < FlashBase + FlashSize THEN ReadFlash(x.b, x.a, 2)
                              ELSE [v |-> Half - 1, b |-> x.b]
       [] Classify(x.a) = "IRAM" -> [v |-> Little(b.iram, x.a % IramSize, 2), b |-> x.b]
       [] Classify(x.a) = "IO" -> [v |-> ReadIo(x.b, x.a), b |-> x.b]
       [] OTHER -> [v |-> Half - 1, b |-> x.b]

Read32(b, addr) ==
  LET x == Align(b, Decoded(addr), 4)
  IN CASE Classify(x.a) = "IRAM" -> [v |-> Little(b.iram, x.a % IramSize, 4), b |-> x.b]
       [] Classify(x.a) = "SRAM" -> ReadSram(x.b, x.a, 4)
       [] Classify(x.a) = "FLASH" -> ReadFlash(x.b, x.a, 4)
       [] Classify(x.a) = "IO" -> LET lo == Read16(x.b, x.a)
                                      hi == Read16(lo.b, x.a + 2)
                                  IN [v |-> lo.v + Half * hi.v, b |-> hi.b]
       [] OTHER -> [v |-> Word - 1, b |-> x.b]

Read(b, a, n) == IF n = 1 THEN Read8(b, a) ELSE IF n = 2 THEN Read16(b, a) ELSE Read32(b, a)

\* Instructions: never reported to a watchpoint, and one cycle at least.
FetchCost(b, addr) ==
  LET a == Decoded(addr)
  IN IF Classify(a) = "FLASH" THEN ExtRead(b, b.flashWait)
     ELSE IF Classify(a) = "SRAM" THEN ExtRead(b, b.sramWait) ELSE 1

(***************************************************************************)
(* Writes.  update_shadow runs only while there is a watchpoint.           *)
(***************************************************************************)
WriteSram(b, a, n, v) ==
  LET c == Charge(b, ExtWrite(b, b.sramWait) * (IF n = 4 THEN 2 ELSE 1))
      o == a - SramBase
      d == IF b.wps = <<>> THEN c
           ELSE [FireWp(c, a, n, "write") EXCEPT
                   !.shadow = [i \in DOMAIN @ |-> IF i \in o .. o + n - 1 THEN b.debugPc ELSE @[i]]]
  IN IF o >= SramSize THEN c ELSE [d EXCEPT !.sram = Poke(@, o, n, v)]

\* FlatFlashRom::write16 does nothing; the access is paid for.
ChargeFlashWrite(b, n) == Charge(b, ExtWrite(b, b.flashWait) * (IF n = 4 THEN 2 ELSE 1))

Write8(b, addr, v) ==
  LET a == Decoded(addr)
  IN CASE Classify(a) = "IRAM" -> [b EXCEPT !.iram[a % IramSize] = v]
       [] Classify(a) = "SRAM" -> WriteSram(b, a, 1, v)
       [] Classify(a) = "FLASH" -> ChargeFlashWrite(b, 1)
       [] Classify(a) = "IO" -> WriteByteHandler(b, NormalizeIo(a), v)
       [] OTHER -> b

Write16(b, addr, v) ==
  LET x == Align(b, Decoded(addr), 2)
  IN CASE Classify(x.a) = "IRAM" -> [x.b EXCEPT !.iram = Poke(@, x.a % IramSize, 2, v)]
       [] Classify(x.a) = "SRAM" -> WriteSram(x.b, x.a, 2, v)
       [] Classify(x.a) = "FLASH" -> ChargeFlashWrite(x.b, 2)
       [] Classify(x.a) = "IO" -> WriteHandler(x.b, x.a, v)
       [] OTHER -> x.b

Write32(b, addr, v) ==
  LET x == Align(b, Decoded(addr), 4)
  IN CASE Classify(x.a) = "IRAM" -> [x.b EXCEPT !.iram = Poke(@, x.a % IramSize, 4, v)]
       [] Classify(x.a) = "SRAM" -> WriteSram(x.b, x.a, 4, v)
       [] Classify(x.a) = "FLASH" -> ChargeFlashWrite(x.b, 4)
       [] Classify(x.a) = "IO" -> Write16(Write16(x.b, x.a, v % Half), x.a + 2, v \div Half)
       [] OTHER -> x.b

Write(b, a, n, v) == IF n = 1 THEN Write8(b, a, v % Byte)
                     ELSE IF n = 2 THEN Write16(b, a, v % Half) ELSE Write32(b, a, v)

\* Bus::Bus, and the BCU registers after a cold reset.
ResetBus(wps) ==
  [iram |-> [i \in 0 .. IramSize - 1 |-> 0], sram |-> [i \in 0 .. SramSize - 1 |-> 0],
   shadow |-> [i \in 0 .. SramSize - 1 |-> Word - 1],
   io |-> [s \in DOMAIN IoKind |->
             IF IoKind[s] \in {"sram_wait", "flash_wait"} THEN 7 ELSE 0],
   sramWait |-> 7, flashWait |-> 7, ttbr |-> 0, div |-> 1,
   cycles |-> 0, fault |-> FALSE, debugPc |-> 0, wps |-> wps, fired |-> <<>>,
   outside |-> 0]
=============================================================================
