------------------------------ MODULE Loaders -------------------------------
(***************************************************************************)
(* How a program gets into memory: ELF segments (src/debug/elf_loader.cpp) *)
(* and the PFI flash image, from a file in chunks (src/debug/pfi_loader.cpp*)
(* as src/main.cpp and src/headless_system_main.cpp use it) or from a blob *)
(* (src/debug/pfi_loader_blob.cpp, the libretro core).                     *)
(*                                                                         *)
(* Memory is a function from addresses to values; one address stands for a *)
(* flash sector or an SRAM word.  A value is a tuple: data, or an          *)
(* instruction of module Guest.                                            *)
(***************************************************************************)
EXTENDS Integers, FiniteSets, SequencesExt

CONSTANTS IRAM_SIZE, SRAM_BASE, SRAM_SIZE, FLASH_BASE,
          Parts,   \* sizes of the flash parts, smallest first
          HEADER,  \* sizeof(PFIHEADER)
          CHUNK    \* what pfi_load reads at a time

ASSUME LoadersAssumption ==
  /\ IRAM_SIZE \in Nat \ {0}
  /\ SRAM_BASE \in Nat /\ SRAM_BASE >= IRAM_SIZE /\ SRAM_SIZE \in Nat \ {0}
  /\ FLASH_BASE \in Nat /\ FLASH_BASE >= SRAM_BASE + SRAM_SIZE
  /\ Parts \in Seq(Nat \ {0}) /\ Parts # << >>
  /\ HEADER \in Nat \ {0} /\ CHUNK \in Nat \ {0}

Data(n) == <<"data", n>>
ERASED == Data(255)
Iram == 0 .. IRAM_SIZE - 1
Sram == SRAM_BASE .. SRAM_BASE + SRAM_SIZE - 1
Flash(size) == FLASH_BASE .. FLASH_BASE + size - 1

\* A memory with nothing loaded.
Blank(flashSize) ==
  [a \in Iram \cup Sram \cup Flash(flashSize) |-> IF a >= FLASH_BASE THEN ERASED ELSE Data(0)]

\* A value of the memory and whether the load went through.
Loaded(mem) == [ok |-> TRUE, mem |-> mem]
Failed(mem) == [ok |-> FALSE, mem |-> mem]

Covers(base, n, a) == base <= a /\ a < base + n

-----------------------------------------------------------------------------
(* ELF: [valid, entry, segments, body]; a segment is [load, offset, paddr, *)
(* filesz, memsz], its file bytes body[offset + 1] and on.                 *)

\* The region the segment starts in must hold its file bytes to the end.
RegionOf(paddr, flashSize) ==
  IF paddr \in Flash(flashSize) THEN Flash(flashSize)
  ELSE IF paddr \in Sram THEN Sram
  ELSE IF paddr \in Iram THEN Iram ELSE {}

CopySegment(mem, elf, seg) ==
  [a \in DOMAIN mem |-> IF Covers(seg.paddr, seg.filesz, a)
                        THEN elf.body[seg.offset + 1 + a - seg.paddr] ELSE mem[a]]

\* Mutant: the whole of memsz is cleared.
ZeroFill_all(mem, seg) ==
  [a \in DOMAIN mem |-> IF Covers(seg.paddr, seg.memsz, a) /\ a < FLASH_BASE
                        THEN Data(0) ELSE mem[a]]

\* .bss through Bus::write8, which the ROM of a bare-metal run ignores.
ZeroFill(mem, seg) ==
  [a \in DOMAIN mem |-> IF Covers(seg.paddr + seg.filesz, seg.memsz - seg.filesz, a) /\ a < FLASH_BASE
                        THEN Data(0) ELSE mem[a]]

\* One turn of the loop over the program headers.
LoadSegment(mem, elf, flashSize, seg) ==
  LET region == RegionOf(seg.paddr, flashSize) IN
  IF ~seg.load \/ (seg.filesz = 0 /\ seg.memsz = 0) THEN Loaded(mem)
  ELSE IF seg.offset + seg.filesz > Len(elf.body) THEN Failed(mem)
  ELSE IF region = {} THEN Loaded(mem)                         \* warned about, skipped
  ELSE IF \E a \in seg.paddr .. seg.paddr + seg.filesz - 1 : a \notin region THEN Failed(mem)
  ELSE Loaded(ZeroFill(CopySegment(mem, elf, seg), seg))

\* What the memory must hold at a behind the first n segments: the last of
\* them that gives a something gave it its file byte or, outside the ROM, a zero.
Gives(elf, flashSize, i, a) ==
  LET s == elf.segments[i]
      size == IF a < FLASH_BASE /\ s.memsz > s.filesz THEN s.memsz ELSE s.filesz
  IN s.load /\ RegionOf(s.paddr, flashSize) # {} /\ Covers(s.paddr, size, a)

\* That segment, if there is one.
LastOver(elf, flashSize, n, a) ==
  {i \in 1 .. n : Gives(elf, flashSize, i, a) /\ \A j \in i + 1 .. n : ~Gives(elf, flashSize, j, a)}

ByteOf(elf, i, a) ==
  LET s == elf.segments[i]
  IN IF a < s.paddr + s.filesz THEN elf.body[s.offset + 1 + a - s.paddr] ELSE Data(0)

ElfByte(elf, flashSize, n, a) ==
  LET last == LastOver(elf, flashSize, n, a)
  IN IF last = {} THEN Blank(flashSize)[a] ELSE ByteOf(elf, CHOOSE i \in last : TRUE, a)

-----------------------------------------------------------------------------
(* PFI: [sig, offset, syssize, flash_size, bytes], the bytes with the      *)
(* header; flash_size is pffs_end - FLASH_BASE.                            *)

read_pfi_header(pfi) ==
  Len(pfi.bytes) >= HEADER /\ pfi.sig /\ pfi.offset >= HEADER /\ pfi.syssize = 32

\* The front ends size the flash by the header and take a part that holds it;
\* without a size in the header they use the smallest.
FlashSize(pfi) == IF pfi.flash_size > 0 THEN pfi.flash_size ELSE Parts[1]
for_min_bytes(n) == IF n <= Parts[1] THEN Parts[1] ELSE Parts[Len(Parts)]

\* Sst39vf::load_image, behind Bus::load_flash
Fits(mem, offset, n) == \A i \in offset .. offset + n - 1 : FLASH_BASE + i \in DOMAIN mem
load_image(mem, offset, bytes, from, n) ==
  [a \in DOMAIN mem |-> IF Covers(FLASH_BASE + offset, n, a)
                        THEN bytes[from + 1 + a - FLASH_BASE - offset] ELSE mem[a]]

AtMost(x, y) == IF x < y THEN x ELSE y
Available(pfi) == IF pfi.offset > Len(pfi.bytes) THEN 0 ELSE Len(pfi.bytes) - pfi.offset

\* One turn of pfi_load's loop, total bytes already loaded: what fread returns.
\* Mutant: every chunk is a whole one.
ChunkLength_whole(pfi, total) == IF Available(pfi) > total THEN CHUNK ELSE 0
ChunkLength(pfi, total) ==
  AtMost(AtMost(CHUNK, pfi.flash_size - total), Available(pfi) - total)

pfi_load_blob(mem, pfi) ==
  LET n == AtMost(pfi.flash_size, Available(pfi)) IN
  IF ~read_pfi_header(pfi) \/ pfi.flash_size <= 0 \/ n = 0 \/ ~Fits(mem, 0, n) THEN Failed(mem)
  ELSE Loaded(load_image(mem, 0, pfi.bytes, pfi.offset, n))

\* The flash starts with the image, as much of it as the file has and the
\* header asks for, and is erased behind it.
PfiByte(pfi, a) ==
  LET i == a - FLASH_BASE IN
  IF a < FLASH_BASE THEN Data(0)
  ELSE IF i < pfi.flash_size /\ pfi.offset + i < Len(pfi.bytes) THEN pfi.bytes[pfi.offset + i + 1]
  ELSE ERASED
=============================================================================
