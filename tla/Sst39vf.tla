------------------------------ MODULE Sst39vf ------------------------------
(***************************************************************************)
(* The SST39VF NOR flash chip of the P/ECE as emulated by class Sst39vf    *)
(* (src/board/flash_sst39vf.cpp): the memory array, the command state      *)
(* machine driven by halfword bus writes, and the per-sector dirty bitmap  *)
(* the host writeback consumes.                                            *)
(*                                                                         *)
(* A bus write carries a halfword address (hw_addr), already reduced to    *)
(* the array; what a command fills and what it marks are byte offsets, as  *)
(* in write16 and mark_dirty.  The geometry is scaled down through the     *)
(* constants.  A data value is a halfword whose low byte is the command    *)
(* byte, exactly as in write16.                                            *)
(***************************************************************************)
EXTENDS Integers, Sequences

CONSTANTS NumWords,        \* mem_.size() / 2
          WordsPerSector,  \* SECTOR_SIZE / 2
          WordsPerBlock,   \* BLOCK_SIZE / 2
          CMD_ADDR_1,      \* 0x5555 on the real part
          CMD_ADDR_2,      \* 0x2AAA on the real part
          BusWrites,       \* the <<hw_addr, data>> pairs the CPU may issue
          MaxAlterations   \* bound: no more writes once so many altered the array

ASSUME GeometryAssumption ==
  /\ WordsPerSector \in Nat \ {0}
  /\ WordsPerBlock \in Nat \ {0}
  /\ WordsPerBlock % WordsPerSector = 0
  /\ NumWords \in Nat \ {0}
  /\ NumWords % WordsPerBlock = 0
  /\ CMD_ADDR_1 \in 0 .. NumWords - 1
  /\ CMD_ADDR_2 \in 0 .. NumWords - 1
  /\ CMD_ADDR_1 # CMD_ADDR_2
  /\ MaxAlterations \in Nat

VARIABLES state,   \* state_
          mem,     \* mem_, one halfword per address
          dirty,   \* dirty_, as the set of dirty sectors
          saved,   \* history: the array as it was at the last clear_dirty
          log,     \* history: the last five bus writes, no further back than F0;
                   \* log[n] is the one n writes ago
          altered  \* history: how many writes altered the array

vars == <<state, mem, dirty, saved, log, altered>>

Words == 0 .. NumWords - 1
Halfwords == 0 .. 65535

ASSUME BusWritesAssumption == BusWrites \subseteq Words \X Halfwords

SECTOR_SIZE == 2 * WordsPerSector   \* bytes
BLOCK_SIZE == 2 * WordsPerBlock     \* bytes
Sectors == 0 .. NumWords \div WordsPerSector - 1

Erased == 65535                     \* 0xFFFF
Command(d) == d % 256               \* static_cast<uint8_t>(data)

\* The command bytes of the part.
UNLOCK_1 == 170                     \* 0xAA
UNLOCK_2 == 85                      \* 0x55
ERASE_SETUP == 128                  \* 0x80
ID_ENTRY == 144                     \* 0x90
CFI_ENTRY == 152                    \* 0x98
PROGRAM == 160                      \* 0xA0
EXIT == 240                         \* 0xF0
CHIP_ERASE == 16                    \* 0x10
SECTOR_ERASE == 48                  \* 0x30
BLOCK_ERASE == 80                   \* 0x50

States == {"Normal", "Enter1", "Enter2", "Enter3", "Enter4", "Enter5",
           "SoftwareId", "CfiQuery", "WordProgram"}

-----------------------------------------------------------------------------
(* write16, as three questions about the write of d at a in state st:      *)
(* which state follows, which words are altered, and what they become.     *)

\* Mutant: F0 not recognised in the ID and CFI modes.
IsShortExit_notInQuery(st, d) ==
  st \notin {"WordProgram", "SoftwareId", "CfiQuery"} /\ Command(d) = EXIT

IsShortExit(st, d) == st # "WordProgram" /\ Command(d) = EXIT

\* The third unlock cycle selects the operation.
SelectedBy(c) ==
  CASE c = ERASE_SETUP -> "Enter3"
    [] c = ID_ENTRY    -> "SoftwareId"
    [] c = CFI_ENTRY   -> "CfiQuery"
    [] c = PROGRAM     -> "WordProgram"
    [] OTHER           -> "Normal"

NextState(st, a, d) ==
  LET c == Command(d)
      Expect(addr, byte, next) ==
        IF a = addr /\ c = byte THEN next ELSE "Normal"
  IN IF IsShortExit(st, d) THEN "Normal"
     ELSE CASE st = "Normal" -> Expect(CMD_ADDR_1, UNLOCK_1, "Enter1")
            [] st = "Enter1" -> Expect(CMD_ADDR_2, UNLOCK_2, "Enter2")
            [] st = "Enter2" -> Expect(CMD_ADDR_1, c, SelectedBy(c))
            [] st = "Enter3" -> Expect(CMD_ADDR_1, UNLOCK_1, "Enter4")
            [] st = "Enter4" -> Expect(CMD_ADDR_2, UNLOCK_2, "Enter5")
            [] st \in {"SoftwareId", "CfiQuery"} -> st
            [] st \in {"Enter5", "WordProgram"} -> "Normal"

\* offset & ~(size - 1)
Base(offset, size) == offset - (offset % size)

\* The words among the bytes std::fill clears.
Filled(first, bytes) == {w \in Words : first <= 2 * w /\ 2 * w < first + bytes}

\* The words an erase command issued at a clears.
ErasedBy(a, c) ==
  CASE c = CHIP_ERASE   -> IF a = CMD_ADDR_1 THEN Words ELSE {}
    [] c = SECTOR_ERASE -> Filled(Base(2 * a, SECTOR_SIZE), SECTOR_SIZE)
    [] c = BLOCK_ERASE  -> Filled(Base(2 * a, BLOCK_SIZE), BLOCK_SIZE)
    [] OTHER            -> {}

\* Mutant: the erase command accepted one unlock cycle early.
Altered_early(st, a, d) ==
  CASE st = "WordProgram"        -> {a}
    [] st \in {"Enter4", "Enter5"} -> ErasedBy(a, Command(d))
    [] OTHER                     -> {}

Altered(st, a, d) ==
  CASE st = "WordProgram" -> {a}
    [] st = "Enter5"      -> ErasedBy(a, Command(d))
    [] OTHER              -> {}

NewMem(st, a, d) ==
  LET span == Altered(st, a, d)
      value == IF st = "WordProgram" THEN d ELSE Erased
  IN IF span = {} THEN mem ELSE [w \in Words |-> IF w \in span THEN value ELSE mem[w]]

\* Mutant: only the sector the span starts in.
mark_dirty_start(byte_offset, span_bytes) ==
  {s \in Sectors : s = byte_offset \div SECTOR_SIZE}

\* The sectors from that of the first byte to that of the last, as far as
\* the bitmap goes.
mark_dirty(byte_offset, span_bytes) ==
  LET last_byte == byte_offset + span_bytes - 1
  IN {s \in Sectors : byte_offset \div SECTOR_SIZE <= s /\ s <= last_byte \div SECTOR_SIZE}

\* What each command tells mark_dirty; a chip erase fills the bitmap itself.
Touched(st, a, d) ==
  LET c == Command(d)
  IN CASE st = "WordProgram" -> mark_dirty(2 * a, 2)
       [] st = "Enter5" /\ c = CHIP_ERASE /\ a = CMD_ADDR_1 -> Sectors
       [] st = "Enter5" /\ c = SECTOR_ERASE -> mark_dirty(Base(2 * a, SECTOR_SIZE), SECTOR_SIZE)
       [] st = "Enter5" /\ c = BLOCK_ERASE -> mark_dirty(Base(2 * a, BLOCK_SIZE), BLOCK_SIZE)
       [] OTHER -> {}

-----------------------------------------------------------------------------
\* read16: the array, or a table of the part in the two query modes.
Read(w) == IF state \in {"SoftwareId", "CfiQuery"} THEN <<state, w>> ELSE <<"array", mem[w]>>

NoWrite == <<-1, 0>>
NoLog == [n \in 0 .. 4 |-> NoWrite]

Remember(entry) ==
  log' = [n \in 0 .. 4 |-> IF n = 0 THEN entry
                            ELSE IF Command(entry[2]) = EXIT THEN NoWrite ELSE log[n - 1]]

Write(a, d) ==
  /\ altered < MaxAlterations
  /\ altered' = IF Altered(state, a, d) # {} THEN altered + 1 ELSE altered
  /\ state' = NextState(state, a, d)
  /\ mem' = NewMem(state, a, d)
  /\ dirty' = dirty \cup Touched(state, a, d)
  /\ Remember(<<a, d>>)
  /\ UNCHANGED saved

\* clear_dirty, called by the writeback once the sectors are on the host.
ClearDirty ==
  /\ dirty' = {}
  /\ saved' = mem
  /\ UNCHANGED <<state, mem, log, altered>>

\* reset(): back to read mode; the array and the bitmap are kept.
Reset ==
  /\ state' = "Normal"
  /\ log' = NoLog
  /\ UNCHANGED <<mem, dirty, saved, altered>>

\* load_image has brought the PFI image into the array: 0 stands for its data.
Init ==
  /\ state = "Normal"
  /\ mem = [w \in Words |-> 0]
  /\ dirty = {}
  /\ saved = mem
  /\ log = NoLog
  /\ altered = 0

Next ==
  \/ \E bw \in BusWrites : Write(bw[1], bw[2])
  \/ ClearDirty
  \/ Reset

Spec == Init /\ [][Next]_vars

-----------------------------------------------------------------------------
(* Properties.                                                             *)

TypeOK ==
  /\ state \in States
  /\ mem \in [Words -> Halfwords]
  /\ dirty \subseteq Sectors
  /\ saved \in [Words -> Halfwords]
  /\ altered \in Nat /\ altered <= MaxAlterations
  /\ log \in [0 .. 4 -> BusWrites \cup {NoWrite}]

\* The writes of log whose addresses and command bytes spell an unlock.
Is(entry, addr, byte) == entry[1] = addr /\ Command(entry[2]) = byte

\* These cycles came last before the last n writes.
EndsWith(cycles, n) ==
  \A i \in DOMAIN cycles : Is(log[n + Len(cycles) - i], cycles[i][1], cycles[i][2])

ProgramUnlock == << <<CMD_ADDR_1, UNLOCK_1>>, <<CMD_ADDR_2, UNLOCK_2>>,
                    <<CMD_ADDR_1, PROGRAM>> >>
EraseUnlock == << <<CMD_ADDR_1, UNLOCK_1>>, <<CMD_ADDR_2, UNLOCK_2>>,
                  <<CMD_ADDR_1, ERASE_SETUP>>, <<CMD_ADDR_1, UNLOCK_1>>,
                  <<CMD_ADDR_2, UNLOCK_2>> >>

\* write16 never alters the array unless the bus writes just before it were
\* the complete unlock sequence of the datasheet: three cycles, after which
\* exactly the addressed word takes the data, or five cycles, after which
\* altered words are erased.  A stale prefix, a repeated cycle or an ID/CFI
\* mode in between never leaves the machine half unlocked.
OnlyUnlockedWritesAlter ==
  [][mem' # mem =>
       LET last == log'[0]
       IN \/ /\ EndsWith(ProgramUnlock, 0)
             /\ mem' = [mem EXCEPT ![last[1]] = last[2]]
          \/ /\ EndsWith(EraseUnlock, 0)
             /\ \A w \in Words : mem'[w] # mem[w] => mem'[w] = Erased]_vars

\* The P/ECE kernel writes F0 before each word program.  Whatever state an
\* earlier, abandoned sequence left the machine in, F0 followed by the three
\* unlock cycles programs the word, and a read finds it there: write16
\* recognises F0 everywhere except in WordProgram, which also falls back to
\* Normal.
ProgramAfterExitTakesEffect ==
  (Command(log[4][2]) = EXIT /\ EndsWith(ProgramUnlock, 1)) =>
    Read(log[0][1]) = <<"array", log[0][2]>>

\* The words flush_dirty_sectors copies for sector s: SECTOR_SIZE bytes from
\* s * SECTOR_SIZE.
Copied(s) == {w \in Words : s * SECTOR_SIZE <= 2 * w /\ 2 * w < (s + 1) * SECTOR_SIZE}

\* Whatever commands came since the last clear_dirty: a word that is not
\* what it was then is among the words of a dirty sector, so a flush that
\* copies the dirty sectors copies every alteration.  It needs the span
\* mark_dirty is told by each command to reach every byte the command wrote.
AlteredSectorsAreDirty ==
  \A w \in Words : mem[w] # saved[w] => \E s \in dirty : w \in Copied(s)
=============================================================================
