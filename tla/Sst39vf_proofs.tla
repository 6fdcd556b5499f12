--------------------------- MODULE Sst39vf_proofs ---------------------------
(***************************************************************************)
(* For any geometry, any array and any bus writes: the array changes only  *)
(* at the end of a complete unlock sequence, a change is in a marked       *)
(* sector until clear_dirty, and a program after F0 can be read back.      *)
(***************************************************************************)
EXTENDS Sst39vf, TLAPS

\* One cycle of a sequence, n writes ago.
Cycle1(n) == Is(log[n], CMD_ADDR_1, UNLOCK_1)
Cycle2(n) == Is(log[n], CMD_ADDR_2, UNLOCK_2)
Setup(n) == Is(log[n], CMD_ADDR_1, ERASE_SETUP)
Select(n) == Is(log[n], CMD_ADDR_1, PROGRAM)
Exit(n) == Command(log[n][2]) = EXIT

\* The command state says what the last writes were.
StateIsEarned ==
  /\ state = "Enter1" => Cycle1(0)
  /\ state = "Enter2" => Cycle1(1) /\ Cycle2(0)
  /\ state = "Enter3" => Cycle1(2) /\ Cycle2(1) /\ Setup(0)
  /\ state = "Enter4" => Cycle1(3) /\ Cycle2(2) /\ Setup(1) /\ Cycle1(0)
  /\ state = "Enter5" => Cycle1(4) /\ Cycle2(3) /\ Setup(2) /\ Cycle1(1) /\ Cycle2(0)
  /\ state = "WordProgram" => Cycle1(2) /\ Cycle2(1) /\ Select(0)

\* And after an F0 each unlock cycle that follows is taken.
ExitIsTaken ==
  /\ Exit(0) => state = "Normal"
  /\ Exit(1) /\ Cycle1(0) => state = "Enter1"
  /\ Exit(2) /\ Cycle1(1) /\ Cycle2(0) => state = "Enter2"
  /\ Exit(3) /\ Cycle1(2) /\ Cycle2(1) /\ Select(0) => state = "WordProgram"
  /\ Exit(4) /\ Cycle1(3) /\ Cycle2(2) /\ Select(1) =>
       state = "Normal" /\ mem[log[0][1]] = log[0][2]

IndInv == TypeOK /\ StateIsEarned /\ ExitIsTaken /\ AlteredSectorsAreDirty

-----------------------------------------------------------------------------
(* The operators.                                                          *)

LEMMA NoWriteIsNoExit == Command(NoWrite[2]) # EXIT
BY DEF Command, NoWrite, EXIT

LEMMA NextStateType ==
  ASSUME NEW st \in States, NEW a, NEW d
  PROVE  NextState(st, a, d) \in States
BY DEF NextState, SelectedBy, States

LEMMA AlteredType ==
  ASSUME NEW st, NEW a \in Words, NEW d
  PROVE  Altered(st, a, d) \subseteq Words
BY DEF Altered, ErasedBy, Filled

\* The bytes of sector q hold b when q is b's quotient.
LEMMA Quotient ==
  ASSUME NEW b \in Nat, NEW k \in Nat \ {0}
  PROVE  /\ b \div k \in Nat
         /\ (b \div k) * k <= b
         /\ b < (b \div k + 1) * k
<1>1. b = k * (b \div k) + (b % k) /\ (b % k) \in 0 .. k - 1 /\ b \div k \in Int
  OBVIOUS
<1> QED
  BY <1>1

LEMMA QuotientMonotone ==
  ASSUME NEW b \in Nat, NEW c \in Nat, b <= c, NEW k \in Nat \ {0}
  PROVE  b \div k <= c \div k
<1> DEFINE p == b \div k
           q == c \div k
<1>1. p \in Nat /\ q \in Nat /\ p * k <= b /\ c < (q + 1) * k
  BY Quotient
<1>2. p * k < (q + 1) * k
  BY <1>1
<1> HIDE DEF p, q
<1>3. ASSUME q + 1 <= p PROVE FALSE
  <2>1. PICK n \in Nat : p = (q + 1) + n
    BY <1>1, <1>3
  <2>2. p * k = (q + 1) * k + n * k /\ n * k >= 0
    BY <1>1, <2>1
  <2> QED
    BY <1>1, <1>2, <2>2
<1>4. p <= q
  BY <1>1, <1>3
<1> QED
  BY <1>4 DEF p, q

LEMMA Exact ==
  ASSUME NEW b \in Nat, NEW k \in Nat \ {0}, b % k = 0
  PROVE  b \div k \in Nat /\ b = k * (b \div k)
<1>1. b = k * (b \div k) + (b % k)
  OBVIOUS
<1>2. b \div k \in Nat
  BY Quotient
<1> QED
  BY <1>1, <1>2

LEMMA LessByFactor ==
  ASSUME NEW m \in Nat, NEW n \in Nat, NEW k \in Nat \ {0}, m * k < n * k
  PROVE  m < n
<1>1. ASSUME n <= m PROVE FALSE
  <2>1. PICK i \in Nat : m = n + i
    BY <1>1
  <2>2. m * k = n * k + i * k /\ i * k >= 0
    BY <2>1
  <2> QED
    BY <2>2
<1> QED
  BY <1>1

LEMMA ExactQuotient ==
  ASSUME NEW k \in Nat \ {0}, NEW n \in Nat
  PROVE  (k * n) \div k = n
<1> DEFINE q == (k * n) \div k
<1>1. k * n \in Nat
  OBVIOUS
<1>2. q \in Nat /\ q * k <= k * n /\ k * n < (q + 1) * k
  BY <1>1, Quotient
<1> HIDE DEF q
<1>3. n < q + 1
  <2>1. n * k < (q + 1) * k
    BY <1>2
  <2> QED
    BY <1>2, <2>1, LessByFactor
<1>4. q < n + 1
  <2>1. q * k < (n + 1) * k
    BY <1>2
  <2> QED
    BY <1>2, <2>1, LessByFactor
<1>5. q = n
  BY <1>2, <1>3, <1>4
<1> QED
  BY <1>5 DEF q

\* The array is a whole number of sectors.
LEMMA SectorsFit ==
  /\ NumWords \div WordsPerSector \in Nat
  /\ NumWords = WordsPerSector * (NumWords \div WordsPerSector)
<1> DEFINE blocks == NumWords \div WordsPerBlock
           each == WordsPerBlock \div WordsPerSector
<1>1. NumWords = WordsPerBlock * blocks /\ blocks \in Nat
  BY GeometryAssumption, Exact
<1>2. WordsPerBlock = WordsPerSector * each /\ each \in Nat
  BY GeometryAssumption, Exact
<1> HIDE DEF blocks, each
<1>3. NumWords = WordsPerSector * (each * blocks) /\ each * blocks \in Nat
  BY <1>1, <1>2, GeometryAssumption
<1>4. NumWords \div WordsPerSector = each * blocks
  BY <1>3, GeometryAssumption, ExactQuotient
<1> QED
  BY <1>3, <1>4

LEMMA BaseType ==
  ASSUME NEW offset \in Nat, NEW size \in Nat \ {0}
  PROVE  Base(offset, size) \in Nat
<1>1. (offset % size) \in Nat /\ (offset % size) <= offset
  <2>1. offset = size * (offset \div size) + (offset % size) /\ (offset % size) \in 0 .. size - 1
    OBVIOUS
  <2>2. offset \div size \in Nat /\ size * (offset \div size) >= 0
    BY Quotient
  <2> QED
    BY <2>1, <2>2
<1> QED
  BY <1>1 DEF Base

\* mark_dirty reaches the sector of every word in its span.
LEMMA MarkReaches ==
  ASSUME NEW first \in Nat, NEW bytes \in Nat, NEW w \in Filled(first, bytes)
  PROVE  \E s \in mark_dirty(first, bytes) : w \in Copied(s)
<1> DEFINE s == (2 * w) \div SECTOR_SIZE
<1>1. /\ w \in Words /\ w \in Nat /\ w <= NumWords - 1
      /\ first <= 2 * w /\ 2 * w <= first + bytes - 1
  BY GeometryAssumption DEF Filled, Words
<1>2. SECTOR_SIZE \in Nat \ {0}
  BY GeometryAssumption DEF SECTOR_SIZE
<1>3. s \in Nat /\ s * SECTOR_SIZE <= 2 * w /\ 2 * w < (s + 1) * SECTOR_SIZE
  BY <1>1, <1>2, Quotient
<1>4. s \in Sectors
  <2> DEFINE n == NumWords \div WordsPerSector
  <2>1. NumWords = WordsPerSector * n /\ n \in Nat
    BY GeometryAssumption, SectorsFit
  <2>2. s * SECTOR_SIZE < n * SECTOR_SIZE
    BY <1>1, <1>3, <2>1, GeometryAssumption DEF SECTOR_SIZE
  <2> HIDE DEF s, n
  <2>3. s < n
    BY <1>2, <1>3, <2>1, <2>2, LessByFactor
  <2> QED
    BY <1>3, <2>1, <2>3 DEF Sectors, n
<1>5. first \div SECTOR_SIZE <= s /\ s <= (first + bytes - 1) \div SECTOR_SIZE
  BY <1>1, <1>2, QuotientMonotone
<1> QED
  BY <1>1, <1>3, <1>4, <1>5 DEF mark_dirty, Copied

\* What a write alters, it marks.
LEMMA AlteredIsTouched ==
  ASSUME NEW st, NEW a \in Words, NEW d, NEW w \in Altered(st, a, d)
  PROVE  \E s \in Touched(st, a, d) : w \in Copied(s)
<1>1. a \in Nat /\ SECTOR_SIZE \in Nat \ {0} /\ BLOCK_SIZE \in Nat \ {0}
  BY GeometryAssumption DEF Words, SECTOR_SIZE, BLOCK_SIZE
<1>2. \A size \in Nat \ {0} : Base(2 * a, size) \in Nat
  BY <1>1, BaseType
<1>3. CASE st = "WordProgram"
  <2>1. w \in Filled(2 * a, 2)
    BY <1>1, <1>3 DEF Altered, Filled
  <2> QED
    BY <1>1, <1>3, <2>1, MarkReaches DEF Touched
<1>4. CASE st = "Enter5" /\ Command(d) = CHIP_ERASE
  <2>1. a = CMD_ADDR_1 /\ w \in Words
    BY <1>4 DEF Altered, ErasedBy, CHIP_ERASE, SECTOR_ERASE, BLOCK_ERASE
  <2>2. w \in Filled(0, 2 * NumWords)
    BY <2>1, GeometryAssumption DEF Filled, Words
  <2>3. \E s \in Sectors : w \in Copied(s)
    BY <2>2, GeometryAssumption, MarkReaches DEF mark_dirty
  <2> QED
    BY <1>4, <2>1, <2>3 DEF Touched, CHIP_ERASE, SECTOR_ERASE, BLOCK_ERASE
<1>5. CASE st = "Enter5" /\ Command(d) = SECTOR_ERASE
  <2>1. w \in Filled(Base(2 * a, SECTOR_SIZE), SECTOR_SIZE)
    BY <1>5 DEF Altered, ErasedBy, CHIP_ERASE, SECTOR_ERASE, BLOCK_ERASE
  <2> QED
    BY <1>1, <1>2, <1>5, <2>1, MarkReaches DEF Touched, CHIP_ERASE, SECTOR_ERASE, BLOCK_ERASE
<1>6. CASE st = "Enter5" /\ Command(d) = BLOCK_ERASE
  <2>1. w \in Filled(Base(2 * a, BLOCK_SIZE), BLOCK_SIZE)
    BY <1>6 DEF Altered, ErasedBy, CHIP_ERASE, SECTOR_ERASE, BLOCK_ERASE
  <2> QED
    BY <1>1, <1>2, <1>6, <2>1, MarkReaches DEF Touched, CHIP_ERASE, SECTOR_ERASE, BLOCK_ERASE
<1> QED
  BY <1>3, <1>4, <1>5, <1>6 DEF Altered, ErasedBy

\* The two sequences, spelled out.
LEMMA Spelled ==
  ASSUME NEW n \in {0, 1}
  PROVE  /\ EndsWith(ProgramUnlock, n) <=> Cycle1(n + 2) /\ Cycle2(n + 1) /\ Select(n)
         /\ EndsWith(EraseUnlock, 0) <=> Cycle1(4) /\ Cycle2(3) /\ Setup(2) /\ Cycle1(1) /\ Cycle2(0)
<1>1. /\ DOMAIN ProgramUnlock = {1, 2, 3} /\ Len(ProgramUnlock) = 3
      /\ ProgramUnlock[1] = <<CMD_ADDR_1, UNLOCK_1>> /\ ProgramUnlock[2] = <<CMD_ADDR_2, UNLOCK_2>>
      /\ ProgramUnlock[3] = <<CMD_ADDR_1, PROGRAM>>
  BY DEF ProgramUnlock
<1>2. /\ DOMAIN EraseUnlock = {1, 2, 3, 4, 5} /\ Len(EraseUnlock) = 5
      /\ EraseUnlock[1] = <<CMD_ADDR_1, UNLOCK_1>> /\ EraseUnlock[2] = <<CMD_ADDR_2, UNLOCK_2>>
      /\ EraseUnlock[3] = <<CMD_ADDR_1, ERASE_SETUP>> /\ EraseUnlock[4] = <<CMD_ADDR_1, UNLOCK_1>>
      /\ EraseUnlock[5] = <<CMD_ADDR_2, UNLOCK_2>>
  BY DEF EraseUnlock
<1>3. EndsWith(ProgramUnlock, n) <=> Cycle1(n + 2) /\ Cycle2(n + 1) /\ Select(n)
  BY <1>1 DEF EndsWith, Cycle1, Cycle2, Select
<1>4. EndsWith(EraseUnlock, 0) <=> Cycle1(4) /\ Cycle2(3) /\ Setup(2) /\ Cycle1(1) /\ Cycle2(0)
  BY <1>2 DEF EndsWith, Cycle1, Cycle2, Setup
<1> QED
  BY <1>3, <1>4

-----------------------------------------------------------------------------
(* The invariant.                                                          *)

LEMMA InitInv == Init => IndInv
<1> SUFFICES ASSUME Init PROVE IndInv
  OBVIOUS
<1>1. TypeOK
  <2>1. log \in [0 .. 4 -> BusWrites \cup {NoWrite}]
    BY DEF Init, NoLog
  <2>2. mem \in [Words -> Halfwords]
    BY DEF Init, Halfwords
  <2>3. altered \in Nat /\ altered <= MaxAlterations
    BY GeometryAssumption DEF Init
  <2>4. saved \in [Words -> Halfwords]
    BY <2>2 DEF Init
  <2> QED
    BY <2>1, <2>2, <2>3, <2>4 DEF Init, TypeOK, States
<1>2. StateIsEarned
  BY DEF Init, StateIsEarned
<1>3. \A n \in 0 .. 4 : ~Exit(n)
  BY NoWriteIsNoExit DEF Init, NoLog, Exit
<1>4. AlteredSectorsAreDirty
  BY DEF Init, AlteredSectorsAreDirty
<1> QED
  BY <1>1, <1>2, <1>3, <1>4 DEF IndInv, ExitIsTaken

LEMMA WriteType ==
  ASSUME TypeOK, NEW a \in Words, NEW d \in Halfwords, <<a, d>> \in BusWrites, Write(a, d)
  PROVE  TypeOK'
<1>1. state' \in States
  BY NextStateType DEF Write, TypeOK
<1>2. mem' \in [Words -> Halfwords]
  <2> DEFINE value == IF state = "WordProgram" THEN d ELSE Erased
  <2>1. value \in Halfwords
    <3>1. Erased \in Halfwords
      BY DEF Halfwords, Erased
    <3> QED
      BY <3>1
  <2> HIDE DEF value
  <2>2. mem' = mem \/ mem' = [w \in Words |-> IF w \in Altered(state, a, d) THEN value ELSE mem[w]]
    BY DEF Write, NewMem, value
  <2> QED
    BY <2>1, <2>2 DEF TypeOK
<1>3. dirty' \subseteq Sectors
  BY DEF Write, Touched, mark_dirty, TypeOK
<1>4. altered' \in Nat /\ altered' <= MaxAlterations
  BY GeometryAssumption DEF Write, TypeOK
<1>5. log' \in [0 .. 4 -> BusWrites \cup {NoWrite}]
  <2>1. \A n \in 1 .. 4 : log[n - 1] \in BusWrites \cup {NoWrite}
    BY DEF TypeOK
  <2> QED
    BY <2>1 DEF Write, Remember
<1>6. saved' \in [Words -> Halfwords]
  BY DEF Write, TypeOK
<1> QED
  BY <1>1, <1>2, <1>3, <1>4, <1>5, <1>6 DEF TypeOK

\* What the log says after a write: what it said before, one further back.
LEMMA LogShifts ==
  ASSUME NEW a, NEW d, Write(a, d)
  PROVE  /\ Cycle1(0)' <=> a = CMD_ADDR_1 /\ Command(d) = UNLOCK_1
         /\ Cycle2(0)' <=> a = CMD_ADDR_2 /\ Command(d) = UNLOCK_2
         /\ Setup(0)' <=> a = CMD_ADDR_1 /\ Command(d) = ERASE_SETUP
         /\ Select(0)' <=> a = CMD_ADDR_1 /\ Command(d) = PROGRAM
         /\ Exit(0)' <=> Command(d) = EXIT
         /\ log'[0] = <<a, d>>
         /\ Command(d) # EXIT => \A n \in 1 .. 4 :
              /\ Cycle1(n)' <=> Cycle1(n - 1)
              /\ Cycle2(n)' <=> Cycle2(n - 1)
              /\ Setup(n)' <=> Setup(n - 1)
              /\ Select(n)' <=> Select(n - 1)
              /\ Exit(n)' <=> Exit(n - 1)
         /\ Command(d) = EXIT => \A n \in 1 .. 4 : ~Exit(n)'
<1>1. log'[0] = <<a, d>>
  BY DEF Write, Remember
<1>2. Command(d) # EXIT => \A n \in 1 .. 4 : log'[n] = log[n - 1]
  BY DEF Write, Remember
<1>3. Command(d) = EXIT => \A n \in 1 .. 4 : log'[n] = NoWrite
  BY DEF Write, Remember
<1>4. Command(d) = EXIT => \A n \in 1 .. 4 : ~Exit(n)'
  BY <1>3, NoWriteIsNoExit DEF Exit
<1> QED
  BY <1>1, <1>2, <1>4 DEF Cycle1, Cycle2, Setup, Select, Exit, Is

LEMMA WriteEarns ==
  ASSUME IndInv, NEW a, NEW d, Write(a, d)
  PROVE  StateIsEarned'
<1>1. state' = NextState(state, a, d) /\ state \in States /\ StateIsEarned
  BY DEF Write, IndInv, TypeOK
<1>2. CASE state' = "Normal"
  BY <1>2 DEF StateIsEarned
<1>3. CASE Command(d) = EXIT
  <2>1. state' = "Normal"
    BY <1>1, <1>3 DEF NextState, IsShortExit
  <2> QED
    BY <1>2, <2>1
<1>4. CASE Command(d) # EXIT
  BY <1>1, <1>4, LogShifts DEF NextState, IsShortExit, SelectedBy, StateIsEarned, States
<1> QED
  BY <1>3, <1>4

LEMMA WriteTakes ==
  ASSUME IndInv, NEW a \in Words, NEW d \in Halfwords, Write(a, d)
  PROVE  ExitIsTaken'
<1>1. /\ state' = NextState(state, a, d) /\ mem' = NewMem(state, a, d)
      /\ ExitIsTaken /\ mem \in [Words -> Halfwords]
  BY DEF Write, IndInv, TypeOK
<1>2. CASE Command(d) = EXIT
  <2>1. state' = "Normal"
    BY <1>1, <1>2 DEF NextState, IsShortExit
  <2> QED
    BY <1>2, <2>1, LogShifts DEF ExitIsTaken
<1>3. CASE Command(d) # EXIT
  <2>1. ~Exit(0)'
    BY <1>3, LogShifts
  <2>2. Exit(1)' /\ Cycle1(0)' => state' = "Enter1"
    BY <1>1, <1>3, LogShifts DEF ExitIsTaken, NextState, IsShortExit
  <2>3. Exit(2)' /\ Cycle1(1)' /\ Cycle2(0)' => state' = "Enter2"
    BY <1>1, <1>3, LogShifts DEF ExitIsTaken, NextState, IsShortExit
  <2>4. Exit(3)' /\ Cycle1(2)' /\ Cycle2(1)' /\ Select(0)' => state' = "WordProgram"
    BY <1>1, <1>3, LogShifts DEF ExitIsTaken, NextState, IsShortExit, SelectedBy,
                                 ERASE_SETUP, ID_ENTRY, CFI_ENTRY, PROGRAM
  <2>5. ASSUME Exit(4)', Cycle1(3)', Cycle2(2)', Select(1)'
        PROVE  state' = "Normal" /\ mem'[log'[0][1]] = log'[0][2]
    <3>1. state = "WordProgram"
      BY <1>1, <1>3, <2>5, LogShifts DEF ExitIsTaken
    <3>2. state' = "Normal"
      BY <1>1, <3>1 DEF NextState, IsShortExit
    <3>3. mem' = [w \in Words |-> IF w = a THEN d ELSE mem[w]]
      BY <1>1, <3>1 DEF NewMem, Altered
    <3> QED
      BY <3>2, <3>3, LogShifts
  <2> QED
    BY <2>1, <2>2, <2>3, <2>4, <2>5 DEF ExitIsTaken
<1> QED
  BY <1>2, <1>3

\* A word a write leaves alone is as dirty as it was; one it alters is marked.
LEMMA WriteMarks ==
  ASSUME IndInv, NEW a \in Words, NEW d, Write(a, d)
  PROVE  AlteredSectorsAreDirty'
<1> SUFFICES ASSUME NEW w \in Words, mem'[w] # saved'[w]
             PROVE  \E s \in dirty' : w \in Copied(s)
  BY DEF AlteredSectorsAreDirty, Copied
<1>1. saved' = saved /\ dirty' = dirty \cup Touched(state, a, d) /\ mem' = NewMem(state, a, d)
  BY DEF Write
<1>2. CASE w \in Altered(state, a, d)
  BY <1>1, <1>2, AlteredIsTouched
<1>3. CASE w \notin Altered(state, a, d)
  <2>1. mem'[w] = mem[w]
    BY <1>1, <1>3 DEF NewMem
  <2>2. \E s \in dirty : w \in Copied(s)
    BY <1>1, <2>1 DEF IndInv, AlteredSectorsAreDirty
  <2> QED
    BY <1>1, <2>2
<1> QED
  BY <1>2, <1>3

LEMMA ResetInv ==
  ASSUME IndInv, Reset
  PROVE  IndInv'
<1>1. \A n \in 0 .. 4 : ~Exit(n)'
  BY NoWriteIsNoExit DEF Reset, NoLog, Exit
<1>2. TypeOK'
  <2>1. log' \in [0 .. 4 -> BusWrites \cup {NoWrite}]
    BY DEF Reset, NoLog
  <2> QED
    BY <2>1 DEF IndInv, TypeOK, Reset, States
<1>3. StateIsEarned'
  BY DEF Reset, StateIsEarned
<1>4. AlteredSectorsAreDirty'
  BY DEF Reset, IndInv, AlteredSectorsAreDirty, Copied
<1> QED
  BY <1>1, <1>2, <1>3, <1>4 DEF IndInv, ExitIsTaken

\* clear_dirty and stutters: the command state and the array stay.
LEMMA RestInv ==
  ASSUME IndInv, ClearDirty \/ UNCHANGED vars
  PROVE  IndInv'
<1>1. /\ UNCHANGED <<state, mem, log, altered>> /\ dirty' \subseteq Sectors
      /\ saved' \in [Words -> Halfwords]
  BY DEF ClearDirty, vars, IndInv, TypeOK
<1>2. TypeOK'
  BY <1>1 DEF IndInv, TypeOK
<1>3. StateIsEarned' /\ ExitIsTaken'
  BY <1>1 DEF IndInv, StateIsEarned, ExitIsTaken, Cycle1, Cycle2, Setup, Select, Exit
<1>4. AlteredSectorsAreDirty'
  <2>1. saved' = mem' \/ (saved' = saved /\ dirty' = dirty)
    BY <1>1 DEF ClearDirty, vars
  <2> QED
    BY <1>1, <2>1 DEF IndInv, AlteredSectorsAreDirty, Copied
<1> QED
  BY <1>2, <1>3, <1>4 DEF IndInv

\* Every write is one of the bus's.
LEMMA BusWriteTypes ==
  ASSUME NEW bw \in BusWrites
  PROVE  bw[1] \in Words /\ bw[2] \in Halfwords /\ <<bw[1], bw[2]>> \in BusWrites
<1>1. bw \in Words \X Halfwords
  BY BusWritesAssumption
<1> QED
  BY <1>1

LEMMA NextInv == IndInv /\ [Next]_vars => IndInv'
<1> SUFFICES ASSUME IndInv, [Next]_vars PROVE IndInv'
  OBVIOUS
<1>1. ASSUME NEW bw \in BusWrites, Write(bw[1], bw[2]) PROVE IndInv'
  BY <1>1, BusWriteTypes, WriteType, WriteEarns, WriteTakes, WriteMarks DEF IndInv
<1>2. CASE Reset
  BY <1>2, ResetInv
<1>3. CASE ClearDirty \/ UNCHANGED vars
  BY <1>3, RestInv
<1> QED
  BY <1>1, <1>2, <1>3 DEF Next

LEMMA Invariant == Spec => []IndInv
BY InitInv, NextInv, PTL DEF Spec

-----------------------------------------------------------------------------
(* The theorems.                                                           *)

\* The variables keep their types.
THEOREM TypeCorrect == Spec => []TypeOK
<1>1. IndInv => TypeOK
  BY DEF IndInv
<1> QED
  BY Invariant, <1>1, PTL

\* F0 and the three cycles of a program take effect, whatever was left
\* unfinished before, and a read returns the datum.
THEOREM ProgramTakesEffect == Spec => []ProgramAfterExitTakesEffect
<1>1. IndInv => ProgramAfterExitTakesEffect
  BY Spelled DEF IndInv, ExitIsTaken, ProgramAfterExitTakesEffect, Read, Exit
<1> QED
  BY Invariant, <1>1, PTL

\* What a write does to the array.
LEMMA WriteAlters ==
  ASSUME IndInv, NEW a \in Words, NEW d \in Halfwords, Write(a, d), mem' # mem
  PROVE  /\ \A w \in Words : mem'[w] # mem[w] => w \in Altered(state, a, d)
         /\ \/ EndsWith(ProgramUnlock, 0) /\ mem' = [mem EXCEPT ![a] = d]
            \/ EndsWith(EraseUnlock, 0) /\ \A w \in Words : mem'[w] # mem[w] => mem'[w] = Erased
<1>1. mem \in [Words -> Halfwords] /\ state \in States /\ StateIsEarned
  BY DEF IndInv, TypeOK
<1>2. Altered(state, a, d) # {}
  BY DEF Write, NewMem
<1>3. mem' = [w \in Words |-> IF w \in Altered(state, a, d)
                              THEN IF state = "WordProgram" THEN d ELSE Erased ELSE mem[w]]
  BY <1>2 DEF Write, NewMem
<1>4. CASE state = "WordProgram"
  <2>1. Altered(state, a, d) = {a}
    BY <1>4 DEF Altered
  <2>2. mem' = [mem EXCEPT ![a] = d]
    BY <1>1, <1>3, <1>4, <2>1
  <2>3. EndsWith(ProgramUnlock, 0)
    BY <1>1, <1>4, Spelled DEF StateIsEarned
  <2> QED
    BY <1>1, <1>3, <2>2, <2>3
<1>5. CASE state = "Enter5"
  <2>1. EndsWith(EraseUnlock, 0)
    BY <1>1, <1>5, Spelled DEF StateIsEarned
  <2> QED
    BY <1>1, <1>3, <1>5, <2>1
<1>6. state = "WordProgram" \/ state = "Enter5"
  BY <1>2 DEF Altered
<1> QED
  BY <1>4, <1>5, <1>6

\* write16 alters the array only at the end of a complete unlock sequence.
THEOREM OnlyUnlockedWrites == Spec => OnlyUnlockedWritesAlter
<1> DEFINE Step ==
      mem' # mem =>
        LET last == log'[0]
        IN \/ /\ EndsWith(ProgramUnlock, 0)
              /\ mem' = [mem EXCEPT ![last[1]] = last[2]]
           \/ /\ EndsWith(EraseUnlock, 0)
              /\ \A w \in Words : mem'[w] # mem[w] => mem'[w] = Erased
<1>1. IndInv /\ [Next]_vars => [Step]_vars
  <2> SUFFICES ASSUME IndInv, Next, mem' # mem PROVE Step
    BY DEF vars
  <2>1. PICK bw \in BusWrites : Write(bw[1], bw[2])
    BY DEF Next, ClearDirty, Reset
  <2>2. log'[0] = <<bw[1], bw[2]>>
    BY <2>1, LogShifts
  <2> QED
    BY <2>1, <2>2, BusWriteTypes, WriteAlters
<1> QED
  BY Invariant, <1>1, PTL DEF Spec, OnlyUnlockedWritesAlter

\* Until the next clear_dirty every word the commands altered is among the
\* words of a dirty sector, for any sizes of sectors and blocks that nest.
THEOREM AlterationsAreMarked == Spec => []AlteredSectorsAreDirty
<1>1. IndInv => AlteredSectorsAreDirty
  BY DEF IndInv
<1> QED
  BY Invariant, <1>1, PTL
=============================================================================
