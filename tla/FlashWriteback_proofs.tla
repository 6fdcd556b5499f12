----------------------- MODULE FlashWriteback_proofs -----------------------
(***************************************************************************)
(* For any number of sectors, any contents and any number of commands, in  *)
(* both frontends and with or without pwrite failures: a flash write is    *)
(* lost only if its command overlapped a flush or its pwrite failed.       *)
(***************************************************************************)
EXTENDS FlashWriteback, TLAPS

\* A command that is in progress when a flush starts, or starts during one,
\* is recorded as overlapping.
OverlapRecorded == Flushing => todo \subseteq overlapped

\* The word mark_dirty is about to store back misses no bit: only the CPU
\* thread sets bits, so the bitmap can only have lost some since the load.
WordCoversDirty == cpu_pc = "store" => dirty \subseteq word

\* What the callback is being told about has been marked.
NotifiedIsMarked ==
  /\ cpu_pc = "notify" => \A s \in Sectors : FirstOf(todo, s) => s \in dirty \cup overlapped
  /\ cpu_pc = "notifyAll" => todo \subseteq dirty \cup overlapped
  /\ cpu_pc \in {"idle", "joined"} => todo = {}

\* The sectors the walk has passed are saved.
PassedIsSaved ==
  /\ Flushing => \A s \in Sectors :
       s < idx /\ s \notin overlapped \cup failed => file[s] = mem[s]
  /\ main_pc = "clear" => idx = NumSectors
  /\ main_pc = "write" => idx \in Sectors /\ (idx \notin overlapped => snap = mem[idx])

\* On one thread nothing is altered from a due poll to the end of its flush,
\* so no command overlaps one and a finished walk leaves only failed sectors.
SingleThreaded ==
  ~host.threads =>
    /\ overlapped = {}
    /\ main_pc # "loop" => cpu_pc \in {"idle", "joined"}
    /\ main_pc \in {"clear", "sync", "flushed", "done"} =>
         \A s \in Sectors : Stale(s) => s \in failed

IndInv ==
  /\ TypeOK
  /\ LossOnlyByOverlapOrFailure
  /\ OverlapRecorded
  /\ WordCoversDirty
  /\ NotifiedIsMarked
  /\ PassedIsSaved
  /\ SingleThreaded
-----------------------------------------------------------------------------
\* What a program or erase command and the start of a flush do to the types.
LEMMA AlterType ==
  ASSUME TypeOK, NEW span \in SUBSET Sectors, NEW c \in Contents,
         NEW next \in {"check", "fill"}, Alter(span, c, next)
  PROVE  TypeOK'
<1> USE WritebackAssumption DEF TypeOK, Alter
<1>1. mem' \in [Sectors -> Contents]
  OBVIOUS
<1>2. ops' \in 0 .. MaxOps
  OBVIOUS
<1>3. overlapped' \subseteq Sectors
  OBVIOUS
<1>4. UNCHANGED <<host, dirty, file, word, main_pc, idx, snap, wrote, stage, stamp, failed>>
  BY DEF mainVars
<1>5. todo' \subseteq Sectors /\ cpu_pc' \in {"check", "fill"}
  OBVIOUS
<1>6. QED
  BY <1>1, <1>2, <1>3, <1>4, <1>5

LEMMA BeginFlushType ==
  ASSUME TypeOK, NEW who \in {"poll", "shutdown", "destructor"}, BeginFlush(who)
  PROVE  /\ main_pc' = "scan" /\ idx' \in 0 .. NumSectors /\ wrote' \in BOOLEAN
         /\ stage' \in {"poll", "shutdown", "destructor"} /\ snap' \in Contents
         /\ overlapped' \subseteq Sectors /\ failed' \subseteq Sectors
<1>1. 0 \in 0 .. NumSectors
  BY WritebackAssumption
<1>2. wrote' \in BOOLEAN
  BY DEF BeginFlush
<1>3. overlapped' \subseteq Sectors
  BY DEF TypeOK, BeginFlush
<1>4. QED
  BY <1>1, <1>2, <1>3 DEF TypeOK, BeginFlush

\* The variables stay in their types, write16 and poll step by step.
LEMMA TypeStep == TypeOK /\ [Next]_vars => TypeOK'
<1> SUFFICES ASSUME TypeOK, [Next]_vars PROVE TypeOK'
  OBVIOUS
<1> USE WritebackAssumption DEF TypeOK, Sectors
<1>1. CASE ProgramWord
  <2>1. PICK s \in Sectors, c \in Contents : Alter({s}, c, "check")
    BY <1>1 DEF ProgramWord
  <2>2. {s} \in SUBSET Sectors
    OBVIOUS
  <2>3. QED
    BY <2>1, <2>2, AlterType
<1>2. CASE EraseSpan
  <2>1. PICK span \in EraseSpans : Alter(span, Erased, "check")
    BY <1>2 DEF EraseSpan
  <2>2. QED
    BY <2>1, AlterType
<1>3. CASE EraseChip
  BY <1>3, AlterType DEF EraseChip
<1>4. CASE SkipDirty
  BY <1>4 DEF SkipDirty, flashVars, cpuVars, mainVars, histVars
<1>5. CASE LoadBits
  BY <1>5 DEF LoadBits, flashVars, cpuVars, mainVars, histVars
<1>6. CASE StoreBits
  BY <1>6 DEF StoreBits, flashVars, cpuVars, mainVars, histVars
<1>7. CASE FillBits
  BY <1>7 DEF FillBits, flashVars, cpuVars, mainVars, histVars
<1>8. CASE Notify
  BY <1>8 DEF Notify, flashVars, cpuVars, mainVars, histVars
<1>9. CASE PollDue
  BY <1>9 DEF PollDue, flashVars, cpuVars, mainVars, histVars
<1>10. CASE ClearStamp
  <2>1. BeginFlush("poll") /\ stamp' = "none"
    BY <1>10 DEF ClearStamp
  <2>2. UNCHANGED <<host, flashVars, cpuVars>>
    BY <1>10 DEF ClearStamp
  <2>3. QED
    BY <2>1, <2>2, BeginFlushType DEF flashVars, cpuVars
<1>11. CASE ScanClean
  BY <1>11 DEF ScanClean, flashVars, cpuVars, mainVars, histVars
<1>12. CASE ScanDirty
  BY <1>12 DEF ScanDirty, flashVars, cpuVars, mainVars, histVars
<1>13. CASE WriteOk
  <2>1. idx \in Sectors \/ idx = NumSectors
    OBVIOUS
  <2>2. file' \in [Sectors -> Contents \cup {Torn}]
    <3>1. PICK c \in {snap, mem[idx], Torn} : file' = [file EXCEPT ![idx] = c]
      BY <1>13 DEF WriteOk
    <3>2. idx \in Sectors => c \in Contents \cup {Torn}
      OBVIOUS
    <3>3. QED
      BY <3>1, <3>2
  <2>3. QED
    BY <1>13, <2>2 DEF WriteOk, flashVars, cpuVars
<1>14. CASE WriteFailed
  <2>1. file' \in [Sectors -> Contents \cup {Torn}]
    <3>1. PICK c \in {file[idx], Torn} : file' = [file EXCEPT ![idx] = c]
      BY <1>14 DEF WriteFailed
    <3>2. idx \in Sectors => c \in Contents \cup {Torn}
      OBVIOUS
    <3>3. QED
      BY <3>1, <3>2
  <2>2. QED
    BY <1>14, <2>1 DEF WriteFailed, flashVars, cpuVars
<1>15. CASE ScanDone
  BY <1>15 DEF ScanDone, flashVars, cpuVars, mainVars, histVars
<1>16. CASE ClearDirty
  BY <1>16 DEF ClearDirty, flashVars, cpuVars, mainVars, histVars
<1>17. CASE Sync
  BY <1>17 DEF Sync, flashVars, cpuVars, mainVars, histVars
<1>18. CASE Destroy
  <2>1. CASE dirty # {}
    <3>1. BeginFlush("destructor") /\ UNCHANGED <<host, flashVars, cpuVars, stamp>>
      BY <1>18, <2>1 DEF Destroy
    <3>2. QED
      BY <3>1, BeginFlushType DEF flashVars, cpuVars
  <2>2. CASE dirty = {}
    BY <1>18, <2>2 DEF Destroy, flashVars, cpuVars, histVars
  <2>3. QED
    BY <2>1, <2>2
<1>19. CASE QuitAndJoin
  <2>1. CASE dirty # {}
    <3>1. BeginFlush("shutdown") /\ UNCHANGED <<host, flashVars, todo, word, ops, stamp>>
      BY <1>19, <2>1 DEF QuitAndJoin
    <3>2. cpu_pc' = "joined"
      BY <1>19 DEF QuitAndJoin
    <3>3. QED
      BY <3>1, <3>2, BeginFlushType DEF flashVars
  <2>2. CASE dirty = {}
    BY <1>19, <2>2 DEF QuitAndJoin, flashVars, histVars
  <2>3. QED
    BY <2>1, <2>2
<1>20. CASE Settle
  BY <1>20 DEF Settle, flashVars, cpuVars, mainVars, histVars
<1>21. CASE UNCHANGED vars
  BY <1>21 DEF vars, flashVars, cpuVars, mainVars, histVars
<1>22. QED
  BY <1>1, <1>2, <1>3, <1>4, <1>5, <1>6, <1>7, <1>8, <1>9, <1>10, <1>11, <1>12, <1>13, <1>14, <1>15, <1>16, <1>17, <1>18, <1>19, <1>20, <1>21 DEF Next, CpuStep, MainStep

\* The same actions preserve the inductive invariant.
LEMMA InvStep == IndInv /\ [Next]_vars => IndInv'
<1> SUFFICES ASSUME IndInv, [Next]_vars PROVE IndInv'
  OBVIOUS
<1>0. TypeOK'
  BY TypeStep DEF IndInv
<1> USE <1>0, WritebackAssumption DEF IndInv, TypeOK, Sectors, Flushing, Stale,
        LossOnlyByOverlapOrFailure, OverlapRecorded, WordCoversDirty,
        NotifiedIsMarked, PassedIsSaved, SingleThreaded, MainRuns, CpuRuns, FirstOf
<1>1. CASE ProgramWord
  BY <1>1 DEF ProgramWord, Alter, flashVars, cpuVars, mainVars, histVars
<1>2. CASE EraseSpan
  BY <1>2 DEF EraseSpan, Alter, flashVars, cpuVars, mainVars, histVars
<1>3. CASE EraseChip
  BY <1>3 DEF EraseChip, Alter, flashVars, cpuVars, mainVars, histVars
<1>4. CASE SkipDirty
  BY <1>4 DEF SkipDirty, flashVars, cpuVars, mainVars, histVars
<1>5. CASE LoadBits
  BY <1>5 DEF LoadBits, flashVars, cpuVars, mainVars, histVars
<1>6. CASE StoreBits
  BY <1>6 DEF StoreBits, flashVars, cpuVars, mainVars, histVars
<1>7. CASE FillBits
  BY <1>7 DEF FillBits, flashVars, cpuVars, mainVars, histVars
<1>8. CASE Notify
  BY <1>8 DEF Notify, flashVars, cpuVars, mainVars, histVars
<1>9. CASE PollDue
  BY <1>9 DEF PollDue, flashVars, cpuVars, mainVars, histVars
<1>10. CASE ClearStamp
  BY <1>10 DEF ClearStamp, BeginFlush, flashVars, cpuVars, mainVars, histVars
<1>11. CASE ScanClean
  BY <1>11 DEF ScanClean, flashVars, cpuVars, mainVars, histVars
<1>12. CASE ScanDirty
  BY <1>12 DEF ScanDirty, flashVars, cpuVars, mainVars, histVars
<1>13. CASE WriteOk
  BY <1>13 DEF WriteOk, flashVars, cpuVars, mainVars, histVars
<1>14. CASE WriteFailed
  BY <1>14 DEF WriteFailed, flashVars, cpuVars, mainVars, histVars
<1>15. CASE ScanDone
  BY <1>15 DEF ScanDone, flashVars, cpuVars, mainVars, histVars
<1>16. CASE ClearDirty
  BY <1>16 DEF ClearDirty, flashVars, cpuVars, mainVars, histVars
<1>17. CASE Sync
  BY <1>17 DEF Sync, flashVars, cpuVars, mainVars, histVars
<1>18. CASE Destroy
  BY <1>18 DEF Destroy, BeginFlush, flashVars, cpuVars, mainVars, histVars
<1>19. CASE QuitAndJoin
  BY <1>19 DEF QuitAndJoin, BeginFlush, flashVars, cpuVars, mainVars, histVars
<1>20. CASE Settle
  BY <1>20 DEF Settle, flashVars, cpuVars, mainVars, histVars
<1>21. CASE UNCHANGED vars
  BY <1>21 DEF vars, flashVars, cpuVars, mainVars, histVars
<1>22. QED
  BY <1>1, <1>2, <1>3, <1>4, <1>5, <1>6, <1>7, <1>8, <1>9, <1>10, <1>11, <1>12, <1>13, <1>14, <1>15, <1>16, <1>17, <1>18, <1>19, <1>20, <1>21 DEF Next, CpuStep, MainStep

LEMMA InitInv == Init => IndInv
<1> SUFFICES ASSUME Init PROVE IndInv
  OBVIOUS
<1> USE WritebackAssumption DEF Init
<1>1. file \in [Sectors -> Contents \cup {Torn}]
  OBVIOUS
<1>2. TypeOK
  <2>1. idx \in 0 .. NumSectors /\ ops \in 0 .. MaxOps
    OBVIOUS
  <2>2. wrote \in BOOLEAN
    OBVIOUS
  <2>3. dirty \subseteq Sectors /\ word \subseteq Sectors /\ todo \subseteq Sectors
    OBVIOUS
  <2>4. overlapped \subseteq Sectors /\ failed \subseteq Sectors /\ snap \in Contents
    OBVIOUS
  <2>5. QED
    BY <1>1, <2>1, <2>2, <2>3, <2>4 DEF TypeOK
<1>3. QED
  BY <1>2 DEF IndInv, Sectors, Flushing, Stale, LossOnlyByOverlapOrFailure,
     OverlapRecorded, WordCoversDirty, NotifiedIsMarked, PassedIsSaved, SingleThreaded

LEMMA InvariantHolds == Spec => []IndInv
  BY InitInv, InvStep, PTL DEF Spec

\* Type correctness of the writeback, for every value of the constants.
THEOREM TypeCorrect == Spec => []TypeOK
<1>1. IndInv => TypeOK
  BY DEF IndInv
<1>2. QED
  BY <1>1, InvariantHolds, PTL

\* A sector out of date on the host file is dirty, about to be marked, was
\* altered by a command that overlapped a flush, or its pwrite failed.
THEOREM LossExplained == Spec => []LossOnlyByOverlapOrFailure
<1>1. IndInv => LossOnlyByOverlapOrFailure
  BY DEF IndInv
<1>2. QED
  BY <1>1, InvariantHolds, PTL

\* main.cpp: once the destructor is through, only sectors whose pwrite failed
\* are out of date on the host file.
THEOREM ExitSavesAll == Spec => []SingleThreadedExitSavesAll
<1>1. IndInv => SingleThreadedExitSavesAll
  BY DEF IndInv, SingleThreaded, SingleThreadedExitSavesAll
<1>2. QED
  BY <1>1, InvariantHolds, PTL
=============================================================================
