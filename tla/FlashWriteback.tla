-------------------------- MODULE FlashWriteback --------------------------
(***************************************************************************)
(* The path of a flash write to the host PFI file: the CPU thread alters   *)
(* the Sst39vf array and marks sectors dirty (src/board/flash_sst39vf.cpp),*)
(* the main thread polls PfiWriteback, which after the debounce interval   *)
(* copies every dirty sector to the file and clears the bitmap             *)
(* (src/system/pfi_writeback.cpp), and at exit the frontend joins the CPU  *)
(* thread and flushes what is left (src/system_main.cpp).                  *)
(*                                                                         *)
(* The two threads share the array, the bitmap (a vector<bool>, read and   *)
(* written a machine word at a time without any lock) and the atomic       *)
(* timestamp.  Each shared access is a step of its own.  The content of a  *)
(* 4 KB sector is one value; Torn is a mixture of two contents.            *)
(***************************************************************************)
EXTENDS Integers, FiniteSets

CONSTANTS NumSectors,  \* sector_count(), all bits in one word of the bitmap
          Contents,    \* contents of a sector
          Erased,      \* the content an erase leaves
          Torn,        \* a mixture of contents, seen only on the file
          EraseSpans,  \* sector sets a sector or block erase clears
          Hosts,       \* records: threads TRUE for system_main.cpp, FALSE for
                       \* main.cpp, which polls on the CPU's own thread
                       \* between instructions; failing: pwrite can fail
          MaxOps       \* bound on the CPU's program and erase commands

Sectors == 0 .. NumSectors - 1

ASSUME WritebackAssumption ==
  /\ NumSectors \in Nat \ {0}
  /\ Erased \in Contents /\ Torn \notin Contents
  /\ EraseSpans \subseteq SUBSET Sectors
  /\ Hosts \subseteq [threads : BOOLEAN, failing : BOOLEAN]
  /\ MaxOps \in Nat

VARIABLES
  host,        \* the front end; never changes
  mem,         \* Sst39vf::mem_, per sector
  dirty,       \* Sst39vf::dirty_, as a set
  stamp,       \* last_dirty_us_: "none" (0), "fresh", or "settled" (>= debounce old)
  file,        \* the flash region of the host PFI file
  cpu_pc,      \* where the CPU thread is inside write16
  todo,        \* sectors of the altered span not yet through mark_dirty
  word,        \* the bitmap word mark_dirty loaded to set one bit of
  main_pc,     \* where the main thread is
  idx,         \* the sector for_each_dirty_sector looks at
  snap,        \* content of sector idx when its pwrite began
  wrote,       \* count > 0 in flush_dirty_sectors
  stage,       \* who called it: "poll", "shutdown" or "destructor"
  ops,         \* CPU commands so far
  overlapped,  \* history: sectors whose last command overlapped a flush
  failed       \* history: sectors whose last pwrite failed

flashVars == <<mem, dirty, file>>
cpuVars == <<cpu_pc, todo, word, ops>>
mainVars == <<main_pc, idx, snap, wrote, stage>>
histVars == <<overlapped, failed>>
vars == <<host, flashVars, cpuVars, mainVars, stamp, histVars>>

Flushing == main_pc \in {"scan", "write", "clear"}

\* main.cpp runs the CPU and the writeback on one thread.
CpuRuns == host.threads \/ main_pc = "loop"
MainRuns == host.threads \/ cpu_pc = "idle"

-----------------------------------------------------------------------------
(* CPU thread: a committed command of Sst39vf::write16.                    *)

\* std::fill or put_le16 on the array; the sectors of span take content c.
Alter(span, c, next) ==
  /\ cpu_pc = "idle" /\ CpuRuns /\ ops < MaxOps
  /\ mem' = [s \in Sectors |-> IF s \in span THEN c ELSE mem[s]]
  /\ ops' = ops + 1
  /\ todo' = span
  /\ cpu_pc' = next
  /\ overlapped' = IF Flushing THEN overlapped \cup span ELSE overlapped \ span
  /\ UNCHANGED <<host, dirty, file, word, mainVars, stamp, failed>>

ProgramWord == \E s \in Sectors, c \in Contents : Alter({s}, c, "check")
EraseSpan == \E span \in EraseSpans : Alter(span, Erased, "check")
EraseChip == Alter(Sectors, Erased, "fill")

FirstOf(S, s) == s \in S /\ \A t \in S : s <= t

\* mark_dirty: `if (!dirty_[s])`; a sector already dirty is passed over and
\* the timestamp stays as it is.
SkipDirty ==
  /\ cpu_pc = "check"
  /\ \E s \in dirty : FirstOf(todo, s) /\ todo' = todo \ {s}
  /\ cpu_pc' = IF todo' = {} THEN "idle" ELSE "check"
  /\ UNCHANGED <<host, flashVars, word, ops, mainVars, stamp, histVars>>

\* ... otherwise the word holding the bit is loaded,
LoadBits ==
  /\ cpu_pc = "check"
  /\ \E s \in Sectors \ dirty : FirstOf(todo, s)
  /\ word' = dirty
  /\ cpu_pc' = "store"
  /\ UNCHANGED <<host, flashVars, todo, ops, mainVars, stamp, histVars>>

\* ... and stored back with the bit set,
StoreBits ==
  /\ cpu_pc = "store"
  /\ \E s \in Sectors : FirstOf(todo, s) /\ dirty' = word \cup {s}
  /\ cpu_pc' = "notify"
  /\ UNCHANGED <<host, mem, file, todo, word, ops, mainVars, stamp, histVars>>

\* Mutant: Chip-Erase leaves out the last sector.
FillBits_offByOne ==
  /\ cpu_pc = "fill"
  /\ dirty' = Sectors \ {NumSectors - 1}
  /\ cpu_pc' = "notifyAll"
  /\ UNCHANGED <<host, mem, file, todo, word, ops, mainVars, stamp, histVars>>

\* Chip-Erase sets the whole bitmap at once
FillBits ==
  /\ cpu_pc = "fill"
  /\ dirty' = Sectors
  /\ cpu_pc' = "notifyAll"
  /\ UNCHANGED <<host, mem, file, todo, word, ops, mainVars, stamp, histVars>>

\* ... and reports every sector.  The callback stores the current time.
Notify ==
  /\ cpu_pc \in {"notify", "notifyAll"}
  /\ \E s \in Sectors : FirstOf(todo, s) /\ todo' = todo \ {s}
  /\ stamp' = "fresh"
  /\ cpu_pc' = IF todo' = {} THEN "idle"
               ELSE IF cpu_pc = "notify" THEN "check" ELSE cpu_pc
  /\ UNCHANGED <<host, flashVars, word, ops, mainVars, histVars>>

CpuStep == SkipDirty \/ LoadBits \/ StoreBits \/ FillBits \/ Notify

-----------------------------------------------------------------------------
(* Main thread: PfiWriteback::poll and flush_dirty_sectors.                *)

\* poll loads the timestamp and finds the debounce interval over.
PollDue ==
  /\ main_pc = "loop" /\ MainRuns
  /\ stamp = "settled"
  /\ main_pc' = "due"
  /\ UNCHANGED <<host, flashVars, cpuVars, idx, snap, wrote, stage, stamp, histVars>>

\* Mutant: the walk starts at the second sector.
BeginFlush_skipFirst(who) ==
  /\ main_pc' = "scan" /\ idx' = 1 /\ wrote' = FALSE /\ stage' = who
  /\ overlapped' = (overlapped \ dirty) \cup todo
  /\ UNCHANGED <<snap, failed>>

BeginFlush(who) ==
  /\ main_pc' = "scan" /\ idx' = 0 /\ wrote' = FALSE /\ stage' = who
  /\ overlapped' = (overlapped \ dirty) \cup todo
  /\ UNCHANGED <<snap, failed>>

\* last_dirty_us_.store(0), then the walk over the bitmap starts.
ClearStamp ==
  /\ main_pc = "due"
  /\ stamp' = "none"
  /\ BeginFlush("poll")
  /\ UNCHANGED <<host, flashVars, cpuVars>>

ScanClean ==
  /\ main_pc = "scan" /\ idx \in Sectors \ dirty
  /\ idx' = idx + 1
  /\ UNCHANGED <<host, flashVars, cpuVars, main_pc, snap, wrote, stage, stamp, histVars>>

ScanDirty ==
  /\ main_pc = "scan" /\ idx \in dirty
  /\ snap' = mem[idx]
  /\ main_pc' = "write"
  /\ UNCHANGED <<host, flashVars, cpuVars, idx, wrote, stage, stamp, histVars>>

\* write_at returned true.  A command of the CPU thread during the copy may
\* reach the file in full, in part or not at all.
WriteOk ==
  /\ main_pc = "write"
  /\ \E c \in (IF mem[idx] = snap THEN {snap} ELSE {snap, mem[idx], Torn}) :
       file' = [file EXCEPT ![idx] = c]
  /\ wrote' = TRUE /\ idx' = idx + 1 /\ main_pc' = "scan"
  /\ failed' = failed \ {idx}
  /\ UNCHANGED <<host, mem, dirty, cpuVars, snap, stage, stamp, overlapped>>

\* write_at returned false: pwrite failed at once or after a part.
WriteFailed ==
  /\ host.failing
  /\ main_pc = "write"
  /\ \E c \in {file[idx], Torn} : file' = [file EXCEPT ![idx] = c]
  /\ idx' = idx + 1 /\ main_pc' = "scan"
  /\ failed' = failed \cup {idx}
  /\ UNCHANGED <<host, mem, dirty, cpuVars, snap, wrote, stage, stamp, overlapped>>

\* `if (count > 0)` the whole bitmap is cleared.
ScanDone ==
  /\ main_pc = "scan" /\ idx = NumSectors
  /\ main_pc' = IF wrote THEN "clear" ELSE "sync"
  /\ UNCHANGED <<host, flashVars, cpuVars, idx, snap, wrote, stage, stamp, histVars>>

ClearDirty ==
  /\ main_pc = "clear"
  /\ dirty' = {}
  /\ main_pc' = "sync"
  /\ UNCHANGED <<host, mem, file, cpuVars, idx, snap, wrote, stage, stamp, histVars>>

\* Mutant: the timestamp is cleared after the I/O instead of before it.
Sync_clearsStamp ==
  /\ main_pc = "sync"
  /\ main_pc' = CASE stage = "poll"       -> "loop"
                  [] stage = "shutdown"   -> "flushed"
                  [] stage = "destructor" -> "done"
  /\ stamp' = "none"
  /\ UNCHANGED <<host, flashVars, cpuVars, idx, snap, wrote, stage, histVars>>

\* fsync, then back to the event loop or on with the exit.
Sync ==
  /\ main_pc = "sync"
  /\ main_pc' = CASE stage = "poll"       -> "loop"
                  [] stage = "shutdown"   -> "flushed"
                  [] stage = "destructor" -> "done"
  /\ UNCHANGED <<host, flashVars, cpuVars, idx, snap, wrote, stage, stamp, histVars>>

\* quit_flag was set: the loop ends, the CPU thread finishes its instruction
\* and is joined, and shutdown_flush runs if any sector is dirty.
QuitAndJoin ==
  /\ main_pc = "loop" /\ cpu_pc = "idle"
  /\ cpu_pc' = "joined"
  /\ IF dirty # {} THEN BeginFlush("shutdown")
     ELSE main_pc' = "flushed" /\ UNCHANGED <<idx, snap, wrote, stage, histVars>>
  /\ UNCHANGED <<host, flashVars, todo, word, ops, stamp>>

\* ~PfiWriteback tries once more if sectors are still dirty.
Destroy ==
  /\ main_pc = "flushed"
  /\ IF dirty # {} THEN BeginFlush("destructor")
     ELSE main_pc' = "done" /\ UNCHANGED <<idx, snap, wrote, stage, histVars>>
  /\ UNCHANGED <<host, flashVars, cpuVars, stamp>>

MainStep ==
  \/ PollDue \/ ClearStamp \/ ScanClean \/ ScanDirty \/ WriteOk \/ WriteFailed
  \/ ScanDone \/ ClearDirty \/ Sync \/ Destroy

-----------------------------------------------------------------------------
(* Time: the debounce interval has passed since the timestamp.             *)
Settle ==
  /\ stamp = "fresh"
  /\ stamp' = "settled"
  /\ UNCHANGED <<host, flashVars, cpuVars, mainVars, histVars>>

Init ==
  /\ host \in Hosts
  /\ mem \in [Sectors -> Contents] /\ file = mem
  /\ dirty = {} /\ word = {} /\ todo = {}
  /\ cpu_pc = "idle" /\ ops = 0
  /\ main_pc = "loop" /\ idx = 0 /\ wrote = FALSE /\ stage = "poll"
  /\ snap = Erased
  /\ stamp = "none"
  /\ overlapped = {} /\ failed = {}

Next ==
  \/ ProgramWord \/ EraseSpan \/ EraseChip \/ CpuStep
  \/ MainStep \/ QuitAndJoin
  \/ Settle

\* Both threads are scheduled, the main loop keeps polling and time passes;
\* nobody has to write the flash or quit.
Fairness == WF_vars(CpuStep) /\ WF_vars(MainStep) /\ WF_vars(Settle)

Spec == Init /\ [][Next]_vars /\ Fairness

-----------------------------------------------------------------------------
(* Properties.                                                             *)

TypeOK ==
  /\ host \in Hosts
  /\ mem \in [Sectors -> Contents]
  /\ file \in [Sectors -> Contents \cup {Torn}]
  /\ dirty \subseteq Sectors /\ word \subseteq Sectors /\ todo \subseteq Sectors
  /\ cpu_pc \in {"idle", "check", "store", "notify", "fill", "notifyAll", "joined"}
  /\ main_pc \in {"loop", "due", "scan", "write", "clear", "sync", "flushed", "done"}
  /\ idx \in 0 .. NumSectors /\ snap \in Contents /\ wrote \in BOOLEAN
  /\ stage \in {"poll", "shutdown", "destructor"}
  /\ stamp \in {"none", "fresh", "settled"}
  /\ ops \in 0 .. MaxOps
  /\ overlapped \subseteq Sectors /\ failed \subseteq Sectors

Stale(s) == file[s] # mem[s]

\* mark_dirty, for_each_dirty_sector and clear_dirty interleave over the
\* bitmap and the array without a lock.  A sector whose file copy is out of
\* date is still dirty or about to be marked, unless its last command
\* overlapped a flush or its pwrite failed: these are the only ways a write
\* is lost.
LossOnlyByOverlapOrFailure ==
  \A s \in Sectors : Stale(s) => s \in dirty \cup todo \cup overlapped \cup failed

\* On one thread (main.cpp) a command and a flush never overlap, so once the
\* destructor is through, the only sectors missing on the file are those
\* whose pwrite failed.
SingleThreadedExitSavesAll ==
  ~host.threads /\ main_pc = "done" => \A s \in Sectors : Stale(s) => s \in failed

\* What a command wrote gets to the host file without anyone quitting: poll
\* finds the timestamp, whatever the flush under way was doing when the
\* callback stored it.  Exempt are exactly the two losses: a failed pwrite,
\* and a command that overlapped a flush which then cleared its dirty bit.
WritesReachTheFile ==
  \A s \in Sectors :
    Stale(s) ~> \/ ~Stale(s)
                \/ s \in failed
                \/ s \in overlapped /\ s \notin dirty

\* system_main.cpp: the final flush "guarantees the host PFI file reflects
\* every committed program/erase before the process exits".  Nothing else is
\* asked of it here than to do so when every pwrite succeeds.
ExitSavesEveryCommand ==
  (main_pc = "done" /\ ~host.failing) => \A s \in Sectors : ~Stale(s)
=============================================================================
