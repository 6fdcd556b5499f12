------------------------------ MODULE BareHost ------------------------------
(***************************************************************************)
(* src/main.cpp: an ELF program or a PFI image run to its end, a verdict   *)
(* or a limit, or under a debugger.  The peripherals are ticked after      *)
(* every instruction, so a wake point is never late here.                  *)
(***************************************************************************)
EXTENDS GdbSession

VARIABLES
  signal,    \* signal_quit
  limit,     \* limit_hit
  verdict,   \* history: the first TEST_RESULT of the program
  began,     \* history: the cycle of the last CYCLE_COUNT snapshot
  halves     \* history: the halfwords of CYCLE_COUNT read since, by position

bareVars == <<signal, limit, verdict, began, halves>>

\* elf_load: the header, then a segment a turn; total counts them.
OpenElf ==
  /\ at = "start" /\ host.elf
  /\ IF host.image.valid /\ host.image.segments # << >>
     THEN /\ m' = PowerOn(Blank(Parts[1]), host.gdb)
          /\ at' = "segments"
          /\ UNCHANGED code
     ELSE Exit(1) /\ UNCHANGED m
  /\ UNCHANGED <<host, total, tickVars, gdbVars, bareVars>>

ReadSegment ==
  /\ at = "segments" /\ total < Len(host.image.segments)
  /\ LET r == LoadSegment(m.mem, host.image, Parts[1], host.image.segments[total + 1]) IN
     IF r.ok
     THEN /\ m' = [m EXCEPT !.mem = r.mem]
          /\ total' = total + 1
          /\ UNCHANGED <<at, code>>
     ELSE Exit(1) /\ UNCHANGED <<m, total>>
  /\ UNCHANGED <<host, tickVars, gdbVars, bareVars>>

EndElf ==
  /\ at = "segments" /\ total = Len(host.image.segments)
  /\ m' = [m EXCEPT !.regs["pc"] = host.image.entry]
  /\ at' = "boot"
  /\ UNCHANGED <<host, total, code, tickVars, gdbVars, bareVars>>

BeginBare ==
  /\ at = "boot" /\ Kind("bare")
  /\ at' = IF host.gdb THEN "accept" ELSE "run"
  /\ UNCHANGED <<host, m, total, code, tickVars, gdbVars, bareVars>>

\* SIGINT or SIGTERM
Signal ==
  /\ Kind("bare") /\ at \in {"run", "halted"} /\ host.signals /\ ~signal
  /\ signal' = TRUE
  /\ UNCHANGED <<baseVars, gdbVars, limit, verdict, began, halves>>

Stopped == m.semi.stop \/ signal

\* The instruction that Step executes.
Executed == IF Pc(m) \in m.bkpts THEN <<"bkpt">> ELSE Fetch(m)

\* Inner loop: an instruction, a tick, the limit.
BareInstruction ==
  LET op == Executed
      next == Ticked(Step(m))
      first == op[1] = "cycle" /\ op[2] = 0
      before == IF first THEN {} ELSE DOMAIN halves
  IN
  /\ at = "run" /\ Runnable(m) /\ ~Stopped
  /\ m' = next
  /\ limit' = (host.max # 0 /\ next.cycles >= host.max)
  /\ at' = IF limit' THEN "halted" ELSE at
  /\ verdict' = IF verdict = None THEN next.semi.result ELSE verdict
  /\ began' = IF first THEN m.cycles ELSE began
  /\ halves' = IF op[1] # "cycle" THEN halves
               ELSE [i \in before \cup {op[2]} |-> IF i = op[2] THEN next.regs["r0"] ELSE halves[i]]
  /\ UNCHANGED <<host, total, code, tickVars, gdbVars, signal>>

LeaveBurst ==
  /\ at = "run" /\ (~Runnable(m) \/ Stopped)
  /\ at' = "halted"
  /\ UNCHANGED <<host, m, total, code, tickVars, gdbVars, bareVars>>

\* Mutant: the result is not looked at.
ExitCode_clean == IF m.fault THEN 1 ELSE 0
ExitCode == IF m.fault \/ m.semi.result \notin {None, 0} THEN 1 ELSE 0

\* What ends a run, or a jump to the next wake point.
EndBare ==
  /\ at = "halted"
  /\ IF limit \/ m.fault \/ Stopped THEN Exit(ExitCode) /\ UNCHANGED <<m, limit>>
     ELSE IF host.max # 0 /\ next_wake_cycle(m) > host.max
          THEN limit' = TRUE /\ Exit(ExitCode) /\ UNCHANGED m
          ELSE /\ m' = Ticked([m EXCEPT !.cycles = next_wake_cycle(m)])
               /\ at' = "run"
               /\ UNCHANGED <<code, limit>>
  /\ UNCHANGED <<host, total, tickVars, gdbVars, signal, verdict, began, halves>>

BareStep ==
  \/ OpenElf \/ ReadSegment \/ EndElf \/ BeginBare \/ Signal \/ BareInstruction \/ LeaveBurst \/ EndBare
  \/ (GdbStep \/ ClientSend) /\ UNCHANGED bareVars

BareInit ==
  /\ GdbInit
  /\ signal = FALSE /\ limit = FALSE /\ verdict = None /\ began = None /\ halves = << >>

-----------------------------------------------------------------------------
(* Properties.                                                             *)

\* "Bypasses the HLT->peripheral-wake path so pending timers/RTC events cannot
\* silently resume execution": the exit code is that of the first result the
\* program wrote, and a result the program wrote later never replaces it.
VerdictStands ==
  (Kind("bare") /\ ~host.gdb /\ verdict # None) =>
    /\ m.semi.result = verdict
    /\ at = "done" => (code = 0 <=> verdict = 0 /\ ~m.fault)

\* The halfwords of CYCLE_COUNT that a program reads one after the other, in
\* whatever order behind the first and whatever it does between them, are
\* halfwords of one number: the count at the first read.
CycleReadsAgree ==
  (Kind("bare") /\ ~host.gdb /\ began # None) =>
    \A i \in DOMAIN halves : halves[i] = (began \div HALF ^ i) % HALF
=============================================================================
