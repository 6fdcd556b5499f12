------------------------------- MODULE Guest --------------------------------
(***************************************************************************)
(* The machine as the single-threaded hosts see it: one Cpu::step          *)
(* (src/core/cpu_core.cpp), the peripherals' wake points, and the          *)
(* semihosting port (src/debug/semihosting.cpp).  Modules C33 and Timers   *)
(* have the instructions and the peripherals in detail; here a program is  *)
(* a handful of instructions, chosen for what a host reacts to.            *)
(***************************************************************************)
EXTENDS Loaders

CONSTANTS RtcPeriod,   \* cycles of the RTC prescaler
          ResetHz,     \* cycles of a frame at the clock a reset selects
          HALF,        \* a semihosting halfword holds 0 .. HALF - 1
          RegNames     \* the registers of the RSP layout, in its order

ASSUME GuestAssumption ==
  /\ RtcPeriod \in Nat \ {0} /\ ResetHz \in Nat \ {0} /\ HALF \in Nat \ {0}
  /\ RegNames \in Seq(STRING) /\ \E i \in DOMAIN RegNames : RegNames[i] = "pc"
  /\ \E i \in DOMAIN RegNames : RegNames[i] = "r0"

None == -1

\* The machine m:
\*   mem, dirty        memory; flash sectors written since clear_dirty
\*   regs              CpuState's registers
\*   halt              in_halt: "run", "hlt", "slp", or "stop" (no halt_mode)
\*   fault, strict     CpuState::fault, Cpu::strict_
\*   cycles            the host's total_cycles
\*   due, period, ie   a timer: its next match or None, its period; interrupts on
\*   rtc               next_prescaler_cycle_
\*   hz                the CPU clock, as the cycles of a video frame
\*   lcd, frame        the display; Ch0 has completed a transfer
\*   keys              the port's copy of the buttons
\*   bkpts             Cpu::breakpoints
\*   semi              SemiState: result, cycles_latched, set_lo, clr_lo
\*   wps, hit, wp_cb   watchpoints, GdbRsp's wp_hit_, the callback installed
\*   gdb               --gdb
PowerOn(mem, gdb) ==
  [mem |-> mem, dirty |-> {}, regs |-> [n \in {RegNames[i] : i \in DOMAIN RegNames} |-> 0],
   halt |-> "run", fault |-> FALSE, strict |-> FALSE, cycles |-> 0,
   due |-> None, period |-> 0, ie |-> FALSE, rtc |-> RtcPeriod, hz |-> ResetHz,
   lcd |-> 0, frame |-> FALSE, keys |-> {}, bkpts |-> {},
   semi |-> [result |-> None, latched |-> 0, set_lo |-> 0, clr_lo |-> 0, stop |-> FALSE],
   wps |-> << >>, hit |-> << >>, wp_cb |-> "log", gdb |-> gdb]

Pc(m) == m.regs["pc"]
Runnable(m) == m.halt = "run" /\ ~m.fault

-----------------------------------------------------------------------------
(* Watchpoints: Bus::fire_wp and the callback of GdbRsp::serve.            *)

Matches(wp, access, addr) ==
  wp.type \in {"awatch", access} /\ Covers(wp.addr, wp.size, addr)

\* The watchpoints an access meets, in the order they were set: the SRAM paths
\* of the bus look at them.
Hits(wps, access, addr) ==
  IF addr \in Sram THEN SelectSeq(wps, LAMBDA wp : Matches(wp, access, addr)) ELSE << >>

\* Each of them calls back; the callback of a debug session records the first
\* call and stops the CPU, the one of --wp-* only logs.
\* Mutant: the last call wins.
fire_wp_last(m, access, addr) ==
  LET hits == Hits(m.wps, access, addr) IN
  IF m.wp_cb # "gdb" \/ hits = << >> THEN m
  ELSE [m EXCEPT !.hit = <<Last(hits).type, addr>>, !.halt = "stop"]

fire_wp(m, access, addr) ==
  LET hits == Hits(m.wps, access, addr) IN
  IF m.wp_cb # "gdb" \/ hits = << >> \/ m.hit # << >> THEN m
  ELSE [m EXCEPT !.hit = <<Head(hits).type, addr>>, !.halt = "stop"]

-----------------------------------------------------------------------------
(* Semihosting.  A 32-bit value is two halfwords, a 64-bit one four.       *)

\* The halt callback of main.cpp: a debugger keeps the session, otherwise the
\* run is over whatever the peripherals would wake.
\* Mutant: the run is not over.
Halt_wakes(m) == [m EXCEPT !.halt = IF @ = "run" THEN "stop" ELSE @]
Halt(m) == [m EXCEPT !.halt = IF @ = "run" THEN "stop" ELSE @, !.semi.stop = @ \/ ~m.gdb]

\* The breakpoint ports: the low half waits for the high one.
SemiBreakpoint(m, port, v) ==
  CASE port = "BKPT_SET lo" -> [m EXCEPT !.semi.set_lo = v]
    [] port = "BKPT_SET hi" -> [m EXCEPT !.bkpts = @ \cup {v * HALF + m.semi.set_lo}]
    [] port = "BKPT_CLR lo" -> [m EXCEPT !.semi.clr_lo = v]
    [] port = "BKPT_CLR hi" -> [m EXCEPT !.bkpts = @ \ {v * HALF + m.semi.clr_lo}]
    [] OTHER -> m

\* Console, trace and snapshot leave the machine alone.
SemiWrite(m, port, v) ==
  IF port = "TEST_RESULT" THEN Halt([m EXCEPT !.semi.result = v]) ELSE SemiBreakpoint(m, port, v)

\* CYCLE_COUNT: the first half takes the snapshot the others are cut from.
\* Mutant: each half takes its own.
CycleHalf_own(m, i) ==
  [m EXCEPT !.semi.latched = m.cycles, !.regs["r0"] = (m.cycles \div HALF ^ i) % HALF]
CycleHalf(m, i) ==
  LET snapshot == IF i = 0 THEN m.cycles ELSE m.semi.latched IN
  [m EXCEPT !.semi.latched = snapshot, !.regs["r0"] = (snapshot \div HALF ^ i) % HALF]

-----------------------------------------------------------------------------
(* Cpu::step                                                               *)

Fault(m) == [m EXCEPT !.fault = TRUE, !.halt = "stop"]
Fetch(m) == IF Pc(m) \in DOMAIN m.mem THEN m.mem[Pc(m)] ELSE Data(0)

\* The instruction at pc, which has been advanced past it.
Execute(op, m) ==
  CASE op[1] \in {"nop", "slow"} -> m
    [] op[1] = "load"  -> [fire_wp(m, "rwatch", op[2]) EXCEPT !.regs["r0"] = m.mem[op[2]][2]]
    [] op[1] = "store" -> [fire_wp(m, "watch", op[2]) EXCEPT !.mem[op[2]] = Data(op[3])]
    [] op[1] = "put"   -> [fire_wp(m, "watch", op[2]) EXCEPT !.mem[op[2]] = Data(m.regs["r0"])]
    [] op[1] = "program" -> [m EXCEPT !.mem[op[2]] = Data(op[3]), !.dirty = @ \cup {op[2]}]
    [] op[1] = "jump"  -> [m EXCEPT !.regs["pc"] = op[2]]
    [] op[1] = "soft"  -> IF m.strict THEN Fault(m) ELSE m
    [] op[1] \in {"hlt", "slp"} -> [m EXCEPT !.halt = op[1]]
    [] op[1] = "timer" -> [m EXCEPT !.period = op[2], !.due = m.cycles + op[2]]
    [] op[1] \in {"ei", "di"} -> [m EXCEPT !.ie = (op[1] = "ei")]
    [] op[1] = "clock" -> [m EXCEPT !.hz = op[2]]
    [] op[1] = "draw"  -> [m EXCEPT !.lcd = op[2]]
    [] op[1] = "frame" -> [m EXCEPT !.frame = TRUE]
    [] op[1] = "semi"  -> SemiWrite(m, op[2], op[3])
    [] op[1] = "cycle" -> CycleHalf(m, op[2])
    [] OTHER -> Fault(m)

Cost(op) == IF op[1] = "slow" THEN 2 ELSE 1

\* What a program in flash may hold: it stores to RAM (the flash takes its
\* commands), and neither a timer's period nor a clock is 0.
Legal(op) ==
  /\ op[1] \in {"store", "put"} => op[2] < FLASH_BASE
  /\ op[1] \in {"timer", "clock"} => op[2] \in Nat \ {0}

\* A halted CPU and a breakpoint of the semihosting port take a cycle.
Step(m) ==
  IF m.halt # "run" THEN [m EXCEPT !.cycles = @ + 1]
  ELSE IF Pc(m) \in m.bkpts THEN [m EXCEPT !.halt = "stop", !.cycles = @ + 1]
  ELSE [Execute(Fetch(m), [m EXCEPT !.regs["pc"] = @ + 1]) EXCEPT !.cycles = m.cycles + Cost(Fetch(m))]

-----------------------------------------------------------------------------
(* Peripherals                                                             *)

\* The first multiple of p after d that lies beyond c.
Following(d, p, c) == d + ((c - d) \div p + 1) * p

\* tick(): what is due has happened, and its interrupt wakes the CPU if the
\* program takes interrupts.
Ticked(m) ==
  LET timer == m.due # None /\ m.due <= m.cycles
      clock == m.rtc <= m.cycles
  IN [m EXCEPT !.due = IF timer THEN Following(@, m.period, m.cycles) ELSE @,
               !.rtc = IF clock THEN Following(@, RtcPeriod, m.cycles) ELSE @,
               !.halt = IF m.ie /\ (timer \/ clock) THEN "run" ELSE @]

\* The RTC's prescaler never stops, so there always is a wake point.
next_wake_cycle(m) == IF m.due = None THEN m.rtc ELSE AtMost(m.due, m.rtc)
sleep_wake_cycle(m) == m.rtc
Wake(m) == IF m.halt = "slp" THEN sleep_wake_cycle(m) ELSE next_wake_cycle(m)
=============================================================================
