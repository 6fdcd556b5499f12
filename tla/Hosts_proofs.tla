---------------------------- MODULE Hosts_proofs ----------------------------
(***************************************************************************)
(* Theorems about module Hosts, for every set of hosts, images, options    *)
(* and inputs that its assumptions allow.                                  *)
(*                                                                         *)
(* The lemmas come first: what an instruction and a tick change of the     *)
(* machine, and what they leave alone.  Each theorem then has an inductive *)
(* invariant of the hosts it is about; the steps of the others cannot      *)
(* happen there, for `at' is not where they start from.                    *)
(***************************************************************************)
EXTENDS Hosts, FiniteSetTheorems, TLAPS

-----------------------------------------------------------------------------
(* The machine                                                             *)

Fields == {"mem", "dirty", "regs", "halt", "fault", "strict", "cycles", "due", "period", "ie", "rtc", "hz",
           "lcd", "frame", "keys", "bkpts", "semi", "wps", "hit", "wp_cb", "gdb"}
SemiFields == {"result", "latched", "set_lo", "clr_lo", "stop"}
IsMachine(x) == DOMAIN x = Fields /\ DOMAIN x.semi = SemiFields

\* An instruction op takes machine x to y.  What no instruction changes.
Fixed(x, y) == /\ y.gdb = x.gdb /\ y.wp_cb = x.wp_cb /\ y.wps = x.wps /\ y.strict = x.strict
               /\ y.keys = x.keys /\ DOMAIN y.mem = DOMAIN x.mem
\* A result is written with the run's end, unless a debugger is there.
Judged(x, y) == (x.semi.stop => y.semi.stop) /\ (y.semi.result = x.semi.result \/ x.gdb \/ y.semi.stop)
\* The peripherals' events and the clock.
Scheduled(op, x, y) ==
  /\ y.rtc = x.rtc
  /\ \/ y.due = x.due /\ y.period = x.period
     \/ op[1] = "timer" /\ y.period = op[2] /\ y.due = x.cycles + op[2]
  /\ y.hz = x.hz \/ (op[1] = "clock" /\ y.hz = op[2])
\* Memory changes where a store goes, and where a flash sector becomes dirty.
Stored(op, x, y) ==
  /\ x.dirty \subseteq y.dirty
  /\ \A a \in DOMAIN x.mem :
       \/ y.mem[a] = x.mem[a]
       \/ (\E d : y.mem[a] = Data(d)) /\ (a \in y.dirty \/ (op[1] \in {"store", "put"} /\ a = op[2]))
Keeps(op, x, y) == IsMachine(y) /\ Fixed(x, y) /\ Judged(x, y) /\ Scheduled(op, x, y) /\ Stored(op, x, y)

\* Machines that differ in the registers, the halt and the semihosting port only.
Alike(x, y) ==
  /\ IsMachine(y) /\ Fixed(x, y) /\ y.mem = x.mem /\ y.dirty = x.dirty
  /\ y.cycles = x.cycles /\ y.rtc = x.rtc /\ y.due = x.due /\ y.period = x.period /\ y.hz = x.hz

\* fire_wp only records the hit and stops the CPU.
LEMMA FireWp ==
  ASSUME NEW x, IsMachine(x), NEW access, NEW addr, NEW op
  PROVE  Keeps(op, x, fire_wp(x, access, addr))  /\ fire_wp(x, access, addr).mem = x.mem
<1>1. \/ fire_wp(x, access, addr) = x
         \/ \E h : fire_wp(x, access, addr) = [x EXCEPT !.hit = h, !.halt = "stop"]
  BY Zenon DEF fire_wp
<1>2. CASE fire_wp(x, access, addr) = x BY <1>2 DEF Keeps, Fixed, Judged, Scheduled, Stored
<1>3. ASSUME NEW h, fire_wp(x, access, addr) = [x EXCEPT !.hit = h, !.halt = "stop"]
      PROVE Keeps(op, x, fire_wp(x, access, addr)) /\ fire_wp(x, access, addr).mem = x.mem
   BY <1>3 DEF Keeps, Fixed, Judged, Scheduled, Stored, IsMachine, Fields, SemiFields
<1> QED BY <1>1, <1>2, <1>3

\* Halt ends the run unless a debugger has the session.
LEMMA HaltIs ==
  ASSUME NEW x, IsMachine(x), NEW op
  PROVE  Keeps(op, x, Halt(x)) /\ (~x.gdb => Halt(x).semi.stop) /\ Halt(x).hit = x.hit
<1>1. ASSUME NEW h, NEW s, NEW y, y = [x EXCEPT !.halt = h, !.semi.stop = s], ~x.gdb => s, x.semi.stop => s
      PROVE Keeps(op, x, y) /\ (s => y.semi.stop) /\ y.hit = x.hit
   BY <1>1 DEF Keeps, Fixed, Judged, Scheduled, Stored, IsMachine, Fields, SemiFields
<1>2. \E h, s : Halt(x) = [x EXCEPT !.halt = h, !.semi.stop = s] /\ s = (x.semi.stop \/ ~x.gdb)
   <2> DEFINE h == IF x.halt = "run" THEN "stop" ELSE x.halt
              s == x.semi.stop \/ ~x.gdb
   <2>1. Halt(x) = [x EXCEPT !.halt = h, !.semi.stop = s]
      BY DEF Halt, IsMachine, Fields, SemiFields
   <2> HIDE DEF h
   <2> QED BY <2>1, Zenon
<1>3. PICK h, s : Halt(x) = [x EXCEPT !.halt = h, !.semi.stop = s] /\ s = (x.semi.stop \/ ~x.gdb)
   BY <1>2
<1>5. (~x.gdb => s) /\ (x.semi.stop => s) BY <1>3, Zenon
<1>4. Keeps(op, x, Halt(x)) /\ (s => Halt(x).semi.stop) /\ Halt(x).hit = x.hit
   <2>1. Halt(x) = [x EXCEPT !.halt = h, !.semi.stop = s]  BY <1>3
   <2> QED BY <1>1, <2>1, <1>5, Zenon
<1> QED BY <1>4, <1>5, Zenon

\* A breakpoint stops the CPU before its instruction.
LEMMA BreakpointKeeps ==
  ASSUME NEW x, IsMachine(x), NEW op, NEW port, NEW w
  PROVE  Keeps(op, x, SemiBreakpoint(x, port, w)) /\ SemiBreakpoint(x, port, w).hit = x.hit
<1> DEFINE y == SemiBreakpoint(x, port, w)
<1>1. \/ y = x
      \/ \E v : y = [x EXCEPT !.semi.set_lo = v]
      \/ \E v : y = [x EXCEPT !.semi.clr_lo = v]
      \/ \E v : y = [x EXCEPT !.bkpts = v]
   BY Zenon DEF SemiBreakpoint
<1> HIDE DEF y
<1>2. ASSUME NEW v, y = [x EXCEPT !.semi.set_lo = v] PROVE Keeps(op, x, y) /\ y.hit = x.hit
   BY <1>2 DEF Keeps, Fixed, Judged, Scheduled, Stored, IsMachine, Fields, SemiFields
<1>3. ASSUME NEW v, y = [x EXCEPT !.semi.clr_lo = v] PROVE Keeps(op, x, y) /\ y.hit = x.hit
   BY <1>3 DEF Keeps, Fixed, Judged, Scheduled, Stored, IsMachine, Fields, SemiFields
<1>4. ASSUME NEW v, y = [x EXCEPT !.bkpts = v] PROVE Keeps(op, x, y) /\ y.hit = x.hit
   BY <1>4 DEF Keeps, Fixed, Judged, Scheduled, Stored, IsMachine, Fields, SemiFields
<1>5. ASSUME y = x PROVE Keeps(op, x, y) /\ y.hit = x.hit
   BY <1>5 DEF Keeps, Fixed, Judged, Scheduled, Stored
<1>6. Keeps(op, x, y) /\ y.hit = x.hit BY <1>1, <1>2, <1>3, <1>4, <1>5, Zenon
<1> QED BY <1>6 DEF y

\* A store to flash leaves its sector dirty.
LEMMA StoreKeeps ==
  ASSUME NEW x, IsMachine(x), NEW op, op[1] \in {"store", "put"}, NEW d,
         NEW y, y = [fire_wp(x, "watch", op[2]) EXCEPT !.mem[op[2]] = Data(d)]
  PROVE  Keeps(op, x, y)
<1> DEFINE f == fire_wp(x, "watch", op[2])
<1>1. Keeps(op, x, f) /\ f.mem = x.mem BY FireWp
<1> HIDE DEF f
<1>2. y = [f EXCEPT !.mem[op[2]] = Data(d)] BY DEF f
<1>3. IsMachine(y) /\ Fixed(x, y) /\ Judged(x, y) /\ Scheduled(op, x, y)
   BY <1>1, <1>2 DEF Keeps, Fixed, Judged, Scheduled, IsMachine, Fields, SemiFields
<1>4. y.mem = [x.mem EXCEPT ![op[2]] = Data(d)] /\ y.dirty = f.dirty
   BY <1>1, <1>2 DEF Keeps, IsMachine, Fields
<1>5. Stored(op, x, y) BY <1>1, <1>4 DEF Keeps, Stored
<1> QED BY <1>3, <1>5 DEF Keeps

\* Each instruction keeps what Keeps says.
LEMMA ExecuteKeeps ==
  ASSUME NEW x, IsMachine(x), NEW op
  PROVE  Keeps(op, x, Execute(op, x))
<1> DEFINE y == Execute(op, x)
<1> USE DEF Keeps, Fixed, Judged, Scheduled, Stored, IsMachine, Fields, SemiFields
<1>1. CASE op[1] \in {"nop", "slow"} BY <1>1 DEF Execute
<1>2. CASE op[1] = "load"
  <2>1. y = [fire_wp(x, "rwatch", op[2]) EXCEPT !.regs["r0"] = x.mem[op[2]][2]] BY <1>2 DEF Execute
  <2> QED BY <2>1, FireWp
<1>3. CASE op[1] = "store"
  <2>1. y = [fire_wp(x, "watch", op[2]) EXCEPT !.mem[op[2]] = Data(op[3])] BY <1>3 DEF Execute
  <2> QED BY <1>3, <2>1, StoreKeeps
<1>4. CASE op[1] = "put"
  <2>1. y = [fire_wp(x, "watch", op[2]) EXCEPT !.mem[op[2]] = Data(x.regs["r0"])] BY <1>4 DEF Execute
  <2> QED BY <1>4, <2>1, StoreKeeps
<1>5. CASE op[1] = "program"
  <2>1. y = [x EXCEPT !.mem[op[2]] = Data(op[3]), !.dirty = @ \cup {op[2]}] BY <1>5 DEF Execute
  <2> QED BY <2>1
<1>6. CASE op[1] \in {"jump", "clock", "draw", "frame", "ei", "di", "hlt", "slp"} BY <1>6, ZenonT(60) DEF Execute
<1>7. CASE op[1] = "timer"
  BY <1>7 DEF Execute
<1>8. CASE op[1] = "soft" BY <1>8 DEF Execute, Fault
<1>9. CASE op[1] = "semi"
  <2>1. y = SemiWrite(x, op[2], op[3]) BY <1>9 DEF Execute
  <2>2. CASE op[2] = "TEST_RESULT"
    <3> DEFINE z == [x EXCEPT !.semi.result = op[3]]
    <3>1. y = Halt(z) BY <2>1, <2>2 DEF SemiWrite
    <3>2. Alike(x, z) /\ (x.semi.stop => z.semi.stop) BY DEF Alike
    <3> HIDE DEF z
    <3>3. Keeps(op, z, y) /\ (~x.gdb => y.semi.stop) BY <3>1, <3>2, HaltIs DEF Alike
    <3> QED BY <3>2, <3>3 DEF Alike
  <2>3. CASE op[2] # "TEST_RESULT"
    BY <2>1, <2>3, BreakpointKeeps DEF SemiWrite
  <2> QED BY <2>2, <2>3
<1>10. CASE op[1] = "cycle" BY <1>10 DEF Execute, CycleHalf
<1>11. CASE op[1] \notin {"nop", "slow", "load", "store", "put", "program", "jump", "clock", "draw", "frame",
                             "ei", "di", "hlt", "slp", "timer", "soft", "semi", "cycle"}
  BY <1>11 DEF Execute, Fault
<1> QED BY <1>1, <1>2, <1>3, <1>4, <1>5, <1>6, <1>7, <1>8, <1>9, <1>10, <1>11

\* One Cpu::step, with its breakpoint and its cycle.
LEMMA StepKeeps ==
  ASSUME NEW x, IsMachine(x)
  PROVE  /\ Keeps(Fetch(x), x, Step(x))
         /\ Step(x).cycles \in {x.cycles + 1, x.cycles + 2}
<1> DEFINE op == Fetch(x)
           z == [x EXCEPT !.regs["pc"] = @ + 1]
           e == Execute(op, z)
           w == IF op[1] = "slow" THEN x.cycles + 2 ELSE x.cycles + 1
<1>1. CASE x.halt # "run"
   <2>1. Step(x) = [x EXCEPT !.cycles = @ + 1] BY <1>1 DEF Step
   <2> QED BY <2>1 DEF Keeps, Fixed, Judged, Scheduled, Stored, IsMachine, Fields, SemiFields
<1>2. CASE x.halt = "run" /\ Pc(x) \in x.bkpts
   <2>1. Step(x) = [x EXCEPT !.halt = "stop", !.cycles = @ + 1] BY <1>2 DEF Step
   <2> QED BY <2>1 DEF Keeps, Fixed, Judged, Scheduled, Stored, IsMachine, Fields, SemiFields
<1>3. CASE x.halt = "run" /\ Pc(x) \notin x.bkpts
   <2>1. Step(x) = [e EXCEPT !.cycles = w] BY <1>3 DEF Step, Cost
   <2>2. Alike(x, z) /\ z.semi = x.semi
      BY DEF Alike, Fixed, IsMachine, Fields, SemiFields
   <2>3. w \in {x.cycles + 1, x.cycles + 2} OBVIOUS
   <2> HIDE DEF z, w, op
   <2>4. Keeps(op, z, e) BY <2>2, ExecuteKeeps DEF Alike
   <2> HIDE DEF e
   <2>5. Keeps(op, x, e) BY <2>2, <2>4 DEF Alike, Keeps, Fixed, Judged, Scheduled, Stored
   <2> DEFINE y == [e EXCEPT !.cycles = w]
   <2>6. IsMachine(y) BY <2>5 DEF Keeps, IsMachine, Fields
   <2>7. Keeps(op, x, y) /\ y.cycles = w
      BY <2>5, <2>6 DEF Keeps, Fixed, Judged, Scheduled, Stored, IsMachine, Fields
   <2> QED BY <2>1, <2>3, <2>7 DEF op
<1> QED BY <1>1, <1>2, <1>3

\* A machine that was switched on has every field.
LEMMA PowerOnIs ==
  ASSUME NEW mem, NEW gdb
  PROVE  /\ IsMachine(PowerOn(mem, gdb)) /\ PowerOn(mem, gdb).gdb = gdb
         /\ PowerOn(mem, gdb).semi.result = None
BY DEF IsMachine, PowerOn, Fields, SemiFields

\* A tick moves the events and wakes the CPU; it touches nothing else.
LEMMA TickedKeeps ==
  ASSUME NEW x, IsMachine(x)
  PROVE  /\ IsMachine(Ticked(x)) /\ Fixed(x, Ticked(x))
         /\ Ticked(x).semi = x.semi /\ Ticked(x).gdb = x.gdb
         /\ Ticked(x).cycles = x.cycles
         /\ Ticked(x).mem = x.mem /\ Ticked(x).dirty = x.dirty
<1>2. \E d, r, h : Ticked(x) = [x EXCEPT !.due = d, !.rtc = r, !.halt = h]
   BY Zenon DEF Ticked
<1>3. PICK d, r, h : Ticked(x) = [x EXCEPT !.due = d, !.rtc = r, !.halt = h] BY <1>2
<1> DEFINE y == Ticked(x)
<1>4. y = [x EXCEPT !.due = d, !.rtc = r, !.halt = h] BY <1>3
<1> HIDE DEF y
<1>5. /\ IsMachine(y) /\ Fixed(x, y)
      /\ y.semi = x.semi /\ y.gdb = x.gdb /\ y.cycles = x.cycles /\ y.mem = x.mem /\ y.dirty = x.dirty
   BY <1>4 DEF Fixed, IsMachine, Fields, SemiFields
<1> QED BY <1>5 DEF y

VerdictInv ==
  (Kind("bare") /\ ~host.gdb) =>
    /\ at \in {"start", "loading", "segments", "boot", "run", "halted", "done"}
    /\ IsMachine(m) /\ ~m.gdb
    /\ verdict = m.semi.result
    /\ verdict # None => m.semi.stop
    /\ at \in {"start", "loading", "segments", "boot"} => verdict = None
    /\ (at = "done" /\ verdict # None) => (code = 0 <=> verdict = 0 /\ ~m.fault)

\* No program has run yet.
LEMMA VerdictInit == Init => VerdictInv
<1> SUFFICES ASSUME Init, Kind("bare"), ~host.gdb PROVE VerdictInv  BY DEF VerdictInv
<1>1. at = "start" /\ verdict = None BY DEF Init, BareInit, Kind
<1>2. IsMachine(m) /\ m.gdb = FALSE /\ m.semi.result = None BY PowerOnIs DEF Init, BootInit
<1> QED BY <1>1, <1>2 DEF VerdictInv, Kind

\* What was started stays what it is.
LEMMA HostStays == [Next]_vars => host' = host
    BY DEF Next, vars, LoadPfi, OpenPfi, ReadChunk, EndLoad, BareStep, OpenElf, ReadSegment, EndElf,
          BeginBare, Signal, BareInstruction, LeaveBurst, EndBare, GdbStep, ClientSend, Accept, Receive,
          Skip, HandlePacket, BeginRun, RunInstruction, EndRun, ReceiveMore, Disconnect, HeadlessStep,
          ParseScript, BeginHeadless, BeginFrame, HeadlessJump, HeadlessBurst, HeadlessInstruction,
          HeadlessTick, Interrupted, NoFrame, EndFrame, RetroStep, LoadGame, RestoreSave, NoSave,
          BeginRetroRun, RetroBurst, RetroInstruction, RetroTick, RetroWake, EndRetroRun, RetroReset,
          Unload, PfarStep, OpenImage, AddFile, DelFile, Extract, DumpDir, EndCommand, LastCommand,
          Change, Done, baseVars

\* Only an instruction sets a verdict, and it ends the run.
LEMMA VerdictStep ==
  ASSUME VerdictInv, [Next]_vars
  PROVE  VerdictInv'
<1> SUFFICES ASSUME Kind("bare"), ~host.gdb, host' = host
             PROVE  VerdictInv'
   <2>1. host' = host BY HostStays
   <2>2. Kind("bare")' => Kind("bare") BY <2>1 DEF Kind
   <2>3. (~host.gdb)' => ~host.gdb BY <2>1
   <2> QED BY <2>1, <2>2, <2>3 DEF VerdictInv
<1> USE DEF VerdictInv
<1>0. at \in {"start", "loading", "segments", "boot", "run", "halted", "done"} OBVIOUS
<1>1. CASE UNCHANGED vars
  BY <1>1 DEF vars, baseVars, bareVars, Kind
<1>2. CASE OpenPfi /\ UNCHANGED bareVars
  BY <1>2, PowerOnIs DEF OpenPfi, bareVars, Exit, Kind
<1>3. CASE ReadChunk /\ UNCHANGED bareVars
  <2>1. \/ UNCHANGED m /\ Exit(1)
        \/ (\E mem : m' = [m EXCEPT !.mem = mem]) /\ at' = at
     BY <1>3, Zenon DEF ReadChunk
  <2> QED BY <1>3, <2>1 DEF ReadChunk, bareVars, Exit, Kind, IsMachine, Fields, SemiFields
<1>4. CASE EndLoad /\ UNCHANGED bareVars
  <2>1. \/ UNCHANGED m /\ Exit(1)
        \/ (\E pc : m' = [m EXCEPT !.regs["pc"] = pc]) /\ at' = "boot"
     BY <1>4, Zenon DEF EndLoad, AtResetVector
  <2> QED BY <1>4, <2>1 DEF EndLoad, bareVars, Exit, Kind, IsMachine, Fields, SemiFields
<1>5. CASE OpenElf \/ ReadSegment \/ EndElf
  <2>1. verdict' = verdict /\ verdict = None
     BY <1>5 DEF OpenElf, ReadSegment, EndElf, bareVars
  <2>2. \/ UNCHANGED m /\ Exit(1)
        \/ (\E mem : m' = PowerOn(mem, host.gdb)) /\ at' = "segments"
        \/ (\E mem : m' = [m EXCEPT !.mem = mem]) /\ at' = at
        \/ (\E pc : m' = [m EXCEPT !.regs["pc"] = pc]) /\ at' = "boot"
     BY <1>5, Zenon DEF OpenElf, ReadSegment, EndElf
  <2> QED BY <2>1, <2>2, PowerOnIs DEF Exit, Kind, IsMachine, Fields, SemiFields
<1>6. CASE BeginBare \/ Signal \/ LeaveBurst
  BY <1>6 DEF BeginBare, Signal, LeaveBurst, bareVars, baseVars, Kind
<1>7. CASE BareInstruction
  <2> DEFINE s == Step(m)
  <2>1. at = "run" /\ ~m.semi.stop /\ m' = Ticked(s) /\ at' \in {"run", "halted"}
        /\ verdict' = IF verdict = None THEN m'.semi.result ELSE verdict
     BY <1>7 DEF BareInstruction, Stopped
  <2>2. Keeps(Fetch(m), m, s) BY StepKeeps
  <2> HIDE DEF s
  <2>3. IsMachine(s) /\ ~s.gdb /\ (s.semi.result = m.semi.result \/ s.semi.stop)
     BY <2>2 DEF Keeps, Fixed, Judged
  <2>4. IsMachine(m') /\ m'.gdb = s.gdb /\ m'.semi = s.semi BY <2>1, <2>3, TickedKeeps
  <2> QED BY <2>1, <2>3, <2>4 DEF Kind
<1>8. CASE EndBare
  <2> DEFINE z == [m EXCEPT !.cycles = next_wake_cycle(m)]
  <2>1. \/ UNCHANGED m /\ Exit(ExitCode)
        \/ m' = Ticked(z) /\ at' = "run"
     BY <1>8 DEF EndBare
  <2>2. verdict' = verdict BY <1>8 DEF EndBare
  <2>3. IsMachine(z) /\ z.gdb = m.gdb /\ z.semi = m.semi BY DEF IsMachine, Fields, SemiFields
  <2> HIDE DEF z
  <2>4. CASE m' = Ticked(z) /\ at' = "run"
     BY <2>2, <2>3, <2>4, TickedKeeps DEF Kind
  <2>5. CASE UNCHANGED m /\ Exit(ExitCode)
     BY <2>2, <2>5 DEF Exit, ExitCode, Kind
  <2> QED BY <2>1, <2>4, <2>5
<1>9. ~GdbStep /\ ~ClientSend
  BY <1>0
     DEF GdbStep, ClientSend, Accept, Receive, Skip, HandlePacket, BeginRun, RunInstruction, EndRun,
        ReceiveMore, Disconnect
<1>10. ~HeadlessStep
  BY <1>0
     DEF HeadlessStep, ParseScript, BeginHeadless, BeginFrame, HeadlessJump, HeadlessBurst,
        HeadlessInstruction, HeadlessTick, Interrupted, NoFrame, EndFrame, Kind
<1>11. ~RetroStep
  BY <1>0
     DEF RetroStep, LoadGame, RestoreSave, NoSave, BeginRetroRun, RetroBurst, RetroInstruction,
        RetroTick, RetroWake, EndRetroRun, RetroReset, Unload, Kind
<1>12. CASE PfarStep /\ UNCHANGED bareVars
  BY <1>0, <1>12
     DEF PfarStep, OpenImage, AddFile, DelFile, Extract, DumpDir, EndCommand, LastCommand, Change,
        Running, baseVars, bareVars, Kind
<1>13. CASE Done BY <1>1, <1>13 DEF Done
<1> QED
   BY <1>1, <1>2, <1>3, <1>4, <1>5, <1>6, <1>7, <1>8, <1>9, <1>10, <1>11, <1>12, <1>13
      DEF Next, LoadPfi, BareStep

\* The exit code of main.cpp is that of the first TEST_RESULT the program wrote:
\* the write raises SemiState's stop with the result, no timer or RTC event
\* resumes the program behind it, and every loop looks at it before the next
\* instruction.
THEOREM VerdictsStand == Spec => []VerdictStands
<1>1. VerdictInv => VerdictStands BY DEF VerdictInv, VerdictStands
<1> QED BY <1>1, VerdictInit, VerdictStep, PTL DEF Spec

-----------------------------------------------------------------------------
(* Theorem: the reads of the cycle count agree                             *)

\* A machine that can read the cycle count.
Counts(x) == IsMachine(x) /\ "r0" \in DOMAIN x.regs

\* What op does to the snapshot of the cycle count: a read of its first half takes
\* it, a read of any half is cut from it, and nothing else touches it.
Latches(op, x, y) ==
  /\ Counts(y)
  /\ op[1] # "cycle" => y.semi.latched = x.semi.latched
  /\ op[1] = "cycle" =>
       /\ y.semi.latched = IF op[2] = 0 THEN x.cycles ELSE x.semi.latched
       /\ y.regs["r0"] = (y.semi.latched \div HALF ^ op[2]) % HALF

\* Watchpoints have nothing to do with it.
LEMMA FireCounts ==
  ASSUME NEW x, Counts(x), NEW access, NEW addr
  PROVE  LET y == fire_wp(x, access, addr) IN Counts(y) /\ y.semi = x.semi
<1> DEFINE y == fire_wp(x, access, addr)
<1>1. y = x \/ \E h : y = [x EXCEPT !.hit = h, !.halt = "stop"]
  BY Zenon DEF fire_wp
<1> HIDE DEF y
<1>2. ASSUME y = x PROVE Counts(y) /\ y.semi = x.semi BY <1>2, Zenon
<1>3. ASSUME NEW h, y = [x EXCEPT !.hit = h, !.halt = "stop"] PROVE Counts(y) /\ y.semi = x.semi
  BY <1>3 DEF Counts, IsMachine, Fields, SemiFields
<1>4. Counts(y) /\ y.semi = x.semi BY <1>1, <1>2, <1>3, Zenon
<1> QED BY <1>4 DEF y

\* The semihosting port's other registers have nothing to do with it.
LEMMA SemiCounts ==
  ASSUME NEW x, Counts(x), NEW port, NEW w
  PROVE  LET y == SemiWrite(x, port, w) IN Counts(y) /\ y.semi.latched = x.semi.latched
<1> DEFINE y == SemiWrite(x, port, w)
<1>1. CASE port = "TEST_RESULT"
  <2> DEFINE z == [x EXCEPT !.semi.result = w]
  <2>1. y = Halt(z) BY <1>1 DEF SemiWrite
  <2>2. Counts(z) /\ z.semi.latched = x.semi.latched BY DEF Counts, IsMachine, Fields, SemiFields
  <2> HIDE DEF z, y
  <2>3. \E h, s : y = [z EXCEPT !.halt = h, !.semi.stop = s] BY <2>1, Zenon DEF Halt
  <2>4. Counts(y) /\ y.semi.latched = z.semi.latched
     BY <2>2, <2>3 DEF Counts, IsMachine, Fields, SemiFields
  <2> QED BY <2>2, <2>4 DEF y
<1>2. CASE port # "TEST_RESULT"
  <2>1. y = SemiBreakpoint(x, port, w) BY <1>2 DEF SemiWrite
  <2>2. \/ y = x
        \/ \E v : y = [x EXCEPT !.semi.set_lo = v]
        \/ \E v : y = [x EXCEPT !.semi.clr_lo = v]
        \/ \E v : y = [x EXCEPT !.bkpts = v]
     BY <2>1, Zenon DEF SemiBreakpoint
  <2> HIDE DEF y
  <2>3. Counts(y) /\ y.semi.latched = x.semi.latched BY <2>2 DEF Counts, IsMachine, Fields, SemiFields
  <2> QED BY <2>3 DEF y
<1> QED BY <1>1, <1>2

\* Each instruction.
LEMMA ExecuteLatches ==
  ASSUME NEW x, Counts(x), NEW op
  PROVE  Latches(op, x, Execute(op, x))
<1> DEFINE y == Execute(op, x)
<1> SUFFICES Latches(op, x, y) OBVIOUS
<1>1. CASE op[1] = "load"
  <2> DEFINE f == fire_wp(x, "rwatch", op[2])
  <2>1. y = [f EXCEPT !.regs["r0"] = x.mem[op[2]][2]] BY <1>1 DEF Execute
  <2>2. Counts(f) /\ f.semi = x.semi BY FireCounts, Zenon
  <2> HIDE DEF f, y
  <2> QED BY <1>1, <2>1, <2>2 DEF Latches, Counts, IsMachine, Fields
<1>2. CASE op[1] \in {"store", "put"}
  <2> DEFINE f == fire_wp(x, "watch", op[2])
  <2>1. \E d : y = [f EXCEPT !.mem[op[2]] = d] BY <1>2 DEF Execute
  <2>2. Counts(f) /\ f.semi = x.semi BY FireCounts, Zenon
  <2> HIDE DEF f, y
  <2> QED BY <1>2, <2>1, <2>2 DEF Latches, Counts, IsMachine, Fields
<1>3. CASE op[1] = "semi"
  <2>1. y = SemiWrite(x, op[2], op[3]) BY <1>3 DEF Execute
  <2>2. Counts(y) /\ y.semi.latched = x.semi.latched BY <2>1, SemiCounts
  <2> HIDE DEF y
  <2> QED BY <1>3, <2>2 DEF Latches
<1>4. CASE op[1] = "cycle"
  <2> DEFINE s == IF op[2] = 0 THEN x.cycles ELSE x.semi.latched
             v == (s \div HALF ^ op[2]) % HALF
  <2>1. y = [x EXCEPT !.semi.latched = s, !.regs["r0"] = v] BY <1>4 DEF Execute, CycleHalf
  <2> HIDE DEF s, v, y
  <2>2. Counts(y) /\ y.semi.latched = s /\ y.regs["r0"] = v
     BY <2>1 DEF Counts, IsMachine, Fields, SemiFields
  <2> QED BY <1>4, <2>2 DEF Latches, s, v
<1>5. CASE op[1] \notin {"load", "store", "put", "semi", "cycle"}
  <2>1. \/ y = x
        \/ \E a, d : y = [x EXCEPT !.mem[a] = d, !.dirty = @ \cup {a}]
        \/ \E v : y = [x EXCEPT !.regs["pc"] = v]
        \/ y = Fault(x)
        \/ \E v : y = [x EXCEPT !.halt = v]
        \/ \E v, w : y = [x EXCEPT !.period = v, !.due = w]
        \/ \E v : y = [x EXCEPT !.ie = v]
        \/ \E v : y = [x EXCEPT !.hz = v]
        \/ \E v : y = [x EXCEPT !.lcd = v]
        \/ y = [x EXCEPT !.frame = TRUE]
     BY <1>5, Zenon DEF Execute
  <2> HIDE DEF y
  <2>2. ASSUME NEW a, NEW d, y = [x EXCEPT !.mem[a] = d, !.dirty = @ \cup {a}] PROVE Counts(y) /\ y.semi = x.semi
     BY <2>2 DEF Counts, IsMachine, Fields
  <2>3. ASSUME NEW v, y = [x EXCEPT !.regs["pc"] = v] PROVE Counts(y) /\ y.semi = x.semi
     BY <2>3 DEF Counts, IsMachine, Fields
  <2>4. ASSUME y = Fault(x) PROVE Counts(y) /\ y.semi = x.semi
     BY <2>4 DEF Counts, IsMachine, Fields, Fault
  <2>5. ASSUME NEW v, y = [x EXCEPT !.halt = v] PROVE Counts(y) /\ y.semi = x.semi
     BY <2>5 DEF Counts, IsMachine, Fields
  <2>6. ASSUME NEW v, NEW w, y = [x EXCEPT !.period = v, !.due = w] PROVE Counts(y) /\ y.semi = x.semi
     BY <2>6 DEF Counts, IsMachine, Fields
  <2>7. ASSUME NEW v, y = [x EXCEPT !.ie = v] PROVE Counts(y) /\ y.semi = x.semi
     BY <2>7 DEF Counts, IsMachine, Fields
  <2>8. ASSUME NEW v, y = [x EXCEPT !.hz = v] PROVE Counts(y) /\ y.semi = x.semi
     BY <2>8 DEF Counts, IsMachine, Fields
  <2>9. ASSUME NEW v, y = [x EXCEPT !.lcd = v] PROVE Counts(y) /\ y.semi = x.semi
     BY <2>9 DEF Counts, IsMachine, Fields
  <2>10. ASSUME y = [x EXCEPT !.frame = TRUE] PROVE Counts(y) /\ y.semi = x.semi
     BY <2>10 DEF Counts, IsMachine, Fields
  <2>11. Counts(y) /\ y.semi = x.semi
     BY <2>1, <2>2, <2>3, <2>4, <2>5, <2>6, <2>7, <2>8, <2>9, <2>10, Zenon
  <2> QED BY <1>5, <2>11 DEF Latches
<1> QED BY <1>1, <1>2, <1>3, <1>4, <1>5

\* A machine that was switched on can.
LEMMA PowerOnCounts ==
  ASSUME NEW mem, NEW gdb
  PROVE  Counts(PowerOn(mem, gdb))
<1>1. "r0" \in {RegNames[i] : i \in DOMAIN RegNames} BY GuestAssumption
<1>2. DOMAIN PowerOn(mem, gdb).regs = {RegNames[i] : i \in DOMAIN RegNames} BY DEF PowerOn
<1> QED BY <1>1, <1>2, PowerOnIs DEF Counts

\* One Cpu::step of a running CPU: what a breakpoint stops has not happened.
LEMMA StepLatches ==
  ASSUME NEW x, Counts(x), x.halt = "run"
  PROVE  Latches(IF Pc(x) \in x.bkpts THEN <<"bkpt">> ELSE Fetch(x), x, Step(x))
<1> DEFINE op == Fetch(x)
           z == [x EXCEPT !.regs["pc"] = @ + 1]
           e == Execute(op, z)
           w == x.cycles + Cost(op)
<1>1. CASE Pc(x) \in x.bkpts
   <2> DEFINE y == [x EXCEPT !.halt = "stop", !.cycles = @ + 1]
   <2>1. Step(x) = y BY <1>1 DEF Step
   <2>2. Counts(y) /\ y.semi = x.semi BY DEF Counts, IsMachine, Fields
   <2> HIDE DEF y
   <2>3. Latches(<<"bkpt">>, x, y) BY <2>2 DEF Latches
   <2> QED BY <1>1, <2>1, <2>3
<1>2. CASE Pc(x) \notin x.bkpts
   <2>1. Step(x) = [e EXCEPT !.cycles = w] BY <1>2 DEF Step
   <2>2. Counts(z) /\ z.semi = x.semi /\ z.cycles = x.cycles BY DEF Counts, IsMachine, Fields
   <2> HIDE DEF z, w, op
   <2>3. Latches(op, z, e) BY <2>2, ExecuteLatches
   <2> HIDE DEF e
   <2> DEFINE y == [e EXCEPT !.cycles = w]
   <2>4. Counts(y) /\ y.semi = e.semi /\ y.regs = e.regs BY <2>3 DEF Latches, Counts, IsMachine, Fields
   <2> HIDE DEF y
   <2>5. Latches(op, x, y) BY <2>2, <2>3, <2>4 DEF Latches
   <2> QED BY <1>2, <2>1, <2>5 DEF op, y
<1> QED BY <1>1, <1>2

\* A tick leaves the registers and the semihosting port alone.
LEMMA TickedCounts ==
  ASSUME NEW x, Counts(x)
  PROVE  Counts(Ticked(x)) /\ Ticked(x).semi = x.semi /\ Ticked(x).regs = x.regs
<1> DEFINE y == Ticked(x)
<1>1. \E d, r, h : y = [x EXCEPT !.due = d, !.rtc = r, !.halt = h] BY Zenon DEF Ticked
<1> HIDE DEF y
<1>2. PICK d, r, h : y = [x EXCEPT !.due = d, !.rtc = r, !.halt = h] BY <1>1
<1>3. Counts(y) /\ y.semi = x.semi /\ y.regs = x.regs BY <1>2 DEF Counts, IsMachine, Fields
<1> QED BY <1>3 DEF y

\* The count that was read last is the snapshot of the semihosting port, and the
\* halves read since are cut from it.  Before the program runs none is.
CycleInv ==
  (Kind("bare") /\ ~host.gdb) =>
    /\ Counts(m)
    /\ at \in {"start", "loading", "segments", "boot"} => began = None
    /\ began # None =>
         /\ m.semi.latched = began
         /\ \A i \in DOMAIN halves : halves[i] = (began \div HALF ^ i) % HALF

\* Nothing has been read.
LEMMA CycleInit == Init => CycleInv
<1> SUFFICES ASSUME Init PROVE CycleInv OBVIOUS
<1>1. Counts(m) BY PowerOnCounts DEF Init, BootInit
<1>2. began = None BY DEF Init, BareInit
<1> QED BY <1>1, <1>2 DEF CycleInv

\* A machine before its program runs.
LEMMA LoadCounts ==
  ASSUME NEW x, Counts(x), NEW y, NEW v,
         y = [x EXCEPT !.mem = v] \/ y = [x EXCEPT !.regs["pc"] = v] \/ y = [x EXCEPT !.cycles = v]
  PROVE  Counts(y) /\ y.semi = x.semi
<1>1. CASE y = [x EXCEPT !.mem = v] BY <1>1 DEF Counts, IsMachine, Fields
<1>2. CASE y = [x EXCEPT !.regs["pc"] = v] BY <1>2 DEF Counts, IsMachine, Fields
<1>3. CASE y = [x EXCEPT !.cycles = v] BY <1>3 DEF Counts, IsMachine, Fields
<1> QED BY <1>1, <1>2, <1>3

\* Only an instruction of the program reads the count.
LEMMA CycleStep ==
  ASSUME VerdictInv, CycleInv, [Next]_vars
  PROVE  CycleInv'
<1> SUFFICES ASSUME Kind("bare"), ~host.gdb, host' = host
             PROVE  CycleInv'
   <2>1. host' = host BY HostStays
   <2>2. Kind("bare")' => Kind("bare") BY <2>1 DEF Kind
   <2>3. (~host.gdb)' => ~host.gdb BY <2>1
   <2> QED BY <2>1, <2>2, <2>3 DEF CycleInv
<1>0. /\ at \in {"start", "loading", "segments", "boot", "run", "halted", "done"}
      /\ Counts(m)
   BY DEF VerdictInv, CycleInv
<1>a. ASSUME UNCHANGED <<began, halves>>, Counts(m'), m'.semi = m.semi,
             at' \in {"start", "loading", "segments", "boot"} => began = None
      PROVE CycleInv'
   BY <1>a DEF CycleInv
<1>b. ASSUME UNCHANGED <<began, halves>>, Counts(m'), began = None
      PROVE CycleInv'
   BY <1>b DEF CycleInv
<1>1. CASE UNCHANGED vars
  BY <1>1, <1>0 DEF CycleInv, vars, baseVars, bareVars, Kind
<1>2. CASE OpenPfi /\ UNCHANGED bareVars
  <2>1. at = "start" /\ (UNCHANGED m \/ \E mem : m' = PowerOn(mem, host.gdb)) BY <1>2, Zenon DEF OpenPfi
  <2>2. Counts(m') BY <1>0, <2>1, PowerOnCounts, Zenon
  <2> QED BY <1>2, <2>1, <2>2, <1>b DEF CycleInv, bareVars
<1>3. CASE ReadChunk /\ UNCHANGED bareVars
  <2>1. at = "loading" /\ (UNCHANGED m \/ \E mem : m' = [m EXCEPT !.mem = mem]) BY <1>3, Zenon DEF ReadChunk
  <2>2. Counts(m') BY <1>0, <2>1, LoadCounts, Zenon
  <2> QED BY <1>3, <2>1, <2>2, <1>b DEF CycleInv, bareVars
<1>4. CASE EndLoad /\ UNCHANGED bareVars
  <2>1. at = "loading" /\ (UNCHANGED m \/ \E pc : m' = [m EXCEPT !.regs["pc"] = pc])
     BY <1>4, Zenon DEF EndLoad, AtResetVector
  <2>2. Counts(m') BY <1>0, <2>1, LoadCounts, Zenon
  <2> QED BY <1>4, <2>1, <2>2, <1>b DEF CycleInv, bareVars
<1>5. CASE OpenElf \/ ReadSegment \/ EndElf
  <2>1. at \in {"start", "segments"} /\ UNCHANGED <<began, halves>>
     BY <1>5 DEF OpenElf, ReadSegment, EndElf, bareVars
  <2>2. \/ UNCHANGED m
        \/ \E mem : m' = PowerOn(mem, host.gdb)
        \/ \E mem : m' = [m EXCEPT !.mem = mem]
        \/ \E pc : m' = [m EXCEPT !.regs["pc"] = pc]
     BY <1>5, Zenon DEF OpenElf, ReadSegment, EndElf
  <2>3. ASSUME NEW mem, m' = PowerOn(mem, host.gdb) PROVE Counts(m') BY <2>3, PowerOnCounts, Zenon
  <2>4. ASSUME NEW mem, m' = [m EXCEPT !.mem = mem] PROVE Counts(m') BY <1>0, <2>4, LoadCounts, Zenon
  <2>5. ASSUME NEW pc, m' = [m EXCEPT !.regs["pc"] = pc] PROVE Counts(m') BY <1>0, <2>5, LoadCounts, Zenon
  <2>6. Counts(m') BY <1>0, <2>2, <2>3, <2>4, <2>5, Zenon
  <2> QED BY <2>1, <2>6, <1>b DEF CycleInv
<1>6. CASE BeginBare \/ Signal \/ LeaveBurst
  <2>1. m' = m /\ UNCHANGED <<began, halves>> /\ (at' = at \/ at' \in {"run", "halted", "accept"})
     BY <1>6 DEF BeginBare, Signal, LeaveBurst, bareVars, baseVars
  <2> QED BY <2>1, <1>0, <1>a DEF CycleInv
<1>7. CASE BareInstruction
  <2> DEFINE op == Executed
             s == Step(m)
             first == op[1] = "cycle" /\ op[2] = 0
             before == IF first THEN {} ELSE DOMAIN halves
  <2>1. /\ m' = Ticked(s) /\ m.halt = "run" /\ at' \in {"run", "halted"}
        /\ began' = IF first THEN m.cycles ELSE began
        /\ halves' = IF op[1] # "cycle" THEN halves
                     ELSE [i \in before \cup {op[2]} |-> IF i = op[2] THEN m'.regs["r0"] ELSE halves[i]]
     BY <1>7 DEF BareInstruction, Runnable
  <2>2. Latches(op, m, s) BY <1>0, <2>1, StepLatches DEF Executed
  <2> HIDE DEF op, s
  <2>3. Counts(s) BY <2>2 DEF Latches
  <2>4. Counts(m') /\ m'.semi = s.semi /\ m'.regs = s.regs BY <2>1, <2>3, TickedCounts
  <2>5. began # None => m.semi.latched = began /\ \A i \in DOMAIN halves : halves[i] = (began \div HALF ^ i) % HALF
     BY DEF CycleInv
  <2>6. began' # None =>
          m'.semi.latched = began' /\ \A i \in DOMAIN halves' : halves'[i] = (began' \div HALF ^ i) % HALF
     <3> SUFFICES ASSUME began' # None
                  PROVE  /\ m'.semi.latched = began'
                         /\ \A i \in DOMAIN halves' : halves'[i] = (began' \div HALF ^ i) % HALF
        OBVIOUS
     <3>1. CASE op[1] # "cycle" BY <3>1, <2>1, <2>2, <2>4, <2>5 DEF Latches
     <3>2. CASE first
       <4>1. began' = m.cycles /\ halves' = [i \in {op[2]} |-> m'.regs["r0"]] BY <2>1, <3>2
       <4>2. m'.semi.latched = began' /\ m'.regs["r0"] = (began' \div HALF ^ op[2]) % HALF
          BY <3>2, <4>1, <2>2, <2>4 DEF Latches
       <4> QED BY <4>1, <4>2
     <3>3. CASE op[1] = "cycle" /\ op[2] # 0
       <4>1. /\ began' = began
             /\ halves' = [i \in DOMAIN halves \cup {op[2]} |-> IF i = op[2] THEN m'.regs["r0"] ELSE halves[i]]
          BY <2>1, <3>3
       <4>2. m'.semi.latched = began' /\ m'.regs["r0"] = (began' \div HALF ^ op[2]) % HALF
          BY <3>3, <4>1, <2>2, <2>4, <2>5 DEF Latches
       <4>3. \A i \in DOMAIN halves : halves[i] = (began' \div HALF ^ i) % HALF BY <4>1, <2>5
       <4> QED BY <4>1, <4>2, <4>3
     <3> QED BY <3>1, <3>2, <3>3
  <2> QED BY <2>1, <2>4, <2>6 DEF CycleInv
<1>8. CASE EndBare
  <2> DEFINE z == [m EXCEPT !.cycles = next_wake_cycle(m)]
  <2>1. UNCHANGED m \/ m' = Ticked(z) BY <1>8 DEF EndBare
  <2>2. UNCHANGED <<began, halves>> /\ at' \in {"done", "run"} BY <1>8 DEF EndBare, Exit
  <2>3. Counts(z) /\ z.semi = m.semi BY <1>0, LoadCounts
  <2> HIDE DEF z
  <2>4. Counts(m') /\ m'.semi = m.semi BY <1>0, <2>1, <2>3, TickedCounts
  <2> QED BY <2>2, <2>4, <1>a
<1>9. ~GdbStep /\ ~ClientSend
  BY <1>0
     DEF GdbStep, ClientSend, Accept, Receive, Skip, HandlePacket, BeginRun, RunInstruction, EndRun,
        ReceiveMore, Disconnect
<1>10. ~HeadlessStep
  BY <1>0
     DEF HeadlessStep, ParseScript, BeginHeadless, BeginFrame, HeadlessJump, HeadlessBurst,
        HeadlessInstruction, HeadlessTick, Interrupted, NoFrame, EndFrame, Kind
<1>11. ~RetroStep
  BY <1>0
     DEF RetroStep, LoadGame, RestoreSave, NoSave, BeginRetroRun, RetroBurst, RetroInstruction,
        RetroTick, RetroWake, EndRetroRun, RetroReset, Unload, Kind
<1>12. ~PfarStep
  BY <1>0
     DEF PfarStep, OpenImage, AddFile, DelFile, Extract, DumpDir, EndCommand, LastCommand, Change,
        Running, Kind
<1>13. CASE Done BY <1>1, <1>13 DEF Done
<1> QED
   BY <1>1, <1>2, <1>3, <1>4, <1>5, <1>6, <1>7, <1>8, <1>9, <1>10, <1>11, <1>12, <1>13
      DEF Next, LoadPfi, BareStep

\* The halves of CYCLE_COUNT a program reads behind a read of the first are those
\* of one number, the count at that read: nothing between them takes a snapshot,
\* neither an instruction nor a tick nor a jump to a wake point.
THEOREM CycleReadsAreOne == Spec => []CycleReadsAgree
<1>1. CycleInv => CycleReadsAgree BY DEF CycleInv, CycleReadsAgree
<1> QED BY <1>1, VerdictInit, VerdictStep, CycleInit, CycleStep, PTL DEF Spec

-----------------------------------------------------------------------------
(* Theorem: ticks are timely                                               *)

\* What a machine's clock holds, and its program.
Timed(x) ==
  /\ IsMachine(x)
  /\ x.cycles \in Nat /\ x.rtc \in Int /\ x.due \in Int
  /\ x.due # None => x.period \in Nat \ {0}
  /\ x.hz \in Nat \ {0}
IsMemory(mem) == DOMAIN mem \subseteq Int /\ \A a \in DOMAIN mem : Legal(mem[a])
LegalProgram(x) == IsMemory(x.mem)

\* The clocks of the assumptions, for citing.
LEMMA PeriodsArePositive == RtcPeriod \in Nat \ {0} /\ ResetHz \in Nat \ {0}
BY GuestAssumption

\* Data are no instruction.
LEMMA DataIsLegal == \A d : Legal(Data(d))
BY DEF Legal, Data

\* A legal memory has legal programs only.
LEMMA FetchIsLegal ==
  ASSUME NEW x, LegalProgram(x)
  PROVE  Legal(Fetch(x))
BY DataIsLegal DEF LegalProgram, IsMemory, Fetch

\* An instruction brings no event forward but to a later cycle.
LEMMA StepIsTimed ==
  ASSUME NEW x, Timed(x), LegalProgram(x)
  PROVE  /\ Timed(Step(x)) /\ LegalProgram(Step(x))
         /\ \A t \in Int : (t <= next_wake_cycle(x) /\ t <= x.cycles + 1) => t <= next_wake_cycle(Step(x))
<1> DEFINE y == Step(x)
           op == Fetch(x)
<1>1. Legal(op) BY FetchIsLegal
<1>2. Keeps(op, x, y) /\ y.cycles \in {x.cycles + 1, x.cycles + 2} BY StepKeeps DEF Timed
<1> HIDE DEF y, op
<1>3. LegalProgram(y) BY <1>2, DataIsLegal DEF LegalProgram, IsMemory, Keeps, Fixed, Stored
<1>4. Timed(y)
   BY <1>1, <1>2 DEF Timed, Keeps, Scheduled, Legal
<1>5. ASSUME NEW t \in Int, t <= next_wake_cycle(x), t <= x.cycles + 1
      PROVE  t <= next_wake_cycle(y)
   BY <1>1, <1>2, <1>5 DEF Timed, Keeps, Scheduled, Legal, next_wake_cycle, AtMost
<1> QED BY <1>3, <1>4, <1>5 DEF y

\* A timer's next match comes behind the tick.
LEMMA FollowingIsLater ==
  ASSUME NEW d \in Int, NEW c \in Int, NEW p \in Nat \ {0}, d <= c
  PROVE  Following(d, p, c) \in Int /\ Following(d, p, c) > c
<1>1. PICK x \in Nat : x = c - d OBVIOUS
<1>2. PICK q \in Nat, r \in Nat : q = x \div p /\ x = q * p + r /\ r < p
   <2>1. x \div p \in Nat /\ x = (x \div p) * p + (x % p) /\ x % p \in 0 .. p - 1 OBVIOUS
   <2> QED BY <2>1
<1>3. q * p \in Int /\ (q + 1) * p = q * p + p OBVIOUS
<1>4. Following(d, p, c) = d + (q + 1) * p BY <1>1, <1>2 DEF Following
<1> QED BY <1>1, <1>2, <1>3, <1>4

\* Behind a tick every event lies ahead.
LEMMA TickedIsTimed ==
  ASSUME NEW x, Timed(x)
  PROVE  /\ Timed(Ticked(x)) /\ next_wake_cycle(Ticked(x)) \in Int
         /\ next_wake_cycle(Ticked(x)) > x.cycles
         /\ LegalProgram(x) => LegalProgram(Ticked(x))
<1> DEFINE y == Ticked(x)
<1>1. IsMachine(y) /\ y.cycles = x.cycles /\ y.mem = x.mem
   BY TickedKeeps DEF Timed
<1>2. /\ y.due = IF x.due # None /\ x.due <= x.cycles THEN Following(x.due, x.period, x.cycles) ELSE x.due
      /\ y.rtc = IF x.rtc <= x.cycles THEN Following(x.rtc, RtcPeriod, x.cycles) ELSE x.rtc
      /\ y.period = x.period /\ y.hz = x.hz
   BY DEF Ticked, Timed, IsMachine, Fields
<1> HIDE DEF y
<1>0. RtcPeriod \in Nat \ {0} BY PeriodsArePositive
<1>3. y.rtc \in Int /\ y.rtc > x.cycles
   <2>1. CASE x.rtc <= x.cycles
      <3>1. x.rtc \in Int /\ x.cycles \in Int BY DEF Timed
      <3>2. Following(x.rtc, RtcPeriod, x.cycles) \in Int /\ Following(x.rtc, RtcPeriod, x.cycles) > x.cycles
         BY <1>0, <2>1, <3>1, FollowingIsLater
      <3> QED BY <1>2, <2>1, <3>2
   <2>2. CASE ~(x.rtc <= x.cycles) BY <1>2, <2>2 DEF Timed
   <2> QED BY <2>1, <2>2
<1>4. y.due \in Int /\ (y.due # None => x.due # None /\ y.due > x.cycles)
   BY <1>2, FollowingIsLater DEF Timed
<1>5. Timed(y) BY <1>1, <1>2, <1>3, <1>4 DEF Timed
<1>6. next_wake_cycle(y) \in Int /\ next_wake_cycle(y) > x.cycles
   BY <1>3, <1>4 DEF next_wake_cycle, AtMost
<1> QED BY <1>1, <1>5, <1>6 DEF y, LegalProgram

\* The events of x are known and their program is a legal one; b is the burst
\* the last tick chose the next one by.
Ticking(x, b) ==
  /\ Timed(x) /\ LegalProgram(x)
  /\ next_timer_wake \in Int /\ late.next \in Int
  /\ next_timer_wake <= late.next + b.least - 1
  /\ next_timer_wake <= next_wake_cycle(x) + b.most - 1
  /\ next_timer_wake <= x.cycles + b.most

\* A tick within a burst of next_timer_wake is timely, and so is the next.
LEMMA DoTickIsTimely ==
  ASSUME NEW x, Timed(x), LegalProgram(x), late.next \in Int,
         NEW b, b.least \in Nat \ {0}, b.most \in Nat, b.least <= b.most,
         NEW k \in Nat, NEW a \in Nat,
         (x.halt # "slp" /\ next_wake_cycle(x) <= late.next) => x.cycles - late.next <= k,
         x.halt # "slp" => x.cycles - next_wake_cycle(x) <= a,
         do_tick(x, b)
  PROVE  /\ late'.known <= k /\ late'.any <= a /\ late'.known \in Int /\ late'.any \in Int
         /\ m'.cycles = x.cycles /\ m'.cycles < next_timer_wake' /\ DOMAIN m'.mem = DOMAIN x.mem
         /\ Ticking(m, b)'
<1> DEFINE y == Ticked(x)
           w == next_wake_cycle(y)
<1>1. Timed(y) /\ w \in Int /\ w > x.cycles /\ LegalProgram(y) BY TickedIsTimed
<1>2. y.cycles = x.cycles /\ y.mem = x.mem BY TickedKeeps DEF Timed
<1>3. m' = y /\ next_timer_wake' = Clamp(w, x.cycles + b.least, x.cycles + b.most) /\ late'.next = w
   BY <1>2 DEF do_tick, TimerWake
<1>4. next_wake_cycle(x) \in Int /\ x.cycles \in Int BY DEF Timed, next_wake_cycle, AtMost
<1>5. late'.known <= k /\ late'.any <= a /\ late'.known \in Int /\ late'.any \in Int
   BY <1>4 DEF do_tick, Lateness
<1> HIDE DEF y, w
<1>6. /\ next_timer_wake' \in Int /\ x.cycles < next_timer_wake'
      /\ next_timer_wake' <= w + b.least - 1 /\ next_timer_wake' <= w + b.most - 1
      /\ next_timer_wake' <= x.cycles + b.most
   BY <1>1, <1>3, <1>4 DEF Clamp
<1>7. next_wake_cycle(m') = w BY <1>3 DEF w
<1> QED BY <1>1, <1>2, <1>3, <1>5, <1>6, <1>7 DEF Ticking

\* Machines that differ in neither clock nor memory.
LEMMA TickingAlike ==
  ASSUME NEW x, NEW b, Ticking(x, b), NEW y, Alike(x, y)
  PROVE  Ticking(y, b) /\ next_wake_cycle(y) = next_wake_cycle(x)
BY DEF Ticking, Timed, LegalProgram, Alike, next_wake_cycle

\* An instruction begun before the wake point ends at most a cycle behind it.
LEMMA StepIsTicking ==
  ASSUME NEW x, NEW b, Ticking(x, b), x.cycles < next_timer_wake, b.most \in Nat
  PROVE  /\ Ticking(Step(x), b) /\ Step(x).cycles <= next_timer_wake + 1 /\ Step(x).cycles > 0
         /\ DOMAIN Step(x).mem = DOMAIN x.mem
<1> DEFINE y == Step(x)
           t == next_timer_wake - b.most + 1
<1>1. Timed(y) /\ LegalProgram(y) BY StepIsTimed DEF Ticking
<1>2. y.cycles \in {x.cycles + 1, x.cycles + 2} /\ DOMAIN y.mem = DOMAIN x.mem
   BY StepKeeps DEF Ticking, Timed, Keeps, Fixed
<1>3. next_wake_cycle(x) \in Int /\ next_wake_cycle(y) \in Int /\ x.cycles \in Nat
   BY <1>1 DEF Ticking, Timed, next_wake_cycle, AtMost
<1>4. t \in Int /\ t <= next_wake_cycle(x) /\ t <= x.cycles + 1 BY <1>3 DEF Ticking
<1>5. t <= next_wake_cycle(y) BY <1>4, StepIsTimed DEF Ticking
<1> HIDE DEF y
<1>6. Ticking(y, b) BY <1>1, <1>2, <1>3, <1>5 DEF Ticking
<1>7. y.cycles <= next_timer_wake + 1 /\ y.cycles > 0 BY <1>2, <1>3 DEF Ticking
<1> QED BY <1>2, <1>6, <1>7 DEF y

-----------------------------------------------------------------------------
(* What a load leaves                                                      *)

\* An empty memory is a legal one.
LEMMA AddressesAreInts ==
  ASSUME NEW size \in Int
  PROVE  IsMemory(Blank(size))
<1>1. Iram \subseteq Int /\ Sram \subseteq Int /\ Flash(size) \subseteq Int
   BY LoadersAssumption DEF Iram, Sram, Flash
<1>2. \A a \in DOMAIN Blank(size) : \E d : Blank(size)[a] = Data(d)
   BY DEF Blank, ERASED
<1>3. DOMAIN Blank(size) \subseteq Int BY <1>1 DEF Blank
<1> QED BY <1>2, <1>3, DataIsLegal DEF IsMemory

\* load_image brings legal instructions to a legal memory.
LEMMA LoadImageIsLegal ==
  ASSUME NEW mem, IsMemory(mem), NEW offset \in Int, NEW from \in Int, NEW n \in Int,
         NEW bytes, \A i \in from + 1 .. from + n : Legal(bytes[i])
  PROVE  IsMemory(load_image(mem, offset, bytes, from, n)) /\ DOMAIN load_image(mem, offset, bytes, from, n) = DOMAIN mem
<1> DEFINE r == load_image(mem, offset, bytes, from, n)
<1>1. DOMAIN r = DOMAIN mem BY DEF load_image
<1>2. ASSUME NEW a \in DOMAIN mem PROVE Legal(r[a])
   <2>1. a \in Int /\ FLASH_BASE \in Int BY LoadersAssumption DEF IsMemory
   <2>2. CASE Covers(FLASH_BASE + offset, n, a)
      <3>1. from + 1 + a - FLASH_BASE - offset \in from + 1 .. from + n BY <2>1, <2>2 DEF Covers
      <3>2. r[a] = bytes[from + 1 + a - FLASH_BASE - offset] BY <2>2 DEF load_image
      <3> QED BY <3>1, <3>2
   <2>3. CASE ~Covers(FLASH_BASE + offset, n, a)
      BY <2>3 DEF load_image, IsMemory
   <2> QED BY <2>2, <2>3
<1> HIDE DEF r
<1> QED BY <1>1, <1>2 DEF IsMemory, r

\* Every flash part has a size.
LEMMA PartsAreInts == \A n : for_min_bytes(n) \in Nat \ {0}
<1>1. Parts \in Seq(Nat \ {0}) /\ Parts # << >> BY LoadersAssumption
<1>2. Parts[1] \in Nat \ {0} /\ Parts[Len(Parts)] \in Nat \ {0} BY <1>1
<1> QED BY <1>2 DEF for_min_bytes

\* What the assumptions say of a host that ticks in bursts.
IsBurst(b) == b \in host.bursts /\ b.least \in Nat \ {0} /\ b.most \in Nat /\ b.least <= b.most
IsImage(image) ==
  /\ image.offset \in Nat /\ image.flash_size \in Nat /\ Len(image.bytes) \in Nat
  /\ \A i \in 1 .. Len(image.bytes) : Legal(image.bytes[i])

\* What the assumptions say of a host that ticks in bursts.
LEMMA HostIsAsAssumed ==
  ASSUME host \in HostSet
  PROVE  /\ Kind("headless") => IsBurst(host.burst)
         /\ Kind("libretro") => \A o \in host.options : IsBurst(Burst(o.burst, 4 * o.burst))
         /\ Kind("headless") \/ Kind("libretro") => IsImage(host.image) /\ ~host.elf
<1>0. Kind("headless") \/ Kind("libretro") => ~host.elf BY HostsAssumption DEF Kind
<1>1. \A b \in host.bursts : b.least \in Nat \ {0} /\ b.most \in Nat /\ b.least <= b.most
   BY HostsAssumption
<1>2. Kind("headless") => host.burst \in host.bursts BY HostsAssumption DEF Kind
<1>3. Kind("libretro") => \A o \in host.options : Burst(o.burst, 4 * o.burst) \in host.bursts
   BY HostsAssumption DEF Kind
<1>4. ASSUME Kind("headless") \/ Kind("libretro") PROVE IsImage(host.image)
   <2>1. /\ host.image.offset \in Nat /\ host.image.flash_size \in Nat
         /\ host.image.bytes \in Seq(Range(host.image.bytes))
         /\ \A i \in DOMAIN host.image.bytes : Legal(host.image.bytes[i])
      BY <1>4, HostsAssumption DEF Kind
   <2>2. Len(host.image.bytes) \in Nat /\ DOMAIN host.image.bytes = 1 .. Len(host.image.bytes) BY <2>1
   <2> QED BY <2>1, <2>2 DEF IsImage
<1> QED BY <1>0, <1>1, <1>2, <1>3, <1>4 DEF IsBurst

\* A chunk lies within the file.
LEMMA ChunkIsLegal ==
  ASSUME NEW image, IsImage(image), NEW t \in Nat, ChunkLength(image, t) > 0
  PROVE  /\ ChunkLength(image, t) \in Nat
         /\ \A i \in image.offset + t + 1 .. image.offset + t + ChunkLength(image, t) : Legal(image.bytes[i])
<1> DEFINE n == ChunkLength(image, t)
<1>1. CHUNK \in Nat BY LoadersAssumption
<1>2. PICK off \in Nat, len \in Nat, size \in Nat :
        off = image.offset /\ len = Len(image.bytes) /\ size = image.flash_size
   BY DEF IsImage
<1>3. n = AtMost(AtMost(CHUNK, size - t), (IF off > len THEN 0 ELSE len - off) - t)
   BY <1>2 DEF ChunkLength, Available
<1>4. n \in Int /\ n <= (IF off > len THEN 0 ELSE len - off) - t BY <1>1, <1>3 DEF AtMost
<1> HIDE DEF n
<1>5. n > 0 BY DEF n
<1>6. n \in Nat /\ off + t + n <= len BY <1>4, <1>5
<1>7. \A i \in off + t + 1 .. off + t + n : i \in 1 .. len BY <1>6
<1>8. \A i \in 1 .. len : Legal(image.bytes[i]) BY <1>2 DEF IsImage
<1>9. n \in Nat /\ \A i \in off + t + 1 .. off + t + n : Legal(image.bytes[i]) BY <1>6, <1>7, <1>8
<1> QED BY <1>2, <1>9 DEF n

HeadlessInv ==
  Kind("headless") =>
    /\ host \in HostSet
    /\ at \in {"script", "start", "loading", "boot", "frame", "outer", "burst", "done"}
    /\ late.known <= host.burst.least /\ late.any <= host.burst.most
    /\ at \in {"script", "start", "loading", "boot"} =>
         next_timer_wake = 0 /\ late.next = RtcPeriod /\ total \in Nat
    /\ at \in {"loading", "boot"} =>
         Timed(m) /\ LegalProgram(m) /\ m.cycles = 0 /\ next_wake_cycle(m) = RtcPeriod
    /\ at \in {"frame", "outer", "burst"} =>
         /\ Ticking(m, host.burst)
         /\ m.cycles <= next_timer_wake + 1
         /\ at = "burst" => stop = next_timer_wake
         /\ at # "burst" => (m.cycles < next_timer_wake \/ m.fault)

\* A machine that was switched on waits for the RTC.
LEMMA PowerOnIsTimed ==
  ASSUME NEW mem, NEW gdb
  PROVE  /\ Timed(PowerOn(mem, gdb)) /\ PowerOn(mem, gdb).cycles = 0
         /\ next_wake_cycle(PowerOn(mem, gdb)) = RtcPeriod
         /\ PowerOn(mem, gdb).mem = mem
<1> DEFINE x == PowerOn(mem, gdb)
<1>1. /\ x.cycles = 0 /\ x.rtc = RtcPeriod /\ x.due = None /\ x.hz = ResetHz /\ x.mem = mem
   BY DEF PowerOn
<1>2. IsMachine(x) BY PowerOnIs
<1> HIDE DEF x
<1>3. Timed(x) BY <1>1, <1>2, PeriodsArePositive DEF Timed, None
<1>4. next_wake_cycle(x) = RtcPeriod BY <1>1 DEF next_wake_cycle
<1> QED BY <1>1, <1>3, <1>4 DEF x

\* The headless runner starts in its invariant ...
LEMMA HeadlessInitInv == Init => HeadlessInv
<1> SUFFICES ASSUME Init, Kind("headless") PROVE HeadlessInv BY DEF HeadlessInv
<1>1. host \in HostSet /\ at = "script" BY DEF Init
<1>2. next_timer_wake = 0 /\ late = [known |-> 0, any |-> 0, next |-> RtcPeriod] /\ total = 0
   BY DEF Init, BootInit
<1>3. IsBurst(host.burst) BY <1>1, HostIsAsAssumed
<1> QED BY <1>1, <1>2, <1>3 DEF HeadlessInv, IsBurst

\* ... and no step leaves it.
LEMMA HeadlessStepInv ==
  ASSUME HeadlessInv, [Next]_vars
  PROVE  HeadlessInv'
<1> SUFFICES ASSUME Kind("headless"), host' = host
             PROVE  HeadlessInv'
   <2>1. host' = host BY HostStays
   <2>2. Kind("headless")' => Kind("headless") BY <2>1 DEF Kind
   <2> QED BY <2>1, <2>2 DEF HeadlessInv
<1> DEFINE b == host.burst
<1>0. /\ at \in {"script", "start", "loading", "boot", "frame", "outer", "burst", "done"}
      /\ host \in HostSet /\ late.known <= b.least /\ late.any <= b.most
   BY DEF HeadlessInv
<1>b. IsBurst(b) /\ IsImage(host.image) /\ ~host.elf BY <1>0, HostIsAsAssumed
<1>k. ~Kind("bare") /\ ~Kind("libretro") /\ ~Kind("pfar") BY DEF Kind
<1>1. CASE UNCHANGED vars
  BY <1>1 DEF vars, baseVars, bootVars, tickVars, Kind, HeadlessInv, Ticking
<1>2. CASE OpenPfi
  <2> DEFINE mem == Blank(Part)
             x == PowerOn(mem, host.gdb)
  <2>1. at = "start" /\ UNCHANGED <<total, next_timer_wake, late>> BY <1>2 DEF OpenPfi, tickVars
  <2>2. CASE Exit(1)
     BY <1>0, <2>1, <2>2 DEF HeadlessInv, Exit, Kind
  <2>3. CASE m' = x /\ at' = "loading"
     <3>1. IsMemory(mem) BY PartsAreInts, AddressesAreInts DEF Part
     <3>2. Timed(x) /\ LegalProgram(x) /\ x.cycles = 0 /\ next_wake_cycle(x) = RtcPeriod
        BY <3>1, PowerOnIsTimed DEF LegalProgram
     <3> HIDE DEF x
     <3> QED BY <1>0, <2>1, <2>3, <3>2 DEF HeadlessInv, Kind
  <2> QED BY <1>2, <2>2, <2>3 DEF OpenPfi
<1>3. CASE ReadChunk
  <2> DEFINE n == ChunkLength(host.image, total)
             mem == load_image(m.mem, total, host.image.bytes, host.image.offset + total, n)
  <2>1. at = "loading" /\ n > 0 /\ UNCHANGED <<next_timer_wake, late>> BY <1>3 DEF ReadChunk, tickVars
  <2>2. total \in Nat /\ Timed(m) /\ LegalProgram(m) /\ m.cycles = 0 /\ next_wake_cycle(m) = RtcPeriod
     BY <2>1 DEF HeadlessInv
  <2>3. CASE Exit(1)
     BY <1>0, <2>1, <2>3 DEF HeadlessInv, Exit, Kind
  <2>4. CASE m' = [m EXCEPT !.mem = mem] /\ total' = total + n /\ at' = at
     <3>1. /\ n \in Nat
           /\ \A i \in host.image.offset + total + 1 .. host.image.offset + total + n : Legal(host.image.bytes[i])
        BY <1>b, <2>1, <2>2, ChunkIsLegal
     <3>2. host.image.offset + total \in Int /\ IsMemory(m.mem) BY <1>b, <2>2 DEF LegalProgram, IsImage
     <3> HIDE DEF n
     <3>3. IsMemory(mem) BY <2>2, <3>1, <3>2, LoadImageIsLegal
     <3> HIDE DEF mem
     <3>4. Timed(m') /\ LegalProgram(m') /\ m'.cycles = 0 /\ next_wake_cycle(m') = RtcPeriod
        BY <2>2, <2>4, <3>3 DEF Timed, LegalProgram, next_wake_cycle, IsMachine, Fields
     <3> QED BY <1>0, <2>1, <2>2, <2>4, <3>1, <3>4 DEF HeadlessInv, Kind
  <2> QED BY <1>3, <2>3, <2>4 DEF ReadChunk
<1>4. CASE EndLoad
  <2>1. at = "loading" /\ UNCHANGED <<total, next_timer_wake, late>> BY <1>4 DEF EndLoad, tickVars
  <2>2. Timed(m) /\ LegalProgram(m) /\ m.cycles = 0 /\ next_wake_cycle(m) = RtcPeriod
     BY <2>1 DEF HeadlessInv
  <2>3. CASE Exit(1)
     BY <1>0, <2>1, <2>3 DEF HeadlessInv, Exit, Kind
  <2>4. CASE m' = AtResetVector(m) /\ at' = "boot"
     <3>1. Alike(m, m')
        BY <2>2, <2>4 DEF AtResetVector, Alike, Fixed, Timed, IsMachine, Fields, SemiFields
     <3>2. Timed(m') /\ LegalProgram(m') /\ m'.cycles = 0 /\ next_wake_cycle(m') = RtcPeriod
        BY <2>2, <3>1 DEF Timed, LegalProgram, Alike, next_wake_cycle
     <3> QED BY <1>0, <2>1, <2>4, <3>2 DEF HeadlessInv, Kind
  <2> QED BY <1>4, <2>3, <2>4 DEF EndLoad
<1>5. CASE ParseScript
  BY <1>0, <1>5 DEF ParseScript, HeadlessInv, Exit, tickVars, Kind
<1>6. CASE BeginHeadless
  <2>1. at = "boot" /\ at' = "frame" /\ late' = late /\ m' = [m EXCEPT !.keys = {}]
        /\ next_timer_wake' = TimerWake(m, b)
     BY <1>6 DEF BeginHeadless
  <2>2. Timed(m) /\ LegalProgram(m) /\ m.cycles = 0 /\ next_wake_cycle(m) = RtcPeriod /\ late.next = RtcPeriod
     BY <2>1 DEF HeadlessInv
  <2>3. Timed(m') /\ LegalProgram(m') /\ m'.cycles = 0 /\ next_wake_cycle(m') = RtcPeriod
     BY <2>1, <2>2 DEF Timed, LegalProgram, next_wake_cycle, IsMachine, Fields
  <2>4. next_timer_wake' = Clamp(RtcPeriod, b.least, b.most)
     BY <1>b, <2>1, <2>2 DEF TimerWake, IsBurst
  <2>5. /\ next_timer_wake' \in Nat /\ next_timer_wake' > 0
        /\ next_timer_wake' <= RtcPeriod + b.least - 1 /\ next_timer_wake' <= RtcPeriod + b.most - 1
        /\ next_timer_wake' <= b.most
     BY <1>b, <2>4, PeriodsArePositive DEF Clamp, IsBurst
  <2>6. Ticking(m, b)'
     BY <1>b, <2>1, <2>2, <2>3, <2>5, PeriodsArePositive DEF Ticking, IsBurst
  <2> QED BY <1>0, <2>1, <2>3, <2>5, <2>6 DEF HeadlessInv, Kind
<1>t. ASSUME at \in {"frame", "outer", "burst"}
      PROVE  Ticking(m, b) /\ m.cycles <= next_timer_wake + 1 /\ Timed(m)
   BY <1>t DEF HeadlessInv, Ticking
<1>7. CASE BeginFrame \/ NoFrame \/ EndFrame \/ Interrupted \/ HeadlessBurst
  <2>1. at \in {"frame", "outer"} /\ UNCHANGED <<next_timer_wake, late>>
     BY <1>0, <1>7 DEF BeginFrame, NoFrame, EndFrame, Interrupted, HeadlessBurst, baseVars, tickVars
  <2>2. m' = m \/ (\E k : m' = [m EXCEPT !.keys = k]) \/ m' = [m EXCEPT !.frame = FALSE]
     BY <1>7, Zenon DEF BeginFrame, NoFrame, EndFrame, Interrupted, HeadlessBurst, baseVars
  <2>3. /\ Ticking(m', b) /\ m'.cycles = m.cycles /\ m'.fault = m.fault
     BY <1>t, <2>1, <2>2 DEF Ticking, Timed, LegalProgram, next_wake_cycle, IsMachine, Fields
  <2>4. Ticking(m, b)' BY <2>1, <2>3 DEF Ticking
  <2>5. \/ at' = "done"
        \/ at' \in {"frame", "outer"}
        \/ at' = "burst" /\ stop' = next_timer_wake
     BY <2>1, <1>7
        DEF BeginFrame, NoFrame, EndFrame, Interrupted, HeadlessBurst, baseVars, HeadlessExit, Exit
  <2>6. m.cycles < next_timer_wake \/ m.fault BY <2>1 DEF HeadlessInv
  <2> QED BY <1>0, <1>t, <2>1, <2>3, <2>4, <2>5, <2>6 DEF HeadlessInv, Kind
<1>8. CASE HeadlessJump
  <2> DEFINE to == IF Wake(m) > m.cycles THEN Wake(m) ELSE m.cycles
             x == [m EXCEPT !.cycles = to]
  <2>1. at = "outer" /\ at' = at /\ ~m.fault /\ do_tick(x, b)
     BY <1>8 DEF HeadlessJump, Going
  <2>2. Ticking(m, b) /\ m.cycles < next_timer_wake BY <2>1 DEF HeadlessInv
  <2>3. /\ next_wake_cycle(m) \in Int /\ m.cycles \in Nat
        /\ Wake(m) \in Int /\ (m.halt # "slp" => Wake(m) = next_wake_cycle(m))
     BY <2>2 DEF Ticking, Timed, Wake, sleep_wake_cycle, next_wake_cycle, AtMost
  <2>4. to \in Nat BY <2>3
  <2>5. /\ Timed(x) /\ LegalProgram(x) /\ next_wake_cycle(x) = next_wake_cycle(m)
        /\ x.cycles = to /\ x.halt = m.halt
     BY <2>2, <2>4 DEF Ticking, Timed, LegalProgram, next_wake_cycle, IsMachine, Fields
  <2>6. /\ late.next \in Int
        /\ (m.halt # "slp" /\ next_wake_cycle(m) <= late.next) => to - late.next <= b.least
        /\ m.halt # "slp" => to - next_wake_cycle(m) <= b.most
     BY <1>b, <2>2, <2>3 DEF Ticking, IsBurst
  <2> HIDE DEF x, to
  <2>7. /\ late'.known <= b.least /\ late'.any <= b.most
        /\ m'.cycles < next_timer_wake' /\ Ticking(m, b)'
     BY <1>b, <2>1, <2>5, <2>6, DoTickIsTimely DEF IsBurst
  <2>8. m'.cycles <= next_timer_wake' + 1 BY <2>7 DEF Ticking, Timed
  <2> QED BY <1>0, <2>1, <2>7, <2>8 DEF HeadlessInv, Kind
<1>9. CASE HeadlessInstruction
  <2>1. at = "burst" /\ at' = at /\ m.cycles < stop /\ m' = Step(m) /\ UNCHANGED <<stop, next_timer_wake, late>>
     BY <1>9 DEF HeadlessInstruction, tickVars
  <2>2. Ticking(m, b) /\ stop = next_timer_wake BY <2>1 DEF HeadlessInv
  <2>3. Ticking(m', b) /\ m'.cycles <= next_timer_wake + 1
     BY <1>b, <2>1, <2>2, StepIsTicking DEF IsBurst
  <2>4. Ticking(m, b)' BY <2>1, <2>3 DEF Ticking
  <2> QED BY <1>0, <2>1, <2>2, <2>3, <2>4 DEF HeadlessInv, Kind
<1>10. CASE HeadlessTick
  <2>1. at = "burst" /\ at' = "outer" BY <1>10 DEF HeadlessTick
  <2>2. Ticking(m, b) /\ m.cycles <= next_timer_wake + 1 BY <1>t, <2>1
  <2>3. CASE do_tick(m, b)
     <3>1. next_wake_cycle(m) \in Int /\ m.cycles \in Nat
        BY <2>2 DEF Ticking, Timed, next_wake_cycle, AtMost
     <3>2. /\ late.next \in Int
           /\ m.cycles - late.next <= b.least /\ m.cycles - next_wake_cycle(m) <= b.most
        BY <1>b, <2>2, <3>1 DEF Ticking, IsBurst
     <3>3. /\ late'.known <= b.least /\ late'.any <= b.most
           /\ m'.cycles < next_timer_wake' /\ Ticking(m, b)'
        BY <1>b, <2>2, <2>3, <3>2, DoTickIsTimely DEF IsBurst, Ticking
     <3>4. m'.cycles <= next_timer_wake' + 1 BY <3>3 DEF Ticking, Timed
     <3> QED BY <1>0, <2>1, <3>3, <3>4 DEF HeadlessInv, Kind
  <2>4. CASE (m.fault \/ ~(m.cycles >= next_timer_wake)) /\ UNCHANGED <<m, next_timer_wake, late>>
     <3>1. Ticking(m, b)' BY <2>2, <2>4 DEF Ticking
     <3>2. m.cycles < next_timer_wake \/ m.fault BY <2>2, <2>4 DEF Ticking, Timed
     <3> QED BY <1>0, <2>1, <2>2, <2>4, <3>1, <3>2 DEF HeadlessInv, Kind
  <2> QED BY <1>10, <2>3, <2>4 DEF HeadlessTick
<1>11. ~BareStep
  BY <1>0, <1>b, <1>k
     DEF BareStep, OpenElf, ReadSegment, EndElf, BeginBare, Signal, BareInstruction, LeaveBurst, EndBare,
        GdbStep, ClientSend, Accept, Receive, Skip, HandlePacket, BeginRun, RunInstruction, EndRun,
        ReceiveMore, Disconnect
<1>12. ~RetroStep
  BY <1>0, <1>k
     DEF RetroStep, LoadGame, RestoreSave, NoSave, BeginRetroRun, RetroBurst, RetroInstruction,
        RetroTick, RetroWake, EndRetroRun, RetroReset, Unload
<1>13. ~PfarStep
  BY <1>0
     DEF PfarStep, OpenImage, AddFile, DelFile, Extract, DumpDir, EndCommand, LastCommand, Change,
        Running
<1>14. CASE Done BY <1>1, <1>14 DEF Done
<1> QED
  BY <1>1, <1>2, <1>3, <1>4, <1>5, <1>6, <1>7, <1>8, <1>9, <1>10, <1>11, <1>12, <1>13, <1>14
     DEF Next, LoadPfi, HeadlessStep

\* The save RAM: the image's flash under a header, good or not.
IsSave(s) == DOMAIN s = {"header", "flash"} /\ DOMAIN s.flash = FlashCells(host.image) /\ IsMemory(s.flash)

Playing == {"boot", "idle", "loop", "cpu", "wake"}

RetroInv ==
  Kind("libretro") =>
    /\ host \in HostSet
    /\ at \in {"start", "done"} \cup Playing
    /\ TicksAreTimely
    /\ store # << >> => IsSave(store)
    /\ at \in Playing =>
         /\ options \in host.options /\ cached_hz \in Nat \ {0}
         /\ IsSave(srm) /\ FlashCells(host.image) \subseteq DOMAIN m.mem
         /\ \E b \in host.bursts : Ticking(m, b)
         /\ m.cycles <= next_timer_wake + 1
    /\ at \in {"boot", "idle", "loop"} =>
         m.cycles < next_timer_wake \/ m.fault \/ (m.cycles = 0 /\ next_timer_wake = 0)
    /\ at = "wake" => m.cycles < next_timer_wake
    /\ at = "cpu" => stop \in Int /\ stop <= next_timer_wake
    /\ at \in {"loop", "cpu", "wake"} => target \in Nat \ {0}

\* A blob that loads makes a legal memory.
LEMMA BlobIsLegal ==
  ASSUME NEW image, IsImage(image), NEW mem, IsMemory(mem), pfi_load_blob(mem, image).ok
  PROVE  /\ IsMemory(pfi_load_blob(mem, image).mem)
         /\ DOMAIN pfi_load_blob(mem, image).mem = DOMAIN mem
<1> DEFINE n == AtMost(image.flash_size, Available(image))
           r == load_image(mem, 0, image.bytes, image.offset, n)
<1>1. pfi_load_blob(mem, image) = Loaded(r) BY DEF pfi_load_blob, Failed, Loaded
<1>2. PICK off \in Nat, len \in Nat, size \in Nat :
        off = image.offset /\ len = Len(image.bytes) /\ size = image.flash_size
   BY DEF IsImage
<1>3. n = AtMost(size, IF off > len THEN 0 ELSE len - off) BY <1>2 DEF Available
<1>4. n \in Nat /\ (n = 0 \/ off + n <= len) BY <1>3 DEF AtMost
<1> HIDE DEF n
<1>5. \A i \in off + 1 .. off + n : i \in 1 .. len BY <1>4
<1>6. \A i \in off + 1 .. off + n : Legal(image.bytes[i]) BY <1>2, <1>5 DEF IsImage
<1>7. IsMemory(r) /\ DOMAIN r = DOMAIN mem BY <1>2, <1>4, <1>6, LoadImageIsLegal, SMTT(60)
<1> HIDE DEF r
<1> QED BY <1>1, <1>7 DEF Loaded

\* Where a program starts: nothing has run.
LEMMA StartIsTicking ==
  ASSUME NEW x, Timed(x), LegalProgram(x), x.cycles = 0, next_wake_cycle(x) = RtcPeriod,
         NEW b, IsBurst(b), next_timer_wake = 0, late.next = RtcPeriod
  PROVE  Ticking(x, b)
BY PeriodsArePositive DEF Ticking, IsBurst

\* The same of the next state.
LEMMA StartIsTickingNext ==
  ASSUME Timed(m'), LegalProgram(m'), m'.cycles = 0, next_wake_cycle(m') = RtcPeriod,
         NEW b, IsBurst(b), next_timer_wake' = 0, late'.next = RtcPeriod
  PROVE  Ticking(m, b)'
BY PeriodsArePositive DEF Ticking, IsBurst

\* A timely tick of one burst is timely for the host.
LEMMA TimelyNext ==
  ASSUME Kind("libretro"), host' = host, NEW b, IsBurst(b), NEW c, IsBurst(c),
         late'.known <= b.least + c.least - 1, late'.any <= b.most + c.least - 1
  PROVE  TicksAreTimely'
BY DEF TicksAreTimely, IsBurst, Kind

\* The bound of a tick that came at its time.
LEMMA LateFits ==
  ASSUME NEW b, IsBurst(b), NEW c, IsBurst(c),
         late'.known \in Int, late'.any \in Int, late'.known <= b.least, late'.any <= b.most
  PROVE  late'.known <= b.least + c.least - 1 /\ late'.any <= b.most + c.least - 1
BY DEF IsBurst

\* Timeliness is about the last tick only.
LEMMA TimelyStays ==
  ASSUME TicksAreTimely, UNCHANGED <<host, late>>
  PROVE  TicksAreTimely'
BY DEF TicksAreTimely, Kind

IsReset(x, mem, d) == x = AtResetVector([PowerOn(mem, FALSE) EXCEPT !.dirty = d])

\* A reset machine waits for the RTC, its memory as it was.
LEMMA ResetIsTimed ==
  ASSUME NEW mem, IsMemory(mem), NEW d, NEW x, IsReset(x, mem, d)
  PROVE  Timed(x) /\ LegalProgram(x) /\ x.cycles = 0 /\ next_wake_cycle(x) = RtcPeriod /\ x.mem = mem /\ x.dirty = d
<1> DEFINE p == PowerOn(mem, FALSE)
           q == [p EXCEPT !.dirty = d]
<1>0. x = AtResetVector(q) BY DEF IsReset
<1>1. Timed(p) /\ LegalProgram(p) /\ p.cycles = 0 /\ next_wake_cycle(p) = RtcPeriod /\ p.mem = mem
   BY PowerOnIsTimed DEF LegalProgram
<1> HIDE DEF p
<1>2. Timed(q) /\ LegalProgram(q) /\ q.cycles = 0 /\ next_wake_cycle(q) = RtcPeriod /\ q.mem = mem /\ q.dirty = d
   BY <1>1 DEF Timed, LegalProgram, next_wake_cycle, IsMachine, Fields
<1> HIDE DEF q
<1>3. Timed(x) /\ LegalProgram(x) /\ x.cycles = 0 /\ next_wake_cycle(x) = RtcPeriod /\ x.mem = mem /\ x.dirty = d
   BY <1>0, <1>2 DEF AtResetVector, Timed, LegalProgram, next_wake_cycle, IsMachine, Fields
<1> QED BY <1>3

\* The restored save RAM changes the memory only.
LEMMA OverlaidIsTicking ==
  ASSUME NEW x, NEW b, Ticking(x, b), IsSave(srm)
  PROVE  /\ Ticking(Overlaid(x), b) /\ Overlaid(x).cycles = x.cycles /\ Overlaid(x).fault = x.fault
         /\ DOMAIN Overlaid(x).mem = DOMAIN x.mem /\ Overlaid(x).dirty = x.dirty
<1> DEFINE mem == [a \in DOMAIN x.mem |-> IF a \in DOMAIN srm.flash THEN srm.flash[a] ELSE x.mem[a]]
           y == [x EXCEPT !.mem = mem]
<1>1. Overlaid(x) = x \/ Overlaid(x) = y
   <2>1. IsMachine(x) BY DEF Ticking, Timed
   <2> QED BY <2>1, Zenon DEF Overlaid
<1>2. IsMemory(mem) /\ DOMAIN mem = DOMAIN x.mem BY DEF IsMemory, IsSave, Ticking, LegalProgram
<1> HIDE DEF mem
<1>3. /\ Ticking(y, b) /\ y.cycles = x.cycles /\ y.fault = x.fault /\ DOMAIN y.mem = DOMAIN x.mem /\ y.dirty = x.dirty
   BY <1>2 DEF Ticking, Timed, LegalProgram, next_wake_cycle, IsMachine, Fields
<1> QED BY <1>1, <1>3

\* The libretro core starts in its invariant ...
LEMMA RetroInitInv == Init => RetroInv
<1> SUFFICES ASSUME Init, Kind("libretro") PROVE RetroInv BY DEF RetroInv
<1>1. host \in HostSet /\ at = "start" BY DEF Init, Kind
<1>2. late.known = 0 /\ late.any = 0 /\ store = << >> BY DEF Init, BootInit, RetroInit
<1>3. \A b \in host.bursts : b.least \in Nat \ {0} /\ b.most \in Nat BY <1>1, HostsAssumption
<1>4. TicksAreTimely BY <1>2, <1>3 DEF TicksAreTimely, Kind
<1> QED BY <1>1, <1>2, <1>4 DEF RetroInv, Playing

\* ... and no call of the frontend leaves it.
LEMMA RetroStepInv ==
  ASSUME RetroInv, [Next]_vars
  PROVE  RetroInv'
<1> SUFFICES ASSUME Kind("libretro"), host' = host
             PROVE  RetroInv'
   <2>1. host' = host BY HostStays
   <2>2. Kind("libretro")' => Kind("libretro") BY <2>1 DEF Kind
   <2> QED BY <2>1, <2>2 DEF RetroInv
<1>0. /\ at \in {"start", "done"} \cup Playing
      /\ host \in HostSet /\ TicksAreTimely /\ (store # << >> => IsSave(store))
   BY DEF RetroInv
<1>b. /\ \A o \in host.options : IsBurst(Burst(o.burst, 4 * o.burst))
      /\ IsImage(host.image) /\ ~host.elf
   BY <1>0, HostIsAsAssumed
<1>p. ASSUME at \in Playing
      PROVE  /\ options \in host.options /\ IsBurst(burst) /\ cached_hz \in Nat \ {0}
             /\ IsSave(srm) /\ FlashCells(host.image) \subseteq DOMAIN m.mem
             /\ \E b : IsBurst(b) /\ Ticking(m, b)
             /\ m.cycles <= next_timer_wake + 1
   <2>1. \A b \in host.bursts : IsBurst(b) BY <1>0, HostsAssumption DEF IsBurst
   <2> QED BY <1>0, <1>b, <1>p, <2>1 DEF RetroInv, burst
<1>k. ~Kind("bare") /\ ~Kind("headless") /\ ~Kind("pfar") BY DEF Kind
<1>s. \A s : IsSave(s)' <=> IsSave(s) BY DEF IsSave
<1>1. CASE UNCHANGED vars
  <2>1. UNCHANGED <<host, at, m, next_timer_wake, stop, late, store, srm, options, cached_hz, target>>
     BY <1>1 DEF vars, baseVars, tickVars, retroVars, frontVars, coreVars
  <2>2. TicksAreTimely' BY <1>0, <2>1, TimelyStays
  <2> QED BY <2>1, <2>2 DEF RetroInv, Ticking, IsSave
<1>2. CASE LoadGame
  <2> DEFINE part == for_min_bytes(FlashSize(host.image))
             r == pfi_load_blob(PowerOn(Blank(part), FALSE).mem, host.image)
  <2>1. at = "start" /\ store' = store BY <1>2 DEF LoadGame
  <2>2. CASE Exit(1) /\ UNCHANGED late
     <3>1. TicksAreTimely' BY <1>0, <2>2, TimelyStays
     <3> QED BY <1>0, <1>s, <2>1, <2>2, <3>1 DEF RetroInv, Playing, Exit
  <2>3. CASE r.ok
     <3>1. /\ m' = AtResetVector(PowerOn(r.mem, FALSE))
           /\ srm' = [header |-> GoodHeader, flash |-> FlashOf(r.mem, FlashCells(host.image))]
           /\ cached_hz' = ResetHz /\ options' \in host.options /\ next_timer_wake' = 0
           /\ late' = [known |-> 0, any |-> 0, next |-> RtcPeriod] /\ at' = "boot"
        BY <1>2, <2>3 DEF LoadGame
     <3>2. PowerOn(Blank(part), FALSE).mem = Blank(part) BY PowerOnIsTimed
     <3>3. IsMemory(Blank(part)) BY PartsAreInts, AddressesAreInts
     <3>4. IsMemory(r.mem) /\ DOMAIN r.mem = DOMAIN Blank(part) BY <1>b, <2>3, <3>2, <3>3, BlobIsLegal
     <3>5. pfi_load_blob(Blank(part), host.image).ok => FlashCells(host.image) \subseteq Flash(part)
        BY <1>0, HostsAssumption DEF Kind
     <3>6. FlashCells(host.image) \subseteq DOMAIN r.mem BY <2>3, <3>2, <3>4, <3>5 DEF Blank
     <3> HIDE DEF r, part
     <3>7. IsSave(srm') BY <3>1, <3>4, <3>6 DEF IsSave, FlashOf, IsMemory
     <3>8. Timed(m') /\ LegalProgram(m') /\ m'.cycles = 0 /\ next_wake_cycle(m') = RtcPeriod /\ m'.mem = r.mem
        <4> DEFINE p == PowerOn(r.mem, FALSE)
        <4>1. Timed(p) /\ LegalProgram(p) /\ p.cycles = 0 /\ next_wake_cycle(p) = RtcPeriod /\ p.mem = r.mem
           BY <3>4, PowerOnIsTimed DEF LegalProgram
        <4>2. m' = AtResetVector(p) BY <3>1
        <4> HIDE DEF p
        <4> QED BY <4>1, <4>2 DEF AtResetVector, Timed, LegalProgram, next_wake_cycle, IsMachine, Fields
     <3>9. PICK b : IsBurst(b)
        <4> DEFINE o == options'.burst
                   c == Burst(o, 4 * o)
        <4>1. IsBurst(c) BY <1>b, <3>1
        <4> HIDE DEF c
        <4> QED BY <4>1
     <3>10. Ticking(m, b)' BY <3>1, <3>8, <3>9, StartIsTickingNext
     <3>11. TicksAreTimely'
        <4>1. late'.known <= b.least + b.least - 1 /\ late'.any <= b.most + b.least - 1
           BY <3>1, <3>9 DEF IsBurst
        <4> QED BY <3>9, <4>1, TimelyNext
     <3>12. /\ options' \in host.options /\ cached_hz' \in Nat \ {0} /\ FlashCells(host.image) \subseteq DOMAIN m'.mem
            /\ m'.cycles = 0 /\ next_timer_wake' = 0 /\ at' = "boot" /\ b \in host.bursts
        BY <3>1, <3>6, <3>8, <3>9, PeriodsArePositive DEF IsBurst
     <3> QED BY <1>0, <1>s, <2>1, <3>7, <3>10, <3>11, <3>12 DEF RetroInv, Playing
  <2> QED BY <1>2, <2>2, <2>3 DEF LoadGame
<1>3. CASE RestoreSave \/ NoSave
  <2>1. /\ at = "boot" /\ at' = "idle"
        /\ UNCHANGED <<m, next_timer_wake, stop, late, store, options, cached_hz>>
     BY <1>3 DEF RestoreSave, NoSave, tickVars, retroVars, frontVars, coreVars
  <2>2. srm' = srm \/ (store # << >> /\ (srm' = store \/ srm' = [store EXCEPT !.header = FALSE]))
     BY <1>3 DEF RestoreSave, NoSave, retroVars, coreVars
  <2>3. IsSave(srm') BY <1>0, <1>p, <2>1, <2>2 DEF IsSave, Playing
  <2>4. TicksAreTimely' BY <1>0, <2>1, TimelyStays
  <2> QED BY <1>0, <1>s, <2>1, <2>3, <2>4 DEF RetroInv, Playing, Ticking
<1>4. CASE BeginRetroRun
  <2> DEFINE x == Overlaid(m)
  <2>1. /\ at = "idle" /\ at' = "loop"
        /\ UNCHANGED <<next_timer_wake, stop, late, store, srm, cached_hz>>
        /\ options' \in host.options /\ target' = m.cycles + cached_hz
        /\ \E k : m' = [x EXCEPT !.keys = k]
     BY <1>4 DEF BeginRetroRun, tickVars, frontVars
  <2>2. PICK b : IsBurst(b) /\ Ticking(m, b) BY <1>p, <2>1 DEF Playing
  <2>3. /\ Ticking(x, b) /\ x.cycles = m.cycles /\ x.fault = m.fault /\ DOMAIN x.mem = DOMAIN m.mem
     BY <1>p, <2>1, <2>2, OverlaidIsTicking DEF Playing
  <2> HIDE DEF x
  <2>4. /\ Ticking(m', b) /\ m'.cycles = m.cycles /\ m'.fault = m.fault /\ DOMAIN m'.mem = DOMAIN m.mem
     BY <2>1, <2>3 DEF Ticking, Timed, LegalProgram, next_wake_cycle, IsMachine, Fields
  <2>5. Ticking(m, b)' BY <2>1, <2>4 DEF Ticking
  <2>6. target' \in Nat \ {0} BY <1>p, <2>1, <2>2 DEF Playing, Ticking, Timed
  <2>7. TicksAreTimely' BY <1>0, <2>1, TimelyStays
  <2> QED BY <1>0, <1>p, <1>s, <2>1, <2>2, <2>4, <2>5, <2>6, <2>7 DEF RetroInv, Playing, IsBurst
<1>5. CASE RetroBurst
  <2>1. /\ at = "loop" /\ at' = "cpu" /\ m.cycles < target /\ ~m.fault /\ stop' = AtMost(next_timer_wake, target)
        /\ UNCHANGED <<m, next_timer_wake, late, store, srm, options, cached_hz, target>>
     BY <1>5 DEF RetroBurst, retroVars, frontVars, coreVars
  <2>2. TicksAreTimely' BY <1>0, <2>1, TimelyStays
  <2>3. PICK b : IsBurst(b) /\ Ticking(m, b) BY <1>p, <2>1 DEF Playing
  <2>4. stop' \in Int /\ stop' <= next_timer_wake BY <2>1, <2>3 DEF AtMost, RetroInv, Ticking
  <2>5. Ticking(m, b)' BY <2>1, <2>3 DEF Ticking
  <2> QED BY <1>0, <1>p, <1>s, <2>1, <2>2, <2>3, <2>4, <2>5 DEF RetroInv, Playing, IsBurst
<1>6. CASE RetroInstruction
  <2>1. /\ at = "cpu" /\ at' = at /\ m.cycles < stop /\ m' = Step(m)
        /\ UNCHANGED <<next_timer_wake, stop, late, store, srm, options, cached_hz, target>>
     BY <1>6 DEF RetroInstruction, tickVars, frontVars
  <2>2. TicksAreTimely' BY <1>0, <2>1, TimelyStays
  <2>3. PICK b : IsBurst(b) /\ Ticking(m, b) BY <1>p, <2>1 DEF Playing
  <2>4. stop \in Int /\ stop <= next_timer_wake /\ target \in Nat \ {0} BY <2>1 DEF RetroInv
  <2>5. m.cycles < next_timer_wake BY <2>1, <2>3, <2>4 DEF Ticking, Timed
  <2>6. Ticking(m', b) /\ m'.cycles <= next_timer_wake + 1 /\ DOMAIN m'.mem = DOMAIN m.mem
     BY <2>1, <2>3, <2>5, StepIsTicking DEF IsBurst
  <2>7. Ticking(m, b)' BY <2>1, <2>6 DEF Ticking
  <2> QED BY <1>0, <1>p, <1>s, <2>1, <2>2, <2>3, <2>4, <2>6, <2>7 DEF RetroInv, Playing, IsBurst
<1>7. CASE RetroTick
  <2>1. at = "cpu" /\ UNCHANGED <<store, srm, options, cached_hz, target>>
     BY <1>7 DEF RetroTick, retroVars, frontVars, coreVars
  <2>2. PICK b : IsBurst(b) /\ Ticking(m, b) BY <1>p, <2>1 DEF Playing
  <2> PICK c : c = burst OBVIOUS
  <2>3. IsBurst(c) /\ m.cycles <= next_timer_wake + 1 /\ target \in Nat \ {0} /\ IsSave(srm)
        /\ FlashCells(host.image) \subseteq DOMAIN m.mem /\ cached_hz \in Nat \ {0} /\ options \in host.options
     BY <1>p, <2>1 DEF Playing, RetroInv
  <2>4. next_wake_cycle(m) \in Int /\ m.cycles \in Nat
     BY <2>2 DEF Ticking, Timed, next_wake_cycle, AtMost
  <2>5. CASE ~m.fault /\ do_tick(m, c) /\ at' = "wake"
     <3>1. /\ b.least \in Nat /\ b.most \in Nat /\ late.next \in Int
           /\ m.cycles - late.next <= b.least /\ m.cycles - next_wake_cycle(m) <= b.most
        BY <2>2, <2>3, <2>4 DEF Ticking, IsBurst
     <3>2. /\ late'.known <= b.least /\ late'.any <= b.most /\ late'.known \in Int /\ late'.any \in Int
           /\ DOMAIN m'.mem = DOMAIN m.mem
           /\ m'.cycles < next_timer_wake' /\ Ticking(m, c)'
        BY <2>2, <2>3, <2>5, <3>1, DoTickIsTimely DEF IsBurst, Ticking
     <3>3. m'.cycles <= next_timer_wake' + 1 BY <3>2 DEF Ticking, Timed
     <3>4. TicksAreTimely'
        BY <2>2, <2>3, <3>2, LateFits, TimelyNext
     <3> QED BY <1>0, <1>s, <2>1, <2>3, <2>5, <3>2, <3>3, <3>4 DEF RetroInv, Playing, IsBurst
  <2>6. CASE ~m.fault /\ ~(m.cycles >= next_timer_wake) /\ UNCHANGED <<m, next_timer_wake, late>> /\ at' = "wake"
     <3>1. Ticking(m, b)' BY <2>2, <2>6 DEF Ticking
     <3>2. m.cycles < next_timer_wake BY <2>2, <2>4, <2>6 DEF Ticking
     <3>3. TicksAreTimely' BY <1>0, <2>6, TimelyStays
     <3> QED BY <1>0, <1>s, <2>1, <2>2, <2>3, <2>6, <3>1, <3>2, <3>3 DEF RetroInv, Playing, IsBurst
  <2>7. CASE m.fault /\ UNCHANGED <<m, next_timer_wake, late>> /\ at' = "loop"
     <3>1. Ticking(m, b)' BY <2>2, <2>7 DEF Ticking
     <3>2. TicksAreTimely' BY <1>0, <2>7, TimelyStays
     <3> QED BY <1>0, <1>s, <2>1, <2>2, <2>3, <2>7, <3>1, <3>2 DEF RetroInv, Playing, IsBurst
  <2> QED BY <1>7, <2>5, <2>6, <2>7 DEF RetroTick
<1>8. CASE RetroWake
  <2>1. at = "wake" /\ at' = "loop" /\ UNCHANGED <<stop, store, srm, options, cached_hz, target>>
     BY <1>8 DEF RetroWake, retroVars, frontVars, coreVars
  <2>2. PICK b : IsBurst(b) /\ Ticking(m, b) BY <1>p, <2>1 DEF Playing
  <2> PICK c : c = burst OBVIOUS
  <2>3. IsBurst(c) /\ m.cycles < next_timer_wake /\ target \in Nat \ {0} /\ IsSave(srm)
        /\ FlashCells(host.image) \subseteq DOMAIN m.mem /\ cached_hz \in Nat \ {0} /\ options \in host.options
     BY <1>p, <2>1 DEF Playing, RetroInv
  <2>4. /\ next_wake_cycle(m) \in Int /\ m.cycles \in Nat /\ next_timer_wake \in Int /\ late.next \in Int
        /\ Wake(m) \in Int /\ (m.halt # "slp" => Wake(m) = next_wake_cycle(m))
     BY <2>2 DEF Ticking, Timed, Wake, sleep_wake_cycle, next_wake_cycle, AtMost
  <2> DEFINE to == AtMost(IF Wake(m) > m.cycles + c.least THEN Wake(m) ELSE m.cycles + c.least, target)
             x == [m EXCEPT !.cycles = to]
  <2>5. CASE do_tick(x, c)
     <3>1. to \in Nat BY <2>3, <2>4 DEF AtMost, IsBurst
     <3>2. /\ (m.halt # "slp" /\ next_wake_cycle(m) <= late.next) => to - late.next <= b.least + c.least - 1
           /\ m.halt # "slp" => to - next_wake_cycle(m) <= b.most + c.least - 1
        BY <2>2, <2>3, <2>4 DEF AtMost, IsBurst, Ticking
     <3>3. /\ Timed(x) /\ LegalProgram(x) /\ next_wake_cycle(x) = next_wake_cycle(m)
           /\ x.cycles = to /\ x.halt = m.halt /\ DOMAIN x.mem = DOMAIN m.mem
        BY <2>2, <3>1 DEF Ticking, Timed, LegalProgram, next_wake_cycle, IsMachine, Fields
     <3>4. b.least + c.least - 1 \in Nat /\ b.most + c.least - 1 \in Nat BY <2>2, <2>3 DEF IsBurst
     <3> HIDE DEF x, to
     <3>5. /\ late'.known <= b.least + c.least - 1 /\ late'.any <= b.most + c.least - 1
           /\ DOMAIN m'.mem = DOMAIN m.mem
           /\ m'.cycles < next_timer_wake' /\ Ticking(m, c)'
        BY <2>3, <2>4, <2>5, <3>2, <3>3, <3>4, DoTickIsTimely DEF IsBurst
     <3>6. m'.cycles <= next_timer_wake' + 1 BY <3>5 DEF Ticking, Timed
     <3>7. TicksAreTimely' BY <2>2, <2>3, <3>5, TimelyNext
     <3> QED BY <1>0, <1>s, <2>1, <2>3, <3>5, <3>6, <3>7 DEF RetroInv, Playing, IsBurst
  <2>6. CASE UNCHANGED <<m, next_timer_wake, late>>
     <3>1. Ticking(m, b)' BY <2>2, <2>6 DEF Ticking
     <3>2. TicksAreTimely' BY <1>0, <2>6, TimelyStays
     <3>3. m.cycles <= next_timer_wake + 1 BY <2>3, <2>4
     <3> QED BY <1>0, <1>s, <2>1, <2>2, <2>3, <2>6, <3>1, <3>2, <3>3 DEF RetroInv, Playing, IsBurst
  <2> QED BY <1>8, <2>5, <2>6 DEF RetroWake
<1>9. CASE EndRetroRun
  <2>1. /\ at = "loop" /\ at' = "idle" /\ UNCHANGED <<next_timer_wake, stop, late, store, options>>
        /\ cached_hz' = m.hz /\ m' = [m EXCEPT !.frame = FALSE, !.dirty = {}]
        /\ srm' = Synced(m.dirty)
     BY <1>9 DEF EndRetroRun, tickVars, frontVars
  <2>2. PICK b : IsBurst(b) /\ Ticking(m, b) BY <1>p, <2>1 DEF Playing
  <2>3. IsSave(srm) /\ FlashCells(host.image) \subseteq DOMAIN m.mem /\ options \in host.options
        /\ m.cycles <= next_timer_wake + 1
     BY <1>p, <2>1 DEF Playing
  <2>4. IsSave(srm')
     <3>1. srm' = [srm EXCEPT !.flash = [a \in DOMAIN srm.flash |-> IF a \in m.dirty THEN m.mem[a] ELSE srm.flash[a]]]
        BY <2>1 DEF Synced
     <3>2. IsMemory(m.mem) BY <2>2 DEF Ticking, LegalProgram
     <3> QED BY <2>3, <3>1, <3>2 DEF IsSave, IsMemory
  <2>5. Ticking(m', b) /\ m'.cycles = m.cycles /\ m'.fault = m.fault /\ DOMAIN m'.mem = DOMAIN m.mem
     BY <2>1, <2>2 DEF Ticking, Timed, LegalProgram, next_wake_cycle, IsMachine, Fields
  <2>6. Ticking(m, b)' BY <2>1, <2>5 DEF Ticking
  <2>7. TicksAreTimely' BY <1>0, <2>1, TimelyStays
  <2>8. cached_hz' \in Nat \ {0} BY <2>1, <2>2 DEF Ticking, Timed
  <2>9. m.cycles < next_timer_wake \/ m.fault \/ (m.cycles = 0 /\ next_timer_wake = 0)
     BY <2>1 DEF RetroInv
  <2> QED
     BY <1>0, <1>s, <2>1, <2>2, <2>3, <2>4, <2>5, <2>6, <2>7, <2>8, <2>9 DEF RetroInv, Playing, IsBurst
<1>10. CASE RetroReset
  <2>1. /\ at = "idle" /\ at' = "idle" /\ UNCHANGED <<stop, store, srm, options, cached_hz>>
        /\ m' = AtResetVector([PowerOn(m.mem, FALSE) EXCEPT !.dirty = m.dirty])
        /\ next_timer_wake' = 0 /\ late' = [known |-> 0, any |-> 0, next |-> RtcPeriod]
     BY <1>10 DEF RetroReset, retroVars, frontVars, coreVars
  <2>2. PICK b : IsBurst(b) /\ Ticking(m, b) BY <1>p, <2>1 DEF Playing
  <2>3. IsMemory(m.mem) BY <2>2 DEF Ticking, LegalProgram
  <2>4. Timed(m') /\ LegalProgram(m') /\ m'.cycles = 0 /\ next_wake_cycle(m') = RtcPeriod /\ m'.mem = m.mem
     <3>1. PICK mem, d, x : mem = m.mem /\ d = m.dirty /\ x = m' OBVIOUS
     <3>2. IsMemory(mem) /\ IsReset(x, mem, d) BY <2>1, <2>3, <3>1, Zenon DEF IsReset
     <3>3. Timed(x) /\ LegalProgram(x) /\ x.cycles = 0 /\ next_wake_cycle(x) = RtcPeriod /\ x.mem = mem
        BY <3>2, ResetIsTimed
     <3> QED BY <3>1, <3>3
  <2>5. late'.known = 0 /\ late'.any = 0 /\ late'.next = RtcPeriod BY <2>1
  <2>6. Ticking(m, b)' BY <2>1, <2>2, <2>4, <2>5, StartIsTickingNext
  <2>7. late'.known <= b.least + b.least - 1 /\ late'.any <= b.most + b.least - 1
     BY <2>2, <2>5 DEF IsBurst
  <2>8. TicksAreTimely' BY <2>2, <2>7, TimelyNext
  <2>9. IsSave(srm) /\ FlashCells(host.image) \subseteq DOMAIN m.mem /\ options \in host.options /\ cached_hz \in Nat \ {0}
     BY <1>p, <2>1 DEF Playing
  <2>10. m'.cycles <= next_timer_wake' + 1 /\ b \in host.bursts BY <2>1, <2>2, <2>4 DEF IsBurst
  <2>11. m'.cycles = 0 /\ next_timer_wake' = 0 /\ at' = "idle" /\ DOMAIN m'.mem = DOMAIN m.mem
         /\ store' = store /\ srm' = srm /\ options' = options /\ cached_hz' = cached_hz
     BY <2>1, <2>4
  <2> QED BY <1>0, <1>s, <2>6, <2>8, <2>9, <2>10, <2>11 DEF RetroInv, Playing
<1>11. CASE Unload
  <2>1. at = "idle" /\ at' \in {"start", "done"} /\ store' = srm /\ late' = late
     BY <1>11 DEF Unload
  <2>2. IsSave(srm) BY <1>p, <2>1 DEF Playing
  <2>3. TicksAreTimely' BY <1>0, <2>1, TimelyStays
  <2> QED BY <1>0, <1>s, <2>1, <2>2, <2>3 DEF RetroInv, Playing
<1>12. ~LoadPfi /\ ~HeadlessStep
  BY <1>0, <1>k
     DEF Playing, LoadPfi, OpenPfi, ReadChunk, EndLoad, HeadlessStep, ParseScript, BeginHeadless,
        BeginFrame, HeadlessJump, HeadlessBurst, HeadlessInstruction, HeadlessTick, Interrupted, NoFrame,
        EndFrame
<1>13. ~BareStep
  BY <1>0, <1>b, <1>k
     DEF Playing, BareStep, OpenElf, ReadSegment, EndElf, BeginBare, Signal, BareInstruction, LeaveBurst,
        EndBare, GdbStep, ClientSend, Accept, Receive, Skip, HandlePacket, BeginRun, RunInstruction,
        EndRun, ReceiveMore, Disconnect
<1>14. ~PfarStep
  BY <1>0
     DEF Playing, PfarStep, OpenImage, AddFile, DelFile, Extract, DumpDir, EndCommand, LastCommand,
        Change, Running
<1>15. CASE Done BY <1>1, <1>15 DEF Done
<1> QED
  BY <1>1, <1>2, <1>3, <1>4, <1>5, <1>6, <1>7, <1>8, <1>9, <1>10, <1>11, <1>12, <1>13, <1>14, <1>15
     DEF Next, RetroStep

\* The hosts that do not tick in bursts, and the hosts' kinds.
KindInv == host \in HostSet

\* The host is one of the set ...
LEMMA KindInit == Init => KindInv
BY DEF Init, KindInv

\* ... and stays it.
LEMMA KindStep == KindInv /\ [Next]_vars => KindInv'
BY HostStays DEF KindInv

\* A timer event is late by a burst at most, and no host loses one: the front
\* ends run the CPU to next_timer_wake, which TimerWake keeps within a burst of
\* the machine's next event, and the jump of a halted CPU ends there too.
THEOREM TimersAreTimely == Spec => []TicksAreTimely
<1>1. KindInv /\ HeadlessInv /\ RetroInv => TicksAreTimely
   <2> SUFFICES ASSUME KindInv, HeadlessInv, RetroInv PROVE TicksAreTimely OBVIOUS
   <2>1. host \in HostSet BY DEF KindInv
   <2>2. CASE Kind("headless")
      <3>1. late.known <= host.burst.least /\ late.any <= host.burst.most BY <2>2 DEF HeadlessInv
      <3>2. IsBurst(host.burst) BY <2>1, <2>2, HostIsAsAssumed
      <3>3. ~Kind("libretro") BY <2>2 DEF Kind
      <3>4. \E b \in host.bursts : late.known <= b.least + 0 /\ late.any <= b.most + 0
         <4>1. host.burst.least + 0 = host.burst.least /\ host.burst.most + 0 = host.burst.most
            BY <3>2 DEF IsBurst
         <4> QED BY <3>1, <3>2, <4>1 DEF IsBurst
      <3> QED BY <3>2, <3>3, <3>4 DEF TicksAreTimely, IsBurst
   <2>3. CASE Kind("libretro") BY <2>3 DEF RetroInv
   <2>4. CASE host.bursts = {} BY <2>4 DEF TicksAreTimely
   <2> QED BY <2>1, <2>2, <2>3, <2>4, HostsAssumption DEF Kind
<1>2. Init => KindInv /\ HeadlessInv /\ RetroInv BY KindInit, HeadlessInitInv, RetroInitInv
<1>3. KindInv /\ [Next]_vars => KindInv' BY KindStep
<1>4. HeadlessInv /\ [Next]_vars => HeadlessInv' BY HeadlessStepInv
<1>5. RetroInv /\ [Next]_vars => RetroInv' BY RetroStepInv
<1> QED BY <1>1, <1>2, <1>3, <1>4, <1>5, PTL DEF Spec

-----------------------------------------------------------------------------
(* Theorem: progress is kept                                               *)

\* Save s holds the flash of machine x, but for the sectors that are still
\* dirty, and for what a damaged file left and no frame has written since.
Saved(s, x, g) ==
  \A a \in FlashCells(host.image) : s.flash[a] = x.mem[a] \/ a \in x.dirty \/ (g.is /\ a \notin g.written)
\* The flash is as it was when the .srm file was stored.
Resumes(x) == \A a \in FlashCells(host.image) : x.mem[a] = kept[a]

SaveInv ==
  Kind("libretro") =>
    /\ store # << >> =>
         /\ kept = [a \in FlashCells(host.image) |-> kept[a]]
         /\ store.header => \A a \in FlashCells(host.image) : store.flash[a] = kept[a]
    /\ at \in Playing =>
         /\ runs \in Nat /\ DOMAIN garbled = {"is", "written"}
         /\ garbled.is => ~srm.header
         /\ ~garbled.is => srm.header
         /\ at \in {"boot", "idle"} => m.dirty = {}
         /\ overlay => at \in {"boot", "idle"} /\ garbled.written = {}
         /\ at = "boot" \/ (at = "idle" /\ runs = 0) => overlay
         /\ ~overlay => Saved(srm, m, garbled)
         /\ at = "idle" /\ overlay /\ store # << >> /\ srm.header => store.header /\ srm.flash = store.flash
         /\ at \in {"loop", "cpu", "wake"} /\ runs = 0 /\ store # << >> /\ ~garbled.is =>
              m.cycles > 0 \/ Resumes(m)

\* The flash cells of the save RAM lie above SRAM.
LEMMA FlashIsHigh ==
  ASSUME host \in HostSet, Kind("libretro"), NEW a \in FlashCells(host.image)
  PROVE  a \in Int /\ a >= FLASH_BASE
<1>1. FLASH_BASE \in Nat /\ Parts[1] \in Nat BY LoadersAssumption
<1>2. FlashSize(host.image) \in Int BY <1>1, HostIsAsAssumed DEF FlashSize, IsImage
<1>3. a \in FLASH_BASE .. FLASH_BASE + FlashSize(host.image) - 1 BY DEF FlashCells, Flash
<1> QED BY <1>1, <1>2, <1>3

\* A flash sector that an instruction changes is dirty.
LEMMA StepDirties ==
  ASSUME NEW x, Timed(x), LegalProgram(x)
  PROVE  /\ x.dirty \subseteq Step(x).dirty
         /\ \A a \in DOMAIN x.mem : a >= FLASH_BASE => Step(x).mem[a] = x.mem[a] \/ a \in Step(x).dirty
<1> DEFINE y == Step(x)
           op == Fetch(x)
<1>1. Keeps(op, x, y) BY StepKeeps DEF Timed
<1>2. Legal(op) BY FetchIsLegal
<1> HIDE DEF y, op
<1>3. ASSUME NEW a \in DOMAIN x.mem, a >= FLASH_BASE
      PROVE  y.mem[a] = x.mem[a] \/ a \in y.dirty
   <2>1. a \in Int /\ FLASH_BASE \in Int BY LoadersAssumption DEF LegalProgram, IsMemory
   <2>2. ~(op[1] \in {"store", "put"} /\ a = op[2]) BY <1>2, <1>3, <2>1 DEF Legal
   <2> QED BY <1>1, <2>2 DEF Keeps, Stored
<1> QED BY <1>1, <1>3 DEF Keeps, Stored, y

\* There is no save RAM before a game is loaded.
LEMMA SaveInit == Init => SaveInv
<1> SUFFICES ASSUME Init, Kind("libretro") PROVE SaveInv BY DEF SaveInv
<1>1. at = "start" /\ store = << >> BY DEF Init, RetroInit, Kind
<1> QED BY <1>1 DEF SaveInv, Playing

\* A sector that a frame writes is copied when the frame ends.
LEMMA SaveStep ==
  ASSUME RetroInv, SaveInv, [Next]_vars
  PROVE  SaveInv'
<1> SUFFICES ASSUME Kind("libretro"), host' = host
             PROVE  SaveInv'
   <2>1. host' = host BY HostStays
   <2>2. Kind("libretro")' => Kind("libretro") BY <2>1 DEF Kind
   <2> QED BY <2>1, <2>2 DEF SaveInv
<1> PICK cells : cells = FlashCells(host.image) OBVIOUS
<1>0. /\ at \in {"start", "done"} \cup Playing /\ host \in HostSet
      /\ store # << >> => IsSave(store) /\ kept = [a \in cells |-> kept[a]]
                          /\ (store.header => \A a \in cells : store.flash[a] = kept[a])
   BY DEF RetroInv, SaveInv
<1>p. ASSUME at \in Playing
      PROVE  /\ IsSave(srm) /\ cells \subseteq DOMAIN m.mem /\ Timed(m) /\ LegalProgram(m)
             /\ runs \in Nat /\ DOMAIN garbled = {"is", "written"}
             /\ garbled.is => ~srm.header
             /\ ~garbled.is => srm.header
             /\ at \in {"boot", "idle"} => m.dirty = {}
             /\ overlay => at \in {"boot", "idle"} /\ garbled.written = {}
             /\ at = "boot" \/ (at = "idle" /\ runs = 0) => overlay
             /\ ~overlay => Saved(srm, m, garbled)
             /\ at = "idle" /\ overlay /\ store # << >> /\ srm.header => store.header /\ srm.flash = store.flash
             /\ at \in {"loop", "cpu", "wake"} =>
                  /\ target \in Nat \ {0} /\ ~overlay
                  /\ runs = 0 /\ store # << >> /\ ~garbled.is => m.cycles > 0 \/ Resumes(m)
   BY <1>p DEF RetroInv, SaveInv, Playing, Ticking
<1>k. ~Kind("bare") /\ ~Kind("headless") /\ ~Kind("pfar") BY DEF Kind
<1>h. ASSUME ~overlay', srm' = srm, garbled' = garbled, ~overlay, at \in Playing,
             \A a \in cells : m'.mem[a] = m.mem[a] \/ a \in m'.dirty, m'.dirty = m.dirty
      PROVE  Saved(srm, m, garbled)'
   BY <1>p, <1>h DEF Saved
<1>r. ASSUME UNCHANGED <<store, kept>>, m'.mem = m.mem, Resumes(m) PROVE Resumes(m)'
   BY <1>r DEF Resumes
<1>1. CASE UNCHANGED vars
  <2>1. UNCHANGED <<host, at, m, store, kept, srm, overlay, garbled, runs, target>>
     BY <1>1 DEF vars, baseVars, tickVars, retroVars, frontVars, coreVars
  <2> QED BY <2>1 DEF SaveInv, Saved, Resumes
<1>2. CASE LoadGame
  <2> DEFINE part == for_min_bytes(FlashSize(host.image))
             r == pfi_load_blob(PowerOn(Blank(part), FALSE).mem, host.image)
  <2>1. at = "start" /\ UNCHANGED <<store, kept>> BY <1>2 DEF LoadGame
  <2>2. CASE at' = "done" BY <1>0, <2>1, <2>2 DEF SaveInv, Playing
  <2>3. CASE r.ok
     <3>1. /\ m' = AtResetVector(PowerOn(r.mem, FALSE))
           /\ srm' = [header |-> GoodHeader, flash |-> FlashOf(r.mem, FlashCells(host.image))]
           /\ overlay' = TRUE /\ runs' = 0 /\ garbled' = [is |-> FALSE, written |-> {}]
           /\ at' = "boot"
        BY <1>2, <2>3 DEF LoadGame
     <3> HIDE DEF r, part
     <3>2. m'.dirty = {}
        <4> DEFINE p == PowerOn(r.mem, FALSE)
        <4>1. IsMachine(p) /\ p.dirty = {} BY PowerOnIs DEF PowerOn
        <4>2. m' = AtResetVector(p) BY <3>1
        <4> HIDE DEF p
        <4> QED BY <4>1, <4>2 DEF AtResetVector, IsMachine, Fields
     <3>3. srm'.header BY <3>1 DEF GoodHeader
     <3> QED BY <1>0, <2>1, <3>1, <3>2, <3>3 DEF SaveInv, Playing
  <2> QED BY <1>2, <2>2, <2>3 DEF LoadGame, Exit
<1>3. CASE RestoreSave
  <2>1. /\ at = "boot" /\ at' = "idle" /\ overlay /\ store # << >>
        /\ UNCHANGED <<m, store, kept, overlay, runs>>
        /\ srm' = store \/ srm' = [store EXCEPT !.header = FALSE]
        /\ garbled' = [garbled EXCEPT !.is = ~srm'.header]
     BY <1>3 DEF RestoreSave, frontVars
  <2>2. (srm'.header => srm' = store) BY <1>0, <2>1 DEF IsSave
  <2>3. garbled'.written = garbled.written /\ DOMAIN garbled' = {"is", "written"}
        /\ (garbled'.is => ~srm'.header) /\ (~garbled'.is => srm'.header)
     BY <1>p, <2>1 DEF Playing
  <2> QED BY <1>0, <1>p, <2>1, <2>2, <2>3 DEF SaveInv, Playing
<1>4. CASE NoSave
  <2>1. /\ at = "boot" /\ at' = "idle" /\ store = << >>
        /\ UNCHANGED <<m, store, kept, srm, overlay, garbled, runs>>
     BY <1>4 DEF NoSave, retroVars, frontVars, coreVars
  <2> QED BY <1>0, <1>p, <2>1 DEF SaveInv, Playing
<1>5. CASE BeginRetroRun
  <2> DEFINE x == Overlaid(m)
  <2>1. /\ at = "idle" /\ at' = "loop" /\ overlay' = FALSE
        /\ UNCHANGED <<store, kept, srm, garbled, runs>>
        /\ \E k : m' = [x EXCEPT !.keys = k]
     BY <1>5 DEF BeginRetroRun, frontVars
  <2>2. /\ IsMachine(x) /\ x.dirty = m.dirty
        /\ overlay /\ srm.header => \A a \in cells : x.mem[a] = srm.flash[a]
        /\ ~(overlay /\ srm.header) => x = m
     BY <1>p, <2>1 DEF Overlaid, Timed, IsMachine, Fields, IsSave, Playing
  <2> HIDE DEF x
  <2>3. m'.dirty = m.dirty /\ m'.mem = x.mem BY <2>1, <2>2 DEF IsMachine, Fields
  <2>4. Saved(srm, m, garbled)'
     <3>1. CASE overlay /\ srm.header BY <2>1, <2>2, <2>3, <3>1 DEF Saved
     <3>2. CASE overlay /\ ~srm.header BY <1>p, <2>1, <3>2 DEF Saved, Playing
     <3>3. CASE ~overlay BY <1>p, <2>1, <2>2, <2>3, <3>3 DEF Saved, Playing
     <3> QED BY <3>1, <3>2, <3>3
  <2>5. runs = 0 /\ store # << >> /\ ~garbled.is => Resumes(m)'
     BY <1>0, <1>p, <2>1, <2>2, <2>3 DEF Resumes, Playing
  <2> QED BY <1>0, <1>p, <2>1, <2>4, <2>5 DEF SaveInv, Playing
<1>6. CASE RetroBurst \/ RetroTick
  <2>1. /\ at \in {"loop", "cpu"} /\ at' \in {"cpu", "loop", "wake"}
        /\ UNCHANGED <<store, kept, srm, overlay, garbled, runs>>
     BY <1>6 DEF RetroBurst, RetroTick, retroVars, frontVars, coreVars
  <2>2. m' = m \/ m' = Ticked(m) BY <1>6 DEF RetroBurst, RetroTick, do_tick
  <2>3. m'.mem = m.mem /\ m'.dirty = m.dirty /\ m'.cycles = m.cycles
     BY <1>p, <2>1, <2>2, TickedKeeps DEF Timed, Playing
  <2> QED BY <1>0, <1>p, <1>h, <1>r, <2>1, <2>3 DEF SaveInv, Playing
<1>7. CASE RetroInstruction
  <2>1. /\ at = "cpu" /\ at' = "cpu" /\ m' = Step(m)
        /\ garbled' = [garbled EXCEPT !.written = @ \cup m'.dirty]
        /\ UNCHANGED <<store, kept, srm, overlay, runs>>
     BY <1>7 DEF RetroInstruction, frontVars
  <2>2. garbled'.written = garbled.written \cup m'.dirty /\ garbled'.is = garbled.is
        /\ DOMAIN garbled' = {"is", "written"}
     BY <1>p, <2>1 DEF Playing
  <2>3. m.dirty \subseteq m'.dirty /\ m'.cycles > 0
     BY <1>p, <2>1, StepDirties, StepKeeps DEF Timed, Playing
  <2>4. \A a \in cells : m'.mem[a] = m.mem[a] \/ a \in m'.dirty
     BY <1>0, <1>p, <2>1, StepDirties, FlashIsHigh DEF Playing
  <2>5. Saved(srm, m, garbled)' BY <1>p, <2>1, <2>2, <2>3, <2>4 DEF Saved, Playing
  <2> QED BY <1>0, <1>p, <2>1, <2>2, <2>3, <2>5 DEF SaveInv, Playing
<1>8. CASE RetroWake
  <2>1. at = "wake" /\ at' = "loop" /\ UNCHANGED <<store, kept, srm, overlay, garbled, runs>>
     BY <1>8 DEF RetroWake, retroVars, frontVars, coreVars
  <2>2. m'.mem = m.mem /\ m'.dirty = m.dirty /\ (m'.cycles = m.cycles \/ m'.cycles > 0)
     <3> PICK c : c = burst OBVIOUS
     <3> DEFINE to == AtMost(IF Wake(m) > m.cycles + c.least THEN Wake(m) ELSE m.cycles + c.least, target)
                x == [m EXCEPT !.cycles = to]
     <3>1. CASE m' = Ticked(x)
        <4>1. to > 0
           <5>1. Wake(m) \in Int /\ m.cycles \in Nat /\ target \in Nat \ {0}
              BY <1>p, <2>1 DEF Timed, Wake, sleep_wake_cycle, next_wake_cycle, AtMost, Playing
           <5>2. options \in host.options BY <2>1 DEF RetroInv, Playing
           <5>3. c.least \in Nat \ {0} BY <1>0, <5>2, HostIsAsAssumed DEF burst, IsBurst
           <5> QED BY <5>1, <5>3 DEF AtMost
        <4>2. IsMachine(x) /\ x.mem = m.mem /\ x.dirty = m.dirty /\ x.cycles = to
           BY <1>p, <2>1 DEF Timed, IsMachine, Fields, Playing
        <4> HIDE DEF x, to
        <4> QED BY <3>1, <4>1, <4>2, TickedKeeps
     <3>2. CASE m' = m BY <3>2
     <3> QED BY <1>8, <3>1, <3>2 DEF RetroWake, do_tick
  <2> QED BY <1>0, <1>p, <1>h, <1>r, <2>1, <2>2 DEF SaveInv, Playing
<1>9. CASE EndRetroRun
  <2>1. /\ at = "loop" /\ at' = "idle" /\ UNCHANGED <<store, kept, overlay, garbled>>
        /\ m' = [m EXCEPT !.frame = FALSE, !.dirty = {}] /\ runs' = runs + 1
        /\ srm' = [srm EXCEPT !.flash = [a \in DOMAIN srm.flash |-> IF a \in m.dirty THEN m.mem[a] ELSE srm.flash[a]]]
     BY <1>9 DEF EndRetroRun, frontVars, Synced
  <2>2. m'.mem = m.mem /\ m'.dirty = {} BY <1>p, <2>1 DEF Timed, IsMachine, Fields, Playing
  <2>3. srm'.header = srm.header /\ \A a \in cells : srm'.flash[a] = IF a \in m.dirty THEN m.mem[a] ELSE srm.flash[a]
     BY <1>p, <2>1 DEF IsSave, Playing
  <2>4. Saved(srm, m, garbled)' BY <1>p, <2>1, <2>2, <2>3 DEF Saved, Playing
  <2>5. runs' \in Nat /\ runs' # 0 /\ ~overlay BY <1>p, <2>1 DEF Playing
  <2> QED BY <1>0, <1>p, <2>1, <2>2, <2>3, <2>4, <2>5 DEF SaveInv, Playing
<1>10. CASE RetroReset
  <2>1. at = "idle" /\ at' = "idle" /\ UNCHANGED <<store, kept, srm, overlay, garbled, runs>>
     BY <1>10 DEF RetroReset, retroVars, frontVars, coreVars
  <2>2. m'.mem = m.mem /\ m'.dirty = m.dirty
     <3>1. PICK mem, d, x : mem = m.mem /\ d = m.dirty /\ x = m' OBVIOUS
     <3>2. IsMemory(mem) BY <1>p, <2>1, <3>1 DEF LegalProgram, Playing
     <3>3. IsReset(x, mem, d) BY <1>10, <3>1, Zenon DEF IsReset, RetroReset
     <3>4. x.mem = mem /\ x.dirty = d BY <3>2, <3>3, ResetIsTimed
     <3> QED BY <3>1, <3>4
  <2> QED BY <1>0, <1>p, <1>h, <2>1, <2>2 DEF SaveInv, Playing
<1>11. CASE Unload
  <2>1. /\ at = "idle" /\ ~overlay /\ at' \in {"start", "done"}
        /\ store' = srm /\ kept' = FlashOf(m.mem, DOMAIN srm.flash)
     BY <1>11 DEF Unload
  <2>2. IsSave(srm) /\ m.dirty = {} /\ Saved(srm, m, garbled) /\ (garbled.is => ~srm.header)
     BY <1>p, <2>1 DEF Playing
  <2>3. kept' = [a \in cells |-> kept'[a]] /\ \A a \in cells : kept'[a] = m.mem[a]
     BY <2>1, <2>2 DEF IsSave, FlashOf
  <2>4. srm.header => \A a \in cells : srm.flash[a] = kept'[a] BY <2>2, <2>3 DEF Saved
  <2> QED BY <2>1, <2>3, <2>4 DEF SaveInv, Playing
<1>12. ~LoadPfi /\ ~HeadlessStep
  BY <1>0, <1>k
     DEF Playing, LoadPfi, OpenPfi, ReadChunk, EndLoad, HeadlessStep, ParseScript, BeginHeadless,
        BeginFrame, HeadlessJump, HeadlessBurst, HeadlessInstruction, HeadlessTick, Interrupted, NoFrame,
        EndFrame
<1>13. ~BareStep
  <2>1. ~host.elf BY <1>0, HostIsAsAssumed
  <2> QED
     BY <1>0, <1>k, <2>1
        DEF Playing, BareStep, OpenElf, ReadSegment, EndElf, BeginBare, Signal, BareInstruction,
           LeaveBurst, EndBare, GdbStep, ClientSend, Accept, Receive, Skip, HandlePacket, BeginRun,
           RunInstruction, EndRun, ReceiveMore, Disconnect
<1>14. ~PfarStep
  BY <1>0
     DEF Playing, PfarStep, OpenImage, AddFile, DelFile, Extract, DumpDir, EndCommand, LastCommand,
        Change, Running
<1>15. CASE Done BY <1>1, <1>15 DEF Done
<1> QED
  BY <1>1, <1>2, <1>3, <1>4, <1>5, <1>6, <1>7, <1>8, <1>9, <1>10, <1>11, <1>12, <1>13, <1>14, <1>15
     DEF Next, RetroStep

\* The frontend may read the save RAM between any two frames and store it: it
\* always holds the flash, so no progress is lost, and a game loaded from a
\* stored .srm continues where it was stored.
THEOREM SavesKeepProgress == Spec => []ProgressIsKept
<1>1. RetroInv /\ SaveInv => ProgressIsKept
   <2> SUFFICES ASSUME RetroInv, SaveInv, Kind("libretro") PROVE ProgressIsKept BY DEF ProgressIsKept
   <2>1. ASSUME at = "idle", ~overlay, NEW a \in DOMAIN srm.flash
         PROVE  srm.flash[a] = m.mem[a] \/ (garbled.is /\ a \notin garbled.written)
      <3>1. IsSave(srm) /\ m.dirty = {} /\ Saved(srm, m, garbled) BY <2>1 DEF RetroInv, SaveInv, Playing
      <3> QED BY <2>1, <3>1 DEF Saved, IsSave
   <2>2. ASSUME at = "loop", m.cycles = 0, runs = 0, store # << >>, ~garbled.is
         PROVE  FlashOf(m.mem, DOMAIN kept) = kept
      <3>1. Resumes(m) /\ kept = [a \in FlashCells(host.image) |-> kept[a]] BY <2>2 DEF SaveInv, Playing
      <3>2. DOMAIN kept = FlashCells(host.image) BY <3>1
      <3> QED BY <3>1, <3>2 DEF Resumes, FlashOf
   <2> QED BY <2>1, <2>2 DEF ProgressIsKept
<1>2. Init => RetroInv /\ SaveInv BY RetroInitInv, SaveInit
<1>3. RetroInv /\ [Next]_vars => RetroInv' BY RetroStepInv
<1>4. RetroInv /\ SaveInv /\ [Next]_vars => SaveInv' BY SaveStep
<1> QED BY <1>1, <1>2, <1>3, <1>4, PTL DEF Spec

-----------------------------------------------------------------------------
(* Theorem: a debugger's runs stop where they should                       *)

Debugging == {"accept", "recv", "parse", "running"}
ExecFields == {"single", "steps", "seen", "passed", "fault", "reply"}

StopInv ==
  /\ ~exec.passed
  /\ DOMAIN exec = ExecFields /\ exec.steps \in Nat
  /\ exec.seen = << >> \/ (\E t, a : exec.seen = << <<t, a>> >>)
  /\ exec.reply = << >> \/ exec.reply = IF exec.fault THEN <<"T04">>
                                        ELSE IF exec.seen # << >> THEN <<"T05", exec.seen[1][1], exec.seen[1][2]>>
                                        ELSE <<"T05">>
  /\ at \in Debugging => Kind("bare") /\ host.gdb
  /\ Kind("bare") => at \in {"start", "loading", "segments", "boot", "run", "halted", "done"} \cup Debugging
  /\ Kind("bare") /\ host.gdb =>
       /\ at \in {"start", "loading", "segments", "boot", "done"} \cup Debugging
       /\ IsMachine(m)
       /\ at \in Debugging \ {"accept"} => m.wp_cb = "gdb"
       /\ at = "running" /\ exec.reply = << >> =>
            /\ m.halt = "run" /\ m.hit = << >> /\ exec.seen = << >>
            /\ exec.steps > 0 => ~exec.single /\ Pc(m) \notin breaks

\* The semihosting port has no watchpoints.
LEMMA SemiHits ==
  ASSUME NEW x, IsMachine(x), NEW port, NEW v
  PROVE  SemiWrite(x, port, v).hit = x.hit
<1>1. CASE port = "TEST_RESULT"
  <2> DEFINE z == [x EXCEPT !.semi.result = v]
  <2>1. IsMachine(z) /\ z.hit = x.hit BY DEF IsMachine, Fields, SemiFields
  <2> HIDE DEF z
  <2>2. Halt(z).hit = z.hit BY <2>1, HaltIs
  <2> QED BY <1>1, <2>1, <2>2 DEF SemiWrite, z
<1>2. CASE port # "TEST_RESULT" BY <1>2, BreakpointKeeps DEF SemiWrite
<1> QED BY <1>1, <1>2

\* An access that no watchpoint covers leaves the machine alone; otherwise the
\* first watchpoint set is recorded.
LEMMA FireHits ==
  ASSUME NEW x, IsMachine(x), x.hit = << >>, x.wp_cb = "gdb", NEW access, NEW addr,
         NEW hits, hits = Hits(x.wps, access, addr)
  PROVE  /\ hits = << >> => fire_wp(x, access, addr).hit = << >>
         /\ hits # << >> => fire_wp(x, access, addr).hit = <<Head(hits).type, addr>>
<1> DEFINE y == fire_wp(x, access, addr)
           h == <<Head(hits).type, addr>>
<1>1. hits = << >> => y = x BY Zenon DEF fire_wp
<1>2. hits # << >> => y = [x EXCEPT !.hit = h, !.halt = "stop"]  BY Zenon DEF fire_wp
<1> HIDE DEF y, h
<1>3. hits # << >> => y.hit = h BY <1>2 DEF IsMachine, Fields
<1> QED BY <1>1, <1>3 DEF y, h

\* The instruction at pc: what it records is what a watchpoint covers of it.
LEMMA StepHits ==
  ASSUME IsMachine(m), m.halt = "run", m.hit = << >>, m.wp_cb = "gdb"
  PROVE  \/ Watched = << >> /\ Step(m).hit = << >>
         \/ \E t, a : Watched = << <<t, a>> >> /\ Step(m).hit = <<t, a>>
<1> DEFINE op == Fetch(m)
           access == IF op[1] = "load" THEN "rwatch" ELSE "watch"
           hits == Hits(m.wps, access, op[2])
           z == [m EXCEPT !.regs["pc"] = @ + 1]
           e == Execute(op, z)
           w == m.cycles + Cost(op)
<1>1. CASE Pc(m) \in m.bkpts
  <2>1. Step(m) = [m EXCEPT !.halt = "stop", !.cycles = @ + 1] BY <1>1 DEF Step
  <2>2. Step(m).hit = << >> BY <2>1 DEF IsMachine, Fields
  <2>3. Watched = << >> BY <1>1 DEF Watched
  <2> QED BY <2>2, <2>3
<1>2. CASE Pc(m) \notin m.bkpts
  <2>1. Step(m) = [e EXCEPT !.cycles = w] BY <1>2 DEF Step
  <2>2. IsMachine(z) /\ z.hit = << >> /\ z.wp_cb = "gdb" /\ z.wps = m.wps
     BY DEF IsMachine, Fields, SemiFields
  <2>3. Watched = IF op[1] \notin {"load", "store", "put"} \/ hits = << >> THEN << >> ELSE << <<Head(hits).type, op[2]>> >>
     BY <1>2, Zenon DEF Watched
  <2> HIDE DEF z, w
  <2>4. IsMachine(e)
     BY <2>2, ExecuteKeeps DEF Keeps
  <2>5. Step(m).hit = e.hit BY <2>1, <2>4 DEF IsMachine, Fields
  <2>6. CASE op[1] = "load"
     <3>1. e = [fire_wp(z, "rwatch", op[2]) EXCEPT !.regs["r0"] = z.mem[op[2]][2]] BY <2>6 DEF Execute
     <3>2. e.hit = fire_wp(z, "rwatch", op[2]).hit
        <4> DEFINE f == fire_wp(z, "rwatch", op[2])
        <4>1. IsMachine(f) BY <2>2, FireWp DEF Keeps
        <4> HIDE DEF f
        <4> QED BY <3>1, <4>1 DEF IsMachine, Fields, f
     <3>3. hits = Hits(z.wps, "rwatch", op[2]) BY <2>2, <2>6
     <3> HIDE DEF op, hits, e
     <3> QED BY <2>2, <2>3, <2>5, <2>6, <3>2, <3>3, FireHits
  <2>7. CASE op[1] \in {"store", "put"}
     <3>1. \E d : e = [fire_wp(z, "watch", op[2]) EXCEPT !.mem[op[2]] = d] BY <2>7 DEF Execute
     <3>2. e.hit = fire_wp(z, "watch", op[2]).hit
        <4> DEFINE f == fire_wp(z, "watch", op[2])
        <4>1. IsMachine(f) BY <2>2, FireWp DEF Keeps
        <4> HIDE DEF f
        <4> QED BY <3>1, <4>1 DEF IsMachine, Fields, f
     <3>3. hits = Hits(z.wps, "watch", op[2]) BY <2>2, <2>7
     <3> HIDE DEF op, hits, e
     <3> QED BY <2>2, <2>3, <2>5, <2>7, <3>2, <3>3, FireHits
  <2>8. CASE op[1] \notin {"load", "store", "put"}
     <3>1. e.hit = z.hit
        <4>1. CASE op[1] = "semi" BY <2>2, <4>1, SemiHits DEF Execute
        <4>2. CASE op[1] # "semi"
           <5> HIDE DEF op
           <5> QED BY <2>2, <2>8, <4>2 DEF Execute, Fault, CycleHalf, IsMachine, Fields, SemiFields
        <4> QED BY <4>1, <4>2
     <3> QED BY <2>2, <2>3, <2>5, <2>8, <3>1
  <2> QED BY <2>6, <2>7, <2>8
<1> QED BY <1>1, <1>2

\* A packet leaves the watchpoint callback where it is.
LEMMA TouchedKeeps ==
  ASSUME IsMachine(m), NEW access, NEW bytes
  PROVE  IsMachine(Touched(access, bytes)) /\ Touched(access, bytes).wp_cb = m.wp_cb
<1>1. Touched(access, bytes) = m \/ (\E b : Touched(access, bytes) = fire_wp(m, access, b))
   BY Zenon DEF Touched
<1>2. ASSUME NEW b PROVE IsMachine(fire_wp(m, access, b)) /\ fire_wp(m, access, b).wp_cb = m.wp_cb
   BY FireWp DEF Keeps, Fixed
<1> QED BY <1>1, <1>2

\* A packet keeps the machine's shape, its callback and its hit in order.
LEMMA EffectKeeps ==
  ASSUME IsMachine(m), NEW p
  PROVE  IsMachine(Effect(p)) /\ Effect(p).wp_cb = m.wp_cb
<1> DEFINE y == Effect(p)
<1>1. \/ y = m
      \/ \E v : y = [m EXCEPT !.regs = v]
      \/ \E n, v : y = [m EXCEPT !.regs[n] = v]
      \/ \E v : y = [m EXCEPT !.wps = v]
      \/ \E a, b : y = Touched(a, b)
      \/ \E a, b, v : y = [Touched(a, b) EXCEPT !.mem = v]
   BY Zenon DEF Effect, reg_write_n, reg_write_all, ReadMemory, WriteMemory
<1> HIDE DEF y
<1>2. ASSUME NEW v, y = [m EXCEPT !.regs = v] PROVE IsMachine(y) /\ y.wp_cb = m.wp_cb
   BY <1>2 DEF IsMachine, Fields
<1>3. ASSUME NEW n, NEW v, y = [m EXCEPT !.regs[n] = v] PROVE IsMachine(y) /\ y.wp_cb = m.wp_cb
   BY <1>3 DEF IsMachine, Fields
<1>4. ASSUME NEW v, y = [m EXCEPT !.wps = v] PROVE IsMachine(y) /\ y.wp_cb = m.wp_cb
   BY <1>4 DEF IsMachine, Fields
<1>5. ASSUME NEW a, NEW b, y = Touched(a, b) PROVE IsMachine(y) /\ y.wp_cb = m.wp_cb
   BY <1>5, TouchedKeeps
<1>6. ASSUME NEW a, NEW b, NEW v, y = [Touched(a, b) EXCEPT !.mem = v] PROVE IsMachine(y) /\ y.wp_cb = m.wp_cb
   <2>1. PICK t : t = Touched(a, b) OBVIOUS
   <2>2. IsMachine(t) /\ t.wp_cb = m.wp_cb BY <2>1, TouchedKeeps
   <2>3. y = [t EXCEPT !.mem = v] BY <1>6, <2>1
   <2> QED BY <2>2, <2>3 DEF IsMachine, Fields
<1>7. IsMachine(y) /\ y.wp_cb = m.wp_cb BY <1>1, <1>2, <1>3, <1>4, <1>5, <1>6, Zenon
<1> QED BY <1>7 DEF y

\* No session has run yet.
LEMMA StopInit == Init => StopInv
<1> SUFFICES ASSUME Init PROVE StopInv OBVIOUS
<1>1. exec = NoRun BY DEF Init, BareInit, GdbInit
<1>2. at \notin Debugging BY DEF Init, Debugging
<1>3. Kind("bare") => at = "start" BY DEF Init, Kind
<1>4. IsMachine(m) BY PowerOnIs DEF Init, BootInit
<1> QED BY <1>1, <1>2, <1>3, <1>4 DEF StopInv, NoRun, ExecFields, Debugging

\* The steps of a session.
LEMMA SessionStep ==
  ASSUME StopInv, Kind("bare"), host.gdb, host' = host, GdbStep \/ ClientSend
  PROVE  StopInv'
<1>0. /\ at \in {"start", "loading", "segments", "boot", "done"} \cup Debugging /\ IsMachine(m)
      /\ at \in Debugging \ {"accept"} => m.wp_cb = "gdb"
      /\ ~exec.passed /\ DOMAIN exec = ExecFields /\ exec.steps \in Nat
   BY DEF StopInv
<1>k. Kind("bare")' /\ host'.gdb BY DEF Kind
<1>q. ASSUME UNCHANGED exec, IsMachine(m'), at' \in {"done"} \cup (Debugging \ {"running"}),
             at' \in Debugging \ {"accept"} => m'.wp_cb = "gdb"
      PROVE  StopInv'
   BY <1>k, <1>q DEF StopInv, Debugging
<1>1. CASE ClientSend
  <2>1. UNCHANGED <<exec, m, at, breaks>> BY <1>1 DEF ClientSend, baseVars, sessionVars
  <2> QED BY <1>k, <2>1 DEF StopInv, Pc
<1>2. CASE Accept
  <2>1. /\ UNCHANGED exec /\ at = "accept" /\ at' = "recv"
        /\ m' = [m EXCEPT !.wps = << >>, !.hit = << >>, !.strict = TRUE, !.wp_cb = "gdb"]
     BY <1>2 DEF Accept
  <2>2. IsMachine(m') /\ m'.wp_cb = "gdb" BY <1>0, <2>1 DEF IsMachine, Fields
  <2> QED BY <1>q, <2>1, <2>2 DEF Debugging
<1>3. CASE Receive \/ ReceiveMore
  <2>1. UNCHANGED <<exec, m>> /\ at \in {"recv", "parse"} /\ at' \in {"recv", "parse"}
     BY <1>3 DEF Receive, ReceiveMore, sessionVars
  <2> QED BY <1>0, <1>q, <2>1 DEF Debugging
<1>4. CASE Skip
  <2>1. UNCHANGED <<exec, at>> /\ at = "parse" /\ (m' = m \/ m' = [m EXCEPT !.halt = "stop"])
     BY <1>4 DEF Skip
  <2>2. IsMachine(m') /\ m'.wp_cb = m.wp_cb BY <1>0, <2>1 DEF IsMachine, Fields
  <2> QED BY <1>0, <1>q, <2>1, <2>2 DEF Debugging
<1>5. CASE HandlePacket
  <2>1. UNCHANGED <<exec, at>> /\ at = "parse" /\ \E p : m' = Effect(p) BY <1>5 DEF HandlePacket
  <2>2. IsMachine(m') /\ m'.wp_cb = m.wp_cb BY <1>0, <2>1, EffectKeeps
  <2> QED BY <1>0, <1>q, <2>1, <2>2 DEF Debugging
<1>6. CASE BeginRun
  <2>1. /\ at = "parse" /\ at' = "running" /\ \E s : exec' = [NoRun EXCEPT !.single = s]
        /\ m' = [m EXCEPT !.halt = "run", !.hit = << >>]
     BY <1>6, Zenon DEF BeginRun, Resumed
  <2>2. IsMachine(m') /\ m'.wp_cb = "gdb" /\ m'.halt = "run" /\ m'.hit = << >>
     BY <1>0, <2>1 DEF IsMachine, Fields, Debugging
  <2>3. /\ ~exec'.passed /\ DOMAIN exec' = ExecFields /\ exec'.steps = 0
        /\ exec'.seen = << >> /\ exec'.reply = << >>
     BY <2>1 DEF NoRun, ExecFields
  <2> QED BY <1>k, <2>1, <2>2, <2>3 DEF StopInv, Debugging
<1>7. CASE RunInstruction
  <2> DEFINE x == Step(m)
             next == [x EXCEPT !.cycles = m.cycles]
             reply == make_async_stop_reply(next)
  <2>1. /\ at = "running" /\ at' = "running" /\ exec.reply = << >> /\ breaks' = breaks
        /\ m' = next
        /\ exec' = [exec EXCEPT !.steps = AtMost(@ + 1, 2), !.seen = @ \o Watched,
                                !.passed = @ \/ (exec.steps > 0 /\ Pc(m) \in breaks),
                                !.fault = next.fault,
                                !.reply = IF Over(next) THEN reply ELSE << >>]
     BY <1>7 DEF RunInstruction
  <2>2. /\ m.halt = "run" /\ m.hit = << >> /\ exec.seen = << >> /\ m.wp_cb = "gdb"
        /\ exec.steps > 0 => ~exec.single /\ Pc(m) \notin breaks
     BY <2>1 DEF StopInv, Debugging
  <2>3. /\ IsMachine(x) /\ x.wp_cb = "gdb"
     BY <1>0, <2>2, StepKeeps DEF Keeps, Fixed
  <2>4. \/ Watched = << >> /\ x.hit = << >>
        \/ \E t, a : Watched = << <<t, a>> >> /\ x.hit = <<t, a>>
     BY <1>0, <2>2, StepHits
  <2> HIDE DEF x
  <2>5. IsMachine(next) /\ next.wp_cb = "gdb" /\ next.hit = x.hit BY <2>3 DEF IsMachine, Fields
  <2> HIDE DEF next, reply
  <2>6. /\ DOMAIN exec' = ExecFields /\ exec'.steps = AtMost(exec.steps + 1, 2)
        /\ exec'.seen = exec.seen \o Watched /\ exec'.fault = next.fault /\ exec'.single = exec.single
        /\ exec'.reply = IF Over(next) THEN reply ELSE << >>
     BY <1>0, <2>1 DEF ExecFields
  <2>7. ~exec'.passed
     <3>1. exec'.passed = (exec.passed \/ (exec.steps > 0 /\ Pc(m) \in breaks))
        BY <1>0, <2>1, Zenon DEF ExecFields
     <3> QED BY <1>0, <2>2, <3>1
  <2>8. exec'.steps \in Nat BY <1>0, <2>6 DEF AtMost
  <2>9. exec'.seen = Watched BY <2>2, <2>4, <2>6
  <2>10. reply = IF next.fault THEN <<"T04">>
                 ELSE IF exec'.seen # << >> THEN <<"T05", exec'.seen[1][1], exec'.seen[1][2]>> ELSE <<"T05">>
     BY <2>4, <2>5, <2>9 DEF make_async_stop_reply, reply
  <2>11. reply # << >> BY <2>10
  <2>12. ASSUME exec'.reply = << >>
         PROVE  /\ m'.halt = "run" /\ m'.hit = << >> /\ exec'.seen = << >>
                /\ ~exec'.single /\ Pc(m') \notin breaks
     <3>1. ~Over(next) BY <2>6, <2>11, <2>12
     <3> QED BY <2>1, <2>4, <2>5, <2>6, <2>9, <3>1 DEF Over
  <2>13. exec'.seen = << >> \/ (\E t, a : exec'.seen = << <<t, a>> >>) BY <2>4, <2>9
  <2>14. \/ exec'.reply = << >>
         \/ exec'.reply = IF exec'.fault THEN <<"T04">>
                          ELSE IF exec'.seen # << >> THEN <<"T05", exec'.seen[1][1], exec'.seen[1][2]>> ELSE <<"T05">>
     BY <2>6, <2>10
  <2>15. /\ at' \in Debugging /\ IsMachine(m') /\ m'.wp_cb = "gdb" BY <2>1, <2>5 DEF Debugging
  <2>16. (exec'.reply = << >>) =>
            /\ m'.halt = "run" /\ m'.hit = << >> /\ exec'.seen = << >>
            /\ exec'.steps > 0 => ~exec'.single /\ Pc(m') \notin breaks'
     BY <2>1, <2>12
  <2>17. Pc(m)' = Pc(m') BY DEF Pc
  <2> QED BY <1>k, <2>6, <2>7, <2>8, <2>13, <2>14, <2>15, <2>16, <2>17 DEF StopInv
<1>8. CASE EndRun
  <2>1. UNCHANGED <<exec, m>> /\ at = "running" /\ at' = "parse" BY <1>8 DEF EndRun
  <2> QED BY <1>0, <1>q, <2>1 DEF Debugging
<1>9. CASE Disconnect
  <2>1. UNCHANGED exec /\ at' = "done" /\ m' = [m EXCEPT !.strict = FALSE, !.wps = << >>, !.wp_cb = "none"]
     BY <1>9 DEF Disconnect, Exit, sessionVars
  <2>2. IsMachine(m') BY <1>0, <2>1 DEF IsMachine, Fields
  <2> QED BY <1>q, <2>1, <2>2 DEF Debugging
<1> QED BY <1>1, <1>2, <1>3, <1>4, <1>5, <1>6, <1>7, <1>8, <1>9 DEF GdbStep

\* Only a debug session's own steps touch its run.
LEMMA StopStep ==
  ASSUME StopInv, [Next]_vars
  PROVE  StopInv'
<1>h. host' = host BY HostStays
<1>k. Kind("bare")' <=> Kind("bare") BY <1>h DEF Kind
<1>s. ASSUME UNCHANGED exec, at' \notin Debugging,
             Kind("bare") => at' \in {"start", "loading", "segments", "boot", "run", "halted", "done"},
             Kind("bare") /\ host.gdb => at' \in {"start", "loading", "segments", "boot", "done"} /\ IsMachine(m')
      PROVE  StopInv'
   BY <1>h, <1>k, <1>s DEF StopInv, Debugging
<1>m. Kind("bare") /\ host.gdb => IsMachine(m) BY DEF StopInv
<1>1. CASE UNCHANGED vars
  <2>1. UNCHANGED <<exec, m, at, breaks>> BY <1>1 DEF vars, baseVars, gdbVars, sessionVars
  <2> QED BY <1>h, <1>k, <2>1 DEF StopInv, Pc
<1>2. CASE (GdbStep \/ ClientSend)
  <2>1. at \in Debugging
     BY <1>2
        DEF GdbStep, ClientSend, Accept, Receive, Skip, HandlePacket, BeginRun, RunInstruction, EndRun,
           ReceiveMore, Disconnect, Debugging
  <2>2. Kind("bare") /\ host.gdb BY <2>1 DEF StopInv
  <2> QED BY <1>2, <1>h, <2>2, SessionStep
<1>3. CASE LoadPfi /\ UNCHANGED gdbVars
  <2>0. UNCHANGED exec BY <1>3 DEF gdbVars, sessionVars
  <2>1. CASE OpenPfi
     <3>1. /\ at' \in {"loading", "done"}
           /\ m' = m \/ (\E mem : m' = PowerOn(mem, host.gdb))
        BY <2>1 DEF OpenPfi, Exit
     <3>2. \A mem : IsMachine(PowerOn(mem, host.gdb)) BY PowerOnIs
     <3>3. Kind("bare") /\ host.gdb => IsMachine(m') BY <1>m, <3>1, <3>2, Zenon
     <3> QED BY <1>s, <2>0, <3>1, <3>3 DEF Debugging
  <2>2. CASE ReadChunk
     <3>1. /\ at = "loading" /\ at' \in {"loading", "done"}
           /\ m' = m \/ (\E mem : m' = [m EXCEPT !.mem = mem])
        BY <2>2 DEF ReadChunk, Exit
     <3>2. Kind("bare") /\ host.gdb => IsMachine(m') BY <3>1 DEF StopInv, IsMachine, Fields
     <3> QED BY <1>s, <2>0, <3>1, <3>2 DEF Debugging
  <2>3. CASE EndLoad
     <3>1. /\ at' \in {"boot", "done"} /\ (m' = m \/ m' = AtResetVector(m)) BY <2>3 DEF EndLoad, Exit
     <3>2. Kind("bare") /\ host.gdb => IsMachine(m')
        BY <3>1 DEF StopInv, IsMachine, Fields, AtResetVector
     <3> QED BY <1>s, <2>0, <3>1, <3>2 DEF Debugging
  <2> QED BY <1>3, <2>1, <2>2, <2>3 DEF LoadPfi
<1>4. CASE OpenElf \/ ReadSegment \/ EndElf
  <2>1. /\ UNCHANGED exec /\ at' \in {"segments", "boot", "done"}
        /\ \/ m' = m
           \/ \E mem : m' = PowerOn(mem, host.gdb)
           \/ \E mem : m' = [m EXCEPT !.mem = mem]
           \/ \E pc : m' = [m EXCEPT !.regs["pc"] = pc]
     BY <1>4, Zenon DEF OpenElf, ReadSegment, EndElf, Exit, gdbVars, sessionVars
  <2>2. \A mem : IsMachine(PowerOn(mem, host.gdb)) BY PowerOnIs
  <2>3. ASSUME IsMachine(m), NEW mem PROVE IsMachine([m EXCEPT !.mem = mem])
     BY <2>3 DEF IsMachine, Fields
  <2>4. ASSUME IsMachine(m), NEW pc PROVE IsMachine([m EXCEPT !.regs["pc"] = pc])
     BY <2>4 DEF IsMachine, Fields
  <2>5. Kind("bare") /\ host.gdb => IsMachine(m') BY <1>m, <2>1, <2>2, <2>3, <2>4, Zenon
  <2> QED BY <1>s, <2>1, <2>5 DEF Debugging
<1>5. CASE BeginBare
  <2>1. /\ UNCHANGED <<exec, m>> /\ at = "boot" /\ Kind("bare") /\ at' = IF host.gdb THEN "accept" ELSE "run"
     BY <1>5 DEF BeginBare, gdbVars, sessionVars
  <2> QED BY <1>h, <1>k, <2>1 DEF StopInv, Debugging
<1>6. CASE Signal \/ BareInstruction \/ LeaveBurst \/ EndBare
  <2>1. /\ UNCHANGED exec /\ at \in {"run", "halted"} /\ at' \in {"run", "halted", "done"}
     BY <1>6 DEF Signal, BareInstruction, LeaveBurst, EndBare, Exit, gdbVars, sessionVars, baseVars
  <2>2. ~(Kind("bare") /\ host.gdb) BY <2>1 DEF StopInv, Debugging
  <2> QED BY <1>s, <2>1, <2>2 DEF Debugging
<1>7. CASE (HeadlessStep \/ RetroStep \/ PfarStep) /\ UNCHANGED gdbVars
  <2>1. ~Kind("bare")
     <3> SUFFICES ASSUME Kind("bare") PROVE FALSE OBVIOUS
     <3>1. ~Kind("headless") /\ ~Kind("libretro") /\ ~Kind("pfar") BY DEF Kind
     <3>2. at \in {"start", "loading", "segments", "boot", "run", "halted", "done"} \cup Debugging
        BY DEF StopInv
     <3>3. ~HeadlessStep
        BY <3>1, <3>2
           DEF HeadlessStep, ParseScript, BeginHeadless, BeginFrame, HeadlessJump, HeadlessBurst,
              HeadlessInstruction, HeadlessTick, Interrupted, NoFrame, EndFrame, Debugging
     <3>4. ~RetroStep
        BY <3>1, <3>2
           DEF RetroStep, LoadGame, RestoreSave, NoSave, BeginRetroRun, RetroBurst, RetroInstruction,
              RetroTick, RetroWake, EndRetroRun, RetroReset, Unload, Debugging
     <3>5. ~PfarStep
        BY <3>2
           DEF PfarStep, OpenImage, AddFile, DelFile, Extract, DumpDir, EndCommand, LastCommand, Change,
              Running, Debugging
     <3> QED BY <1>7, <3>3, <3>4, <3>5
  <2>2. at' \notin Debugging
     <3>1. at \notin Debugging BY <2>1 DEF StopInv
     <3>2. HeadlessStep => at' \notin Debugging
        BY <3>1
           DEF HeadlessStep, ParseScript, BeginHeadless, BeginFrame, HeadlessJump, HeadlessBurst,
              HeadlessInstruction, HeadlessTick, Interrupted, NoFrame, EndFrame, HeadlessExit, Exit,
              Debugging, baseVars
     <3>3. RetroStep => at' \notin Debugging
        BY <3>1
           DEF RetroStep, LoadGame, RestoreSave, NoSave, BeginRetroRun, RetroBurst, RetroInstruction,
              RetroTick, RetroWake, EndRetroRun, RetroReset, Unload, Exit, Debugging, baseVars
     <3>4. PfarStep => at' \notin Debugging
        BY <3>1
           DEF PfarStep, OpenImage, AddFile, DelFile, Extract, DumpDir, EndCommand, LastCommand, Change,
              Running, Exit, Debugging, baseVars
     <3> QED BY <1>7, <3>2, <3>3, <3>4
  <2>3. UNCHANGED exec BY <1>7 DEF gdbVars, sessionVars
  <2> QED BY <1>s, <2>1, <2>2, <2>3
<1>8. CASE Done BY <1>1, <1>8 DEF Done
<1> QED
  BY <1>1, <1>2, <1>3, <1>4, <1>5, <1>6, <1>7, <1>8 DEF Next, BareStep

\* GdbRsp::run never goes on past a breakpoint it reached, ends behind the first
\* watched access, and its stop reply says which of them it was: the callback
\* that Bus::fire_wp calls records the first hit only, Resumed clears it, and
\* the loop looks at the hit, the halt and the breakpoints after every instruction.
THEOREM RunsStopRight == Spec => []StopsAreRight
<1>1. StopInv => StopsAreRight
   BY DEF StopInv, StopsAreRight
<1> QED BY <1>1, StopInit, StopStep, PTL DEF Spec

-----------------------------------------------------------------------------
(* Theorem: memory holds the image                                         *)

\* A segment that gives a byte is the last that does; one that gives none
\* changes nothing.
LEMMA ElfByteNext ==
  ASSUME NEW elf, NEW size, NEW n \in Nat, NEW a
  PROVE  ElfByte(elf, size, n + 1, a) =
           IF Gives(elf, size, n + 1, a) THEN ByteOf(elf, n + 1, a) ELSE ElfByte(elf, size, n, a)
<1>1. ASSUME Gives(elf, size, n + 1, a)
      PROVE  LastOver(elf, size, n + 1, a) = {n + 1}
   BY <1>1 DEF LastOver
<1>2. ASSUME ~Gives(elf, size, n + 1, a)
      PROVE  LastOver(elf, size, n + 1, a) = LastOver(elf, size, n, a)
   BY <1>2 DEF LastOver
<1> DEFINE k == CHOOSE i \in {n + 1} : TRUE
<1>3. k = n + 1 OBVIOUS
<1>4. CASE Gives(elf, size, n + 1, a)
   <2>1. {n + 1} # {} OBVIOUS
   <2>2. ElfByte(elf, size, n + 1, a) = ByteOf(elf, k, a)
      BY <1>1, <1>4, <2>1, Zenon DEF ElfByte
   <2> HIDE DEF k
   <2>3. ByteOf(elf, k, a) = ByteOf(elf, n + 1, a) BY <1>3
   <2> QED BY <1>4, <2>2, <2>3
<1>5. CASE ~Gives(elf, size, n + 1, a)
   <2> DEFINE Shown(last) == IF last = {} THEN Blank(size)[a] ELSE ByteOf(elf, CHOOSE i \in last : TRUE, a)
   <2>1. ElfByte(elf, size, n + 1, a) = Shown(LastOver(elf, size, n + 1, a)) BY Zenon DEF ElfByte
   <2>2. ElfByte(elf, size, n, a) = Shown(LastOver(elf, size, n, a)) BY Zenon DEF ElfByte
   <2> HIDE DEF Shown
   <2>3. ElfByte(elf, size, n + 1, a) = ElfByte(elf, size, n, a) BY <1>2, <1>5, <2>1, <2>2
   <2> QED BY <1>5, <2>3, Zenon
<1> QED BY <1>4, <1>5

\* Memory x is what n segments leave.
Segmented(x, n) ==
  /\ DOMAIN x = DOMAIN Blank(Parts[1])
  /\ \A a \in DOMAIN x : x[a] = ElfByte(host.image, Parts[1], n, a)

IsSegment(s) == s.paddr \in Nat /\ s.offset \in Nat /\ s.filesz \in Nat /\ s.memsz \in Nat

\* One turn of elf_load's loop: a segment's bytes and its cleared rest.
LEMMA SegmentIsLoaded ==
  ASSUME NEW x, NEW n \in Nat, Segmented(x, n), DOMAIN x \subseteq Int,
         NEW s, s = host.image.segments[n + 1], IsSegment(s),
         NEW r, r = LoadSegment(x, host.image, Parts[1], s), r.ok
  PROVE  Segmented(r.mem, n + 1)
<1> DEFINE elf == host.image
           size == Parts[1]
           region == RegionOf(s.paddr, size)
           y == ZeroFill(CopySegment(x, elf, s), s)
<1>0. FLASH_BASE \in Int BY LoadersAssumption
<1>1. CASE ~s.load \/ (s.filesz = 0 /\ s.memsz = 0) \/ region = {}
   <2>1. r.mem = x BY <1>1 DEF LoadSegment, Loaded, Failed
   <2>2. ASSUME NEW a \in DOMAIN x PROVE ~Gives(elf, size, n + 1, a)
      BY <1>1 DEF Gives, Covers, IsSegment
   <2> QED BY <2>1, <2>2, ElfByteNext DEF Segmented
<1>2. CASE ~(~s.load \/ (s.filesz = 0 /\ s.memsz = 0) \/ region = {})
   <2>1. r.mem = y BY <1>2 DEF LoadSegment, Loaded, Failed
   <2>2. DOMAIN y = DOMAIN x BY DEF ZeroFill, CopySegment
   <2>3. ASSUME NEW a \in DOMAIN x
         PROVE  y[a] = ElfByte(elf, size, n + 1, a)
      <3>1. y[a] = IF Covers(s.paddr + s.filesz, s.memsz - s.filesz, a) /\ a < FLASH_BASE THEN Data(0)
                   ELSE IF Covers(s.paddr, s.filesz, a) THEN elf.body[s.offset + 1 + a - s.paddr] ELSE x[a]
         BY DEF ZeroFill, CopySegment
      <3>2. PICK p \in Nat, f \in Nat, z \in Nat : p = s.paddr /\ f = s.filesz /\ z = s.memsz
         BY DEF IsSegment
      <3>3. Gives(elf, size, n + 1, a) <=> Covers(p, IF a < FLASH_BASE /\ z > f THEN z ELSE f, a)
         BY <1>2, <3>2, Zenon DEF Gives
      <3>4. a \in Int OBVIOUS
      <3>5. /\ Covers(p + f, z - f, a) /\ a < FLASH_BASE => Gives(elf, size, n + 1, a) /\ ~(a < p + f)
            /\ ~(Covers(p + f, z - f, a) /\ a < FLASH_BASE) /\ Covers(p, f, a) => Gives(elf, size, n + 1, a) /\ a < p + f
            /\ ~(Covers(p + f, z - f, a) /\ a < FLASH_BASE) /\ ~Covers(p, f, a) => ~Gives(elf, size, n + 1, a)
         BY <1>0, <3>3, <3>4 DEF Covers
      <3>6. ElfByte(elf, size, n + 1, a) =
              IF Gives(elf, size, n + 1, a)
              THEN IF a < p + f THEN elf.body[s.offset + 1 + a - s.paddr] ELSE Data(0)
              ELSE ElfByte(elf, size, n, a)
         <4>1. ElfByte(elf, size, n + 1, a) =
                 IF Gives(elf, size, n + 1, a) THEN ByteOf(elf, n + 1, a) ELSE ElfByte(elf, size, n, a)
            BY ElfByteNext
         <4>2. ByteOf(elf, n + 1, a) =
                 IF a < p + f THEN elf.body[s.offset + 1 + a - s.paddr] ELSE Data(0)
            BY <3>2 DEF ByteOf
         <4> QED BY <4>1, <4>2, Zenon
      <3>7. x[a] = ElfByte(elf, size, n, a) BY DEF Segmented
      <3>8. CASE Covers(p + f, z - f, a) /\ a < FLASH_BASE BY <3>1, <3>2, <3>5, <3>6, <3>8, Zenon
      <3>9. CASE ~(Covers(p + f, z - f, a) /\ a < FLASH_BASE) /\ Covers(p, f, a)
         BY <3>1, <3>2, <3>5, <3>6, <3>9, Zenon
      <3>10. CASE ~(Covers(p + f, z - f, a) /\ a < FLASH_BASE) /\ ~Covers(p, f, a)
         BY <3>1, <3>2, <3>5, <3>6, <3>7, <3>10, Zenon
      <3> QED BY <3>8, <3>9, <3>10
   <2> QED BY <2>1, <2>2, <2>3 DEF Segmented
<1> QED BY <1>1, <1>2

\* Memory x is an erased part and n bytes of the image.
Flashed(x, part, n) ==
  /\ DOMAIN x = DOMAIN Blank(part)
  /\ \A a \in DOMAIN x :
       x[a] = IF Covers(FLASH_BASE, n, a) THEN host.image.bytes[host.image.offset + 1 + a - FLASH_BASE]
              ELSE IF a >= FLASH_BASE THEN ERASED ELSE Data(0)

IsFile(image) == image.offset \in Nat /\ image.flash_size \in Nat /\ Len(image.bytes) \in Nat

\* When all that was asked for or is there has been read, the flash is the image.
LEMMA FlashedIsImage ==
  ASSUME IsFile(host.image), NEW x, NEW part, DOMAIN x \subseteq Int,
         Flashed(x, part, AtMost(host.image.flash_size, Available(host.image)))
  PROVE  \A a \in DOMAIN x : x[a] = PfiByte(host.image, a)
<1>1. PICK off \in Nat, len \in Nat, size \in Nat :
        off = host.image.offset /\ len = Len(host.image.bytes) /\ size = host.image.flash_size
   BY DEF IsFile
<1>2. FLASH_BASE \in Int BY LoadersAssumption
<1>3. PICK n : n = AtMost(host.image.flash_size, Available(host.image)) OBVIOUS
<1>4. n = AtMost(size, IF off > len THEN 0 ELSE len - off) BY <1>1, <1>3 DEF Available
<1>5. ASSUME NEW a \in DOMAIN x PROVE x[a] = PfiByte(host.image, a)
  <2>1. a \in Int OBVIOUS
  <2>2. Covers(FLASH_BASE, n, a) <=> a >= FLASH_BASE /\ a - FLASH_BASE < size /\ off + (a - FLASH_BASE) < len
     BY <1>2, <1>4, <2>1 DEF Covers, AtMost
  <2>3. off + 1 + a - FLASH_BASE = off + (a - FLASH_BASE) + 1 BY <1>2, <2>1
  <2>4. x[a] = IF Covers(FLASH_BASE, n, a) THEN host.image.bytes[off + 1 + a - FLASH_BASE]
               ELSE IF a >= FLASH_BASE THEN ERASED ELSE Data(0)
     BY <1>1, <1>3 DEF Flashed
  <2>5. PfiByte(host.image, a) =
          IF a < FLASH_BASE THEN Data(0)
          ELSE IF a - FLASH_BASE < size /\ off + (a - FLASH_BASE) < len
               THEN host.image.bytes[off + (a - FLASH_BASE) + 1] ELSE ERASED
     BY <1>1, Zenon DEF PfiByte
  <2>6. a < FLASH_BASE <=> ~(a >= FLASH_BASE) BY <1>2, <2>1
  <2> QED BY <2>2, <2>3, <2>4, <2>5, <2>6
<1> QED BY <1>5

\* pfi_load starts on an erased part.
LEMMA BlankIsFlashed ==
  ASSUME NEW part \in Int
  PROVE  Flashed(Blank(part), part, 0)
<1>1. DOMAIN Blank(part) \subseteq Int /\ FLASH_BASE \in Int
   BY AddressesAreInts, LoadersAssumption DEF IsMemory
<1>2. \A a \in DOMAIN Blank(part) : ~Covers(FLASH_BASE, 0, a) BY <1>1 DEF Covers
<1>3. \A a \in DOMAIN Blank(part) : Blank(part)[a] = IF a >= FLASH_BASE THEN ERASED ELSE Data(0)
   BY DEF Blank
<1> QED BY <1>2, <1>3 DEF Flashed

\* One turn of pfi_load's loop: a chunk behind the bytes that are there.
LEMMA ChunkIsFlashed ==
  ASSUME IsFile(host.image), NEW x, NEW part, DOMAIN x \subseteq Int, NEW t \in Nat, Flashed(x, part, t), NEW n \in Nat
  PROVE  Flashed(load_image(x, t, host.image.bytes, host.image.offset + t, n), part, t + n)
<1> DEFINE y == load_image(x, t, host.image.bytes, host.image.offset + t, n)
<1>1. PICK off \in Nat : off = host.image.offset BY DEF IsFile
<1>2. FLASH_BASE \in Int BY LoadersAssumption
<1>3. DOMAIN y = DOMAIN x BY DEF load_image
<1>4. ASSUME NEW a \in DOMAIN x
      PROVE  y[a] = IF Covers(FLASH_BASE, t + n, a) THEN host.image.bytes[off + 1 + a - FLASH_BASE]
                    ELSE IF a >= FLASH_BASE THEN ERASED ELSE Data(0)
  <2>1. a \in Int OBVIOUS
  <2>2. y[a] = IF Covers(FLASH_BASE + t, n, a) THEN host.image.bytes[off + t + 1 + a - FLASH_BASE - t] ELSE x[a]
     BY <1>1 DEF load_image
  <2>3. off + t + 1 + a - FLASH_BASE - t = off + 1 + a - FLASH_BASE BY <1>2, <2>1
  <2>4. Covers(FLASH_BASE, t + n, a) <=> Covers(FLASH_BASE + t, n, a) \/ Covers(FLASH_BASE, t, a)
     BY <1>2, <2>1 DEF Covers
  <2>5. x[a] = IF Covers(FLASH_BASE, t, a) THEN host.image.bytes[off + 1 + a - FLASH_BASE]
               ELSE IF a >= FLASH_BASE THEN ERASED ELSE Data(0)
     BY <1>1 DEF Flashed
  <2> QED BY <2>2, <2>3, <2>4, <2>5
<1> HIDE DEF y
<1>5. Flashed(y, part, t + n) BY <1>1, <1>3, <1>4 DEF Flashed
<1> QED BY <1>5 DEF y


Unstarted == {"start", "script"}
Frontend == {"idle", "loop", "cpu", "wake"}
HasPc(x) == IsMachine(x) /\ "pc" \in DOMAIN x.regs

\* Each turn of a loader's loop extends what is in memory by one segment or
\* one chunk.
ImageInv ==
  /\ host \in HostSet
  /\ at \in Unstarted => ~Kind("pfar") /\ (~Kind("libretro") => total = 0)
  /\ at = "segments" =>
       /\ host.elf /\ total \in 0 .. Len(host.image.segments)
       /\ HasPc(m) /\ Segmented(m.mem, total)
  /\ at = "loading" =>
       /\ ~host.elf /\ ~Kind("pfar")
       /\ total \in Nat /\ total <= host.image.flash_size /\ total <= Available(host.image)
       /\ HasPc(m) /\ Flashed(m.mem, Part, total)
  /\ at = "boot" => ImageIsLoaded
  /\ at \in Frontend => Kind("libretro")

\* What the assumptions say of the images.
LEMMA FilesAreAssumed ==
  ASSUME host \in HostSet
  PROVE  /\ ~host.elf /\ ~Kind("pfar") => IsFile(host.image)
         /\ host.elf => /\ Kind("bare") /\ Len(host.image.segments) \in Nat
                        /\ \A i \in 1 .. Len(host.image.segments) : IsSegment(host.image.segments[i])
<1>1. ASSUME ~host.elf /\ ~Kind("pfar") PROVE IsFile(host.image)
   <2>1. /\ host.image.offset \in Nat /\ host.image.flash_size \in Nat
         /\ host.image.bytes \in Seq(Range(host.image.bytes))
      BY <1>1, HostsAssumption DEF Kind
   <2> QED BY <2>1 DEF IsFile
<1>2. ASSUME host.elf
      PROVE  /\ Kind("bare") /\ Len(host.image.segments) \in Nat
             /\ \A i \in 1 .. Len(host.image.segments) : IsSegment(host.image.segments[i])
   <2>1. /\ host.kind = "bare" /\ host.image.segments \in Seq(Range(host.image.segments))
         /\ \A i \in DOMAIN host.image.segments :
              LET s == host.image.segments[i]
              IN s.paddr \in Nat /\ s.offset \in Nat /\ s.filesz \in Nat /\ s.memsz \in Nat
      BY <1>2, HostsAssumption
   <2>2. Len(host.image.segments) \in Nat /\ DOMAIN host.image.segments = 1 .. Len(host.image.segments)
      BY <2>1
   <2> QED BY <2>1, <2>2 DEF Kind, IsSegment
<1> QED BY <1>1, <1>2

\* elf_load starts on an empty memory.
LEMMA BlankIsSegmented == Segmented(Blank(Parts[1]), 0)
<1>1. \A a : LastOver(host.image, Parts[1], 0, a) = {} BY DEF LastOver
<1>2. \A a : ElfByte(host.image, Parts[1], 0, a) = Blank(Parts[1])[a] BY <1>1, Zenon DEF ElfByte
<1> QED BY <1>2 DEF Segmented

\* A machine that was switched on has a pc.
LEMMA PowerOnHasPc ==
  ASSUME NEW mem, NEW gdb
  PROVE  HasPc(PowerOn(mem, gdb)) /\ PowerOn(mem, gdb).mem = mem
<1>1. "pc" \in {RegNames[i] : i \in DOMAIN RegNames} BY GuestAssumption
<1>2. PowerOn(mem, gdb).regs = [n \in {RegNames[i] : i \in DOMAIN RegNames} |-> 0] /\ PowerOn(mem, gdb).mem = mem
   BY DEF PowerOn
<1>3. IsMachine(PowerOn(mem, gdb)) BY PowerOnIs
<1> QED BY <1>1, <1>2, <1>3 DEF HasPc

\* Setting the pc leaves memory alone.
LEMMA PcIsSet ==
  ASSUME NEW x, HasPc(x), NEW v, NEW y, y = [x EXCEPT !.regs["pc"] = v]
  PROVE  Pc(y) = v /\ y.mem = x.mem
BY DEF HasPc, IsMachine, Fields, Pc

\* Setting the memory leaves the pc's register there.
LEMMA MemoryIsSet ==
  ASSUME NEW x, HasPc(x), NEW mem, NEW y, y = [x EXCEPT !.mem = mem]
  PROVE  HasPc(y) /\ y.mem = mem
BY DEF HasPc, IsMachine, Fields

\* Every part has the reset vector.
LEMMA BlankHasFlash ==
  ASSUME NEW n
  PROVE  /\ DOMAIN Blank(for_min_bytes(n)) \subseteq Int /\ DOMAIN Blank(Parts[1]) \subseteq Int
         /\ FLASH_BASE \in DOMAIN Blank(for_min_bytes(n))
<1>1. PICK size \in Nat \ {0} : size = for_min_bytes(n) BY PartsAreInts
<1>2. Parts \in Seq(Nat \ {0}) /\ Parts # << >> BY LoadersAssumption
<1>3. Parts[1] \in Int BY <1>2
<1>4. FLASH_BASE \in Flash(size) BY LoadersAssumption DEF Flash
<1>5. IsMemory(Blank(size)) /\ IsMemory(Blank(Parts[1])) BY <1>3, AddressesAreInts
<1>6. DOMAIN Blank(size) \subseteq Int /\ DOMAIN Blank(Parts[1]) \subseteq Int BY <1>5 DEF IsMemory
<1>7. FLASH_BASE \in DOMAIN Blank(size) BY <1>4 DEF Blank
<1> QED BY <1>1, <1>6, <1>7

\* The image is loaded when a CPU starts at the reset vector of a whole flash.
LEMMA ResetIsLoaded ==
  ASSUME ~host.elf, IsFile(host.image), NEW n, NEW x, HasPc(x),
         Flashed(x.mem, for_min_bytes(n), AtMost(host.image.flash_size, Available(host.image))),
         m' = AtResetVector(x), host' = host
  PROVE  ImageIsLoaded'
<1>1. FLASH_BASE \in DOMAIN x.mem /\ DOMAIN x.mem \subseteq Int BY BlankHasFlash DEF Flashed
<1>2. \A a \in DOMAIN x.mem : x.mem[a] = PfiByte(host.image, a)
   <2>1. PICK mem : mem = x.mem OBVIOUS
   <2>2. PICK part : part = for_min_bytes(n) OBVIOUS
   <2>3. Flashed(mem, part, AtMost(host.image.flash_size, Available(host.image))) BY <2>1, <2>2
   <2>4. DOMAIN mem \subseteq Int BY <1>1, <2>1
   <2> QED BY <2>1, <2>3, <2>4, FlashedIsImage
<1>3. Pc(m') = x.mem[FLASH_BASE][2] /\ m'.mem = x.mem
   <2>1. PICK y, v : y = m' /\ v = x.mem[FLASH_BASE][2] /\ y = [x EXCEPT !.regs["pc"] = v]
      BY DEF AtResetVector
   <2>2. Pc(y) = v /\ y.mem = x.mem BY <2>1, PcIsSet
   <2> QED BY <2>1, <2>2
<1>4. Pc(m)' = PfiByte(host.image, FLASH_BASE)[2] BY <1>1, <1>2, <1>3 DEF Pc
<1> QED BY <1>1, <1>2, <1>3, <1>4 DEF ImageIsLoaded

\* The blob loader's one copy is the image.
LEMMA BlobIsFlashed ==
  ASSUME IsFile(host.image), NEW part \in Int, NEW r, r = pfi_load_blob(PowerOn(Blank(part), FALSE).mem, host.image), r.ok
  PROVE  Flashed(r.mem, part, AtMost(host.image.flash_size, Available(host.image)))
<1> DEFINE n == AtMost(host.image.flash_size, Available(host.image))
           y == load_image(Blank(part), 0, host.image.bytes, host.image.offset, n)
<1>1. r = pfi_load_blob(Blank(part), host.image) BY PowerOnHasPc
<1>2. r.mem = y
   <2>1. pfi_load_blob(Blank(part), host.image).ok BY <1>1
   <2>2. pfi_load_blob(Blank(part), host.image) = Loaded(y) BY <2>1 DEF pfi_load_blob, Failed, Loaded
   <2>3. r = Loaded(y) BY <1>1, <2>2
   <2>4. Loaded(y).mem = y BY DEF Loaded
   <2> QED BY <2>3, <2>4, Zenon
<1>3. PICK off \in Nat, len \in Nat, size \in Nat :
        off = host.image.offset /\ len = Len(host.image.bytes) /\ size = host.image.flash_size
   BY DEF IsFile
<1>4. n = AtMost(size, IF off > len THEN 0 ELSE len - off) BY <1>3 DEF Available
<1>5. n \in Nat BY <1>3, <1>4 DEF AtMost
<1> HIDE DEF n
<1>6. DOMAIN Blank(part) \subseteq Int BY AddressesAreInts DEF IsMemory
<1>7. Flashed(load_image(Blank(part), 0, host.image.bytes, host.image.offset + 0, n), part, 0 + n)
   BY <1>5, <1>6, BlankIsFlashed, ChunkIsFlashed
<1>8. host.image.offset + 0 = host.image.offset /\ 0 + n = n BY <1>3, <1>5
<1>9. Flashed(y, part, n) BY <1>7, <1>8
<1> QED BY <1>2, <1>9 DEF n

\* Where the file or the size in the header ends, a chunk is empty.
LEMMA ChunkEnds ==
  ASSUME IsFile(host.image), total \in Nat, total <= host.image.flash_size, total <= Available(host.image),
         NEW n, n = ChunkLength(host.image, total)
  PROVE  /\ n > 0 => n \in Nat /\ total + n <= host.image.flash_size /\ total + n <= Available(host.image)
         /\ total >= host.image.flash_size \/ n <= 0 => total = AtMost(host.image.flash_size, Available(host.image))
<1>1. PICK off \in Nat, len \in Nat, size \in Nat :
        off = host.image.offset /\ len = Len(host.image.bytes) /\ size = host.image.flash_size
   BY DEF IsFile
<1>2. PICK avail \in Int : avail = Available(host.image) BY <1>1 DEF Available
<1>3. PICK t \in Nat : t = total OBVIOUS
<1>4. CHUNK \in Nat \ {0} BY LoadersAssumption
<1>5. n = AtMost(AtMost(CHUNK, size - t), avail - t) BY <1>1, <1>2, <1>3 DEF ChunkLength
<1>6. t <= size /\ t <= avail BY <1>1, <1>2, <1>3
<1>7. /\ n > 0 => n \in Nat /\ t + n <= size /\ t + n <= avail
      /\ t >= size \/ n <= 0 => t = AtMost(size, avail)
   BY <1>4, <1>5, <1>6 DEF AtMost
<1> QED BY <1>1, <1>2, <1>3, <1>7

\* Nothing is loaded at the start.
LEMMA ImageInit == Init => ImageInv
BY DEF Init, BootInit, ImageInv, Kind, Unstarted, Frontend

\* The steps of elf_load.
LEMMA ElfStep ==
  ASSUME ImageInv, host' = host, OpenElf \/ ReadSegment \/ EndElf
  PROVE  ImageInv'
<1>1. host \in HostSet /\ host.elf
   <2>1. host.elf BY DEF OpenElf, ReadSegment, EndElf, ImageInv
   <2> QED BY <2>1 DEF ImageInv
<1>2. /\ Len(host.image.segments) \in Nat
      /\ \A i \in 1 .. Len(host.image.segments) : IsSegment(host.image.segments[i])
   BY <1>1, FilesAreAssumed
<1>3. ~Kind("libretro") /\ ~Kind("pfar") BY <1>1, FilesAreAssumed DEF Kind
<1>4. ASSUME at' = "done" PROVE ImageInv' BY <1>4 DEF ImageInv, Unstarted, Frontend
<1>5. ASSUME at' = "segments", total' \in 0 .. Len(host.image.segments), HasPc(m'), Segmented(m.mem, total)'
      PROVE  ImageInv'
   BY <1>1, <1>5 DEF ImageInv, Unstarted, Frontend
<1>6. CASE OpenElf
   <2>1. CASE at' = "done" BY <1>4, <2>1
   <2>2. CASE at' # "done"
      <3>1. at = "start" /\ total' = total /\ m' = PowerOn(Blank(Parts[1]), host.gdb) /\ at' = "segments"
         BY <1>6, <2>2 DEF OpenElf, Exit
      <3>2. total' = 0 BY <1>3, <3>1 DEF ImageInv, Unstarted
      <3>3. HasPc(m') /\ m'.mem = Blank(Parts[1]) BY <3>1, PowerOnHasPc
      <3>4. Segmented(m.mem, total)' BY <3>2, <3>3, BlankIsSegmented DEF Segmented
      <3> QED BY <1>2, <1>5, <3>1, <3>2, <3>3, <3>4
   <2> QED BY <2>1, <2>2
<1>7. CASE ReadSegment
   <2> DEFINE s == host.image.segments[total + 1]
              r == LoadSegment(m.mem, host.image, Parts[1], s)
   <2>1. /\ at = "segments" /\ total < Len(host.image.segments)
         /\ total \in 0 .. Len(host.image.segments) /\ HasPc(m) /\ Segmented(m.mem, total)
      BY <1>7 DEF ReadSegment, ImageInv
   <2>2. CASE at' = "done" BY <1>4, <2>2
   <2>3. CASE at' # "done"
      <3>1. m' = [m EXCEPT !.mem = r.mem] /\ total' = total + 1 /\ at' = "segments" /\ r.ok
         BY <1>7, <2>1, <2>3 DEF ReadSegment, Exit
      <3>2. IsSegment(s) /\ total \in Nat /\ total + 1 \in 0 .. Len(host.image.segments) BY <1>2, <2>1
      <3>3. DOMAIN m.mem \subseteq Int BY <2>1, BlankHasFlash DEF Segmented
      <3>4. PICK x, n, t : x = m.mem /\ n = total /\ t = s OBVIOUS
      <3>5. PICK q : q = LoadSegment(x, host.image, Parts[1], t) OBVIOUS
      <3>6. q = r BY <3>4, <3>5
      <3>7. Segmented(q.mem, n + 1) BY <2>1, <3>1, <3>2, <3>3, <3>4, <3>5, <3>6, SegmentIsLoaded
      <3>8. HasPc(m') /\ m'.mem = q.mem
         <4>1. PICK mem : mem = r.mem OBVIOUS
         <4>2. HasPc(m) /\ m' = [m EXCEPT !.mem = mem] BY <2>1, <3>1, <4>1, Zenon
         <4>3. HasPc(m') /\ m'.mem = mem BY <4>2, MemoryIsSet
         <4> QED BY <3>6, <4>1, <4>3
      <3>9. Segmented(m.mem, total)' BY <3>1, <3>4, <3>7, <3>8 DEF Segmented
      <3> QED BY <1>5, <3>1, <3>2, <3>8, <3>9
   <2> QED BY <2>2, <2>3
<1>8. CASE EndElf
   <2>1. /\ total = Len(host.image.segments) /\ HasPc(m) /\ Segmented(m.mem, total)
         /\ m' = [m EXCEPT !.regs["pc"] = host.image.entry] /\ at' = "boot"
      BY <1>8 DEF EndElf, ImageInv
   <2>2. Pc(m') = host.image.entry /\ m'.mem = m.mem
      <3>1. PICK v : v = host.image.entry OBVIOUS
      <3>2. HasPc(m) /\ m' = [m EXCEPT !.regs["pc"] = v] BY <2>1, <3>1, Zenon
      <3>3. Pc(m') = v /\ m'.mem = m.mem BY <3>2, PcIsSet
      <3> QED BY <3>1, <3>3
   <2>3. ImageIsLoaded' BY <1>1, <2>1, <2>2 DEF ImageIsLoaded, Segmented, Pc
   <2> QED BY <1>1, <2>1, <2>3 DEF ImageInv, Unstarted, Frontend
<1> QED BY <1>6, <1>7, <1>8

\* The steps of pfi_load.
LEMMA PfiStep ==
  ASSUME ImageInv, host' = host, LoadPfi
  PROVE  ImageInv'
<1>1. host \in HostSet BY DEF ImageInv
<1>2. ~host.elf /\ ~Kind("pfar") /\ IsFile(host.image)
   <2>1. ~host.elf /\ ~Kind("pfar") BY DEF LoadPfi, OpenPfi, ReadChunk, EndLoad, ImageInv, Unstarted
   <2> QED BY <1>1, <2>1, FilesAreAssumed
<1>3. PICK off \in Nat, len \in Nat, size \in Nat :
        off = host.image.offset /\ len = Len(host.image.bytes) /\ size = host.image.flash_size
   BY <1>2 DEF IsFile
<1>4. ASSUME at' = "done" PROVE ImageInv' BY <1>1, <1>4 DEF ImageInv, Unstarted, Frontend
<1>5. ASSUME at' = "loading", total' \in Nat, total' <= host.image.flash_size, total' <= Available(host.image),
             HasPc(m'), Flashed(m'.mem, Part, total')
      PROVE  ImageInv'
   <2>1. Part' = Part BY DEF Part, Kind
   <2>2. Flashed(m.mem, Part, total)' BY <1>5, <2>1 DEF Flashed
   <2> QED BY <1>1, <1>2, <1>5, <2>2 DEF ImageInv, Unstarted, Frontend, Kind
<1>6. PICK n : Part = for_min_bytes(n) BY DEF Part
<1>7. PICK part \in Nat \ {0} : part = Part BY <1>6, PartsAreInts
<1>8. CASE OpenPfi
   <2>1. CASE at' # "done"
      <3>1. at = "start" /\ ~Kind("libretro") /\ total' = total /\ m' = PowerOn(Blank(Part), host.gdb) /\ at' = "loading"
         BY <1>8, <2>1 DEF OpenPfi, Exit
      <3>2. total' = 0 BY <3>1 DEF ImageInv, Unstarted
      <3>3. HasPc(m') /\ m'.mem = Blank(part) BY <1>7, <3>1, PowerOnHasPc
      <3>4. Flashed(m'.mem, Part, total') BY <1>7, <3>2, <3>3, BlankIsFlashed
      <3>5. 0 <= host.image.flash_size /\ 0 <= Available(host.image) BY <1>3 DEF Available
      <3> QED BY <1>5, <3>1, <3>2, <3>3, <3>4, <3>5
   <2> QED BY <1>4, <2>1
<1>9. ASSUME at = "loading"
      PROVE  /\ total \in Nat /\ total <= host.image.flash_size /\ total <= Available(host.image)
             /\ HasPc(m) /\ Flashed(m.mem, part, total) /\ DOMAIN m.mem \subseteq Int
   <2>1. /\ total \in Nat /\ total <= host.image.flash_size /\ total <= Available(host.image)
         /\ HasPc(m) /\ Flashed(m.mem, part, total)
      BY <1>7, <1>9 DEF ImageInv
   <2>2. DOMAIN m.mem \subseteq Int BY <1>6, <1>7, <2>1, BlankHasFlash DEF Flashed
   <2> QED BY <2>1, <2>2
<1>10. CASE ReadChunk
   <2>1. CASE at' # "done"
      <3> DEFINE k == ChunkLength(host.image, total)
                 y == load_image(m.mem, total, host.image.bytes, host.image.offset + total, k)
      <3>1. /\ at = "loading" /\ k > 0 /\ at' = "loading" /\ total' = total + k
            /\ m' = [m EXCEPT !.mem = y]
         BY <1>10, <2>1 DEF ReadChunk, Exit
      <3>2. PICK t \in Nat : t = total BY <1>9, <3>1
      <3>3. k \in Nat /\ total + k <= host.image.flash_size /\ total + k <= Available(host.image)
         BY <1>2, <1>9, <3>1, ChunkEnds
      <3>4. HasPc(m') /\ m'.mem = y
         <4>1. PICK mem : mem = y OBVIOUS
         <4>2. HasPc(m') /\ m'.mem = mem BY <1>9, <3>1, <4>1, MemoryIsSet
         <4> QED BY <4>1, <4>2
      <3> HIDE DEF k
      <3>5. Flashed(y, part, total + k)
         <4>1. PICK x : x = m.mem OBVIOUS
         <4>2. Flashed(load_image(x, t, host.image.bytes, host.image.offset + t, k), part, t + k)
            BY <1>2, <1>9, <3>1, <3>2, <3>3, <4>1, ChunkIsFlashed
         <4> QED BY <3>2, <4>1, <4>2
      <3> QED BY <1>5, <1>7, <1>9, <3>1, <3>3, <3>4, <3>5
   <2> QED BY <1>4, <2>1
<1>11. CASE EndLoad
   <2>1. CASE at' # "done"
      <3>1. /\ at = "loading" /\ m' = AtResetVector(m) /\ at' = "boot"
            /\ total >= host.image.flash_size \/ ChunkLength(host.image, total) <= 0
         BY <1>11, <2>1 DEF EndLoad, Exit
      <3>2. total = AtMost(host.image.flash_size, Available(host.image)) BY <1>2, <1>9, <3>1, ChunkEnds
      <3>3. PICK x : x = m OBVIOUS
      <3>4. ImageIsLoaded' BY <1>2, <1>6, <1>7, <1>9, <3>1, <3>2, <3>3, ResetIsLoaded
      <3> QED BY <1>1, <3>1, <3>4 DEF ImageInv, Unstarted, Frontend
   <2> QED BY <1>4, <2>1
<1> QED BY <1>8, <1>10, <1>11 DEF LoadPfi

\* No other step comes between a loader and the first instruction.
LEMMA ImageStep ==
  ASSUME ImageInv, [Next]_vars
  PROVE  ImageInv'
<1>h. host' = host BY HostStays
<1>0. host \in HostSet BY DEF ImageInv
<1>s. ASSUME at' \notin Unstarted \cup Frontend \cup {"segments", "loading", "boot"} PROVE ImageInv'
   BY <1>h, <1>0, <1>s DEF ImageInv
<1>f. ASSUME at' \in Frontend, Kind("libretro") PROVE ImageInv'
   BY <1>h, <1>0, <1>f DEF ImageInv, Unstarted, Frontend, Kind
<1>1. CASE UNCHANGED vars
   <2>1. UNCHANGED <<host, at, m, total>> BY <1>1 DEF vars, baseVars, bootVars
   <2> QED BY <2>1 DEF ImageInv, ImageIsLoaded, Kind, Segmented, Flashed, Part, HasPc, Pc, IsMachine
<1>2. CASE LoadPfi BY <1>h, <1>2, PfiStep
<1>3. CASE OpenElf \/ ReadSegment \/ EndElf BY <1>h, <1>3, ElfStep
<1>4. CASE BeginBare \/ Signal \/ BareInstruction \/ LeaveBurst \/ EndBare
   <2>1. at' \in {"accept", "run", "halted", "done"}
      BY <1>4 DEF BeginBare, Signal, BareInstruction, LeaveBurst, EndBare, Exit, baseVars
   <2> QED BY <1>s, <2>1 DEF Unstarted, Frontend
<1>5. CASE GdbStep \/ ClientSend
   <2>1. at' \in {"recv", "parse", "running", "done"}
      BY <1>5
         DEF GdbStep, ClientSend, Accept, Receive, Skip, HandlePacket, BeginRun, RunInstruction, EndRun,
            ReceiveMore, Disconnect, Exit, baseVars
   <2> QED BY <1>s, <2>1 DEF Unstarted, Frontend
<1>6. CASE HeadlessStep
   <2>1. CASE ParseScript
      <3>1. at = "script" /\ at' \in {"start", "done"} /\ total' = total BY <2>1 DEF ParseScript, Exit
      <3> QED BY <1>h, <1>0, <3>1 DEF ImageInv, Unstarted, Frontend, Kind
   <2>2. CASE ~ParseScript
      <3>1. at' \in {"frame", "outer", "burst", "done"}
         BY <1>6, <2>2
            DEF HeadlessStep, BeginHeadless, BeginFrame, HeadlessJump, HeadlessBurst,
               HeadlessInstruction, HeadlessTick, Interrupted, NoFrame, EndFrame, HeadlessExit, Exit,
               baseVars
      <3> QED BY <1>s, <3>1 DEF Unstarted, Frontend
   <2> QED BY <2>1, <2>2
<1>7. CASE RetroStep
   <2>1. CASE LoadGame
      <3> DEFINE part == for_min_bytes(FlashSize(host.image))
                 r == pfi_load_blob(PowerOn(Blank(part), FALSE).mem, host.image)
      <3>1. CASE at' = "done" BY <1>s, <3>1 DEF Unstarted, Frontend
      <3>2. CASE at' # "done"
         <4>1. at = "start" /\ Kind("libretro") /\ r.ok /\ m' = AtResetVector(PowerOn(r.mem, FALSE)) /\ at' = "boot"
            BY <2>1, <3>2 DEF LoadGame, Exit
         <4>2. ~host.elf /\ IsFile(host.image)
            <5>1. ~host.elf /\ ~Kind("pfar") BY <1>0, <4>1, HostsAssumption DEF Kind
            <5> QED BY <1>0, <5>1, FilesAreAssumed
         <4>3. PICK q : q = r OBVIOUS
         <4>4. PICK p : p = PowerOn(q.mem, FALSE) OBVIOUS
         <4>5. part \in Int BY PartsAreInts
         <4>6. Flashed(q.mem, part, AtMost(host.image.flash_size, Available(host.image)))
            BY <4>1, <4>2, <4>3, <4>5, BlobIsFlashed
         <4>7. HasPc(p) /\ p.mem = q.mem BY <4>4, PowerOnHasPc
         <4>8. PICK n : n = FlashSize(host.image) OBVIOUS
         <4>9. m' = AtResetVector(p) BY <4>1, <4>3, <4>4
         <4>10. Flashed(p.mem, for_min_bytes(n), AtMost(host.image.flash_size, Available(host.image)))
            BY <4>6, <4>7, <4>8
         <4>11. ImageIsLoaded' BY <1>h, <4>2, <4>7, <4>9, <4>10, ResetIsLoaded
         <4> QED BY <1>h, <1>0, <4>1, <4>11 DEF ImageInv, Unstarted, Frontend
      <3> QED BY <3>1, <3>2
   <2>2. CASE Unload
      <3>1. at = "idle" /\ at' \in {"start", "done"} BY <2>2 DEF Unload
      <3>2. Kind("libretro") BY <3>1 DEF ImageInv, Frontend
      <3> QED BY <1>h, <1>0, <3>1, <3>2 DEF ImageInv, Unstarted, Frontend, Kind
   <2>3. CASE ~LoadGame /\ ~Unload
      <3>1. at' \in Frontend /\ (Kind("libretro") \/ at \in Frontend)
         BY <1>7, <2>3
            DEF RetroStep, RestoreSave, NoSave, BeginRetroRun, RetroBurst, RetroInstruction, RetroTick,
               RetroWake, EndRetroRun, RetroReset, Frontend
      <3>2. Kind("libretro") BY <3>1 DEF ImageInv
      <3> QED BY <1>f, <3>1, <3>2
   <2> QED BY <2>1, <2>2, <2>3
<1>8. CASE PfarStep
   <2>1. at' \in {"tool", "done"}
      BY <1>8
         DEF PfarStep, OpenImage, AddFile, DelFile, Extract, DumpDir, EndCommand, LastCommand, Change,
            Running, Exit, baseVars
   <2> QED BY <1>s, <2>1 DEF Unstarted, Frontend
<1>9. CASE Done BY <1>1, <1>9 DEF Done
<1> QED
  BY <1>1, <1>2, <1>3, <1>4, <1>5, <1>6, <1>7, <1>8, <1>9 DEF Next, BareStep

\* Whichever way an image comes in - elf_load segment by segment, pfi_load chunk
\* by chunk, the blob in one copy - and however short its file is, memory holds
\* it byte for byte when the host starts the CPU, the later segment winning, the
\* rest of the flash erased, and the pc is at its entry.
THEOREM ImagesAreLoaded == Spec => []ImageIsLoaded
<1>1. ImageInv => ImageIsLoaded BY DEF ImageInv, ImageIsLoaded
<1> QED BY <1>1, ImageInit, ImageStep, PTL DEF Spec

-----------------------------------------------------------------------------
(* ScriptRunsOnTime                                                        *)

\* Induction over the natural numbers, for a set of them.
LEMMA SetInduction ==
  ASSUME NEW S, 0 \in S, \A n \in Nat : n \in S => n + 1 \in S
  PROVE  Nat \subseteq S
<1> DEFINE R == {p \in Nat \X Nat : p[1] < p[2]}
<1>1. IsWellFoundedOn(R, Nat) BY NatLessThanWellFounded DEF OpToRel
<1> SUFFICES ASSUME Nat \ S # {} PROVE FALSE OBVIOUS
<1>2. PICK x \in Nat \ S : \A y \in Nat \ S : ~ (<<y, x>> \in R)
   <2> HIDE DEF R
   <2> QED BY <1>1, WFMin
<1>3. x # 0 /\ x - 1 \in Nat /\ x - 1 \notin S OBVIOUS
<1>4. <<x - 1, x>> \in R BY <1>3
<1> QED BY <1>2, <1>3, <1>4

\* A line that says when something happens has a number.
IsLine(line) == line[1] \in {"wait", "frame"} => line[2] \in Nat

\* What parse_script knows after some lines: the commands are lines, in an
\* order that the last frame seen does not break.
GoodParse(st, lines) ==
  /\ st = [ok |-> st.ok, last |-> st.last, cmds |-> st.cmds]
  /\ st.ok =>
       /\ st.cmds \in Seq(lines)
       /\ st.last = None => st.cmds = << >>
       /\ st.last # None => st.last \in Nat
       /\ \A i \in 1 .. Len(st.cmds) : st.cmds[i][2] \in Nat /\ st.cmds[i][2] <= st.last
       /\ \A i, j \in 1 .. Len(st.cmds) : i <= j => st.cmds[i][2] <= st.cmds[j][2]

\* The first k commands are those of the frames before n.
Split(seq, k, n) ==
  /\ \A i \in 1 .. k : seq[i][2] < n
  /\ \A i \in k + 1 .. Len(seq) : ~(seq[i][2] < n)
SplitsAt(st, before, n) ==
  st.ok => \A k \in 0 .. Len(st.cmds) : Split(st.cmds, k, n) => before = SubSeq(st.cmds, 1, k)

\* A line is an error, moves the frame, or adds a command.
LEMMA LineDoes ==
  ASSUME NEW lines, NEW line \in lines, IsLine(line), NEW st, GoodParse(st, lines), ParseLine(st, line).ok
  PROVE  /\ st.ok
         /\ \/ /\ line[1] = "wait"
               /\ ParseLine(st, line) = [ok |-> TRUE, last |-> Start(st) + line[2], cmds |-> st.cmds]
            \/ /\ line[1] = "frame" /\ line[2] \in Nat /\ (st.last = None \/ ~(line[2] < st.last))
               /\ ParseLine(st, line) = [ok |-> TRUE, last |-> line[2], cmds |-> Append(st.cmds, line)]
<1> DEFINE o == st.ok
           l == st.last
           c == st.cmds
<1>1. st = [ok |-> o, last |-> l, cmds |-> c] BY DEF GoodParse
<1> HIDE DEF o, l, c
<1>2. CASE ~st.ok \/ line[1] \notin {"wait", "frame"}
   <2>1. ParseLine(st, line) = [st EXCEPT !.ok = FALSE] BY <1>2, Zenon DEF ParseLine
   <2> QED BY <1>1, <2>1
<1>3. CASE st.ok /\ line[1] = "wait"
   <2>1. ParseLine(st, line) = [st EXCEPT !.last = Start(st) + line[2]] BY <1>3 DEF ParseLine
   <2> HIDE DEF ParseLine
   <2> DEFINE s == Start(st) + line[2]
   <2>2. ParseLine(st, line) = [st EXCEPT !.last = s] BY <2>1
   <2> HIDE DEF s
   <2>3. ParseLine(st, line) = [ok |-> o, last |-> s, cmds |-> c] BY <1>1, <2>2
   <2> QED BY <1>3, <2>3 DEF s, o, c
<1>4. CASE st.ok /\ line[1] = "frame"
   <2>1. CASE line[3] \notin Verbs \/ (st.last # None /\ line[2] < st.last)
      <3>1. ParseLine(st, line) = [st EXCEPT !.ok = FALSE] BY <1>4, <2>1 DEF ParseLine
      <3> QED BY <1>1, <3>1
   <2>2. CASE ~(line[3] \notin Verbs \/ (st.last # None /\ line[2] < st.last))
      <3>1. ParseLine(st, line) = [st EXCEPT !.last = line[2], !.cmds = Append(@, line)]
         BY <1>4, <2>2 DEF ParseLine
      <3>2. ParseLine(st, line) = [ok |-> o, last |-> line[2], cmds |-> Append(c, line)] BY <1>1, <3>1
      <3> QED BY <1>4, <2>2, <3>2 DEF o, c, IsLine
   <2> QED BY <2>1, <2>2
<1> QED BY <1>2, <1>3, <1>4

\* Each line keeps the commands in order.
LEMMA LineKeeps ==
  ASSUME NEW lines, NEW line \in lines, IsLine(line), NEW st, GoodParse(st, lines)
  PROVE  GoodParse(ParseLine(st, line), lines)
<1> DEFINE y == ParseLine(st, line)
<1>0. y = [ok |-> y.ok, last |-> y.last, cmds |-> y.cmds]
   <2>1. st = [ok |-> st.ok, last |-> st.last, cmds |-> st.cmds] BY DEF GoodParse
   <2>2. \/ y = [st EXCEPT !.ok = FALSE]
         \/ \E l : y = [st EXCEPT !.last = l]
         \/ \E l, c : y = [st EXCEPT !.last = l, !.cmds = c]
      BY Zenon DEF ParseLine
   <2> HIDE DEF y
   <2>3. CASE y = [st EXCEPT !.ok = FALSE] BY <2>1, <2>3
   <2>4. ASSUME NEW l, y = [st EXCEPT !.last = l]
         PROVE  y = [ok |-> y.ok, last |-> y.last, cmds |-> y.cmds] BY <2>1, <2>4
   <2>5. ASSUME NEW l, NEW c, y = [st EXCEPT !.last = l, !.cmds = c]
         PROVE  y = [ok |-> y.ok, last |-> y.last, cmds |-> y.cmds] BY <2>1, <2>5
   <2> QED BY <2>2, <2>3, <2>4, <2>5
<1> HIDE DEF y
<1>1. CASE ~y.ok BY <1>0, <1>1 DEF y, GoodParse
<1>2. CASE y.ok /\ line[1] = "wait"
   <2>1. st.ok /\ y.cmds = st.cmds /\ y.last = Start(st) + line[2] /\ line[2] \in Nat
      BY <1>2, LineDoes DEF y, IsLine
   <2>2. y.last \in Nat /\ y.last # None BY <2>1 DEF GoodParse, Start, None
   <2>3. \A i \in 1 .. Len(st.cmds) : st.cmds[i][2] \in Nat /\ st.cmds[i][2] <= y.last
      BY <2>1, <2>2 DEF GoodParse, Start, None
   <2> QED BY <1>0, <2>1, <2>2, <2>3 DEF GoodParse, y
<1>3. CASE y.ok /\ line[1] = "frame"
   <2>1. st.ok /\ y.cmds = Append(st.cmds, line) /\ y.last = line[2] /\ line[2] \in Nat
         /\ (st.last = None \/ ~(line[2] < st.last))
      BY <1>3, LineDoes DEF y, IsLine
   <2> DEFINE c == st.cmds
              n == Len(c)
   <2>2. c \in Seq(lines) /\ n \in Nat BY <2>1 DEF GoodParse
   <2>3. \A i \in 1 .. n : c[i][2] \in Nat /\ c[i][2] <= line[2]
      <3>1. CASE st.last = None
         <4>1. n = 0 BY <2>1, <3>1 DEF GoodParse
         <4> QED BY <4>1
      <3>2. CASE st.last # None
         <4>1. st.last \in Nat /\ st.last <= line[2] BY <2>1, <3>2 DEF GoodParse
         <4> QED BY <2>1, <4>1 DEF GoodParse
      <3> QED BY <3>1, <3>2
   <2>4. \A i, j \in 1 .. n : i <= j => c[i][2] <= c[j][2] BY <2>1 DEF GoodParse
   <2> HIDE DEF c, n
   <2>5. y.cmds = Append(c, line) BY <2>1 DEF c
   <2>6. /\ y.cmds \in Seq(lines) /\ Len(y.cmds) = n + 1
         /\ \A i \in 1 .. n : y.cmds[i] = c[i]
         /\ y.cmds[n + 1] = line
      BY <2>2, <2>5 DEF n
   <2> DEFINE d == y.cmds
              e == line[2]
   <2>7. d[n + 1][2] = e /\ e \in Nat BY <2>1, <2>6
   <2>3a. \A i \in 1 .. n : d[i][2] \in Nat /\ d[i][2] <= e BY <2>3, <2>6
   <2>3b. \A i \in 1 .. n + 1 : i \in 1 .. n \/ i = n + 1 BY <2>2
   <2>8. \A i \in 1 .. n + 1 : d[i][2] \in Nat /\ d[i][2] <= e
      <3> HIDE DEF d, e
      <3> QED BY <2>3a, <2>3b, <2>7
   <2>4a. \A i, j \in 1 .. n : i <= j => d[i][2] <= d[j][2] BY <2>4, <2>6
   <2>9. \A i, j \in 1 .. n + 1 : i <= j => d[i][2] <= d[j][2]
      <3> HIDE DEF d, e
      <3> TAKE i, j \in 1 .. n + 1
      <3>1. CASE j = n + 1 BY <2>7, <2>8, <3>1
      <3>2. CASE i = n + 1 /\ j \in 1 .. n BY <2>2, <3>2
      <3> QED BY <2>3b, <2>4a, <3>1, <3>2
   <2>10. y.last = e /\ e # None BY <2>1 DEF None
   <2> QED BY <1>0, <2>6, <2>7, <2>8, <2>9, <2>10 DEF GoodParse, d, y
<1>4. y.ok => line[1] \in {"wait", "frame"} BY LineDoes DEF y
<1> QED BY <1>1, <1>2, <1>3, <1>4 DEF y

\* A line of a frame before n joins the commands before n.
LEMMA LineSplits ==
  ASSUME NEW lines, NEW line \in lines, IsLine(line), NEW st, GoodParse(st, lines),
         NEW n \in Nat, NEW before, SplitsAt(st, before, n)
  PROVE  SplitsAt(ParseLine(st, line), IF line[1] = "frame" /\ line[2] < n THEN Append(before, line) ELSE before, n)
<1> DEFINE y == ParseLine(st, line)
           after == IF line[1] = "frame" /\ line[2] < n THEN Append(before, line) ELSE before
           c == st.cmds
           l == Len(c)
<1> SUFFICES ASSUME y.ok, NEW k \in 0 .. Len(y.cmds), Split(y.cmds, k, n) PROVE after = SubSeq(y.cmds, 1, k)
   BY DEF SplitsAt
<1>1. st.ok /\ (line[1] = "wait" \/ line[1] = "frame") BY LineDoes
<1>2. c \in Seq(lines) /\ l \in Nat BY <1>1 DEF GoodParse
<1>3. \A i \in 0 .. l : Split(c, i, n) => before = SubSeq(c, 1, i) BY <1>1 DEF SplitsAt
<1>4. CASE line[1] = "wait"
   <2>1. y.cmds = c BY <1>4, LineDoes
   <2> QED BY <1>3, <1>4, <2>1
<1>5. CASE line[1] = "frame"
   <2>1. y.cmds = Append(c, line) /\ line[2] \in Nat BY <1>5, LineDoes
   <2> HIDE DEF y, c
   <2>2. Len(y.cmds) = l + 1 /\ y.cmds[l + 1] = line /\ \A i \in 1 .. l : y.cmds[i] = c[i]
      BY <1>2, <2>1
   <2> HIDE DEF l
   <2>3. CASE k = l + 1
      <3>1. line[2] < n BY <1>2, <2>2, <2>3, SMTT(60) DEF Split
      <3>2. \A i \in 1 .. l : c[i][2] < n BY <1>2, <2>2, <2>3, SMTT(60) DEF Split
      <3>3. Split(c, l, n) BY <1>2, <3>2 DEF Split, l
      <3>4. before = SubSeq(c, 1, l) BY <1>2, <1>3, <3>3
      <3>5. before = c BY <1>2, <3>4 DEF l
      <3>6. after = Append(c, line) BY <1>5, <3>1, <3>5
      <3>7. Append(c, line) \in Seq(lines) /\ Len(Append(c, line)) = l + 1 BY <1>2 DEF l
      <3>8. SubSeq(Append(c, line), 1, l + 1) = Append(c, line) BY <3>7
      <3> QED BY <2>1, <2>3, <3>6, <3>8
   <2>4. CASE k \in 0 .. l
      <3>1. ~(line[2] < n)
         <4>1. l + 1 \in k + 1 .. l + 1 BY <1>2, <2>4
         <4> QED BY <2>2, <4>1 DEF Split
      <3>2. after = before BY <3>1
      <3>3. Split(c, k, n)
         <4>1. \A i \in 1 .. k : i \in 1 .. l BY <1>2, <2>4
         <4>2. \A i \in k + 1 .. l : i \in 1 .. l /\ i \in k + 1 .. l + 1 BY <1>2, <2>4
         <4> QED BY <2>2, <4>1, <4>2 DEF Split, l
      <3>4. before = SubSeq(c, 1, k) BY <1>3, <2>4, <3>3
      <3>5. SubSeq(Append(c, line), 1, k) = SubSeq(c, 1, k) BY <1>2, <2>4 DEF l
      <3> QED BY <2>1, <3>2, <3>4, <3>5
   <2> QED BY <1>2, <2>2, <2>3, <2>4
<1> QED BY <1>1, <1>4, <1>5

\* The two recursions over the lines of a script: the frame lines so far of the
\* frames before n, and what the parser knows after each line.
Reads(f, lines, n, k) ==
  f = [i \in 0 .. k |->
         IF i = 0 THEN << >>
         ELSE IF lines[i][1] = "frame" /\ lines[i][2] < n THEN Append(f[i - 1], lines[i]) ELSE f[i - 1]]
Parses(f, lines, k) == f = [i \in 0 .. k |-> IF i = 0 THEN NoScript ELSE ParseLine(f[i - 1], lines[i])]

\* There is such a reading of the lines.
LEMMA ParsesExist ==
  ASSUME NEW lines, NEW k0 \in Nat
  PROVE  \E f : Parses(f, lines, k0)
<1> DEFINE S == {k \in Nat : \E f : Parses(f, lines, k)}
<1>1. 0 \in S
   <2> DEFINE f == [i \in 0 .. 0 |-> NoScript]
   <2>1. f = [i \in 0 .. 0 |-> IF i = 0 THEN NoScript ELSE ParseLine(f[i - 1], lines[i])] OBVIOUS
   <2> HIDE DEF f
   <2>2. Parses(f, lines, 0) BY <2>1 DEF Parses
   <2> QED BY <2>2
<1>2. ASSUME NEW k \in Nat, k \in S PROVE k + 1 \in S
   <2>1. PICK f : Parses(f, lines, k) BY <1>2
   <2>2. f = [i \in 0 .. k |-> IF i = 0 THEN NoScript ELSE ParseLine(f[i - 1], lines[i])] BY <2>1 DEF Parses
   <2> DEFINE g == [i \in 0 .. k + 1 |-> IF i = k + 1 THEN ParseLine(f[k], lines[k + 1]) ELSE f[i]]
              h == [i \in 0 .. k + 1 |-> IF i = 0 THEN NoScript ELSE ParseLine(g[i - 1], lines[i])]
   <2>3. \A i \in 0 .. k : g[i] = f[i] OBVIOUS
   <2>4. \A i \in 0 .. k + 1 : g[i] = IF i = 0 THEN NoScript ELSE ParseLine(g[i - 1], lines[i])
      <3> TAKE i \in 0 .. k + 1
      <3>1. CASE i = k + 1
         <4>1. g[i] = ParseLine(f[k], lines[k + 1]) BY <3>1
         <4>2. g[i - 1] = f[k] /\ i # 0 BY <2>3, <3>1
         <4> HIDE DEF g
         <4> QED BY <3>1, <4>1, <4>2
      <3>2. CASE i = 0 BY <2>2, <2>3, <3>2
      <3>3. CASE i \in 1 .. k
         <4>1. i \in 0 .. k /\ i - 1 \in 0 .. k /\ i # 0 BY <3>3
         <4>2. f[i] = ParseLine(f[i - 1], lines[i]) BY <2>2, <4>1
         <4>3. g[i] = f[i] /\ g[i - 1] = f[i - 1] BY <2>3, <4>1
         <4> HIDE DEF g
         <4> QED BY <4>1, <4>2, <4>3
      <3> QED BY <3>1, <3>2, <3>3
   <2>5. g = h
      <3>1. \A i \in 0 .. k + 1 : h[i] = IF i = 0 THEN NoScript ELSE ParseLine(g[i - 1], lines[i]) OBVIOUS
      <3>2. \A i \in 0 .. k + 1 : g[i] = h[i] BY <2>4, <3>1
      <3> QED BY <3>2
   <2> HIDE DEF g
   <2>6. Parses(g, lines, k + 1) BY <2>5 DEF Parses
   <2> QED BY <2>6
<1>3. Nat \subseteq S
   <2> HIDE DEF S
   <2> QED BY <1>1, <1>2, SetInduction
<1> QED BY <1>3

\* And such a selection from them.
LEMMA ReadsExist ==
  ASSUME NEW lines, NEW n, NEW k0 \in Nat
  PROVE  \E f : Reads(f, lines, n, k0)
<1> DEFINE S == {k \in Nat : \E f : Reads(f, lines, n, k)}
<1>1. 0 \in S
   <2> DEFINE f == [i \in 0 .. 0 |-> << >>]
   <2>1. f = [i \in 0 .. 0 |-> IF i = 0 THEN << >> ELSE IF lines[i][1] = "frame" /\ lines[i][2] < n THEN Append(f[i - 1], lines[i]) ELSE f[i - 1]] OBVIOUS
   <2> HIDE DEF f
   <2>2. Reads(f, lines, n, 0) BY <2>1 DEF Reads
   <2> QED BY <2>2
<1>2. ASSUME NEW k \in Nat, k \in S PROVE k + 1 \in S
   <2>1. PICK f : Reads(f, lines, n, k) BY <1>2
   <2>2. f = [i \in 0 .. k |-> IF i = 0 THEN << >> ELSE IF lines[i][1] = "frame" /\ lines[i][2] < n THEN Append(f[i - 1], lines[i]) ELSE f[i - 1]] BY <2>1 DEF Reads
   <2> DEFINE g == [i \in 0 .. k + 1 |-> IF i = k + 1 THEN IF lines[k + 1][1] = "frame" /\ lines[k + 1][2] < n THEN Append(f[k], lines[k + 1]) ELSE f[k] ELSE f[i]]
              h == [i \in 0 .. k + 1 |-> IF i = 0 THEN << >> ELSE IF lines[i][1] = "frame" /\ lines[i][2] < n THEN Append(g[i - 1], lines[i]) ELSE g[i - 1]]
   <2>3. \A i \in 0 .. k : g[i] = f[i] OBVIOUS
   <2>4. \A i \in 0 .. k + 1 : g[i] = IF i = 0 THEN << >> ELSE IF lines[i][1] = "frame" /\ lines[i][2] < n THEN Append(g[i - 1], lines[i]) ELSE g[i - 1]
      <3> TAKE i \in 0 .. k + 1
      <3>1. CASE i = k + 1
         <4>1. g[i] = IF lines[k + 1][1] = "frame" /\ lines[k + 1][2] < n THEN Append(f[k], lines[k + 1]) ELSE f[k] BY <3>1
         <4>2. g[i - 1] = f[k] /\ i # 0 BY <2>3, <3>1
         <4> HIDE DEF g
         <4> QED BY <3>1, <4>1, <4>2
      <3>2. CASE i = 0 BY <2>2, <2>3, <3>2
      <3>3. CASE i \in 1 .. k
         <4>1. i \in 0 .. k /\ i - 1 \in 0 .. k /\ i # 0 BY <3>3
         <4>2. f[i] = IF lines[i][1] = "frame" /\ lines[i][2] < n THEN Append(f[i - 1], lines[i]) ELSE f[i - 1] BY <2>2, <4>1
         <4>3. g[i] = f[i] /\ g[i - 1] = f[i - 1] BY <2>3, <4>1
         <4> HIDE DEF g
         <4> QED BY <4>1, <4>2, <4>3
      <3> QED BY <3>1, <3>2, <3>3
   <2>5. g = h
      <3>1. \A i \in 0 .. k + 1 : h[i] = IF i = 0 THEN << >> ELSE IF lines[i][1] = "frame" /\ lines[i][2] < n THEN Append(g[i - 1], lines[i]) ELSE g[i - 1] OBVIOUS
      <3>2. \A i \in 0 .. k + 1 : g[i] = h[i] BY <2>4, <3>1
      <3> QED BY <3>2
   <2> HIDE DEF g
   <2>6. Reads(g, lines, n, k + 1) BY <2>5 DEF Reads
   <2> QED BY <2>6
<1>3. Nat \subseteq S
   <2> HIDE DEF S
   <2> QED BY <1>1, <1>2, SetInduction
<1> QED BY <1>3

\* A script that parses: its commands are in order, and those before any frame
\* are the script's.
LEMMA ScriptIsParsed ==
  ASSUME NEW set, NEW lines \in Seq(set), \A i \in DOMAIN lines : IsLine(lines[i]), NEW n \in Nat
  PROVE  GoodParse(parse_script(lines), set) /\ SplitsAt(parse_script(lines), Before(lines, n), n)
<1> DEFINE l == Len(lines)
           f == CHOOSE g : Parses(g, lines, l)
           b == CHOOSE g : Reads(g, lines, n, l)
<1>1. l \in Nat /\ DOMAIN lines = 1 .. l /\ \A i \in 1 .. l : lines[i] \in set OBVIOUS
<1>2. parse_script(lines) = f[l] BY DEF parse_script, Parses
<1>3. Before(lines, n) = b[l] BY DEF Before, Reads
<1>4. Parses(f, lines, l)
   <2> HIDE DEF l
   <2> QED BY <1>1, ParsesExist
<1>5. Reads(b, lines, n, l)
   <2> HIDE DEF l
   <2> QED BY <1>1, ReadsExist
<1> HIDE DEF f, b, l
<1>6. f = [i \in 0 .. l |-> IF i = 0 THEN NoScript ELSE ParseLine(f[i - 1], lines[i])] BY <1>4 DEF Parses
<1>7. b = [i \in 0 .. l |->
             IF i = 0 THEN << >>
             ELSE IF lines[i][1] = "frame" /\ lines[i][2] < n THEN Append(b[i - 1], lines[i]) ELSE b[i - 1]]
   BY <1>5 DEF Reads
<1> DEFINE S == {k \in Nat : k <= l => GoodParse(f[k], set) /\ SplitsAt(f[k], b[k], n)}
<1>8. 0 \in S
   <2>1. f[0] = NoScript /\ b[0] = << >> BY <1>1, <1>6, <1>7
   <2>2. GoodParse(NoScript, set)
      <3>1. << >> \in Seq(set) /\ Len(<< >>) = 0 OBVIOUS
      <3> QED BY <3>1 DEF GoodParse, NoScript, None
   <2>3. SplitsAt(NoScript, << >>, n)
      <3>1. Len(NoScript.cmds) = 0 /\ SubSeq(<< >>, 1, 0) = << >> BY DEF NoScript
      <3> QED BY <3>1 DEF SplitsAt, NoScript
   <2> QED BY <2>1, <2>2, <2>3
<1>9. ASSUME NEW k \in Nat, k \in S PROVE k + 1 \in S
   <2> SUFFICES ASSUME k + 1 <= l
                PROVE  GoodParse(f[k + 1], set) /\ SplitsAt(f[k + 1], b[k + 1], n)
      OBVIOUS
   <2>1. GoodParse(f[k], set) /\ SplitsAt(f[k], b[k], n) BY <1>1, <1>9
   <2>2. k + 1 \in 0 .. l /\ k + 1 \in 1 .. l /\ k + 1 # 0 /\ (k + 1) - 1 = k BY <1>1
   <2> HIDE DEF S
   <2> DEFINE line == lines[k + 1]
   <2>3. line \in set /\ IsLine(line) BY <1>1, <2>2
   <2>4. f[k + 1] = ParseLine(f[k], line) BY <1>6, <2>2
   <2>5. b[k + 1] = IF line[1] = "frame" /\ line[2] < n THEN Append(b[k], line) ELSE b[k] BY <1>7, <2>2
   <2> HIDE DEF line
   <2> QED BY <2>1, <2>3, <2>4, <2>5, LineKeeps, LineSplits
<1>10. l \in S
   <2> HIDE DEF S
   <2> QED BY <1>1, <1>8, <1>9, SetInduction
<1> QED BY <1>1, <1>2, <1>3, <1>10

\* A button is held that was pressed, or was held, and not released since.
LEMMA HeldIs ==
  ASSUME NEW held, NEW seq, NEW k, DOMAIN seq = 1 .. k, NEW x
  PROVE  x \in Held(held, seq) <=>
           \/ x \in held /\ \A i \in 1 .. k : ~On(seq[i], "release", x)
           \/ \E i \in 1 .. k : On(seq[i], "press", x) /\ \A z \in 1 .. k : z > i => ~On(seq[z], "release", x)
BY DEF Held, On

\* Some commands and then some more: the buttons that all of them leave held.
LEMMA HeldJoins ==
  ASSUME NEW held, NEW set, NEW s \in Seq(set), NEW k \in 0 .. Len(s), NEW n \in 0 .. Len(s) - k
  PROVE  Held(Held(held, SubSeq(s, 1, k)), SubSeq(s, k + 1, k + n)) = Held(held, SubSeq(s, 1, k + n))
<1> DEFINE c == SubSeq(s, 1, k + n)
           first == SubSeq(s, 1, k)
           second == SubSeq(s, k + 1, k + n)
<1>0. /\ k \in Nat /\ n \in Nat
      /\ DOMAIN c = 1 .. k + n /\ DOMAIN first = 1 .. k /\ DOMAIN second = 1 .. n
      /\ \A i \in 1 .. k : c[i] = first[i]
      /\ \A i \in 1 .. n : c[k + i] = second[i]
   <2>1. k \in Nat /\ n \in Nat /\ k + n <= Len(s) /\ k <= Len(s) /\ Len(s) \in Nat OBVIOUS
   <2>2. DOMAIN c = 1 .. k + n /\ \A i \in 1 .. k + n : c[i] = s[i] BY <2>1
   <2>3. DOMAIN first = 1 .. k /\ \A i \in 1 .. k : first[i] = s[i] BY <2>1
   <2>4. DOMAIN second = 1 .. n /\ \A i \in 1 .. n : second[i] = s[k + i] BY <2>1
   <2> HIDE DEF c, first, second
   <2>5. \A i \in 1 .. k : i \in 1 .. k + n BY <2>1
   <2>6. \A i \in 1 .. n : k + i \in 1 .. k + n BY <2>1
   <2> QED BY <2>1, <2>2, <2>3, <2>4, <2>5, <2>6
<1> HIDE DEF c, first, second
<1> DEFINE h == Held(held, first)
           j == Held(h, second)
           a == Held(held, c)
<1>1. \A i \in 1 .. k + n : i \in 1 .. k \/ (i - k \in 1 .. n /\ i = k + (i - k)) BY <1>0
<1>2. \A i \in 1 .. n : k + i \in 1 .. k + n /\ \A x \in 1 .. k : x \in 1 .. k + n /\ x < k + i BY <1>0
<1>3. ASSUME NEW x
      PROVE  /\ x \in h <=>
                  \/ x \in held /\ \A i \in 1 .. k : ~On(c[i], "release", x)
                  \/ \E i \in 1 .. k : On(c[i], "press", x) /\ \A z \in 1 .. k : z > i => ~On(c[z], "release", x)
             /\ x \in a <=>
                  \/ x \in held /\ \A i \in 1 .. k + n : ~On(c[i], "release", x)
                  \/ \E i \in 1 .. k + n : On(c[i], "press", x) /\ \A z \in 1 .. k + n : z > i => ~On(c[z], "release", x)
             /\ x \in j <=>
                  \/ x \in h /\ \A i \in 1 .. n : ~On(c[k + i], "release", x)
                  \/ \E i \in 1 .. n : On(c[k + i], "press", x) /\ \A z \in 1 .. n : z > i => ~On(c[k + z], "release", x)
   <2>1. x \in h <=>
           \/ x \in held /\ \A i \in 1 .. k : ~On(first[i], "release", x)
           \/ \E i \in 1 .. k : On(first[i], "press", x) /\ \A z \in 1 .. k : z > i => ~On(first[z], "release", x)
      BY <1>0, HeldIs
   <2>2. x \in a <=>
           \/ x \in held /\ \A i \in 1 .. k + n : ~On(c[i], "release", x)
           \/ \E i \in 1 .. k + n : On(c[i], "press", x) /\ \A z \in 1 .. k + n : z > i => ~On(c[z], "release", x)
      BY <1>0, HeldIs
   <2>3. x \in j <=>
           \/ x \in h /\ \A i \in 1 .. n : ~On(second[i], "release", x)
           \/ \E i \in 1 .. n : On(second[i], "press", x) /\ \A z \in 1 .. n : z > i => ~On(second[z], "release", x)
      BY <1>0, HeldIs
   <2> HIDE DEF h, j, a
   <2>4. \A i \in 1 .. k : On(first[i], "release", x) <=> On(c[i], "release", x) BY <1>0, Zenon
   <2>5. \A i \in 1 .. k : On(first[i], "press", x) <=> On(c[i], "press", x) BY <1>0, Zenon
   <2>6. \A i \in 1 .. n : On(second[i], "release", x) <=> On(c[k + i], "release", x) BY <1>0, Zenon
   <2>7. \A i \in 1 .. n : On(second[i], "press", x) <=> On(c[k + i], "press", x) BY <1>0, Zenon
   <2> QED BY <2>1, <2>2, <2>3, <2>4, <2>5, <2>6, <2>7
<1> HIDE DEF h, j, a
<1>4. ASSUME NEW x PROVE x \in j <=> x \in a
   <2> DEFINE R(i) == On(c[i], "release", x)
              P(i) == On(c[i], "press", x)
   <2>1. x \in h <=> \/ x \in held /\ \A i \in 1 .. k : ~R(i)
                     \/ \E i \in 1 .. k : P(i) /\ \A z \in 1 .. k : z > i => ~R(z)
      BY <1>3
   <2>2. x \in a <=> \/ x \in held /\ \A i \in 1 .. k + n : ~R(i)
                     \/ \E i \in 1 .. k + n : P(i) /\ \A z \in 1 .. k + n : z > i => ~R(z)
      BY <1>3
   <2>3. x \in j <=> \/ x \in h /\ \A i \in 1 .. n : ~R(k + i)
                     \/ \E i \in 1 .. n : P(k + i) /\ \A z \in 1 .. n : z > i => ~R(k + z)
      BY <1>3
   <2> HIDE DEF R, P
   <2>4. (\A i \in 1 .. k + n : ~R(i)) <=> (\A i \in 1 .. k : ~R(i)) /\ (\A i \in 1 .. n : ~R(k + i))
      <3>1. ASSUME \A i \in 1 .. k : ~R(i), \A i \in 1 .. n : ~R(k + i), NEW i \in 1 .. k + n PROVE ~R(i)
         <4>1. CASE i \in 1 .. k BY <3>1, <4>1
         <4>2. CASE i - k \in 1 .. n /\ i = k + (i - k) BY <3>1, <4>2
         <4> QED BY <1>1, <4>1, <4>2
      <3>2. ASSUME \A i \in 1 .. k + n : ~R(i) PROVE (\A i \in 1 .. k : ~R(i)) /\ (\A i \in 1 .. n : ~R(k + i))
         BY <1>2, <3>2
      <3> QED BY <3>1, <3>2
   <2>5. ASSUME NEW i \in 1 .. k, \A z \in 1 .. k : z > i => ~R(z), \A z \in 1 .. n : ~R(k + z)
         PROVE  i \in 1 .. k + n /\ \A z \in 1 .. k + n : z > i => ~R(z)
      <3> SUFFICES ASSUME NEW z \in 1 .. k + n, z > i PROVE ~R(z) OBVIOUS
      <3>1. CASE z \in 1 .. k BY <2>5, <3>1
      <3>2. CASE z - k \in 1 .. n /\ z = k + (z - k) BY <2>5, <3>2
      <3> QED BY <1>1, <3>1, <3>2
   <2>6. ASSUME NEW i \in 1 .. n, \A z \in 1 .. n : z > i => ~R(k + z)
         PROVE  k + i \in 1 .. k + n /\ \A z \in 1 .. k + n : z > k + i => ~R(z)
      <3> SUFFICES ASSUME NEW z \in 1 .. k + n, z > k + i PROVE ~R(z) BY <1>0, <1>2
      <3>1. z - k \in 1 .. n /\ z - k > i /\ k + (z - k) = z BY <1>0
      <3> QED BY <2>6, <3>1
   <2>7. ASSUME x \in j PROVE x \in a BY <2>1, <2>2, <2>3, <2>4, <2>5, <2>6, <2>7
   <2>8. ASSUME NEW i \in 1 .. k + n, P(i), \A z \in 1 .. k + n : z > i => ~R(z)
         PROVE  x \in j
      <3>1. CASE i \in 1 .. k
         <4>1. x \in h BY <1>2, <2>1, <2>8, <3>1
         <4>2. \A z \in 1 .. n : ~R(k + z) BY <1>2, <2>8, <3>1
         <4> QED BY <2>3, <4>1, <4>2
      <3>2. CASE i - k \in 1 .. n
         <4>1. P(k + (i - k)) BY <1>0, <2>8
         <4>2. \A z \in 1 .. n : z > i - k => ~R(k + z)
            <5> SUFFICES ASSUME NEW z \in 1 .. n, z > i - k PROVE ~R(k + z) OBVIOUS
            <5>1. k + z \in 1 .. k + n /\ k + z > i BY <1>0, <3>2
            <5> QED BY <2>8, <5>1
         <4> QED BY <2>3, <3>2, <4>1, <4>2
      <3> QED BY <1>1, <3>1, <3>2
   <2>9. ASSUME x \in held, \A i \in 1 .. k + n : ~R(i) PROVE x \in j BY <2>1, <2>3, <2>4, <2>9
   <2> QED BY <2>2, <2>7, <2>8, <2>9
<1>5. j = a BY <1>4
<1> QED BY <1>5 DEF j, h, a, c, first, second

\* A run's commands of this frame end where those of a later one begin.
LEMMA DueIs ==
  ASSUME NEW set, cmds \in Seq(set), frame_no \in Nat, script_idx \in 0 .. Len(cmds),
         \A i \in 1 .. Len(cmds) : cmds[i][2] \in Nat,
         \A i, j \in 1 .. Len(cmds) : i <= j => cmds[i][2] <= cmds[j][2],
         Split(cmds, script_idx, frame_no)
  PROVE  \E n \in 0 .. Len(cmds) - script_idx :
           /\ Due = SubSeq(cmds, script_idx + 1, script_idx + n)
           /\ \A i \in 1 .. n : cmds[script_idx + i][2] = frame_no
           /\ Split(cmds, script_idx + n, frame_no + 1)
<1> DEFINE l == Len(cmds)
           k == script_idx
           Ends(n) == /\ \A i \in 1 .. n : cmds[k + i][2] = frame_no
                      /\ k + n < l => cmds[k + n + 1][2] # frame_no
           d == CHOOSE n \in 0 .. l - k : Ends(n)
<1>1. l \in Nat /\ k \in Nat /\ k <= l /\ l - k \in Nat OBVIOUS
<1>2. \E n \in 0 .. l - k : Ends(n)
   <2> SUFFICES ASSUME \A n \in 0 .. l - k : ~Ends(n) PROVE FALSE OBVIOUS
   <2> HIDE DEF l, k
   <2> DEFINE S == {n \in Nat : n <= l - k => \A i \in 1 .. n : cmds[k + i][2] = frame_no}
   <2>1. 0 \in S OBVIOUS
   <2>2. ASSUME NEW n \in Nat, n \in S PROVE n + 1 \in S
      <3> SUFFICES ASSUME n + 1 <= l - k, NEW i \in 1 .. n + 1 PROVE cmds[k + i][2] = frame_no OBVIOUS
      <3>1. n \in 0 .. l - k BY <1>1
      <3>a. n <= l - k BY <1>1
      <3>2. \A x \in 1 .. n : cmds[k + x][2] = frame_no
         BY <2>2, <3>a
      <3>3. ~Ends(n) BY <3>1
      <3>4. cmds[k + n + 1][2] = frame_no BY <3>2, <3>3
      <3>5. k + n + 1 = k + (n + 1) BY <1>1
      <3>6. i \in 1 .. n \/ i = n + 1 OBVIOUS
      <3> QED BY <3>2, <3>4, <3>5, <3>6
   <2>3. l - k \in S
      <3> HIDE DEF S
      <3> QED BY <1>1, <2>1, <2>2, SetInduction
   <2>4. Ends(l - k) BY <1>1, <2>3
   <2> HIDE DEF Ends
   <2> QED BY <1>1, <2>4
<1>3. d \in 0 .. l - k /\ Ends(d)
   <2> HIDE DEF l, k, Ends
   <2> QED BY <1>2
<1>4. Due = SubSeq(cmds, k + 1, k + d) BY DEF Due
<1> HIDE DEF d
<1>5. \A i \in 1 .. d : cmds[k + i][2] = frame_no BY <1>3
<1>6. Split(cmds, k + d, frame_no + 1)
   <2>1. ASSUME NEW i \in 1 .. k + d PROVE cmds[i][2] < frame_no + 1
      <3>1. CASE i \in 1 .. k
         <4>1. cmds[i][2] < frame_no /\ i \in 1 .. Len(cmds) BY <1>1, <3>1 DEF Split
         <4>2. cmds[i][2] \in Nat BY <4>1
         <4> QED BY <4>1, <4>2
      <3>2. CASE i - k \in 1 .. d
         <4>1. cmds[k + (i - k)][2] = frame_no BY <1>5, <3>2
         <4>2. k + (i - k) = i BY <1>1
         <4> QED BY <4>1, <4>2
      <3> QED BY <1>1, <1>3, <3>1, <3>2
   <2>2. ASSUME NEW i \in k + d + 1 .. l PROVE ~(cmds[i][2] < frame_no + 1)
      <3> DEFINE e == k + d + 1
      <3>1. e \in 1 .. l /\ i \in 1 .. l /\ e <= i /\ e \in k + 1 .. l /\ k + d < l BY <1>1, <1>3
      <3>2. cmds[e][2] # frame_no BY <1>3, <3>1
      <3>3. cmds[e][2] \in Nat /\ cmds[i][2] \in Nat /\ cmds[e][2] <= cmds[i][2] BY <3>1
      <3>4. ~(cmds[e][2] < frame_no) BY <3>1 DEF Split
      <3> QED BY <3>2, <3>3, <3>4
   <2> QED BY <2>1, <2>2 DEF Split
<1> QED BY <1>3, <1>4, <1>5, <1>6

\* A sequence of anything.
IsSeq(s) == \E set : s \in Seq(set)

\* The script's commands up to this frame have been applied, and no others.
OnTime ==
  /\ frame_no \in Nat /\ script_idx \in 0 .. Len(cmds) /\ Split(cmds, script_idx, frame_no)
  /\ m.keys = btn /\ btn = Held({}, SubSeq(cmds, 1, script_idx))
  /\ \A i \in 1 .. script_idx : cmds[i][3] = "hash" => \E j \in DOMAIN hashed : hashed[j][1] = cmds[i][2]
  /\ \A i \in 1 .. script_idx : cmds[i][3] = "quit" => script_quit
  /\ script_quit => at = "frame"

ScriptInv ==
  Kind("headless") =>
    /\ IsSeq(hashed)
    /\ at \in {"script", "start", "loading", "boot"} =>
         script_idx = 0 /\ frame_no = 0 /\ btn = {} /\ script_quit = FALSE
    /\ at \in {"start", "loading", "boot", "frame", "outer", "burst"} =>
         parse_script(host.script).ok /\ cmds = parse_script(host.script).cmds
    /\ at \in {"frame", "outer", "burst"} => OnTime

\* What is known of the commands of a script that parsed.
LEMMA CommandsAre ==
  ASSUME host \in HostSet, Kind("headless"), parse_script(host.script).ok,
         cmds = parse_script(host.script).cmds
  PROVE  /\ cmds \in Seq(Range(host.script))
         /\ \A i \in 1 .. Len(cmds) : cmds[i][2] \in Nat
         /\ \A i, j \in 1 .. Len(cmds) : i <= j => cmds[i][2] <= cmds[j][2]
         /\ \A n \in Nat : \A k \in 0 .. Len(cmds) :
              Split(cmds, k, n) => Before(host.script, n) = SubSeq(cmds, 1, k)
<1> DEFINE s == host.script
           st == parse_script(s)
<1>1. s \in Seq(Range(s)) /\ \A i \in DOMAIN s : IsLine(s[i])
   BY HostsAssumption DEF Kind, IsLine
<1>2. GoodParse(st, Range(s)) BY <1>1, ScriptIsParsed, 0 \in Nat
<1>3. \A n \in Nat : SplitsAt(st, Before(s, n), n) BY <1>1, ScriptIsParsed
<1> HIDE DEF st, s
<1>4. st.ok /\ cmds = st.cmds BY DEF st, s
<1>5. cmds \in Seq(Range(s)) /\ \A i \in 1 .. Len(cmds) : cmds[i][2] \in Nat BY <1>2, <1>4 DEF GoodParse
<1>6. \A i, j \in 1 .. Len(cmds) : i <= j => cmds[i][2] <= cmds[j][2] BY <1>2, <1>4 DEF GoodParse
<1>7. \A n \in Nat : \A k \in 0 .. Len(cmds) : Split(cmds, k, n) => Before(s, n) = SubSeq(cmds, 1, k)
   BY <1>3, <1>4 DEF SplitsAt
<1> QED BY <1>5, <1>6, <1>7 DEF s

\* No command has been applied yet.
LEMMA ScriptInit == Init => ScriptInv
<1> SUFFICES ASSUME Init, Kind("headless") PROVE ScriptInv BY DEF ScriptInv
<1>1. at = "script" BY DEF Init
<1>2. script_idx = 0 /\ frame_no = 0 /\ btn = {} /\ script_quit = FALSE /\ hashed = << >>
   BY DEF Init, HeadlessInit
<1>3. IsSeq(hashed)
   <2>1. << >> \in Seq({}) OBVIOUS
   <2> QED BY <1>2, <2>1 DEF IsSeq
<1> QED BY <1>1, <1>2, <1>3 DEF ScriptInv

\* Before the first frame nothing is due, and no button is held.
LEMMA BeginIsOnTime ==
  ASSUME HeadlessInv, ScriptInv, Kind("headless"), BeginHeadless
  PROVE  OnTime'
<1>1. /\ at = "boot" /\ at' = "frame" /\ m' = [m EXCEPT !.keys = {}]
      /\ UNCHANGED <<host, cmds, script_idx, frame_no, btn, script_quit, hashed>>
   BY DEF BeginHeadless, headlessVars
<1>2. IsMachine(m) /\ host \in HostSet BY <1>1 DEF HeadlessInv, Timed
<1>3. /\ script_idx = 0 /\ frame_no = 0 /\ btn = {} /\ script_quit = FALSE
      /\ parse_script(host.script).ok /\ cmds = parse_script(host.script).cmds
   BY <1>1 DEF ScriptInv
<1>4. cmds \in Seq(Range(host.script)) /\ \A i \in 1 .. Len(cmds) : cmds[i][2] \in Nat
   BY <1>2, <1>3, CommandsAre
<1>5. m'.keys = {} BY <1>1, <1>2 DEF IsMachine, Fields
<1>6. Split(cmds, 0, 0)
   <2>1. \A i \in 0 + 1 .. Len(cmds) : ~(cmds[i][2] < 0) BY <1>4
   <2> QED BY <2>1 DEF Split
<1>7. Held({}, SubSeq(cmds, 1, 0)) = {}
   <2>1. SubSeq(cmds, 1, 0) = << >> BY <1>4
   <2>2. DOMAIN << >> = {} OBVIOUS
   <2>3. Held({}, << >>) = {} BY <2>2 DEF Held
   <2> QED BY <2>1, <2>3
<1>8. 0 \in 0 .. Len(cmds) /\ 1 .. 0 = {} BY <1>4
<1> QED BY <1>1, <1>3, <1>5, <1>6, <1>7, <1>8 DEF OnTime

\* A frame's commands.
LEMMA FrameIsOnTime ==
  ASSUME HeadlessInv, ScriptInv, Kind("headless"), EndFrame
  PROVE  OnTime' /\ IsSeq(hashed)'
<1> DEFINE held == Held(btn, Due)
           emit == Has(Due, "hash") \/ frame_no % host.hash_every = 0 \/ Has(Due, "quit")
           entry == <<frame_no, pixels>>
<1>1. /\ at = "outer" /\ at' = "frame" /\ cmds' = cmds
      /\ btn' = held /\ m' = [m EXCEPT !.keys = held]
      /\ script_idx' = script_idx + Len(Due)
      /\ script_quit' = (script_quit \/ Has(Due, "quit"))
      /\ hashed' = (IF emit THEN Append(hashed, entry) ELSE hashed)
      /\ frame_no' = frame_no + 1
   BY DEF EndFrame
<1> HIDE DEF held, emit
<1>2. OnTime /\ IsSeq(hashed) /\ parse_script(host.script).ok /\ cmds = parse_script(host.script).cmds
   BY <1>1 DEF ScriptInv
<1>3. IsMachine(m) /\ host \in HostSet BY <1>1 DEF HeadlessInv, Ticking, Timed
<1>4. /\ cmds \in Seq(Range(host.script)) /\ \A i \in 1 .. Len(cmds) : cmds[i][2] \in Nat
      /\ \A i, j \in 1 .. Len(cmds) : i <= j => cmds[i][2] <= cmds[j][2]
   BY <1>2, <1>3, CommandsAre
<1>5. frame_no \in Nat /\ script_idx \in 0 .. Len(cmds) /\ Split(cmds, script_idx, frame_no) BY <1>2 DEF OnTime
<1>6. PICK n \in 0 .. Len(cmds) - script_idx :
        /\ Due = SubSeq(cmds, script_idx + 1, script_idx + n)
        /\ \A i \in 1 .. n : cmds[script_idx + i][2] = frame_no
        /\ Split(cmds, script_idx + n, frame_no + 1)
   BY <1>4, <1>5, DueIs
<1> DEFINE k == script_idx
           l == Len(cmds)
           c == SubSeq(cmds, 1, k + n)
           first == SubSeq(cmds, 1, k)
<1>7. l \in Nat /\ k \in Nat /\ n \in Nat /\ k <= l /\ k + n <= l BY <1>4, <1>5, <1>6
<1>8. /\ Len(Due) = n /\ DOMAIN Due = 1 .. n /\ \A i \in 1 .. n : Due[i] = cmds[k + i]
   BY <1>4, <1>6, <1>7
<1>9. /\ DOMAIN first = 1 .. k /\ \A i \in 1 .. k : first[i] = cmds[i]
      /\ DOMAIN c = 1 .. k + n /\ \A i \in 1 .. k + n : c[i] = cmds[i]
   BY <1>4, <1>7
<1>10. \A i \in 1 .. k : i \in 1 .. k + n BY <1>7
<1>11. \A i \in 1 .. n : k + i \in 1 .. k + n BY <1>7
<1>12. \A i \in 1 .. k + n : i \in 1 .. k \/ (i - k \in 1 .. n /\ k + (i - k) = i) BY <1>7
<1> HIDE DEF k, l, c, first
<1>13. btn' = Held({}, c)
   <2>1. btn = Held({}, first) BY <1>2 DEF OnTime, first, k
   <2>2. Held(Held({}, SubSeq(cmds, 1, k)), SubSeq(cmds, k + 1, k + n)) = Held({}, SubSeq(cmds, 1, k + n))
      BY <1>4, <1>5, <1>6, HeldJoins DEF k
   <2> QED BY <1>1, <1>6, <2>1, <2>2 DEF held, first, c, k
<1>14. m'.keys = btn' BY <1>1, <1>3 DEF IsMachine, Fields
<1>15. PICK set : hashed \in Seq(set) BY <1>2 DEF IsSeq
<1>16. /\ Append(hashed, entry) \in Seq(set \cup {entry}) /\ DOMAIN hashed = 1 .. Len(hashed)
       /\ DOMAIN Append(hashed, entry) = 1 .. Len(hashed) + 1 /\ Len(hashed) \in Nat
       /\ \A j \in DOMAIN hashed : Append(hashed, entry)[j] = hashed[j]
       /\ Append(hashed, entry)[Len(hashed) + 1] = entry
   <2>1. hashed \in Seq(set \cup {entry}) BY <1>15
   <2> HIDE DEF entry
   <2> QED BY <2>1
<1>17. IsSeq(hashed)' BY <1>1, <1>15, <1>16 DEF IsSeq
<1>18. \A j \in DOMAIN hashed : j \in DOMAIN hashed' /\ hashed'[j] = hashed[j]
   <2>1. \A j \in 1 .. Len(hashed) : j \in 1 .. Len(hashed) + 1 BY <1>16
   <2> HIDE DEF entry
   <2> QED BY <1>1, <1>16, <2>1
<1>19. ASSUME NEW i \in 1 .. k + n, cmds[i][3] = "hash"
       PROVE  \E j \in DOMAIN hashed' : hashed'[j][1] = cmds[i][2]
   <2>1. CASE i \in 1 .. k
      <3>1. PICK j \in DOMAIN hashed : hashed[j][1] = cmds[i][2] BY <1>2, <1>19, <2>1 DEF OnTime, k
      <3> QED BY <1>18, <3>1
   <2>2. CASE i - k \in 1 .. n /\ k + (i - k) = i
      <3>1. Due[i - k] = cmds[i] /\ i - k \in DOMAIN Due BY <1>8, <2>2
      <3>2. Has(Due, "hash") BY <1>19, <3>1 DEF Has
      <3>3. hashed' = Append(hashed, entry) BY <1>1, <3>2 DEF emit
      <3>4. cmds[i][2] = frame_no BY <1>6, <2>2 DEF k
      <3>5. entry[1] = frame_no OBVIOUS
      <3>6. Len(hashed) + 1 \in DOMAIN Append(hashed, entry) BY <1>16
      <3> HIDE DEF entry
      <3> QED BY <1>16, <3>3, <3>4, <3>5, <3>6
   <2> QED BY <1>12, <2>1, <2>2
<1>20. ASSUME NEW i \in 1 .. k + n, cmds[i][3] = "quit" PROVE script_quit'
   <2>1. CASE i \in 1 .. k BY <1>1, <1>2, <1>20, <2>1 DEF OnTime, k
   <2>2. CASE i - k \in 1 .. n /\ k + (i - k) = i
      <3>1. Due[i - k] = cmds[i] /\ i - k \in DOMAIN Due BY <1>8, <2>2
      <3> QED BY <1>1, <1>20, <3>1 DEF Has
   <2> QED BY <1>12, <2>1, <2>2
<1>21. script_idx' = k + n /\ k + n \in 0 .. l BY <1>1, <1>7, <1>8 DEF k
<1>22. Split(cmds, k + n, frame_no + 1) BY <1>6 DEF k
<1>23. frame_no' \in Nat BY <1>1, <1>5
<1> QED BY <1>1, <1>13, <1>14, <1>17, <1>19, <1>20, <1>21, <1>22, <1>23 DEF OnTime, c, l

\* Between frame boundaries neither the script nor the port moves on.
LEMMA OtherwiseOnTime ==
  ASSUME OnTime, UNCHANGED <<cmds, script_idx, frame_no, btn, script_quit, hashed>>, m'.keys = m.keys,
         script_quit => at' = "frame"
  PROVE  OnTime'
BY DEF OnTime

\* Every step keeps the script in time.
LEMMA ScriptStep ==
  ASSUME HeadlessInv, ScriptInv, [Next]_vars
  PROVE  ScriptInv'
<1> SUFFICES ASSUME Kind("headless"), host' = host
             PROVE  ScriptInv'
   <2>1. host' = host BY HostStays
   <2>2. Kind("headless")' => Kind("headless") BY <2>1 DEF Kind
   <2> QED BY <2>1, <2>2 DEF ScriptInv
<1>0. at \in {"script", "start", "loading", "boot", "frame", "outer", "burst", "done"} /\ host \in HostSet
   BY DEF HeadlessInv
<1>b. ~host.elf BY <1>0, HostIsAsAssumed
<1>k. ~Kind("bare") /\ ~Kind("libretro") /\ ~Kind("pfar") BY DEF Kind
<1>m. at \in {"frame", "outer", "burst"} => IsMachine(m) BY DEF HeadlessInv, Ticking, Timed
<1>s. ScriptInv BY DEF ScriptInv
<1>1. CASE UNCHANGED vars
  BY <1>1, <1>s, OtherwiseOnTime DEF vars, baseVars, headlessVars, Kind, ScriptInv, OnTime
<1>2. CASE LoadPfi /\ UNCHANGED headlessVars
  <2>1. at \in {"start", "loading"} /\ at' \in {"start", "loading", "boot", "done"}
     BY <1>2 DEF LoadPfi, OpenPfi, ReadChunk, EndLoad, Exit
  <2> QED BY <1>2, <1>s, <2>1 DEF ScriptInv, headlessVars, IsSeq
<1>3. CASE ParseScript
  <2>1. /\ at = "script" /\ UNCHANGED <<script_idx, frame_no, btn, script_quit, hashed>>
        /\ \/ parse_script(host.script).ok /\ cmds' = parse_script(host.script).cmds /\ at' = "start"
           \/ at' = "done"
     BY <1>3 DEF ParseScript, Exit
  <2> QED BY <1>s, <2>1 DEF ScriptInv, IsSeq
<1>4. CASE BeginHeadless
  <2>1. at = "boot" /\ at' = "frame" /\ UNCHANGED <<cmds, hashed>> BY <1>4 DEF BeginHeadless, headlessVars
  <2>2. OnTime' BY <1>4, <1>s, BeginIsOnTime
  <2> QED BY <1>s, <2>1, <2>2 DEF ScriptInv, IsSeq
<1>5. CASE EndFrame
  <2>1. at = "outer" /\ at' = "frame" /\ UNCHANGED cmds BY <1>5 DEF EndFrame
  <2>2. OnTime' /\ IsSeq(hashed)' BY <1>5, <1>s, FrameIsOnTime
  <2> QED BY <1>s, <2>1, <2>2 DEF ScriptInv
<1>o. ASSUME at \in {"frame", "outer", "burst"}, at' \in {"frame", "outer", "burst", "done"},
             UNCHANGED <<cmds, script_idx, frame_no, btn, script_quit, hashed>>,
             at' = "done" \/ m'.keys = m.keys, script_quit => at' \in {"frame", "done"}
      PROVE  ScriptInv'
  <2>1. OnTime /\ IsSeq(hashed) BY <1>o, <1>s DEF ScriptInv
  <2>2. at' # "done" => OnTime' BY <1>o, <2>1, OtherwiseOnTime
  <2> QED BY <1>o, <1>s, <2>1, <2>2 DEF ScriptInv, IsSeq
<1>q. at \in {"outer", "burst"} => ~script_quit BY <1>s DEF ScriptInv, OnTime
<1>6. CASE BeginFrame
  <2>1. /\ at = "frame" /\ UNCHANGED headlessVars
        /\ \/ at' = "done"
           \/ at' = "outer" /\ m' = [m EXCEPT !.frame = FALSE] /\ ~script_quit
     BY <1>6 DEF BeginFrame, HeadlessExit, Exit
  <2>2. at' = "done" \/ m'.keys = m.keys BY <1>m, <2>1 DEF IsMachine, Fields
  <2> QED BY <2>1, <2>2, <1>o DEF headlessVars
<1>7. CASE HeadlessJump \/ HeadlessTick
  <2>1. /\ at \in {"outer", "burst"} /\ at' = "outer" /\ UNCHANGED headlessVars
        /\ m' = m \/ m' = Ticked(m) \/ \E n : m' = Ticked([m EXCEPT !.cycles = n])
     BY <1>7, Zenon DEF HeadlessJump, HeadlessTick, do_tick
  <2>2. \A n : IsMachine([m EXCEPT !.cycles = n]) /\ [m EXCEPT !.cycles = n].keys = m.keys
     BY <1>m, <2>1 DEF IsMachine, Fields
  <2>3. ASSUME NEW n, m' = Ticked([m EXCEPT !.cycles = n]) PROVE m'.keys = m.keys
     <3> DEFINE x == [m EXCEPT !.cycles = n]
     <3>1. IsMachine(x) /\ x.keys = m.keys BY <2>2
     <3>2. m' = Ticked(x) BY <2>3
     <3> HIDE DEF x
     <3>3. Fixed(x, Ticked(x)) BY <3>1, TickedKeeps
     <3> QED BY <3>1, <3>2, <3>3 DEF Fixed
  <2>4. m' = Ticked(m) => m'.keys = m.keys
     <3>1. Fixed(m, Ticked(m)) BY <1>m, <2>1, TickedKeeps
     <3> QED BY <3>1 DEF Fixed
  <2>5. m'.keys = m.keys BY <2>1, <2>3, <2>4
  <2> QED BY <1>q, <2>1, <2>5, <1>o DEF headlessVars
<1>8. CASE HeadlessInstruction
  <2>1. /\ at = "burst" /\ at' = "burst" /\ m' = Step(m)
        /\ UNCHANGED <<cmds, script_idx, frame_no, btn, script_quit, hashed>>
     BY <1>8 DEF HeadlessInstruction
  <2>2. m'.keys = m.keys BY <1>m, <2>1, StepKeeps DEF Keeps, Fixed
  <2> QED BY <1>q, <2>1, <2>2, <1>o
<1>9. CASE HeadlessBurst \/ Interrupted \/ NoFrame
  <2>1. /\ at \in {"frame", "outer"} /\ at' \in {at, "burst", "done"} /\ m' = m
        /\ at = "frame" => at' \in {"frame", "done"}
        /\ UNCHANGED <<cmds, script_idx, frame_no, btn, script_quit, hashed>>
     BY <1>9 DEF HeadlessBurst, Interrupted, NoFrame, HeadlessExit, Exit, baseVars, headlessVars
  <2> QED BY <1>q, <2>1, <1>o
<1>11. ~BareStep
  BY <1>0, <1>b, <1>k
     DEF BareStep, OpenElf, ReadSegment, EndElf, BeginBare, Signal, BareInstruction, LeaveBurst, EndBare,
        GdbStep, ClientSend, Accept, Receive, Skip, HandlePacket, BeginRun, RunInstruction, EndRun,
        ReceiveMore, Disconnect
<1>12. ~RetroStep
  BY <1>0, <1>k
     DEF RetroStep, LoadGame, RestoreSave, NoSave, BeginRetroRun, RetroBurst, RetroInstruction,
        RetroTick, RetroWake, EndRetroRun, RetroReset, Unload
<1>13. ~PfarStep
  BY <1>0
     DEF PfarStep, OpenImage, AddFile, DelFile, Extract, DumpDir, EndCommand, LastCommand, Change,
        Running
<1>14. CASE Done BY <1>1, <1>14 DEF Done
<1> QED
  BY <1>1, <1>2, <1>3, <1>4, <1>5, <1>6, <1>7, <1>8, <1>9, <1>11, <1>12, <1>13, <1>14
     DEF Next, HeadlessStep

\* The commands applied are the script's.
LEMMA OnTimeIs == HeadlessInv /\ ScriptInv => ScriptRunsOnTime
<1> SUFFICES ASSUME HeadlessInv, ScriptInv, Kind("headless"), at \in {"frame", "outer", "burst"}
             PROVE  LET past == Before(host.script, frame_no) IN
                    /\ SubSeq(cmds, 1, script_idx) = past
                    /\ m.keys = Held({}, past)
                    /\ \A i \in DOMAIN past : past[i][3] = "hash" => \E j \in DOMAIN hashed : hashed[j][1] = past[i][2]
                    /\ Has(past, "quit") => at = "frame"
   BY DEF ScriptRunsOnTime
<1> DEFINE past == Before(host.script, frame_no)
           k == script_idx
<1>1. OnTime /\ parse_script(host.script).ok /\ cmds = parse_script(host.script).cmds /\ host \in HostSet
   BY DEF ScriptInv, HeadlessInv
<1>2. frame_no \in Nat /\ k \in 0 .. Len(cmds) /\ Split(cmds, k, frame_no) BY <1>1 DEF OnTime
<1>3. cmds \in Seq(Range(host.script)) /\ past = SubSeq(cmds, 1, k) BY <1>1, <1>2, CommandsAre
<1>4. DOMAIN past = 1 .. k /\ \A i \in 1 .. k : past[i] = cmds[i] BY <1>2, <1>3
<1> HIDE DEF past, k
<1>5. m.keys = Held({}, past) BY <1>1, <1>3 DEF OnTime, k
<1>6. \A i \in DOMAIN past : past[i][3] = "hash" => \E j \in DOMAIN hashed : hashed[j][1] = past[i][2]
   BY <1>1, <1>4 DEF OnTime, k
<1>7. Has(past, "quit") => at = "frame" BY <1>1, <1>4 DEF OnTime, Has, k
<1> QED BY <1>3, <1>5, <1>6, <1>7 DEF past, k

\* Of any script that parses, with any frames, hashes and signals: at a frame
\* boundary the commands of the frames before have been applied, in order and
\* once each, and no frame follows a quit.
THEOREM ScriptsAreTimely == Spec => []ScriptRunsOnTime
<1>1. Init => HeadlessInv /\ ScriptInv BY HeadlessInitInv, ScriptInit
<1>2. HeadlessInv /\ [Next]_vars => HeadlessInv' BY HeadlessStepInv
<1>3. HeadlessInv /\ ScriptInv /\ [Next]_vars => ScriptInv' BY ScriptStep
<1> QED BY <1>1, <1>2, <1>3, OnTimeIs, PTL DEF Spec

-----------------------------------------------------------------------------
(* Theorem: a debug session is framed                                      *)

\* The i-th token of what the client sent and the stub has not taken: b
\* received, w still on the wire.
Token(b, w, i) == IF i <= Len(b) THEN b[i] ELSE w[i - Len(b)]

\* The packets ps from the first-th on lie in the stream where start says: one
\* behind the other, whole, and no token but theirs looks like a frame's start.
FramesLie(b, w, ps, first, start) ==
  /\ \A k \in first .. Len(ps) :
       /\ start[k] \in 1 .. Len(b) + Len(w) - 4
       /\ Token(b, w, start[k]) = <<"$">> /\ Token(b, w, start[k] + 1) = ps[k]
       /\ Token(b, w, start[k] + 2) = <<"#">>
       /\ \A l \in k + 1 .. Len(ps) : start[k] + 5 <= start[l]
  /\ \A i \in 1 .. Len(b) + Len(w) :
       Token(b, w, i) = <<"$">> => \E k \in first .. Len(ps) : i \in {start[k], start[k] + 1}

\* What a recv() of n makes of the buffer, what is behind the first n, and what
\* a packet makes of the wire.
Piece(b, w, n) == b \o SubSeq(w, 1, n)
Behind(b, n) == SubSeq(b, n + 1, Len(b))
Queued(w, lead, p) == w \o lead \o Frame(p)

\* However much is received at once, the stream stays what it is.
LEMMA Received ==
  ASSUME NEW b, NEW w, IsSeq(b), IsSeq(w), NEW n \in 1 .. Len(w)
  PROVE  /\ IsSeq(Piece(b, w, n)) /\ IsSeq(Behind(w, n))
         /\ Len(Piece(b, w, n)) = Len(b) + n /\ Len(Behind(w, n)) = Len(w) - n
         /\ \A i \in 1 .. Len(b) + Len(w) : Token(Piece(b, w, n), Behind(w, n), i) = Token(b, w, i)
<1> DEFINE c == Piece(b, w, n)
           v == Behind(w, n)
<1>0. c = b \o SubSeq(w, 1, n) /\ v = SubSeq(w, n + 1, Len(w)) BY DEF Piece, Behind
<1> HIDE DEF c, v
<1>1. PICK S, T : b \in Seq(S) /\ w \in Seq(T) BY DEF IsSeq
<1>2. b \in Seq(S \cup T) /\ w \in Seq(S \cup T) BY <1>1
<1>3. SubSeq(w, 1, n) \in Seq(S \cup T) /\ Len(SubSeq(w, 1, n)) = n /\ v \in Seq(S \cup T) /\ Len(v) = Len(w) - n
   BY <1>0, <1>2, SMTT(60)
<1>4. c \in Seq(S \cup T) /\ Len(c) = Len(b) + n BY <1>0, <1>2, <1>3
<1>5. ASSUME NEW i \in 1 .. Len(b) + Len(w) PROVE Token(c, v, i) = Token(b, w, i)
   <2>1. CASE i <= Len(b) BY <1>2, <1>3, <1>4, <2>1, <1>0 DEF Token
   <2>2. CASE i > Len(b) /\ i <= Len(b) + n
      <3>1. c[i] = SubSeq(w, 1, n)[i - Len(b)] BY <1>0, <1>2, <1>3, <2>2
      <3>2. SubSeq(w, 1, n)[i - Len(b)] = w[i - Len(b)] BY <1>2, <2>2
      <3>3. Token(c, v, i) = c[i] BY <1>2, <1>4, <2>2 DEF Token
      <3>4. Token(b, w, i) = w[i - Len(b)] BY <1>2, <2>2 DEF Token
      <3> QED BY <3>1, <3>2, <3>3, <3>4
   <2>3. CASE i > Len(b) + n
      <3>1. v[i - Len(c)] = w[i - Len(c) + n] BY <1>0, <1>2, <1>3, <1>4, <2>3, SMTT(60)
      <3> QED BY <1>2, <1>4, <2>3, <3>1 DEF Token
   <2> QED BY <1>2, <2>1, <2>2, <2>3
<1>6. IsSeq(c) /\ IsSeq(v) BY <1>3, <1>4 DEF IsSeq
<1> QED BY <1>3, <1>4, <1>5, <1>6 DEF c, v

\* Dropping the first n renumbers the rest.
LEMMA Dropped ==
  ASSUME NEW b, NEW w, IsSeq(b), IsSeq(w), NEW n \in 0 .. Len(b)
  PROVE  /\ IsSeq(Behind(b, n)) /\ Len(Behind(b, n)) = Len(b) - n
         /\ \A i \in 1 .. Len(b) - n + Len(w) : Token(Behind(b, n), w, i) = Token(b, w, i + n)
<1> DEFINE c == Behind(b, n)
<1>1. PICK S : b \in Seq(S) BY DEF IsSeq
<1>2. PICK T : w \in Seq(T) BY DEF IsSeq
<1>3. c \in Seq(S) /\ Len(c) = Len(b) - n /\ \A i \in 1 .. Len(c) : c[i] = b[i + n] BY <1>1 DEF Behind
<1> HIDE DEF c
<1>4. ASSUME NEW i \in 1 .. Len(c) + Len(w) PROVE Token(c, w, i) = Token(b, w, i + n)
   <2>1. Len(w) \in Nat /\ Len(b) \in Nat BY <1>1, <1>2
   <2>2. CASE i <= Len(c) BY <1>3, <2>1, <2>2 DEF Token
   <2>3. CASE i > Len(c)
      <3>1. i + n - Len(b) = i - Len(c) BY <1>3, <2>1
      <3>2. ~(i + n <= Len(b)) BY <1>3, <2>1, <2>3
      <3> QED BY <2>3, <3>1, <3>2, <2>1, <1>3 DEF Token
   <2> QED BY <1>3, <2>1, <2>2, <2>3
<1>5. IsSeq(c) BY <1>3 DEF IsSeq
<1> QED BY <1>3, <1>4, <1>5 DEF c

\* Two sequences, one behind the other.
LEMMA Joined ==
  ASSUME NEW S, NEW u \in Seq(S), NEW f \in Seq(S), NEW v, v = u \o f
  PROVE  /\ v \in Seq(S) /\ Len(v) = Len(u) + Len(f)
         /\ \A i \in 1 .. Len(u) : v[i] = u[i]
         /\ \A i \in 1 .. Len(f) : v[Len(u) + i] = f[i]
<1>1. v \in Seq(S) /\ Len(v) = Len(u) + Len(f) OBVIOUS
<1>2. \A i \in 1 .. Len(u) : v[i] = u[i] OBVIOUS
<1>3. ASSUME NEW i \in 1 .. Len(f) PROVE v[Len(u) + i] = f[i] OBVIOUS
<1> QED BY <1>1, <1>2, <1>3

\* A packet is sent: the stream grows by what leads it and its frame.
LEMMA Sent ==
  ASSUME NEW b, NEW w, IsSeq(b), IsSeq(w), NEW lead, IsSeq(lead), NEW p
  PROVE  /\ IsSeq(Queued(w, lead, p)) /\ Len(Queued(w, lead, p)) = Len(w) + Len(lead) + 5
         /\ \A i \in 1 .. Len(b) + Len(w) : Token(b, Queued(w, lead, p), i) = Token(b, w, i)
         /\ \A i \in 1 .. Len(lead) : Token(b, Queued(w, lead, p), Len(b) + Len(w) + i) = lead[i]
         /\ Token(b, Queued(w, lead, p), Len(b) + Len(w) + Len(lead) + 1) = <<"$">>
         /\ Token(b, Queued(w, lead, p), Len(b) + Len(w) + Len(lead) + 2) = p
         /\ Token(b, Queued(w, lead, p), Len(b) + Len(w) + Len(lead) + 3) = <<"#">>
         /\ Token(b, Queued(w, lead, p), Len(b) + Len(w) + Len(lead) + 4) = <<"digit">>
         /\ Token(b, Queued(w, lead, p), Len(b) + Len(w) + Len(lead) + 5) = <<"digit">>
<1> DEFINE v == Queued(w, lead, p)
<1>0. v = w \o lead \o Frame(p) BY DEF Queued
<1> HIDE DEF v
<1>1. PICK S, T, U : b \in Seq(S) /\ w \in Seq(T) /\ lead \in Seq(U) BY DEF IsSeq
<1> DEFINE V == T \cup U \cup {<<"$">>, p, <<"#">>, <<"digit">>}
           f == Frame(p)
           u == w \o lead
<1>2. w \in Seq(V) /\ lead \in Seq(V) BY <1>1
<1>3. /\ f \in Seq(V) /\ Len(f) = 5
      /\ f[1] = <<"$">> /\ f[2] = p /\ f[3] = <<"#">> /\ f[4] = <<"digit">> /\ f[5] = <<"digit">>
   BY DEF Frame
<1> HIDE DEF V, f
<1>4. /\ u \in Seq(V) /\ Len(u) = Len(w) + Len(lead)
      /\ \A i \in 1 .. Len(w) : u[i] = w[i]
      /\ \A i \in 1 .. Len(lead) : u[Len(w) + i] = lead[i]
   BY <1>2
<1> HIDE DEF u
<1>5. v = u \o f BY <1>0 DEF u, f
<1>6. /\ v \in Seq(V) /\ Len(v) = Len(u) + 5
      /\ \A i \in 1 .. Len(u) : v[i] = u[i]
      /\ \A i \in 1 .. 5 : v[Len(u) + i] = f[i]
   <2>1. f \in Seq(V) /\ u \in Seq(V) BY <1>3, <1>4
   <2>2. /\ v \in Seq(V) /\ Len(v) = Len(u) + Len(f)
         /\ \A i \in 1 .. Len(u) : v[i] = u[i]
         /\ \A i \in 1 .. Len(f) : v[Len(u) + i] = f[i]
      <3> HIDE DEF Token
      <3> QED BY <1>5, <2>1, Joined
   <2> QED BY <1>3, <2>2
<1>7. Len(b) \in Nat /\ Len(w) \in Nat /\ Len(lead) \in Nat BY <1>1
<1> HIDE DEF V, f, u
<1>8. ASSUME NEW i \in 1 .. Len(v) PROVE Token(b, v, Len(b) + i) = v[i]
   <2>1. ~(Len(b) + i <= Len(b)) /\ Len(b) + i - Len(b) = i BY <1>6, <1>7
   <2> QED BY <2>1 DEF Token
<1>9. ASSUME NEW i \in 1 .. Len(b) + Len(w) PROVE Token(b, v, i) = Token(b, w, i)
   <2>1. CASE i <= Len(b) BY <2>1 DEF Token
   <2>2. CASE i > Len(b)
      <3>1. i - Len(b) \in 1 .. Len(w) BY <1>7, <2>2
      <3>2. \A j \in 1 .. Len(w) : v[j] = w[j]
         <4> SUFFICES ASSUME NEW j \in 1 .. Len(w) PROVE v[j] = w[j] OBVIOUS
         <4>1. j \in 1 .. Len(u) BY <1>4, <1>7
         <4> QED BY <1>4, <1>6, <4>1
      <3>3. v[i - Len(b)] = w[i - Len(b)] BY <3>1, <3>2
      <3> QED BY <1>7, <2>2, <3>3 DEF Token
   <2> QED BY <1>7, <2>1, <2>2
<1>10. ASSUME NEW i \in 1 .. Len(lead) PROVE Token(b, v, Len(b) + Len(w) + i) = lead[i]
   <2>0. Len(w) + i \in 1 .. Len(u) BY <1>4, <1>7
   <2>a. u[Len(w) + i] = lead[i] BY <1>4
   <2>b. v[Len(w) + i] = u[Len(w) + i] BY <1>6, <2>0
   <2>1. v[Len(w) + i] = lead[i] BY <2>a, <2>b
   <2>4. Len(w) + i \in 1 .. Len(v) BY <1>4, <1>6, <1>7, SMTT(60)
   <2>2. Token(b, v, Len(b) + (Len(w) + i)) = v[Len(w) + i] BY <1>8, <2>4
   <2>3. Len(b) + Len(w) + i = Len(b) + (Len(w) + i) BY <1>7
   <2> QED BY <2>1, <2>2, <2>3
<1>11. ASSUME NEW j \in 1 .. 5 PROVE Token(b, v, Len(b) + Len(w) + Len(lead) + j) = f[j]
   <2>1. v[Len(u) + j] = f[j] BY <1>6
   <2>4. Len(u) + j \in 1 .. Len(v) BY <1>4, <1>6, <1>7
   <2>2. Token(b, v, Len(b) + (Len(u) + j)) = v[Len(u) + j] BY <1>8, <2>4
   <2>3. Len(b) + Len(w) + Len(lead) + j = Len(b) + (Len(u) + j) BY <1>4, <1>7
   <2> QED BY <2>1, <2>2, <2>3
<1>12. IsSeq(v) BY <1>6 DEF IsSeq
<1>13. /\ Token(b, v, Len(b) + Len(w) + Len(lead) + 1) = <<"$">>
       /\ Token(b, v, Len(b) + Len(w) + Len(lead) + 2) = p
       /\ Token(b, v, Len(b) + Len(w) + Len(lead) + 3) = <<"#">>
       /\ Token(b, v, Len(b) + Len(w) + Len(lead) + 4) = <<"digit">>
       /\ Token(b, v, Len(b) + Len(w) + Len(lead) + 5) = <<"digit">>
   BY <1>3, <1>11, 1 \in 1 .. 5, 2 \in 1 .. 5, 3 \in 1 .. 5, 4 \in 1 .. 5, 5 \in 1 .. 5
<1>14. Len(v) = Len(w) + Len(lead) + 5 BY <1>4, <1>6
<1> QED BY <1>9, <1>10, <1>12, <1>13, <1>14 DEF v

\* Frames lie where they lay in a stream of the same tokens.
LEMMA FramesStay ==
  ASSUME NEW b, NEW w, NEW c, NEW v, NEW ps, NEW first, NEW start, FramesLie(b, w, ps, first, start),
         Len(b) \in Nat, Len(w) \in Nat, Len(c) + Len(v) = Len(b) + Len(w),
         Len(ps) \in Nat, first \in Nat,
         \A i \in 1 .. Len(b) + Len(w) : Token(c, v, i) = Token(b, w, i)
  PROVE  FramesLie(c, v, ps, first, start)
<1>1. ASSUME NEW k \in first .. Len(ps)
      PROVE  /\ start[k] \in 1 .. Len(c) + Len(v) - 4
             /\ Token(c, v, start[k]) = <<"$">> /\ Token(c, v, start[k] + 1) = ps[k]
             /\ Token(c, v, start[k] + 2) = <<"#">>
             /\ \A l \in k + 1 .. Len(ps) : start[k] + 5 <= start[l]
   <2>1. /\ start[k] \in 1 .. Len(b) + Len(w) - 4
         /\ Token(b, w, start[k]) = <<"$">> /\ Token(b, w, start[k] + 1) = ps[k]
         /\ Token(b, w, start[k] + 2) = <<"#">>
         /\ \A l \in k + 1 .. Len(ps) : start[k] + 5 <= start[l]
      BY DEF FramesLie
   <2>2. start[k] \in 1 .. Len(b) + Len(w) /\ start[k] + 1 \in 1 .. Len(b) + Len(w) /\ start[k] + 2 \in 1 .. Len(b) + Len(w)
      BY <2>1, SMTT(60)
   <2> QED BY <2>1, <2>2, SMTT(60)
<1>2. ASSUME NEW i \in 1 .. Len(c) + Len(v), Token(c, v, i) = <<"$">>
      PROVE  \E k \in first .. Len(ps) : i \in {start[k], start[k] + 1}
   BY <1>2 DEF FramesLie
<1> HIDE DEF Token
<1> QED BY <1>1, <1>2 DEF FramesLie

\* n tokens are dropped, none of a frame that stays, the first frame perhaps.
LEMMA FramesMoveUp ==
  ASSUME NEW b, NEW w, IsSeq(b), IsSeq(w), NEW ps, Len(ps) \in Nat, NEW first \in Nat, NEW start,
         FramesLie(b, w, ps, first, start),
         NEW n \in 0 .. Len(b),
         NEW f \in {first, first + 1}, f # first => first <= Len(ps) /\ start[first] + 1 <= n,
         \A k \in f .. Len(ps) : start[k] > n
  PROVE  \E t \in [f .. Len(ps) -> 1 .. Len(Behind(b, n)) + Len(w)] : FramesLie(Behind(b, n), w, ps, f, t)
<1> DEFINE c == Behind(b, n)
           t == [k \in f .. Len(ps) |-> start[k] - n]
<1>1. /\ IsSeq(c) /\ Len(c) = Len(b) - n
      /\ \A i \in 1 .. Len(c) + Len(w) : Token(c, w, i) = Token(b, w, i + n)
   BY Dropped
<1> HIDE DEF c
<1>2. Len(b) \in Nat /\ Len(w) \in Nat BY DEF IsSeq
<1>3. ASSUME NEW k \in f .. Len(ps)
      PROVE  /\ t[k] \in 1 .. Len(c) + Len(w) - 4
             /\ Token(c, w, t[k]) = <<"$">> /\ Token(c, w, t[k] + 1) = ps[k]
             /\ Token(c, w, t[k] + 2) = <<"#">>
             /\ \A l \in k + 1 .. Len(ps) : t[k] + 5 <= t[l]
   <2>1. /\ start[k] \in 1 .. Len(b) + Len(w) - 4
         /\ Token(b, w, start[k]) = <<"$">> /\ Token(b, w, start[k] + 1) = ps[k]
         /\ Token(b, w, start[k] + 2) = <<"#">>
         /\ \A l \in k + 1 .. Len(ps) : start[k] + 5 <= start[l]
      BY DEF FramesLie
   <2>0. t[k] = start[k] - n OBVIOUS
   <2> HIDE DEF t
   <2>6. start[k] > n /\ n \in Nat BY <1>2
   <2>2. t[k] = start[k] - n /\ t[k] \in 1 .. Len(c) + Len(w) - 4 BY <1>1, <1>2, <2>0, <2>1, <2>6, SMTT(60)
   <2>3. /\ t[k] \in 1 .. Len(c) + Len(w) /\ t[k] + 1 \in 1 .. Len(c) + Len(w) /\ t[k] + 2 \in 1 .. Len(c) + Len(w)
         /\ t[k] + n = start[k] /\ t[k] + 1 + n = start[k] + 1 /\ t[k] + 2 + n = start[k] + 2
      <3>1. Len(c) \in Nat /\ Len(c) + Len(w) - 4 \in Int BY <1>1, <1>2
      <3>2. start[k] \in Int BY <1>2, <2>1
      <3>3. PICK x, y, z : x = t[k] /\ y = start[k] /\ z = Len(c) + Len(w) OBVIOUS
      <3>4. x = y - n /\ x \in 1 .. z - 4 /\ z \in Int /\ y \in Int /\ n \in Int BY <1>2, <2>0, <2>2, <2>6, <3>1, <3>2, <3>3
      <3>5. x \in 1 .. z /\ x + 1 \in 1 .. z /\ x + 2 \in 1 .. z /\ x + n = y /\ x + 1 + n = y + 1 /\ x + 2 + n = y + 2
         BY <3>4
      <3> QED BY <3>3, <3>5
   <2>4. /\ Token(c, w, t[k]) = <<"$">> /\ Token(c, w, t[k] + 1) = ps[k] /\ Token(c, w, t[k] + 2) = <<"#">>
      <3> QED BY <1>1, <2>1, <2>3
   <2>5. ASSUME NEW l \in k + 1 .. Len(ps) PROVE t[k] + 5 <= t[l]
      <3>1. l \in f .. Len(ps) /\ l \in first .. Len(ps) OBVIOUS
      <3>2. t[l] = start[l] - n BY <3>1 DEF t
      <3>3. start[l] \in 1 .. Len(b) + Len(w) - 4 BY <3>1 DEF FramesLie
      <3>4. start[k] + 5 <= start[l] BY <2>1
      <3>5. start[k] \in Int /\ start[l] \in Int BY <1>2, <2>1, <3>3
      <3>6. start[k] - n + 5 <= start[l] - n BY <2>6, <3>4, <3>5, SMTT(60)
      <3>7. PICK x, y : x = t[k] /\ y = t[l] OBVIOUS
      <3>8. x + 5 <= y BY <2>0, <3>2, <3>6, <3>7
      <3> QED BY <3>7, <3>8
   <2> QED BY <2>2, <2>4, <2>5
<1>4. ASSUME NEW i \in 1 .. Len(c) + Len(w), Token(c, w, i) = <<"$">>
      PROVE  \E k \in f .. Len(ps) : i \in {t[k], t[k] + 1}
   <2>1. Token(b, w, i + n) = <<"$">> /\ i + n \in 1 .. Len(b) + Len(w) BY <1>1, <1>2, <1>4
   <2>2. PICK k \in first .. Len(ps) : i + n \in {start[k], start[k] + 1} BY <2>1 DEF FramesLie
   <2>3. start[k] \in Int BY DEF FramesLie
   <2>4. k \in f .. Len(ps) BY <2>2, <2>3
   <2>5. t[k] = start[k] - n BY <2>4
   <2> QED BY <2>2, <2>3, <2>4, <2>5, SMTT(60)
<1>5. t \in [f .. Len(ps) -> 1 .. Len(c) + Len(w)] BY <1>1, <1>2, <1>3
<1> HIDE DEF t
<1>6. FramesLie(c, w, ps, f, t) BY <1>3, <1>4 DEF FramesLie
<1> QED BY <1>5, <1>6 DEF c

\* What leads a packet does not look like one.
Quiet(lead) == \A i \in DOMAIN lead : lead[i] # <<"$">>

\* The frames lie where they lay, and one more behind them.
ButOneMore(b, w, ps, first, start, lead, p) ==
  \E t \in [first .. Len(Append(ps, p)) -> 1 .. Len(b) + Len(Queued(w, lead, p))] :
     /\ FramesLie(b, Queued(w, lead, p), Append(ps, p), first, t)
     /\ first <= Len(ps) => t[first] = start[first]

\* A packet is sent: its frame is behind all others.
LEMMA FrameAdded ==
  ASSUME NEW b, NEW w, IsSeq(b), IsSeq(w), NEW ps, IsSeq(ps), NEW first \in 1 .. Len(ps) + 1,
         NEW start, FramesLie(b, w, ps, first, start),
         NEW lead, IsSeq(lead), Quiet(lead),
         NEW p
  PROVE  ButOneMore(b, w, ps, first, start, lead, p)
<1> DEFINE qs == Append(ps, p)
           v == Queued(w, lead, p)
           n == Len(b) + Len(w) + Len(lead)
           t == [k \in first .. Len(qs) |-> IF k <= Len(ps) THEN start[k] ELSE n + 1]
<1>1. Len(b) \in Nat /\ Len(w) \in Nat /\ Len(lead) \in Nat BY DEF IsSeq
<1>2. Len(ps) \in Nat /\ Len(qs) = Len(ps) + 1 /\ qs[Len(qs)] = p /\ \A k \in 1 .. Len(ps) : qs[k] = ps[k]
   BY DEF IsSeq
<1> HIDE DEF qs
<1>3. /\ Len(v) = Len(w) + Len(lead) + 5
      /\ \A i \in 1 .. Len(b) + Len(w) : Token(b, v, i) = Token(b, w, i)
      /\ \A i \in 1 .. Len(lead) : Token(b, v, Len(b) + Len(w) + i) = lead[i]
      /\ Token(b, v, n + 1) = <<"$">> /\ Token(b, v, n + 2) = p /\ Token(b, v, n + 3) = <<"#">>
      /\ Token(b, v, n + 4) = <<"digit">> /\ Token(b, v, n + 5) = <<"digit">>
   BY Sent
<1> HIDE DEF v
<1>4. ASSUME NEW k \in first .. Len(ps)
      PROVE  /\ t[k] = start[k] /\ start[k] \in 1 .. Len(b) + Len(w) - 4
             /\ Token(b, v, start[k]) = <<"$">> /\ Token(b, v, start[k] + 1) = ps[k]
             /\ Token(b, v, start[k] + 2) = <<"#">>
             /\ \A l \in k + 1 .. Len(ps) : start[k] + 5 <= start[l]
   <2>1. /\ start[k] \in 1 .. Len(b) + Len(w) - 4
         /\ Token(b, w, start[k]) = <<"$">> /\ Token(b, w, start[k] + 1) = ps[k]
         /\ Token(b, w, start[k] + 2) = <<"#">>
         /\ \A l \in k + 1 .. Len(ps) : start[k] + 5 <= start[l]
      BY DEF FramesLie
   <2>2. start[k] \in 1 .. Len(b) + Len(w) /\ start[k] + 1 \in 1 .. Len(b) + Len(w) /\ start[k] + 2 \in 1 .. Len(b) + Len(w)
      BY <1>1, <2>1, SMTT(60)
   <2>3. t[k] = start[k] BY <1>2
   <2> HIDE DEF t
   <2> QED BY <1>3, <2>1, <2>2, <2>3
<1>5. t[Len(qs)] = n + 1 BY <1>2
<1>6. ASSUME NEW k \in first .. Len(qs)
      PROVE  /\ t[k] \in 1 .. Len(b) + Len(v) - 4
             /\ Token(b, v, t[k]) = <<"$">> /\ Token(b, v, t[k] + 1) = qs[k]
             /\ Token(b, v, t[k] + 2) = <<"#">>
             /\ \A l \in k + 1 .. Len(qs) : t[k] + 5 <= t[l]
   <2>1. CASE k = Len(qs)
      <3>1. n + 1 \in 1 .. Len(b) + Len(v) - 4 /\ n + 1 + 1 = n + 2 /\ n + 1 + 2 = n + 3 BY <1>1, <1>3
      <3>2. k + 1 .. Len(qs) = {} BY <1>2, <2>1
      <3> HIDE DEF t, n
      <3> QED BY <1>2, <1>3, <1>5, <2>1, <3>1, <3>2
   <2>2. CASE k # Len(qs)
      <3>1. k \in first .. Len(ps) /\ qs[k] = ps[k] BY <1>2, <2>2
      <3>2. ASSUME NEW l \in k + 1 .. Len(qs) PROVE t[k] + 5 <= t[l]
         <4>1. CASE l = Len(qs)
            <5>1. n \in Nat /\ Len(b) + Len(w) <= n BY <1>1
            <5>2. t[k] = start[k] /\ start[k] \in 1 .. Len(b) + Len(w) - 4 BY <1>4, <3>1
            <5>3. t[l] = n + 1 BY <1>5, <4>1
            <5> HIDE DEF t, n
            <5> QED BY <1>1, <5>1, <5>2, <5>3, SMTT(60)
         <4>2. CASE l # Len(qs)
            <5>1. l \in k + 1 .. Len(ps) /\ l \in first .. Len(ps) BY <1>2, <4>2
            <5>2. t[l] = start[l] BY <1>4, <5>1
            <5> HIDE DEF t
            <5> QED BY <1>4, <3>1, <5>1, <5>2
         <4> QED BY <4>1, <4>2
      <3>3. t[k] \in 1 .. Len(b) + Len(v) - 4
         <4>1. t[k] = start[k] /\ start[k] \in 1 .. Len(b) + Len(w) - 4 BY <1>4, <3>1
         <4>2. Len(v) = Len(w) + Len(lead) + 5 BY <1>3
         <4> HIDE DEF t, n
         <4> QED BY <1>1, <4>1, <4>2
      <3> HIDE DEF t
      <3> QED BY <1>4, <3>1, <3>2, <3>3
   <2> QED BY <2>1, <2>2
<1>7. ASSUME NEW i \in 1 .. Len(b) + Len(v), Token(b, v, i) = <<"$">>
      PROVE  \E k \in first .. Len(qs) : i \in {t[k], t[k] + 1}
   <2>1. CASE i <= Len(b) + Len(w)
      <3>1. Token(b, w, i) = <<"$">> BY <1>1, <1>3, <1>7, <2>1
      <3>2. PICK k \in first .. Len(ps) : i \in {start[k], start[k] + 1} BY <1>1, <2>1, <3>1 DEF FramesLie
      <3>3. t[k] = start[k] /\ k \in first .. Len(qs) BY <1>2, <1>4
      <3> HIDE DEF t
      <3> QED BY <3>2, <3>3
   <2>2. CASE i > Len(b) + Len(w) /\ i <= n
      <3>1. i - (Len(b) + Len(w)) \in 1 .. Len(lead) BY <1>1, <2>2
      <3>2. PICK j \in 1 .. Len(lead) : i = Len(b) + Len(w) + j
         <4>1. i = Len(b) + Len(w) + (i - (Len(b) + Len(w))) BY <1>1, <1>3
         <4> QED BY <3>1, <4>1
      <3>3. lead[j] = <<"$">> BY <1>3, <1>7, <3>2
      <3>4. j \in DOMAIN lead BY DEF IsSeq
      <3> QED BY <3>3, <3>4 DEF Quiet
   <2>3. CASE i > n
      <3>1. i \in {n + 1, n + 2, n + 3, n + 4, n + 5}
         <4>1. n \in Nat /\ Len(b) + Len(v) = n + 5 BY <1>1, <1>3
         <4> HIDE DEF t, n
         <4> QED BY <2>3, <4>1
      <3>2. <<"#">> # <<"$">> /\ <<"digit">> # <<"$">> OBVIOUS
      <3>3. i \in {n + 1, n + 2} BY <1>3, <1>7, <3>1, <3>2
      <3>4. Len(qs) \in first .. Len(qs) BY <1>2
      <3>5. n + 1 + 1 = n + 2 BY <1>1
      <3> HIDE DEF t, n
      <3> QED BY <1>5, <3>3, <3>4, <3>5
   <2> QED BY <1>1, <2>1, <2>2, <2>3
<1>8. t \in [first .. Len(qs) -> 1 .. Len(b) + Len(v)]
   <2>1. ASSUME NEW k \in first .. Len(qs) PROVE t[k] \in 1 .. Len(b) + Len(v)
      <3> HIDE DEF t
      <3> QED BY <1>1, <1>3, <1>6
   <2> QED BY <2>1
<1>9. first <= Len(ps) => t[first] = start[first]
   BY <1>2, <1>4
<1> HIDE DEF t
<1>10. FramesLie(b, v, qs, first, t) BY <1>6, <1>7 DEF FramesLie
<1> QED BY <1>8, <1>9, <1>10 DEF qs, v, ButOneMore

\* What comes first starts with the first packet's $, or is noise.
LEMMA FrameInFront ==
  ASSUME NEW b, NEW w, IsSeq(b), IsSeq(w), NEW ps, IsSeq(ps), NEW first \in 1 .. Len(ps) + 1, NEW start,
         FramesLie(b, w, ps, first, start), b # << >>, b[1] = <<"$">>
  PROVE  /\ first <= Len(ps) /\ start[first] = 1 /\ Len(b) + Len(w) >= 5
         /\ Len(b) >= 2 => b[2] = ps[first]
         /\ Len(b) >= 3 => b[3] = <<"#">>
         /\ \A k \in first + 1 .. Len(ps) : start[k] > 5
<1>1. Len(b) \in Nat /\ Len(b) >= 1 /\ Len(w) \in Nat /\ Len(ps) \in Nat BY DEF IsSeq
<1>2. Token(b, w, 1) = <<"$">> BY <1>1 DEF Token
<1>3. PICK k \in first .. Len(ps) : 1 \in {start[k], start[k] + 1} BY <1>1, <1>2 DEF FramesLie
<1>4. start[k] = 1 BY <1>1, <1>3 DEF FramesLie
<1>5. first <= Len(ps) BY <1>1
<1>6. /\ start[first] \in 1 .. Len(b) + Len(w) - 4
      /\ Token(b, w, start[first] + 1) = ps[first] /\ Token(b, w, start[first] + 2) = <<"#">>
      /\ \A l \in first + 1 .. Len(ps) : start[first] + 5 <= start[l] /\ start[l] \in Int
   BY <1>1, <1>5 DEF FramesLie
<1>7. k = first BY <1>1, <1>4, <1>6
<1>8. start[first] = 1 BY <1>4, <1>7
<1>9. Token(b, w, 2) = ps[first] /\ Token(b, w, 3) = <<"#">> BY <1>6, <1>8
<1>10. \A l \in first + 1 .. Len(ps) : start[l] > 5 BY <1>6, <1>8
<1>11. Len(b) + Len(w) >= 5 BY <1>1, <1>6
<1> QED BY <1>1, <1>5, <1>8, <1>9, <1>10, <1>11 DEF Token

\* The elements of S up to n; how their number grows.
Chosen(n, S) == S \cap (1 .. n)

LEMMA OneMore ==
  ASSUME NEW S, NEW n \in Nat
  PROVE  /\ Cardinality(Chosen(n, S)) \in Nat
         /\ Cardinality(Chosen(n + 1, S)) =
              IF n + 1 \in S THEN Cardinality(Chosen(n, S)) + 1 ELSE Cardinality(Chosen(n, S))
<1>1. IsFiniteSet(1 .. n) BY FS_Interval
<1>2. Chosen(n, S) \in SUBSET (1 .. n) BY DEF Chosen
<1>3. IsFiniteSet(Chosen(n, S)) BY <1>1, <1>2, FS_Subset
<1>4. Cardinality(Chosen(n, S)) \in Nat BY <1>3, FS_CardinalityType
<1>5. CASE n + 1 \in S
  <2>1. Chosen(n + 1, S) = Chosen(n, S) \cup {n + 1} BY <1>5 DEF Chosen
  <2>2. n + 1 \notin Chosen(n, S) BY DEF Chosen
  <2> QED BY <1>3, <1>4, <1>5, <2>1, <2>2, FS_AddElement
<1>6. CASE n + 1 \notin S
  <2>1. Chosen(n + 1, S) = Chosen(n, S) BY <1>6 DEF Chosen
  <2> QED BY <1>4, <1>6, <2>1
<1> QED BY <1>4, <1>5, <1>6

\* Acks and Replies of a history s of what was sent.
AcksIn(s) == {i \in DOMAIN s : s[i] = ACK}
RepliesIn(s) == {i \in DOMAIN s : s[i] \notin {ACK, <<"T02">>}}

\* A history grows.
LEMMA Appended ==
  ASSUME NEW s, IsSeq(s), NEW x
  PROVE  /\ IsSeq(Append(s, x)) /\ Len(s) \in Nat /\ DOMAIN s = 1 .. Len(s)
         /\ Len(Append(s, x)) = Len(s) + 1 /\ DOMAIN Append(s, x) = 1 .. Len(s) + 1
         /\ Append(s, x)[Len(s) + 1] = x /\ \A i \in 1 .. Len(s) : Append(s, x)[i] = s[i]
<1>1. PICK S : s \in Seq(S) BY DEF IsSeq
<1>2. s \in Seq(S \cup {x}) BY <1>1
<1>3. /\ Append(s, x) \in Seq(S \cup {x}) /\ Len(Append(s, x)) = Len(s) + 1
      /\ Append(s, x)[Len(s) + 1] = x /\ \A i \in 1 .. Len(s) : Append(s, x)[i] = s[i]
   BY <1>2
<1> QED BY <1>1, <1>3 DEF IsSeq

\* What sending x adds to the numbers of acknowledgements and replies.
LEMMA OneMoreSent ==
  ASSUME NEW s, IsSeq(s), NEW x
  PROVE  /\ Cardinality(AcksIn(s)) \in Nat /\ Cardinality(RepliesIn(s)) \in Nat
         /\ Cardinality(AcksIn(Append(s, x))) = Cardinality(AcksIn(s)) + (IF x = ACK THEN 1 ELSE 0)
         /\ Cardinality(RepliesIn(Append(s, x))) =
              Cardinality(RepliesIn(s)) + (IF x \in {ACK, <<"T02">>} THEN 0 ELSE 1)
<1> DEFINE q == Append(s, x)
           n == Len(s)
           A == {i \in 1 .. n + 1 : q[i] = ACK}
           R == {i \in 1 .. n + 1 : q[i] \notin {ACK, <<"T02">>}}
<1>1. /\ n \in Nat /\ DOMAIN s = 1 .. n /\ DOMAIN q = 1 .. n + 1
      /\ q[n + 1] = x /\ \A i \in 1 .. n : q[i] = s[i]
   BY Appended
<1> HIDE DEF q, n
<1>2. AcksIn(s) = Chosen(n, A) /\ AcksIn(q) = Chosen(n + 1, A) BY <1>1 DEF AcksIn, Chosen
<1>3. RepliesIn(s) = Chosen(n, R) /\ RepliesIn(q) = Chosen(n + 1, R) BY <1>1 DEF RepliesIn, Chosen
<1>4. n + 1 \in A <=> x = ACK BY <1>1
<1>5. n + 1 \in R <=> x \notin {ACK, <<"T02">>} BY <1>1
<1> HIDE DEF A, R
<1>6. /\ Cardinality(AcksIn(s)) \in Nat
      /\ Cardinality(AcksIn(q)) = Cardinality(AcksIn(s)) + (IF x = ACK THEN 1 ELSE 0)
   BY <1>1, <1>2, <1>4, OneMore, SMTT(60)
<1>7. /\ Cardinality(RepliesIn(s)) \in Nat
      /\ Cardinality(RepliesIn(q)) = Cardinality(RepliesIn(s)) + (IF x \in {ACK, <<"T02">>} THEN 0 ELSE 1)
   BY <1>1, <1>3, <1>5, OneMore, SMTT(60)
<1> QED BY <1>6, <1>7 DEF q

\* A packet more is to be acknowledged unless an earlier one turned that off.
LEMMA OneMoreHandled ==
  ASSUME NEW s, IsSeq(s), NEW x
  PROVE  /\ Cardinality(ToAcknowledge(s)) \in Nat
         /\ Cardinality(ToAcknowledge(Append(s, x))) =
              Cardinality(ToAcknowledge(s)) + (IF \E i \in DOMAIN s : s[i][1] = "QStartNoAckMode" THEN 0 ELSE 1)
<1> DEFINE q == Append(s, x)
           n == Len(s)
           A == {i \in 1 .. n + 1 : \A j \in 1 .. i - 1 : q[j][1] # "QStartNoAckMode"}
<1>1. /\ n \in Nat /\ DOMAIN s = 1 .. n /\ DOMAIN q = 1 .. n + 1
      /\ q[n + 1] = x /\ \A i \in 1 .. n : q[i] = s[i]
   BY Appended
<1> HIDE DEF q, n
<1>2. ToAcknowledge(q) = Chosen(n + 1, A) BY <1>1 DEF ToAcknowledge, Chosen
<1>3. ToAcknowledge(s) = Chosen(n, A)
   <2>1. ASSUME NEW i \in 1 .. n
         PROVE  (\A j \in 1 .. i - 1 : q[j][1] # "QStartNoAckMode") <=> (\A j \in 1 .. i - 1 : s[j][1] # "QStartNoAckMode")
      <3>1. \A j \in 1 .. i - 1 : q[j] = s[j] BY <1>1
      <3> QED BY <3>1
   <2> QED BY <1>1, <2>1 DEF ToAcknowledge, Chosen
<1>4. n + 1 \in A <=> ~\E i \in DOMAIN s : s[i][1] = "QStartNoAckMode"
   <2>1. n + 1 \in A <=> \A j \in 1 .. n : q[j][1] # "QStartNoAckMode" BY <1>1
   <2> HIDE DEF A
   <2> QED BY <1>1, <2>1
<1> HIDE DEF A
<1>5. /\ Cardinality(ToAcknowledge(s)) \in Nat
      /\ Cardinality(ToAcknowledge(q)) = IF n + 1 \in A THEN Cardinality(ToAcknowledge(s)) + 1
                                         ELSE Cardinality(ToAcknowledge(s))
   BY <1>1, <1>2, <1>3, OneMore
<1>6. Cardinality(ToAcknowledge(q)) =
        Cardinality(ToAcknowledge(s)) + (IF \E i \in DOMAIN s : s[i][1] = "QStartNoAckMode" THEN 0 ELSE 1)
   BY <1>4, <1>5
<1> QED BY <1>5, <1>6 DEF q

\* The first packet whose frame is still in the stream; the one that is running
\* is taken out behind its run.
First == IF cur = << >> THEN Len(handled) + 1 ELSE Len(handled)

\* The stream holds the packets not yet taken, whole and in order.
StreamInv ==
  /\ IsSeq(buf) /\ IsSeq(wire) /\ IsSeq(asked)
  /\ \A i \in DOMAIN asked : asked[i] \notin {<< >>, <<"#">>}
  /\ First \in 1 .. Len(asked) + 1
  /\ \E start \in [First .. Len(asked) -> 1 .. Len(buf) + Len(wire)] :
       /\ FramesLie(buf, wire, asked, First, start)
       /\ cur # << >> => First <= Len(asked) /\ start[First] = 1 /\ Len(buf) >= 5

\* What was handled is what was asked, and so often acknowledged and answered.
CountInv ==
  /\ IsSeq(handled) /\ IsSeq(out)
  /\ Len(handled) <= Len(asked) /\ \A i \in DOMAIN handled : handled[i] = asked[i]
  /\ no_ack <=> \E i \in DOMAIN handled : handled[i][1] = "QStartNoAckMode"
  /\ Cardinality(AcksIn(out)) = Cardinality(ToAcknowledge(handled))
  /\ Cardinality(RepliesIn(out)) = IF cur = << >> THEN Len(handled) ELSE Len(handled) - 1

\* Where serve() waits for more, the buffer holds no complete frame.
PlaceInv ==
  /\ cur # << >> <=> at = "running"
  /\ at \notin {"parse", "running"} => buf = << >> \/ (buf[1] = <<"$">> /\ Len(buf) < 5)
  /\ no_ack => at \in {"recv", "parse", "running", "done"}

\* What is at the front of buf.
LEMMA FrontOfBuf ==
  ASSUME StreamInv, buf # << >>, buf[1] = <<"$">>
  PROVE  /\ Complete <=> Len(buf) >= 5
         /\ Complete => First <= Len(asked) /\ buf[2] = asked[First] /\ Rest = Behind(buf, 5)
         /\ wire = << >> => Complete
<1>1. IsSeq(buf) /\ IsSeq(wire) /\ IsSeq(asked) /\ First \in 1 .. Len(asked) + 1 BY DEF StreamInv
<1>2. PICK start : FramesLie(buf, wire, asked, First, start) BY DEF StreamInv
<1>3. /\ First <= Len(asked) /\ Len(buf) + Len(wire) >= 5
      /\ Len(buf) >= 2 => buf[2] = asked[First]
      /\ Len(buf) >= 3 => buf[3] = <<"#">>
   BY <1>1, <1>2, FrameInFront
<1>4. Len(buf) \in Nat /\ DOMAIN buf = 1 .. Len(buf) /\ Len(asked) \in Nat /\ DOMAIN asked = 1 .. Len(asked)
   BY <1>1 DEF IsSeq
<1>5. asked[First] # <<"#">>
   <2>1. First \in DOMAIN asked BY <1>1, <1>3, <1>4
   <2> QED BY <2>1 DEF StreamInv
<1>6. <<"$">> # <<"#">> OBVIOUS
<1>7. \A i \in DOMAIN buf : buf[i] = <<"#">> => i >= 3 BY <1>3, <1>4, <1>5, <1>6
<1>8. CASE Len(buf) < 3
  <2>1. ~Complete BY <1>4, <1>7, <1>8 DEF Complete, Framed
  <2>2. wire # << >> BY <1>3, <1>4, <1>8
  <2> QED BY <1>4, <1>8, <2>1, <2>2
<1>9. CASE Len(buf) >= 3
  <2>1. 3 \in DOMAIN buf /\ buf[3] = <<"#">> /\ \A j \in 1 .. 3 - 1 : buf[j] # <<"#">>
     BY <1>3, <1>4, <1>7, <1>9
  <2>2. ASSUME NEW i \in DOMAIN buf, buf[i] = <<"#">>, \A j \in 1 .. i - 1 : buf[j] # <<"#">> PROVE i = 3
     BY <1>4, <1>7, <2>1, <2>2
  <2>3. HashAt = 3 BY <2>1, <2>2 DEF HashAt
  <2>4. Framed BY <2>1 DEF Framed
  <2>5. Complete <=> Len(buf) >= 5 BY <1>4, <2>3, <2>4 DEF Complete
  <2>6. Rest = Behind(buf, 5) BY <2>3 DEF Rest, Behind
  <2>7. wire = << >> => Len(buf) >= 5 BY <1>3, <1>4
  <2> QED BY <1>3, <1>9, <1>4, <2>5, <2>6, <2>7
<1> QED BY <1>4, <1>8, <1>9

\* The front packet is taken out of buf, its reply sent.
LEMMA FrontTaken ==
  ASSUME StreamInv, Complete, buf' = Rest, UNCHANGED <<wire, asked>>, First' = First + 1, cur' = << >>
  PROVE  StreamInv'
<1>0. buf # << >> /\ buf[1] = <<"$">> BY DEF Complete, Framed
<1>1. IsSeq(buf) /\ IsSeq(wire) /\ IsSeq(asked) /\ First \in 1 .. Len(asked) + 1 BY DEF StreamInv
<1>2. PICK start : FramesLie(buf, wire, asked, First, start) BY DEF StreamInv
<1>3. First <= Len(asked) /\ start[First] = 1 /\ \A k \in First + 1 .. Len(asked) : start[k] > 5
   BY <1>0, <1>1, <1>2, FrameInFront
<1>4. Len(buf) >= 5 /\ Rest = Behind(buf, 5) BY <1>0, FrontOfBuf
<1>5. Len(asked) \in Nat /\ Len(buf) \in Nat /\ First \in Nat BY <1>1 DEF IsSeq
<1> DEFINE f == First + 1
<1>6. 5 \in 0 .. Len(buf) BY <1>4, <1>5
<1>7. f \in {First, First + 1} /\ start[First] + 1 <= 5 /\ \A k \in f .. Len(asked) : start[k] > 5 BY <1>3
<1> HIDE DEF f
<1>8. \E t \in [f .. Len(asked) -> 1 .. Len(Behind(buf, 5)) + Len(wire)] : FramesLie(Behind(buf, 5), wire, asked, f, t)
   BY <1>1, <1>2, <1>3, <1>5, <1>6, <1>7, FramesMoveUp
<1>9. IsSeq(Behind(buf, 5)) BY <1>1, <1>6, Dropped
<1>10. First' = f /\ f \in 1 .. Len(asked) + 1 BY <1>3, <1>5 DEF f
<1>11. buf' = Behind(buf, 5) BY <1>4
<1>12. \A i \in DOMAIN asked : asked[i] \notin {<< >>, <<"#">>} BY DEF StreamInv
<1> HIDE DEF First
<1>13. \E t \in [First' .. Len(asked') -> 1 .. Len(buf') + Len(wire')] : FramesLie(buf', wire', asked', First', t)
   BY <1>8, <1>10, <1>11
<1> QED BY <1>1, <1>9, <1>10, <1>11, <1>12, <1>13 DEF StreamInv

\* A packet is taken out of the stream's front: the next that was asked.
LEMMA NextHandled ==
  ASSUME StreamInv, CountInv, Complete, cur = << >>, asked' = asked, handled' = Append(handled, buf[2]),
         NEW q, q = IF no_ack THEN out ELSE Append(out, ACK)
  PROVE  /\ IsSeq(handled') /\ Len(handled') = Len(handled) + 1 /\ Len(handled') <= Len(asked') /\ Len(handled) \in Nat
         /\ \A i \in DOMAIN handled' : handled'[i] = asked'[i]
         /\ (\E i \in DOMAIN handled' : handled'[i][1] = "QStartNoAckMode")
              <=> (no_ack \/ buf[2][1] = "QStartNoAckMode")
         /\ IsSeq(q)
         /\ Cardinality(AcksIn(q)) \in Nat
         /\ Cardinality(AcksIn(q)) = Cardinality(ToAcknowledge(handled'))
         /\ Cardinality(RepliesIn(q)) = Len(handled)
         /\ buf[2] # << >>
<1>0. buf # << >> /\ buf[1] = <<"$">> BY DEF Complete, Framed
<1>1. First <= Len(asked) /\ buf[2] = asked[First] /\ First = Len(handled) + 1
   BY <1>0, FrontOfBuf DEF First
<1>2. IsSeq(asked) /\ IsSeq(handled) /\ IsSeq(out) BY DEF StreamInv, CountInv
<1>3. Len(asked) \in Nat /\ DOMAIN asked = 1 .. Len(asked) BY <1>2 DEF IsSeq
<1> DEFINE p == buf[2]
<1> HIDE DEF p
<1>4. /\ IsSeq(handled') /\ Len(handled) \in Nat /\ DOMAIN handled = 1 .. Len(handled)
      /\ Len(handled') = Len(handled) + 1 /\ DOMAIN handled' = 1 .. Len(handled) + 1
      /\ handled'[Len(handled) + 1] = p /\ \A i \in 1 .. Len(handled) : handled'[i] = handled[i]
   <2>1. handled' = Append(handled, p) BY DEF p
   <2> QED BY <1>2, <2>1, Appended
<1>5. \A i \in DOMAIN handled' : handled'[i] = asked'[i]
   <2>1. ASSUME NEW i \in 1 .. Len(handled) PROVE handled'[i] = asked[i] BY <1>4 DEF CountInv
   <2>2. handled'[Len(handled) + 1] = asked[Len(handled) + 1] BY <1>1, <1>4 DEF p
   <2> QED BY <1>4, <2>1, <2>2
<1>6. (\E i \in DOMAIN handled' : handled'[i][1] = "QStartNoAckMode") <=> (no_ack \/ p[1] = "QStartNoAckMode")
   <2>1. no_ack <=> \E i \in 1 .. Len(handled) : handled[i][1] = "QStartNoAckMode" BY <1>4 DEF CountInv
   <2> QED BY <1>4, <2>1
<1>7. Cardinality(ToAcknowledge(handled')) = Cardinality(ToAcknowledge(handled)) + (IF no_ack THEN 0 ELSE 1)
   <2>1. no_ack <=> \E i \in DOMAIN handled : handled[i][1] = "QStartNoAckMode" BY DEF CountInv
   <2>2. Cardinality(ToAcknowledge(handled')) =
           Cardinality(ToAcknowledge(handled)) + (IF \E i \in DOMAIN handled : handled[i][1] = "QStartNoAckMode" THEN 0 ELSE 1)
      BY <1>2, OneMoreHandled
   <2> QED BY <2>1, <2>2
<1>8. Cardinality(ToAcknowledge(handled)) \in Nat BY <1>2, OneMoreHandled
<1>9. /\ Cardinality(AcksIn(out)) = Cardinality(ToAcknowledge(handled))
      /\ Cardinality(RepliesIn(out)) = Len(handled)
   BY DEF CountInv
<1>10. /\ IsSeq(q) /\ Cardinality(AcksIn(q)) = Cardinality(AcksIn(out)) + (IF no_ack THEN 0 ELSE 1)
       /\ Cardinality(RepliesIn(q)) = Len(handled)
   <2>1. CASE no_ack BY <1>2, <1>8, <1>9, <2>1
   <2>2. CASE ~no_ack
      <3>1. q = Append(out, ACK) BY <2>2
      <3>2. IsSeq(q) BY <1>2, <3>1, Appended
      <3>3. /\ Cardinality(AcksIn(Append(out, ACK))) = Cardinality(AcksIn(out)) + (IF ACK = ACK THEN 1 ELSE 0)
            /\ Cardinality(RepliesIn(Append(out, ACK))) =
                 Cardinality(RepliesIn(out)) + (IF ACK \in {ACK, <<"T02">>} THEN 0 ELSE 1)
         BY <1>2, OneMoreSent
      <3> QED BY <1>4, <1>9, <2>2, <3>1, <3>2, <3>3
   <2> QED BY <2>1, <2>2
<1>11. p # << >> BY <1>1, <1>2, <1>3, <1>4 DEF p, StreamInv
<1> QED BY <1>1, <1>4, <1>5, <1>6, <1>7, <1>8, <1>9, <1>10, <1>11 DEF p

\* No reply to a packet is an acknowledgement or the answer to an interrupt.
LEMMA RepliesAreReplies ==
  ASSUME NEW p
  PROVE  Reply(p) \notin {ACK, <<"T02">>}
<1> DEFINE r == Reply(p)
<1>a. \A n : reg_read_n(n) = <<"E00">> \/ \E v : reg_read_n(n) = <<"value", v>> BY Zenon DEF reg_read_n
<1>b. \A n : reg_info(n) = <<"E45">> \/ \E v, w : reg_info(n) = <<"info", v, w>> BY Zenon DEF reg_info
<1>c. \A n, l : \E v, w, x : handle_qXfer(n, l) = <<v, w, x>> BY Zenon DEF handle_qXfer
<1>d. \E v : reg_read_all = <<"values", v>> BY Zenon DEF reg_read_all
<1>e. \/ Answer(p) = << >> \/ Answer(p) = <<"OK">>
      \/ Answer(p) = <<p[1]>> /\ p[1] \in Described
      \/ Answer(p) = reg_info(p[2])
      \/ Answer(p) = handle_qXfer(p[2], p[3])
   <2>1. CASE p[1] \in Supported BY <2>1 DEF Answer, Supported, Described
   <2>2. CASE p[1] \in Described BY <2>2 DEF Answer, Supported, Described
   <2>3. CASE p[1] = "qRegisterInfo" BY <2>3 DEF Answer, Supported, Described
   <2>4. CASE p[1] = "qXfer" BY <2>4 DEF Answer, Supported, Described
   <2>5. CASE p[1] \notin Supported \cup Described \cup {"qRegisterInfo", "qXfer"} BY <2>5 DEF Answer
   <2> QED BY <2>1, <2>2, <2>3, <2>4, <2>5
<1>f. \/ r \in {<<"T05">>, <<"OK">>, << >>}
      \/ r = reg_read_all \/ r = reg_read_n(p[2]) \/ r = Answer(p)
      \/ \E v : r = <<"values", v>>
   BY Zenon DEF Reply
<1> HIDE DEF r
<1>2. ASSUME NEW v PROVE <<"value", v>> \notin {ACK, <<"T02">>} /\ <<"values", v>> \notin {ACK, <<"T02">>} BY DEF ACK
<1>3. ASSUME NEW v, NEW w PROVE <<"info", v, w>> \notin {ACK, <<"T02">>} BY DEF ACK
<1>4. ASSUME NEW v, NEW w, NEW x PROVE <<v, w, x>> \notin {ACK, <<"T02">>} BY DEF ACK
<1>5. << >> \notin {ACK, <<"T02">>} BY DEF ACK
<1>6. \A x \in {<<"T05">>, <<"OK">>, <<"E00">>, <<"E45">>} : x \notin {ACK, <<"T02">>} BY DEF ACK
<1>7. \A x \in Described : <<x>> \notin {ACK, <<"T02">>} BY DEF ACK, Described
<1>8. Answer(p) \notin {ACK, <<"T02">>}
   <2>1. CASE Answer(p) = << >> \/ Answer(p) = <<"OK">> BY <2>1, <1>5, <1>6
   <2>2. CASE Answer(p) = <<p[1]>> /\ p[1] \in Described BY <2>2, <1>7
   <2>3. CASE Answer(p) = reg_info(p[2]) BY <2>3, <1>b, <1>3, <1>6
   <2>4. CASE Answer(p) = handle_qXfer(p[2], p[3]) BY <2>4, <1>c, <1>4
   <2> QED BY <1>e, <2>1, <2>2, <2>3, <2>4
<1>9. reg_read_n(p[2]) \notin {ACK, <<"T02">>} BY <1>a, <1>2, <1>6
<1>10. reg_read_all \notin {ACK, <<"T02">>} BY <1>d, <1>2
<1>11. r \notin {ACK, <<"T02">>}
   <2>1. CASE r \in {<<"T05">>, <<"OK">>, << >>} BY <2>1, <1>5, <1>6
   <2>2. CASE \E v : r = <<"values", v>> BY <2>2, <1>2
   <2> QED BY <1>f, <1>8, <1>9, <1>10, <2>1, <2>2
<1> QED BY <1>11 DEF r

\* The invariant of a session.
FrameInv == host \in HostSet /\ StreamInv /\ CountInv /\ PlaceInv

\* The debugger's and the stub's steps.
LEMMA FrameStep ==
  ASSUME StopInv, FrameInv, host' = host, GdbStep \/ ClientSend
  PROVE  FrameInv'
<1> USE DEF FrameInv
<1>0. /\ IsSeq(buf) /\ IsSeq(wire) /\ IsSeq(asked) /\ IsSeq(handled) /\ IsSeq(out)
      /\ First \in 1 .. Len(asked) + 1 /\ Len(asked) \in Nat /\ Len(handled) \in Nat
      /\ Len(buf) \in Nat /\ Len(wire) \in Nat
   BY DEF StreamInv, CountInv, IsSeq
<1>1. CASE ClientSend
  <2>1. PICK p \in host.ask, lead \in host.leads : wire' = wire \o lead \o Frame(p) /\ asked' = Append(asked, p)
     BY <1>1 DEF ClientSend
  <2>2. UNCHANGED <<at, buf, cur, no_ack, out, handled>> /\ at \in {"recv", "parse", "running"}
     BY <1>1 DEF ClientSend, baseVars, sessionVars
  <2>3. host.gdb BY <2>2 DEF StopInv, Debugging
  <2>4. p \notin {<< >>, <<"#">>} /\ lead \in Seq(Range(lead)) /\ \A i \in DOMAIN lead : lead[i] # <<"$">>
     BY <2>3, HostsAssumption
  <2>5. IsSeq(lead) BY <2>4 DEF IsSeq
  <2>6. wire' = Queued(wire, lead, p) BY <2>1 DEF Queued
  <2>7. /\ IsSeq(asked') /\ Len(asked') = Len(asked) + 1 /\ DOMAIN asked = 1 .. Len(asked) /\ DOMAIN asked' = 1 .. Len(asked) + 1
        /\ asked'[Len(asked) + 1] = p /\ \A i \in 1 .. Len(asked) : asked'[i] = asked[i]
     BY <1>0, <2>1, Appended
  <2>8. First' = First BY <2>2 DEF First
  <2>9. StreamInv'
     <3>1. PICK start \in [First .. Len(asked) -> 1 .. Len(buf) + Len(wire)] :
              /\ FramesLie(buf, wire, asked, First, start)
              /\ cur # << >> => First <= Len(asked) /\ start[First] = 1 /\ Len(buf) >= 5
        BY DEF StreamInv
     <3> DEFINE qs == Append(asked, p)
     <3> HIDE DEF First
     <3>2. PICK t \in [First .. Len(qs) -> 1 .. Len(buf) + Len(Queued(wire, lead, p))] :
              FramesLie(buf, Queued(wire, lead, p), qs, First, t) /\ (First <= Len(asked) => t[First] = start[First])
        <4>1. Quiet(lead) BY <2>4 DEF Quiet
        <4>2. ButOneMore(buf, wire, asked, First, start, lead, p) BY <1>0, <2>5, <3>1, <4>1, FrameAdded
        <4> QED BY <4>2 DEF ButOneMore
     <3>3. \E t1 \in [First' .. Len(asked') -> 1 .. Len(buf') + Len(wire')] :
              /\ FramesLie(buf', wire', asked', First', t1)
              /\ cur' # << >> => First' <= Len(asked') /\ t1[First'] = 1 /\ Len(buf') >= 5
        BY <1>0, <2>1, <2>2, <2>6, <2>7, <2>8, <3>1, <3>2
     <3>4. IsSeq(wire') BY <1>0, <2>5, <2>6, Sent
     <3>5. \A i \in DOMAIN asked' : asked'[i] \notin {<< >>, <<"#">>} BY <2>4, <2>7 DEF StreamInv
     <3>6. First' \in 1 .. Len(asked') + 1 BY <1>0, <2>7, <2>8
     <3> QED BY <1>0, <2>2, <2>7, <3>3, <3>4, <3>5, <3>6 DEF StreamInv
  <2>10. CountInv'
     <3>1. Len(handled) <= Len(asked') BY <1>0, <2>7 DEF CountInv
     <3>2. \A i \in DOMAIN handled : handled[i] = asked'[i]
        <4>1. DOMAIN handled = 1 .. Len(handled) BY <1>0 DEF IsSeq
        <4>2. Len(handled) <= Len(asked) /\ \A i \in DOMAIN handled : handled[i] = asked[i] BY DEF CountInv
        <4> QED BY <1>0, <2>7, <4>1, <4>2
     <3> QED BY <2>2, <3>1, <3>2 DEF CountInv
  <2>11. PlaceInv' BY <2>2 DEF PlaceInv
  <2> QED BY <2>9, <2>10, <2>11
<1>2. CASE Accept
  <2>1. /\ at = "accept" /\ at' = "recv" /\ ~no_ack' /\ UNCHANGED <<buf, wire, asked, cur, out, handled>>
     BY <1>2 DEF Accept, streamVars
  <2>2. ~no_ack BY <2>1 DEF PlaceInv
  <2>3. no_ack' <=> no_ack BY <2>1, <2>2
  <2>4. StreamInv' BY <2>1 DEF StreamInv, First
  <2>5. CountInv' BY <2>1, <2>3 DEF CountInv
  <2>6. PlaceInv' BY <2>1 DEF PlaceInv
  <2> QED BY <2>4, <2>5, <2>6
<1>3. CASE Receive
  <2>1. PICK n \in 1 .. Len(wire) : buf' = buf \o SubSeq(wire, 1, n) /\ wire' = SubSeq(wire, n + 1, Len(wire))
     BY <1>3 DEF Receive
  <2>2. at = "recv" /\ at' = "parse" /\ UNCHANGED <<asked, cur, no_ack, out, handled>>
     BY <1>3 DEF Receive, sessionVars
  <2>3. cur = << >> BY <2>2 DEF PlaceInv
  <2>4. First' = First BY <2>2 DEF First
  <2>5. /\ IsSeq(buf') /\ IsSeq(wire') /\ Len(buf') = Len(buf) + n /\ Len(wire') = Len(wire) - n
        /\ \A i \in 1 .. Len(buf) + Len(wire) : Token(buf', wire', i) = Token(buf, wire, i)
     <3>1. buf' = Piece(buf, wire, n) /\ wire' = Behind(wire, n) BY <2>1 DEF Piece, Behind
     <3>2. /\ IsSeq(Piece(buf, wire, n)) /\ IsSeq(Behind(wire, n))
           /\ Len(Piece(buf, wire, n)) = Len(buf) + n /\ Len(Behind(wire, n)) = Len(wire) - n
           /\ \A i \in 1 .. Len(buf) + Len(wire) : Token(Piece(buf, wire, n), Behind(wire, n), i) = Token(buf, wire, i)
        BY <1>0, Received
     <3> QED BY <3>1, <3>2
  <2>6. Len(buf') + Len(wire') = Len(buf) + Len(wire) BY <1>0, <2>5
  <2>7. PICK start \in [First .. Len(asked) -> 1 .. Len(buf) + Len(wire)] : FramesLie(buf, wire, asked, First, start)
     BY DEF StreamInv
  <2>8. FramesLie(buf', wire', asked, First, start)
     <3>1. First \in Nat BY <1>0
     <3> HIDE DEF First
     <3> QED BY <1>0, <2>5, <2>6, <2>7, <3>1, FramesStay
  <2>9. StreamInv' BY <1>0, <2>2, <2>3, <2>4, <2>5, <2>6, <2>7, <2>8 DEF StreamInv
  <2>10. CountInv' BY <2>2 DEF CountInv
  <2>11. PlaceInv' BY <2>2 DEF PlaceInv
  <2> QED BY <2>9, <2>10, <2>11
<1>4. CASE Skip
  <2>1. /\ at = "parse" /\ at' = at /\ cur = << >> /\ buf # << >> /\ buf[1] # <<"$">> /\ buf' = Tail(buf)
        /\ UNCHANGED <<wire, asked, cur, no_ack, handled>>
        /\ out' = out \/ out' = Append(out, <<"T02">>)
     BY <1>4 DEF Skip
  <2>2. buf' = Behind(buf, 1) /\ Len(buf) >= 1 /\ Token(buf, wire, 1) = buf[1]
     BY <1>0, <2>1 DEF Behind, Token, IsSeq
  <2>3. PICK start \in [First .. Len(asked) -> 1 .. Len(buf) + Len(wire)] : FramesLie(buf, wire, asked, First, start)
     BY DEF StreamInv
  <2>4. \A k \in First .. Len(asked) : start[k] > 1
     <3> SUFFICES ASSUME NEW k \in First .. Len(asked) PROVE start[k] > 1 OBVIOUS
     <3>1. start[k] \in 1 .. Len(buf) + Len(wire) - 4 /\ Token(buf, wire, start[k]) = <<"$">>
        BY <2>3 DEF FramesLie
     <3>2. start[k] # 1 BY <2>1, <2>2, <3>1
     <3> QED BY <1>0, <3>1, <3>2
  <2>5. First' = First BY <2>1 DEF First
  <2>6. \E t \in [First .. Len(asked) -> 1 .. Len(Behind(buf, 1)) + Len(wire)] : FramesLie(Behind(buf, 1), wire, asked, First, t)
     <3>1. First \in Nat /\ 1 \in 0 .. Len(buf) /\ First \in {First, First + 1} BY <1>0, <2>2
     <3> HIDE DEF First
     <3> QED BY <1>0, <2>3, <2>4, <3>1, FramesMoveUp
  <2>7. IsSeq(Behind(buf, 1)) BY <1>0, <2>2, Dropped
  <2>8. StreamInv' BY <1>0, <2>1, <2>2, <2>5, <2>6, <2>7 DEF StreamInv
  <2>9. IsSeq(out') /\ Cardinality(AcksIn(out')) = Cardinality(AcksIn(out)) /\ Cardinality(RepliesIn(out')) = Cardinality(RepliesIn(out))
     <3>1. CASE out' = out BY <1>0, <3>1
     <3>2. CASE out' = Append(out, <<"T02">>)
        <4>1. <<"T02">> # ACK BY DEF ACK
        <4> DEFINE x == <<"T02">>
        <4>2. Cardinality(AcksIn(out)) \in Nat /\ Cardinality(RepliesIn(out)) \in Nat BY <1>0, OneMoreSent
        <4>3. /\ Cardinality(AcksIn(Append(out, x))) = Cardinality(AcksIn(out)) + (IF x = ACK THEN 1 ELSE 0)
              /\ Cardinality(RepliesIn(Append(out, x))) =
                   Cardinality(RepliesIn(out)) + (IF x \in {ACK, <<"T02">>} THEN 0 ELSE 1)
           BY <1>0, OneMoreSent
        <4>4. IsSeq(out') BY <1>0, <3>2, Appended
        <4> QED BY <3>2, <4>1, <4>2, <4>3, <4>4
     <3> QED BY <2>1, <3>1, <3>2
  <2>10. CountInv' BY <2>1, <2>9 DEF CountInv
  <2>11. PlaceInv' BY <2>1 DEF PlaceInv
  <2> QED BY <2>8, <2>10, <2>11
<1>5. CASE HandlePacket
  <2> DEFINE p == buf[2]
             q == IF no_ack THEN out ELSE Append(out, ACK)
  <2>1. /\ at = "parse" /\ at' = at /\ cur = << >> /\ cur' = cur /\ Complete /\ buf' = Rest
        /\ out' = Append(q, Reply(p)) /\ no_ack' = (no_ack \/ p[1] = "QStartNoAckMode")
        /\ handled' = Append(handled, p) /\ UNCHANGED <<wire, asked>>
     BY <1>5, Zenon DEF HandlePacket, Acked
  <2>2. /\ IsSeq(handled') /\ Len(handled') = Len(handled) + 1 /\ Len(handled') <= Len(asked')
        /\ \A i \in DOMAIN handled' : handled'[i] = asked'[i]
        /\ (\E i \in DOMAIN handled' : handled'[i][1] = "QStartNoAckMode") <=> (no_ack \/ p[1] = "QStartNoAckMode")
        /\ IsSeq(q) /\ Cardinality(AcksIn(q)) \in Nat
        /\ Cardinality(AcksIn(q)) = Cardinality(ToAcknowledge(handled'))
        /\ Cardinality(RepliesIn(q)) = Len(handled)
     BY <2>1, NextHandled
  <2>3. First' = First + 1 BY <1>0, <2>1, <2>2 DEF First
  <2>4. StreamInv' BY <2>1, <2>3, FrontTaken
  <2>5. Reply(p) \notin {ACK, <<"T02">>} BY RepliesAreReplies
  <2> HIDE DEF p, q
  <2>6. /\ Cardinality(AcksIn(Append(q, Reply(p)))) = Cardinality(AcksIn(q)) + (IF Reply(p) = ACK THEN 1 ELSE 0)
        /\ Cardinality(RepliesIn(Append(q, Reply(p)))) =
             Cardinality(RepliesIn(q)) + (IF Reply(p) \in {ACK, <<"T02">>} THEN 0 ELSE 1)
     BY <2>2, OneMoreSent
  <2>7. /\ IsSeq(out') /\ Cardinality(AcksIn(out')) = Cardinality(ToAcknowledge(handled'))
        /\ Cardinality(RepliesIn(out')) = Len(handled')
     <3>1. IsSeq(out') BY <2>1, <2>2, Appended
     <3> QED BY <2>1, <2>2, <2>5, <2>6, <3>1
  <2>8. CountInv' BY <2>1, <2>2, <2>7 DEF CountInv
  <2>9. PlaceInv' BY <2>1 DEF PlaceInv
  <2> QED BY <2>4, <2>8, <2>9
<1>6. CASE BeginRun
  <2> DEFINE p == buf[2]
             q == IF no_ack THEN out ELSE Append(out, ACK)
  <2>1. /\ at = "parse" /\ at' = "running" /\ cur = << >> /\ cur' = p /\ Complete /\ IsRun(p)
        /\ out' = q /\ handled' = Append(handled, p) /\ UNCHANGED <<buf, wire, asked, no_ack>>
     BY <1>6, Zenon DEF BeginRun, Acked, streamVars
  <2>2. /\ IsSeq(handled') /\ Len(handled') = Len(handled) + 1 /\ Len(handled') <= Len(asked')
        /\ \A i \in DOMAIN handled' : handled'[i] = asked'[i]
        /\ (\E i \in DOMAIN handled' : handled'[i][1] = "QStartNoAckMode") <=> (no_ack \/ p[1] = "QStartNoAckMode")
        /\ IsSeq(q) /\ Cardinality(AcksIn(q)) = Cardinality(ToAcknowledge(handled'))
        /\ Cardinality(RepliesIn(q)) = Len(handled) /\ p # << >>
     BY <2>1, NextHandled
  <2>3. p[1] # "QStartNoAckMode" BY <2>1 DEF IsRun
  <2> HIDE DEF p, q
  <2>4. First' = First BY <1>0, <2>1, <2>2 DEF First
  <2>5. StreamInv'
     <3>0. buf # << >> /\ buf[1] = <<"$">> BY <2>1 DEF Complete, Framed
     <3>1. PICK start \in [First .. Len(asked) -> 1 .. Len(buf) + Len(wire)] : FramesLie(buf, wire, asked, First, start)
        BY DEF StreamInv
     <3>2. First <= Len(asked) /\ start[First] = 1
        <4> HIDE DEF First
        <4> QED BY <1>0, <3>0, <3>1, FrameInFront
     <3>3. Len(buf) >= 5 BY <2>1, <3>0, FrontOfBuf
     <3> QED BY <1>0, <2>1, <2>4, <3>1, <3>2, <3>3 DEF StreamInv
  <2>6. CountInv'
     <3>1. Len(handled) = Len(handled') - 1 BY <1>0, <2>2
     <3> QED BY <2>1, <2>2, <2>3, <3>1 DEF CountInv
  <2>7. PlaceInv' BY <2>1, <2>2 DEF PlaceInv
  <2> QED BY <2>5, <2>6, <2>7
<1>7. CASE RunInstruction
  <2>1. UNCHANGED <<at, buf, wire, asked, cur, no_ack, out, handled>>
     BY <1>7 DEF RunInstruction, streamVars
  <2> QED BY <2>1 DEF StreamInv, CountInv, PlaceInv, First
<1>8. CASE EndRun
  <2> DEFINE r == exec.reply
  <2>1. /\ at = "running" /\ at' = "parse" /\ r # << >> /\ out' = Append(out, r) /\ buf' = Rest /\ cur' = << >>
        /\ UNCHANGED <<wire, asked, no_ack, handled>>
     BY <1>8 DEF EndRun
  <2>2. r \notin {ACK, <<"T02">>}
     <3>1. r = <<"T04">> \/ r = <<"T05">> \/ (\E t, a : r = <<"T05", t, a>>) BY <2>1, Zenon DEF StopInv
     <3>2. \A t, a : <<"T05", t, a>> \notin {ACK, <<"T02">>} BY DEF ACK
     <3>3. <<"T04">> \notin {ACK, <<"T02">>} /\ <<"T05">> \notin {ACK, <<"T02">>} BY DEF ACK
     <3> QED BY <3>1, <3>2, <3>3
  <2> HIDE DEF r
  <2>3. cur # << >> BY <2>1 DEF PlaceInv
  <2>4. First' = First + 1 BY <1>0, <2>1, <2>3 DEF First
  <2>5. Complete
     <3>1. PICK start : /\ FramesLie(buf, wire, asked, First, start)
                        /\ First <= Len(asked) /\ start[First] = 1 /\ Len(buf) >= 5
        BY <2>3 DEF StreamInv
     <3>2. Token(buf, wire, 1) = <<"$">> BY <1>0, <3>1 DEF FramesLie
     <3>3. buf # << >> /\ buf[1] = <<"$">> BY <1>0, <3>1, <3>2 DEF Token, IsSeq
     <3> QED BY <3>1, <3>3, FrontOfBuf
  <2>6. StreamInv' BY <2>1, <2>4, <2>5, FrontTaken
  <2>7. /\ Cardinality(AcksIn(out)) \in Nat /\ Cardinality(RepliesIn(out)) \in Nat
        /\ Cardinality(AcksIn(Append(out, r))) = Cardinality(AcksIn(out)) + (IF r = ACK THEN 1 ELSE 0)
        /\ Cardinality(RepliesIn(Append(out, r))) = Cardinality(RepliesIn(out)) + (IF r \in {ACK, <<"T02">>} THEN 0 ELSE 1)
     BY <1>0, OneMoreSent
  <2>8. IsSeq(out') BY <1>0, <2>1, Appended
  <2>9. Cardinality(RepliesIn(out)) = Len(handled) - 1 BY <2>3 DEF CountInv
  <2>10. Cardinality(RepliesIn(out')) = Len(handled) /\ Cardinality(AcksIn(out')) = Cardinality(AcksIn(out))
     BY <1>0, <2>1, <2>2, <2>7, <2>9
  <2>11. CountInv' BY <2>1, <2>8, <2>10 DEF CountInv
  <2>12. PlaceInv' BY <2>1 DEF PlaceInv
  <2> QED BY <2>6, <2>11, <2>12
<1>9. CASE ReceiveMore
  <2>1. /\ at = "parse" /\ at' = "recv" /\ UNCHANGED <<buf, wire, asked, cur, no_ack, out, handled>>
        /\ ~(buf # << >> /\ (buf[1] # <<"$">> \/ Complete)) /\ cur = << >>
     BY <1>9 DEF ReceiveMore, streamVars, sessionVars
  <2>2. buf = << >> \/ (buf[1] = <<"$">> /\ Len(buf) < 5)
     <3>1. ASSUME buf # << >> PROVE buf[1] = <<"$">> /\ ~Complete BY <2>1, <3>1
     <3> QED BY <1>0, <3>1, FrontOfBuf
  <2>3. StreamInv' BY <2>1 DEF StreamInv, First
  <2>4. CountInv' BY <2>1 DEF CountInv
  <2>5. PlaceInv' BY <2>1, <2>2 DEF PlaceInv
  <2> QED BY <2>3, <2>4, <2>5
<1>10. CASE Disconnect
  <2>1. /\ at = "recv" /\ at' = "done" /\ UNCHANGED <<buf, wire, asked, cur, no_ack, out, handled>>
     BY <1>10 DEF Disconnect, Exit, streamVars, sessionVars
  <2>2. StreamInv' BY <2>1 DEF StreamInv, First
  <2>3. CountInv' BY <2>1 DEF CountInv
  <2>4. PlaceInv' BY <2>1 DEF PlaceInv
  <2> QED BY <2>2, <2>3, <2>4
<1> QED BY <1>1, <1>2, <1>3, <1>4, <1>5, <1>6, <1>7, <1>8, <1>9, <1>10 DEF GdbStep

\* Nothing has been sent yet.
LEMMA FrameInit == Init => FrameInv
<1> SUFFICES ASSUME Init PROVE FrameInv OBVIOUS
<1>1. /\ wire = << >> /\ buf = << >> /\ cur = << >> /\ no_ack = FALSE
      /\ out = << >> /\ asked = << >> /\ handled = << >> /\ host \in HostSet
   BY DEF Init, BareInit, GdbInit
<1>2. at # "running" BY DEF Init
<1>3. IsSeq(<< >>)
   <2>1. << >> \in Seq({}) OBVIOUS
   <2> QED BY <2>1 DEF IsSeq
<1>4. First = 1 BY <1>1 DEF First
<1>5. StreamInv
   <2> DEFINE start == [k \in 1 .. 0 |-> 1]
   <2>1. start \in [First .. Len(asked) -> 1 .. Len(buf) + Len(wire)] BY <1>1, <1>4
   <2>2. FramesLie(buf, wire, asked, First, start) BY <1>1, <1>4 DEF FramesLie
   <2>3. IsSeq(buf) /\ IsSeq(wire) /\ IsSeq(asked) /\ DOMAIN asked = {} BY <1>1, <1>3
   <2>4. First \in 1 .. Len(asked) + 1 BY <1>1, <1>4
   <2> HIDE DEF start
   <2> QED BY <1>1, <2>1, <2>2, <2>3, <2>4 DEF StreamInv
<1>6. CountInv
   <2>1. AcksIn(out) = {} /\ RepliesIn(out) = {} /\ ToAcknowledge(handled) = {}
      BY <1>1 DEF AcksIn, RepliesIn, ToAcknowledge
   <2>2. Cardinality({}) = 0 BY FS_EmptySet
   <2> QED BY <1>1, <1>3, <2>1, <2>2 DEF CountInv
<1>7. PlaceInv BY <1>1, <1>2 DEF PlaceInv
<1> QED BY <1>1, <1>5, <1>6, <1>7 DEF FrameInv

\* A step outside a session leaves the session alone, and no session is on.
LEMMA SessionsApart ==
  ASSUME StopInv, [Next]_vars, ~(GdbStep \/ ClientSend)
  PROVE  /\ UNCHANGED gdbVars
         /\ at' = at \/ (at \notin {"recv", "parse", "running", "done"} /\ at' \notin {"recv", "parse", "running"})
<1> DEFINE Apart == /\ UNCHANGED gdbVars
                    /\ \/ at' = at
                       \/ at \notin {"recv", "parse", "running", "done"} /\ at' \notin {"recv", "parse", "running"}
<1>1. CASE UNCHANGED vars BY <1>1 DEF vars, baseVars
<1>2. CASE LoadPfi /\ UNCHANGED gdbVars
   BY <1>2 DEF LoadPfi, OpenPfi, ReadChunk, EndLoad, Exit
<1>3. CASE OpenElf \/ ReadSegment \/ EndElf \/ BeginBare
   BY <1>3 DEF OpenElf, ReadSegment, EndElf, BeginBare, Exit
<1>4. CASE Signal \/ BareInstruction \/ LeaveBurst \/ EndBare
   BY <1>4 DEF Signal, BareInstruction, LeaveBurst, EndBare, Exit, baseVars
<1>5. CASE HeadlessStep /\ UNCHANGED gdbVars
   BY <1>5
      DEF HeadlessStep, ParseScript, BeginHeadless, BeginFrame, HeadlessJump, HeadlessBurst,
         HeadlessInstruction, HeadlessTick, Interrupted, NoFrame, EndFrame, HeadlessExit, Exit, baseVars
<1>6. CASE RetroStep /\ UNCHANGED gdbVars
   BY <1>6
      DEF RetroStep, LoadGame, RestoreSave, NoSave, BeginRetroRun, RetroBurst, RetroInstruction,
         RetroTick, RetroWake, EndRetroRun, RetroReset, Unload, Exit, baseVars
<1>7. CASE PfarStep /\ UNCHANGED gdbVars
   BY <1>7
      DEF PfarStep, OpenImage, AddFile, DelFile, Extract, DumpDir, EndCommand, LastCommand, Change,
         Running, Exit, baseVars
<1>8. CASE Done BY <1>8 DEF Done, vars, baseVars
<1> QED BY <1>1, <1>2, <1>3, <1>4, <1>5, <1>6, <1>7, <1>8 DEF Next, BareStep

\* Every step keeps the invariant.
LEMMA FrameNext ==
  ASSUME StopInv, FrameInv, [Next]_vars
  PROVE  FrameInv'
<1>h. host' = host BY HostStays
<1>1. CASE GdbStep \/ ClientSend BY <1>1, <1>h, FrameStep
<1>2. CASE ~(GdbStep \/ ClientSend)
  <2>1. /\ UNCHANGED gdbVars
        /\ at' = at \/ (at \notin {"recv", "parse", "running", "done"} /\ at' \notin {"recv", "parse", "running"})
     BY <1>2, SessionsApart
  <2>2. UNCHANGED <<wire, buf, asked, cur, no_ack, out, handled>> BY <2>1 DEF gdbVars, streamVars, sessionVars
  <2>3. StreamInv' BY <2>2 DEF FrameInv, StreamInv, First
  <2>4. CountInv' BY <2>2 DEF FrameInv, CountInv
  <2>5. PlaceInv' BY <2>1, <2>2 DEF FrameInv, PlaceInv
  <2> QED BY <1>h, <2>3, <2>4, <2>5 DEF FrameInv
<1> QED BY <1>1, <1>2

\* However recv() cuts the stream, GdbRsp::serve gives every packet to
\* handle_packet once and in the order sent, with one reply each, and one
\* acknowledgement up to the packet that turns them off: behind a packet's
\* reply only its own frame is erased from the buffer, what precedes a $ is
\* skipped, and serve() waits for more only when no complete frame is left.
THEOREM SessionsAreFramed == Spec => []SessionIsFramed
<1>1. FrameInv => SessionIsFramed
   <2> SUFFICES ASSUME FrameInv PROVE SessionIsFramed OBVIOUS
   <2>1. IsSeq(asked) /\ IsSeq(handled) /\ IsSeq(buf) BY DEF FrameInv, StreamInv, CountInv
   <2>2. Len(handled) <= Len(asked) /\ \A i \in DOMAIN handled : handled[i] = asked[i] BY DEF FrameInv, CountInv
   <2>3. /\ Len(asked) \in Nat /\ Len(handled) \in Nat /\ DOMAIN handled = 1 .. Len(handled) /\ Len(buf) \in Nat
      BY <2>1 DEF IsSeq
   <2>4. IsPrefix(handled, asked)
      <3>1. PICK S, T : handled \in Seq(S) /\ asked \in Seq(T) BY <2>1 DEF IsSeq
      <3>2. SubSeq(handled, 1, Len(handled)) = SubSeq(asked, 1, Len(handled)) BY <2>2, <2>3, <3>1
      <3> QED BY <2>2, <3>2 DEF IsPrefix
   <2>5. ASSUME at = "recv", wire = << >>
         PROVE  /\ handled = asked /\ buf = << >> /\ Cardinality(Replies) = Len(asked)
                /\ Cardinality(Acks) = Cardinality(ToAcknowledge(asked))
      <3>1. cur = << >> /\ (buf = << >> \/ (buf[1] = <<"$">> /\ Len(buf) < 5)) BY <2>5 DEF FrameInv, PlaceInv
      <3>2. buf = << >>
         <4> SUFFICES ASSUME buf # << >> PROVE FALSE OBVIOUS
         <4>1. buf[1] = <<"$">> /\ Len(buf) < 5 BY <3>1
         <4>2. Complete /\ (Complete <=> Len(buf) >= 5) BY <2>5, <4>1, FrontOfBuf DEF FrameInv
         <4> QED BY <2>3, <4>1, <4>2
      <3>3. Len(handled) = Len(asked)
         <4>1. PICK start : FramesLie(buf, wire, asked, First, start) BY DEF FrameInv, StreamInv
         <4>2. \A k \in First .. Len(asked) : start[k] \in 1 .. Len(buf) + Len(wire) - 4 BY <4>1 DEF FramesLie
         <4>3. Len(buf) = 0 /\ Len(wire) = 0 BY <2>5, <3>2
         <4>4. \A k \in First .. Len(asked) : FALSE BY <4>2, <4>3
         <4>5. First = Len(handled) + 1 BY <3>1 DEF First
         <4> HIDE DEF First
         <4>6. Len(asked) < First
            <5> SUFFICES ASSUME First <= Len(asked) PROVE FALSE BY <2>3, <4>5
            <5>1. First \in First .. Len(asked) BY <2>3, <4>5
            <5> QED BY <4>4, <5>1
         <4> QED BY <2>2, <2>3, <4>5, <4>6
      <3>4. handled = asked
         <4>1. PICK S, T : handled \in Seq(S) /\ asked \in Seq(T) BY <2>1 DEF IsSeq
         <4>2. handled = [i \in 1 .. Len(handled) |-> handled[i]] /\ asked = [i \in 1 .. Len(asked) |-> asked[i]] BY <4>1
         <4> QED BY <2>2, <2>3, <3>3, <4>2
      <3>5. /\ Cardinality(AcksIn(out)) = Cardinality(ToAcknowledge(handled))
            /\ Cardinality(RepliesIn(out)) = Len(handled)
         BY <3>1 DEF FrameInv, CountInv
      <3>6. Acks = AcksIn(out) /\ Replies = RepliesIn(out) BY DEF Acks, Replies, AcksIn, RepliesIn
      <3> QED BY <3>2, <3>4, <3>5, <3>6
   <2> QED BY <2>4, <2>5 DEF SessionIsFramed
<1>2. Init => StopInv BY StopInit
<1>3. StopInv /\ [Next]_vars => StopInv' BY StopStep
<1>4. Init => FrameInv BY FrameInit
<1>5. StopInv /\ FrameInv /\ [Next]_vars => FrameInv' BY FrameNext
<1> QED BY <1>1, <1>2, <1>3, <1>4, <1>5, PTL DEF Spec

-----------------------------------------------------------------------------
(* The archiver: an image is a store of files.                             *)

\* The numbers of sectors are none of the table's marks.
LEMMA PffsIs ==
  /\ SECTOR \in Nat \ {0} /\ MAXDIR \in Nat \ {0} /\ ImageSectors \in Nat \ {0} /\ MAXFAT \in Nat \ {0}
  /\ MAXFAT <= FAT_SYSTEM
  /\ MaxFat \in Nat \ {0} /\ MaxFat <= MAXFAT /\ MaxFat <= ImageSectors
BY PffsAssumption DEF MaxFat

\* A set of numbers that is not empty has a least one.
LEMMA LeastIs ==
  ASSUME NEW S, S \subseteq Nat, S # {}
  PROVE  Min(S) \in S /\ \A x \in S : Min(S) <= x
<1> DEFINE R == {p \in Nat \X Nat : p[1] < p[2]}
<1>1. IsWellFoundedOn(R, Nat) BY NatLessThanWellFounded DEF OpToRel
<1>2. PICK x \in S : \A y \in S : ~ (<<y, x>> \in R)
   <2> HIDE DEF R
   <2> QED BY <1>1, WFMin
<1>3. ASSUME NEW y \in S PROVE x <= y
   <2>1. x \in Nat /\ y \in Nat OBVIOUS
   <2>2. <<y, x>> \notin R BY <1>2
   <2> QED BY <2>1, <2>2
<1> HIDE DEF R
<1>4. Min(S) = CHOOSE z \in S : \A y \in S : z <= y BY DEF Min
<1> QED BY <1>3, <1>4

\* Bytes and sectors.
LEMMA Division ==
  ASSUME NEW d \in Nat \ {0}, NEW a \in Nat
  PROVE  /\ a \div d \in Nat /\ a % d \in 0 .. d - 1 /\ a = d * (a \div d) + (a % d)
OBVIOUS

\* A byte of a file has a sector of the file, and a place in it.
LEMMA SectorsAre ==
  ASSUME NEW size \in Nat
  PROVE  /\ SectorsOf(size) \in Nat
         /\ SectorsOf(0) = 0
         /\ \A b \in 1 .. size : /\ ((b - 1) \div SECTOR) + 1 \in 1 .. SectorsOf(size)
                                 /\ ((b - 1) % SECTOR) + 1 \in 1 .. SECTOR
                                 /\ ((((b - 1) \div SECTOR) + 1) - 1) * SECTOR + (((b - 1) % SECTOR) + 1) = b
<1>1. PICK d \in Nat \ {0} : d = SECTOR BY PffsIs
<1>2. size + d - 1 \in Nat BY <1>1
<1>3. SectorsOf(size) \in Nat BY <1>1, <1>2, Division DEF SectorsOf
<1>4. SectorsOf(0) = 0
   <2>1. 0 + d - 1 = d - 1 /\ d - 1 \in Nat BY <1>1
   <2>2. (d - 1) \div d = 0 BY <2>1
   <2> QED BY <1>1, <2>1, <2>2 DEF SectorsOf
<1>5. ASSUME NEW b \in 1 .. size
      PROVE  /\ ((b - 1) \div SECTOR) + 1 \in 1 .. SectorsOf(size)
             /\ ((b - 1) % SECTOR) + 1 \in 1 .. SECTOR
             /\ ((((b - 1) \div SECTOR) + 1) - 1) * SECTOR + (((b - 1) % SECTOR) + 1) = b
   <2>1. PICK a \in Nat : a = b - 1 BY <1>5
   <2>2. PICK q \in Nat, r \in 0 .. d - 1 : q = a \div d /\ r = a % d /\ a = d * q + r BY <1>1, <2>1, Division
   <2>3. PICK z \in Nat, y \in 0 .. d - 1 : z = SectorsOf(size) /\ size + d - 1 = d * z + y
      BY <1>1, <1>2, Division DEF SectorsOf
   <2>4. q + 1 <= z
      <3> SUFFICES ASSUME z <= q PROVE FALSE OBVIOUS
      <3>1. d * z <= d * q OBVIOUS
      <3>2. d * q <= b - 1 /\ b <= size BY <2>1, <2>2
      <3>3. size + d - 1 <= d * q + d - 1 BY <2>3, <3>1
      <3> QED BY <3>2, <3>3
   <2>5. ((q + 1) - 1) * d + (r + 1) = b
      <3>1. (q + 1) - 1 = q OBVIOUS
      <3>2. q * d = d * q OBVIOUS
      <3>3. PICK e \in Nat : e = d * q OBVIOUS
      <3>4. e + (r + 1) = b BY <2>1, <2>2, <3>3
      <3> QED BY <3>1, <3>2, <3>3, <3>4
   <2> QED BY <1>1, <2>1, <2>2, <2>3, <2>4, <2>5
<1> QED BY <1>3, <1>4, <1>5

\* The recursion along a chain.
Walks(f, links, from, n) == f = [k \in 0 .. n |-> IF k = 0 THEN from ELSE Follow(links, f[k - 1])]

\* The recursion of Walk has a solution.
LEMMA WalksExist ==
  ASSUME NEW links, NEW from, NEW n0 \in Nat
  PROVE  \E f : Walks(f, links, from, n0)
<1> DEFINE S == {n \in Nat : \E f : Walks(f, links, from, n)}
<1>1. 0 \in S
   <2> DEFINE f == [k \in 0 .. 0 |-> from]
   <2>1. f = [k \in 0 .. 0 |-> IF k = 0 THEN from ELSE Follow(links, f[k - 1])] OBVIOUS
   <2> HIDE DEF f
   <2>2. Walks(f, links, from, 0) BY <2>1 DEF Walks
   <2> QED BY <2>2
<1>2. ASSUME NEW n \in Nat, n \in S PROVE n + 1 \in S
   <2>1. PICK f : Walks(f, links, from, n) BY <1>2
   <2>2. f = [k \in 0 .. n |-> IF k = 0 THEN from ELSE Follow(links, f[k - 1])] BY <2>1 DEF Walks
   <2> DEFINE g == [k \in 0 .. n + 1 |-> IF k = n + 1 THEN Follow(links, f[n]) ELSE f[k]]
              h == [k \in 0 .. n + 1 |-> IF k = 0 THEN from ELSE Follow(links, g[k - 1])]
   <2>3. \A k \in 0 .. n : g[k] = f[k] OBVIOUS
   <2>4. \A k \in 0 .. n + 1 : g[k] = IF k = 0 THEN from ELSE Follow(links, g[k - 1])
      <3> TAKE k \in 0 .. n + 1
      <3>1. CASE k = n + 1
         <4>1. g[k] = Follow(links, f[n]) BY <3>1
         <4>2. g[k - 1] = f[n] /\ k # 0 BY <2>3, <3>1
         <4> HIDE DEF g
         <4> QED BY <4>1, <4>2
      <3>2. CASE k = 0 BY <2>2, <2>3, <3>2
      <3>3. CASE k \in 1 .. n
         <4>1. k \in 0 .. n /\ k - 1 \in 0 .. n /\ k # 0 BY <3>3
         <4>2. f[k] = Follow(links, f[k - 1]) BY <2>2, <4>1
         <4>3. g[k] = f[k] /\ g[k - 1] = f[k - 1] BY <2>3, <4>1
         <4> HIDE DEF g
         <4> QED BY <4>1, <4>2, <4>3
      <3> QED BY <3>1, <3>2, <3>3
   <2>5. g = h
      <3>1. \A k \in 0 .. n + 1 : h[k] = IF k = 0 THEN from ELSE Follow(links, g[k - 1]) OBVIOUS
      <3>2. \A k \in 0 .. n + 1 : g[k] = h[k] BY <2>4, <3>1
      <3> QED BY <3>2
   <2> HIDE DEF g
   <2>6. Walks(g, links, from, n + 1) BY <2>5 DEF Walks
   <2> QED BY <2>6
<1>3. Nat \subseteq S
   <2> HIDE DEF S
   <2> QED BY <1>1, <1>2, SetInduction
<1> QED BY <1>3

\* A chain that a table holds is the one that is walked.
LEMMA WalkIs ==
  ASSUME NEW links, NEW from, NEW n \in Nat, NEW c, c[0] = from,
         \A k \in 0 .. n - 1 : c[k + 1] = Follow(links, c[k])
  PROVE  \A k \in 0 .. n : Walk(links, from, n)[k] = c[k]
<1> DEFINE f == Walk(links, from, n)
<1>1. \E g : Walks(g, links, from, n) BY WalksExist
<1>2. Walks(f, links, from, n)
   <2>1. f = CHOOSE g : g = [k \in 0 .. n |-> IF k = 0 THEN from ELSE Follow(links, g[k - 1])] BY DEF Walk
   <2>2. f = CHOOSE g : Walks(g, links, from, n) BY <2>1 DEF Walks
   <2> HIDE DEF f
   <2> QED BY <1>1, <2>2
<1> HIDE DEF f
<1>3. \A k \in 0 .. n : f[k] = IF k = 0 THEN from ELSE Follow(links, f[k - 1])
   <2>1. f = [k \in 0 .. n |-> IF k = 0 THEN from ELSE Follow(links, f[k - 1])] BY <1>2 DEF Walks
   <2> DEFINE g == [k \in 0 .. n |-> IF k = 0 THEN from ELSE Follow(links, f[k - 1])]
   <2>2. \A k \in 0 .. n : g[k] = IF k = 0 THEN from ELSE Follow(links, f[k - 1]) OBVIOUS
   <2> HIDE DEF g
   <2>3. f = g BY <2>1 DEF g
   <2> QED BY <2>2, <2>3
<1> DEFINE S == {k \in Nat : k <= n => f[k] = c[k]}
<1>4. 0 \in S BY <1>3
<1>5. ASSUME NEW k \in Nat, k \in S PROVE k + 1 \in S
   <2> SUFFICES ASSUME k + 1 <= n PROVE f[k + 1] = c[k + 1] OBVIOUS
   <2>1. f[k + 1] = Follow(links, f[(k + 1) - 1]) BY <1>3
   <2>2. f[k] = c[k] BY <1>5
   <2>3. c[k + 1] = Follow(links, c[k]) OBVIOUS
   <2>4. (k + 1) - 1 = k OBVIOUS
   <2> QED BY <2>1, <2>2, <2>3, <2>4
<1>6. Nat \subseteq S
   <2> HIDE DEF S
   <2> QED BY <1>4, <1>5, SetInduction
<1>7. \A k \in 0 .. n : f[k] = c[k] BY <1>6
<1> QED BY <1>7 DEF f

\* An image whose entries in use have chains: ch[i][k] is the k-th sector of entry
\* i, and behind the last is FAT_END.  A sector is in one place of one chain, or
\* free.
Entries(img) == {i \in 1 .. MAXDIR : InUse(img.dir[i])}
Length(img, i) == SectorsOf(img.dir[i].size)
Shape(img) ==
  /\ DOMAIN img = {"sig", "dir", "fat", "data"}
  /\ DOMAIN img.dir = 1 .. MAXDIR /\ DOMAIN img.fat = 0 .. MAXFAT - 1
  /\ DOMAIN img.data = 0 .. ImageSectors - 1
HasChain(img, i, c) ==
  /\ ValidName(img.dir[i].name) /\ img.dir[i].size \in Nat
  /\ c[1] = img.dir[i].chain /\ c[Length(img, i) + 1] = FAT_END
  /\ \A k \in 1 .. Length(img, i) : c[k] \in 1 .. MaxFat - 1 /\ img.fat[c[k]] = c[k + 1]
NamesDiffer(img) == \A i, j \in Entries(img) : img.dir[i].name = img.dir[j].name => i = j
ChainsDiffer(img, ch) ==
  \A i, j \in Entries(img) : \A k \in 1 .. Length(img, i), l \in 1 .. Length(img, j) :
    ch[i][k] = ch[j][l] => i = j /\ k = l
Chained(img, ch) ==
  /\ Shape(img)
  /\ \A i \in Entries(img) : HasChain(img, i, ch[i])
  /\ NamesDiffer(img) /\ ChainsDiffer(img, ch)
  /\ \A s \in 1 .. MaxFat - 1 :
       img.fat[s] = FAT_FREE \/ \E i \in Entries(img) : \E k \in 1 .. Length(img, i) : s = ch[i][k]
  /\ img.fat[0] # FAT_FREE

\* No file has the name of an entry that is not in use.
LEMMA ValidIsUsed == \A n : ValidName(n) => n # Unused.name
<1> SUFFICES ASSUME ValidName(Unused.name) PROVE FALSE OBVIOUS
<1>1. Unused.name[1] = 255 BY DEF Unused
<1> QED BY <1>1 DEF ValidName

\* The entry that has a name is found, and only if there is one.
LEMMA FoundAt ==
  ASSUME NEW img, Shape(img), NamesDiffer(img), NEW i \in Entries(img), ValidName(img.dir[i].name)
  PROVE  Find(img, img.dir[i].name) = i
<1> DEFINE n == img.dir[i].name
           S == {j \in DOMAIN img.dir : img.dir[j].name = n}
<1>1. i \in S BY DEF Shape, Entries
<1>2. \A j \in S : j = i
   <2> TAKE j \in S
   <2>1. j \in 1 .. MAXDIR /\ img.dir[j].name = n BY DEF Shape
   <2>2. j \in Entries(img) BY <2>1, ValidIsUsed DEF Entries, InUse
   <2> QED BY <2>1, <2>2 DEF NamesDiffer
<1>3. S \subseteq Nat BY DEF Shape
<1>4. Find(img, n) = FirstOf(S) BY DEF Find
<1> HIDE DEF S, n
<1>5. Min(S) \in S BY <1>1, <1>3, LeastIs
<1>6. FirstOf(S) = i BY <1>1, <1>2, <1>5 DEF FirstOf
<1> QED BY <1>4, <1>6 DEF n

\* What is found is an entry in use of that name.
LEMMA FoundIs ==
  ASSUME NEW img, Shape(img), NEW n, Find(img, n) # 0
  PROVE  Find(img, n) \in Entries(img) /\ img.dir[Find(img, n)].name = n /\ ValidName(n)
<1> DEFINE S == {j \in DOMAIN img.dir : img.dir[j].name = n}
<1>1. ValidName(n) /\ Find(img, n) = FirstOf(S) BY DEF Find
<1>2. S \subseteq Nat BY DEF Shape
<1> HIDE DEF S
<1>3. S # {} /\ FirstOf(S) = Min(S) BY <1>1 DEF FirstOf
<1>4. Find(img, n) \in S BY <1>1, <1>2, <1>3, LeastIs
<1>5. Find(img, n) \in 1 .. MAXDIR /\ img.dir[Find(img, n)].name = n BY <1>4 DEF S, Shape
<1> QED BY <1>1, <1>5, ValidIsUsed DEF Entries, InUse

\* An entry that is not in use is found if there is one.
LEMMA FreeDirIs ==
  ASSUME NEW img, Shape(img)
  PROVE  /\ FindFreeDir(img) # 0 => FindFreeDir(img) \in (1 .. MAXDIR) \ Entries(img)
         /\ FindFreeDir(img) = 0 => Entries(img) = 1 .. MAXDIR
<1> DEFINE S == {j \in DOMAIN img.dir : img.dir[j].name = Unused.name}
<1>1. FindFreeDir(img) = FirstOf(S) BY DEF FindFreeDir
<1>2. S = (1 .. MAXDIR) \ Entries(img) BY DEF Shape, Entries, InUse
<1> HIDE DEF S
<1>3. S \subseteq Nat /\ 0 \notin S BY <1>2
<1>4. CASE S = {}
   <2>1. FirstOf(S) = 0 BY <1>4 DEF FirstOf
   <2>2. Entries(img) = 1 .. MAXDIR BY <1>2, <1>4 DEF Entries
   <2> QED BY <1>1, <2>1, <2>2
<1>5. CASE S # {}
   <2>1. FirstOf(S) \in S BY <1>3, <1>5, LeastIs DEF FirstOf
   <2> QED BY <1>1, <1>2, <1>3, <2>1
<1> QED BY <1>4, <1>5

\* What a chain reads.
Bytes(img, c, size) ==
  [b \in 1 .. size |-> img.data[c[((b - 1) \div SECTOR) + 1]][((b - 1) % SECTOR) + 1]]

\* And so does PFFSExtractFile.
LEMMA ExtractIs ==
  ASSUME NEW img, Shape(img), NEW i, NEW c, HasChain(img, i, c)
  PROVE  ExtractFile(img, img.dir[i]) = Bytes(img, c, img.dir[i].size)
<1> DEFINE links == Links(img, img.dir[i].chain)
           o == [k \in 0 .. Length(img, i) + 1 |-> IF k = 0 THEN -1 ELSE c[k]]
           walk == Walk(links, -1, Length(img, i))
<1>1. PICK size \in Nat : size = img.dir[i].size BY DEF HasChain
<1>2. PICK n \in Nat : n = Length(img, i) BY <1>1, SectorsAre DEF Length
<1>3. \A k \in 0 .. n : k + 1 \in 0 .. n + 1 /\ k + 1 # 0 /\ k \in 0 .. n + 1 OBVIOUS
<1>4. \A k \in 0 .. n - 1 : o[k + 1] = Follow(links, o[k])
   <2> TAKE k \in 0 .. n - 1
   <2>1. o[k + 1] = c[k + 1] BY <1>2
   <2>2. CASE k = 0
      <3>0. o[k] = -1 BY <1>2, <2>2
      <3>1. -1 \in DOMAIN links /\ links[-1] = img.dir[i].chain BY PffsIs DEF Links
      <3>2. c[k + 1] = img.dir[i].chain BY <2>2 DEF HasChain
      <3> HIDE DEF links, o
      <3> QED BY <2>1, <3>0, <3>1, <3>2 DEF Follow
   <2>3. CASE k # 0
      <3>1. o[k] = c[k] /\ k \in 1 .. n BY <1>2, <2>3
      <3>2. c[k] \in 1 .. MaxFat - 1 /\ img.fat[c[k]] = c[k + 1] BY <1>2, <3>1 DEF HasChain
      <3>3. c[k] \in DOMAIN links /\ links[c[k]] = img.fat[c[k]] BY <3>2, PffsIs DEF Links
      <3> HIDE DEF links, o
      <3> QED BY <2>1, <3>1, <3>2, <3>3 DEF Follow
   <2> QED BY <2>2, <2>3
<1>5. o[0] = -1 BY <1>2
<1>6. \A k \in 1 .. n : walk[k] = c[k]
   <2>1. \A k \in 1 .. n : o[k] = c[k] BY <1>2
   <2> HIDE DEF links, o
   <2>2. \A k \in 0 .. n : walk[k] = o[k] BY <1>2, <1>4, <1>5, WalkIs
   <2> QED BY <2>1, <2>2
<1>7. \A k \in 1 .. n : c[k] \in DOMAIN img.data BY <1>2, PffsIs DEF HasChain, Shape
<1> DEFINE Sector(b) == ((b - 1) \div SECTOR) + 1
           held == {b \in 1 .. size : \A k \in 1 .. Sector(b) : walk[k] \in DOMAIN img.data}
<1>8. ExtractFile(img, img.dir[i]) = [b \in held |-> img.data[walk[Sector(b)]][((b - 1) % SECTOR) + 1]]
   BY <1>1 DEF ExtractFile, Length
<1>9. \A b \in 1 .. size : Sector(b) \in 1 .. n BY <1>1, <1>2, SectorsAre DEF Length
<1> HIDE DEF Sector, walk, links, o
<1>10. held = 1 .. size BY <1>6, <1>7, <1>9
<1>11. [b \in held |-> img.data[walk[Sector(b)]][((b - 1) % SECTOR) + 1]]
       = [b \in 1 .. size |-> img.data[c[Sector(b)]][((b - 1) % SECTOR) + 1]]
   <2> HIDE DEF held
   <2> QED BY <1>6, <1>9, <1>10
<1> QED BY <1>1, <1>8, <1>11 DEF Bytes, Sector

\* The store counts as everyone does.
LEMMA CountsAlike == \A S : Files!Cardinality(S) = Cardinality(S)
BY DEF Files!Cardinality, Cardinality

\* The files of an image: one for each entry in use.
LEMMA FilesAre ==
  ASSUME NEW img, NEW ch, Chained(img, ch)
  PROVE  /\ DOMAIN FilesOf(img) = {img.dir[i].name : i \in Entries(img)}
         /\ \A i \in Entries(img) : FilesOf(img)[img.dir[i].name] = Bytes(img, ch[i], img.dir[i].size)
<1>1. {d.name : d \in Dir(img)} = {img.dir[i].name : i \in Entries(img)} BY DEF Dir, Entries, Chained, Shape
<1>2. DOMAIN FilesOf(img) = {img.dir[i].name : i \in Entries(img)} BY <1>1 DEF FilesOf
<1>3. ASSUME NEW i \in Entries(img)
      PROVE  FilesOf(img)[img.dir[i].name] = Bytes(img, ch[i], img.dir[i].size)
   <2>1. Shape(img) /\ HasChain(img, i, ch[i]) /\ NamesDiffer(img) BY DEF Chained
   <2>2. Find(img, img.dir[i].name) = i BY <2>1, FoundAt DEF HasChain
   <2>3. FilesOf(img)[img.dir[i].name] = ExtractFile(img, img.dir[Find(img, img.dir[i].name)])
      BY <1>1 DEF FilesOf
   <2>4. ExtractFile(img, img.dir[i]) = Bytes(img, ch[i], img.dir[i].size) BY <2>1, ExtractIs
   <2> QED BY <2>2, <2>3, <2>4
<1> QED BY <1>2, <1>3

\* Their lengths are the sizes of the entries.
LEMMA LengthsAre ==
  ASSUME NEW img, NEW c, NEW size \in Nat
  PROVE  Len(Bytes(img, c, size)) = size /\ Files!Sectors(Bytes(img, c, size)) = SectorsOf(size)
<1> DEFINE f == Bytes(img, c, size)
<1>1. DOMAIN f = 1 .. size BY DEF Bytes
<1>2. f = [b \in 1 .. size |-> f[b]] BY DEF Bytes
<1> HIDE DEF f
<1>3. f \in Seq({f[b] : b \in 1 .. size}) BY <1>2
<1>4. Len(f) = size BY <1>1, <1>3
<1>5. Files!Sectors(f) = SectorsOf(size) BY <1>4 DEF Files!Sectors, SectorsOf
<1> QED BY <1>4, <1>5 DEF f

\* The places in the files of an image, and the sectors in its chains.
Places(files) == UNION {{n} \X (1 .. Files!Sectors(files[n])) : n \in DOMAIN files}
FreeSectors(img) == {n \in 0 .. MaxFat - 1 : img.fat[n] = FAT_FREE}
InChains(img, ch) == {s \in 1 .. MaxFat - 1 : \E i \in Entries(img) : \E k \in 1 .. Length(img, i) : s = ch[i][k]}

\* A sector of a chain is not free.
LEMMA ChainIsTaken ==
  ASSUME NEW img, NEW ch, Chained(img, ch), NEW i \in Entries(img), NEW k \in 1 .. Length(img, i)
  PROVE  /\ ch[i][k] \in 1 .. MaxFat - 1 /\ img.fat[ch[i][k]] # FAT_FREE
         /\ ch[i][k] \in 0 .. MAXFAT - 1 /\ img.fat[ch[i][k]] = ch[i][k + 1]
<1>0. HasChain(img, i, ch[i]) BY DEF Chained
<1>1. PICK n \in Nat : n = Length(img, i) BY <1>0, SectorsAre DEF HasChain, Length
<1>2. ch[i][k] \in 1 .. MaxFat - 1 /\ img.fat[ch[i][k]] = ch[i][k + 1] BY <1>0 DEF HasChain
<1>3. CASE k = n BY <1>0, <1>1, <1>2, <1>3, PffsIs DEF HasChain, FAT_FREE, FAT_END
<1>4. CASE k + 1 \in 1 .. n
   <2>1. ch[i][k + 1] \in 1 .. MaxFat - 1 BY <1>0, <1>1, <1>4 DEF HasChain
   <2> QED BY <1>2, <2>1, PffsIs DEF FAT_FREE, FAT_SYSTEM
<1> QED BY <1>1, <1>3, <1>4

\* The places in the files are those in the chains.
LEMMA PlacesAre ==
  ASSUME NEW img, NEW ch, Chained(img, ch)
  PROVE  /\ \A i \in Entries(img) : /\ img.dir[i].name \in DOMAIN FilesOf(img)
                                    /\ Files!Sectors(FilesOf(img)[img.dir[i].name]) = Length(img, i)
                                    /\ Length(img, i) \in Nat
         /\ \A i \in Entries(img) : \A k \in 1 .. Length(img, i) : <<img.dir[i].name, k>> \in Places(FilesOf(img))
         /\ \A p \in Places(FilesOf(img)) :
              \E i \in Entries(img) : \E k \in 1 .. Length(img, i) : p = <<img.dir[i].name, k>>
<1> DEFINE files == FilesOf(img)
           P == Places(files)
<1>1. \A i \in Entries(img) : /\ img.dir[i].name \in DOMAIN files
                              /\ Files!Sectors(files[img.dir[i].name]) = Length(img, i)
                              /\ Length(img, i) \in Nat
   <2> TAKE i \in Entries(img)
   <2>1. img.dir[i].size \in Nat BY DEF Chained, HasChain
   <2>2. files[img.dir[i].name] = Bytes(img, ch[i], img.dir[i].size) BY FilesAre
   <2>3. img.dir[i].name \in DOMAIN files BY FilesAre
   <2>4. Length(img, i) \in Nat BY <2>1, SectorsAre DEF Length
   <2> QED BY <2>1, <2>2, <2>3, <2>4, LengthsAre DEF Length
<1>2. \A i \in Entries(img) : \A k \in 1 .. Length(img, i) : <<img.dir[i].name, k>> \in P
   <2> TAKE i \in Entries(img)
   <2> TAKE k \in 1 .. Length(img, i)
   <2>1. <<img.dir[i].name, k>> \in {img.dir[i].name} \X (1 .. Files!Sectors(files[img.dir[i].name])) BY <1>1
   <2>2. img.dir[i].name \in DOMAIN files BY <1>1
   <2> HIDE DEF files
   <2> QED BY <2>1, <2>2 DEF Places
<1>3. \A p \in P : \E i \in Entries(img) : \E k \in 1 .. Length(img, i) : p = <<img.dir[i].name, k>>
   <2> TAKE p \in P
   <2>0. DOMAIN files = {img.dir[i].name : i \in Entries(img)} BY FilesAre
   <2> HIDE DEF files
   <2>1. PICK n \in DOMAIN files : p \in {n} \X (1 .. Files!Sectors(files[n])) BY DEF Places
   <2>2. PICK i \in Entries(img) : n = img.dir[i].name BY <2>0, <2>1
   <2>3. p = <<n, p[2]>> /\ p[2] \in 1 .. Length(img, i) BY <1>1, <2>1, <2>2
   <2> QED BY <2>2, <2>3
<1> QED BY <1>1, <1>2, <1>3 DEF files, P

\* The room that is left is the capacity less the sectors of the files.
LEMMA RoomIs ==
  ASSUME NEW img, NEW ch, Chained(img, ch)
  PROVE  /\ Free(img) \in Nat /\ Files!Used(FilesOf(img)) \in Nat
         /\ Files!Used(FilesOf(img)) + Free(img) = MaxFat - 1
         /\ IsFiniteSet(Places(FilesOf(img)))
<1> DEFINE files == FilesOf(img)
           P == Places(files)
           Q == InChains(img, ch)
           F == FreeSectors(img)
<1>1. \A i \in Entries(img) : Length(img, i) \in Nat BY PlacesAre
<1>2. \A i \in Entries(img) : \A k \in 1 .. Length(img, i) : <<img.dir[i].name, k>> \in P BY PlacesAre
<1>3. \A p \in P : \E i \in Entries(img) : \E k \in 1 .. Length(img, i) : p = <<img.dir[i].name, k>> BY PlacesAre
<1> HIDE DEF files, P
<1> DEFINE g == [s \in Q |->
                CHOOSE p \in P : \E i \in Entries(img) :
                  p[1] = img.dir[i].name /\ p[2] \in 1 .. Length(img, i) /\ s = ch[i][p[2]]]
<1>4. \A s \in Q : /\ g[s] \in P
                   /\ \E i \in Entries(img) :
                        g[s][1] = img.dir[i].name /\ g[s][2] \in 1 .. Length(img, i) /\ s = ch[i][g[s][2]]
   <2> TAKE s \in Q
   <2> DEFINE Is(p) == \E i \in Entries(img) : p[1] = img.dir[i].name /\ p[2] \in 1 .. Length(img, i) /\ s = ch[i][p[2]]
   <2>1. PICK i, k : i \in Entries(img) /\ k \in 1 .. Length(img, i) /\ s = ch[i][k] BY DEF InChains
   <2>2. <<img.dir[i].name, k>> \in P BY <1>2, <2>1
   <2>3. Is(<<img.dir[i].name, k>>) BY <2>1
   <2>4. g[s] = CHOOSE p \in P : Is(p) OBVIOUS
   <2>5. g[s] \in P /\ Is(g[s])
      <3> HIDE DEF Is, g
      <3> QED BY <2>2, <2>3, <2>4
   <2> QED BY <2>5
<1>5. DOMAIN g = Q OBVIOUS
<1>5a. g \in [Q -> P]
   <2>1. \A s \in Q : g[s] \in P BY <1>4
   <2> QED BY <2>1
<1> HIDE DEF g
<1>6. g \in Injection(Q, P)
   <2>1. ASSUME NEW s \in Q, NEW t \in Q, g[s] = g[t] PROVE s = t
      <3>1. PICK i \in Entries(img) : g[s][1] = img.dir[i].name /\ s = ch[i][g[s][2]] BY <1>4
      <3>2. PICK j \in Entries(img) : g[t][1] = img.dir[j].name /\ t = ch[j][g[t][2]] BY <1>4
      <3>3. i = j BY <2>1, <3>1, <3>2 DEF Chained, NamesDiffer
      <3> QED BY <2>1, <3>1, <3>2, <3>3
   <2>2. \A s, t \in Q : g[s] = g[t] => s = t BY <2>1
   <2> QED BY <1>5a, <2>2 DEF Injection, IsInjective
<1>7. g \in Surjection(Q, P)
   <2>1. ASSUME NEW p \in P PROVE \E s \in Q : g[s] = p
      <3>1. PICK i, k : i \in Entries(img) /\ k \in 1 .. Length(img, i) /\ p = <<img.dir[i].name, k>> BY <1>3
      <3>2. ch[i][k] \in 1 .. MaxFat - 1 BY <3>1, ChainIsTaken
      <3>3. ch[i][k] \in Q BY <3>1, <3>2 DEF InChains
      <3>4. PICK j \in Entries(img) : /\ g[ch[i][k]][1] = img.dir[j].name /\ g[ch[i][k]][2] \in 1 .. Length(img, j)
                                      /\ ch[i][k] = ch[j][g[ch[i][k]][2]]
         BY <1>4, <3>3
      <3>5. i = j /\ k = g[ch[i][k]][2] BY <3>1, <3>4 DEF Chained, ChainsDiffer
      <3>6. PICK l, y : l \in Entries(img) /\ y \in 1 .. Length(img, l) /\ g[ch[i][k]] = <<img.dir[l].name, y>>
         BY <1>3, <1>4, <3>3
      <3>7. g[ch[i][k]] = p BY <3>1, <3>4, <3>5, <3>6
      <3> QED BY <3>3, <3>7
   <2> QED BY <1>5a, <2>1 DEF Surjection
<1>8. IsFiniteSet(1 .. MaxFat - 1) /\ Cardinality(1 .. MaxFat - 1) = MaxFat - 1
   BY PffsIs, FS_Interval
<1>9. Q \subseteq 1 .. MaxFat - 1 /\ F \subseteq 1 .. MaxFat - 1
   <2>1. 0 \notin F BY DEF FreeSectors, Chained
   <2> QED BY <2>1, PffsIs DEF FreeSectors, InChains
<1>10. Q \cup F = 1 .. MaxFat - 1
   <2>1. \A s \in 1 .. MaxFat - 1 : s \in Q \/ s \in F BY PffsIs DEF FreeSectors, InChains, Chained
   <2> QED BY <1>9, <2>1
<1>11. Q \cap F = {}
   <2> SUFFICES ASSUME NEW s \in Q, s \in F PROVE FALSE OBVIOUS
   <2>1. PICK i, k : i \in Entries(img) /\ k \in 1 .. Length(img, i) /\ s = ch[i][k] BY DEF InChains
   <2>2. img.fat[s] # FAT_FREE BY <2>1, ChainIsTaken
   <2> QED BY <2>2 DEF FreeSectors
<1> HIDE DEF Q, F
<1>12. IsFiniteSet(Q) /\ IsFiniteSet(F) BY <1>8, <1>9, FS_Subset
<1>13. Cardinality(Q) + Cardinality(F) = MaxFat - 1
   <2>1. Cardinality(Q \cap F) = 0 BY <1>11, FS_EmptySet
   <2>2. Cardinality(Q) \in Nat /\ Cardinality(F) \in Nat BY <1>12, FS_CardinalityType
   <2>3. Cardinality(Q \cup F) = Cardinality(Q) + Cardinality(F) - Cardinality(Q \cap F) BY <1>12, FS_Union
   <2>4. Cardinality(Q \cup F) = MaxFat - 1 BY <1>8, <1>10
   <2> QED BY <2>1, <2>2, <2>3, <2>4
<1>14. IsFiniteSet(P) /\ Cardinality(P) = Cardinality(Q)
   <2>1. g \in Bijection(Q, P) BY <1>6, <1>7 DEF Bijection
   <2>2. ExistsBijection(Q, P) BY <2>1 DEF ExistsBijection
   <2> QED BY <1>12, <2>2, FS_Bijection
<1>15. Files!Used(files) = Cardinality(P) BY CountsAlike DEF Files!Used, P, Places
<1>16. Free(img) = Cardinality(F) BY DEF Free, F, FreeSectors
<1>17. Cardinality(Q) \in Nat /\ Cardinality(F) \in Nat BY <1>12, FS_CardinalityType
<1> QED BY <1>13, <1>14, <1>15, <1>16, <1>17 DEF files, P

\* An image has no more files than entries.
LEMMA NamesFit ==
  ASSUME NEW img, NEW ch, Chained(img, ch)
  PROVE  /\ IsFiniteSet(DOMAIN FilesOf(img)) /\ Cardinality(DOMAIN FilesOf(img)) <= MAXDIR
         /\ Entries(img) = 1 .. MAXDIR => Cardinality(DOMAIN FilesOf(img)) = MAXDIR
<1> DEFINE E == Entries(img)
           D == DOMAIN FilesOf(img)
           f == [i \in E |-> img.dir[i].name]
<1>1. D = {img.dir[i].name : i \in E} BY FilesAre
<1>2. f \in [E -> D] /\ \A i \in E : f[i] = img.dir[i].name BY <1>1
<1>3. E \subseteq 1 .. MAXDIR BY DEF Entries
<1>4. \A i, j \in E : f[i] = f[j] => i = j BY <1>2 DEF Chained, NamesDiffer
<1>5. \A n \in D : \E i \in E : f[i] = n BY <1>1, <1>2
<1> HIDE DEF f, E, D
<1>6. f \in Bijection(E, D) BY <1>2, <1>4, <1>5 DEF Bijection, Injection, IsInjective, Surjection
<1>7. IsFiniteSet(1 .. MAXDIR) /\ Cardinality(1 .. MAXDIR) = MAXDIR BY PffsIs, FS_Interval
<1>8. IsFiniteSet(E) /\ Cardinality(E) <= MAXDIR BY <1>3, <1>7, FS_Subset
<1>9. IsFiniteSet(D) /\ Cardinality(D) = Cardinality(E)
   <2>1. ExistsBijection(E, D) BY <1>6 DEF ExistsBijection
   <2> QED BY <1>8, <2>1, FS_Bijection
<1> QED BY <1>7, <1>8, <1>9 DEF D, E

\* So it has room for the files it holds.
LEMMA FilesFit ==
  ASSUME NEW img, NEW ch, Chained(img, ch)
  PROVE  Files!Room(FilesOf(img))
<1>1. Files!Cardinality(DOMAIN FilesOf(img)) <= MAXDIR BY NamesFit, CountsAlike
<1>2. PICK u \in Nat, f \in Nat : u = Files!Used(FilesOf(img)) /\ f = Free(img) /\ u + f = MaxFat - 1 BY RoomIs
<1>3. u <= MaxFat - 1 BY <1>2, PffsIs
<1> QED BY <1>1, <1>2, <1>3 DEF Files!Room

\* No chain is longer than the table.
LEMMA ChainFits ==
  ASSUME NEW img, NEW ch, Chained(img, ch), NEW i \in Entries(img)
  PROVE  Length(img, i) \in Nat /\ Length(img, i) <= MaxFat - 1
<1>1. PICK n \in Nat : n = Length(img, i) BY SectorsAre DEF Chained, HasChain, Length
<1> DEFINE f == [k \in 1 .. n |-> ch[i][k]]
<1>2. f \in [1 .. n -> 1 .. MaxFat - 1] /\ \A k \in 1 .. n : f[k] = ch[i][k] BY <1>1, ChainIsTaken
<1>3. \A k, l \in 1 .. n : f[k] = f[l] => k = l BY <1>1, <1>2 DEF Chained, ChainsDiffer
<1> HIDE DEF f
<1>4. f \in Injection(1 .. n, 1 .. MaxFat - 1) BY <1>2, <1>3 DEF Injection, IsInjective
<1>5. /\ IsFiniteSet(1 .. MaxFat - 1) /\ Cardinality(1 .. MaxFat - 1) = MaxFat - 1
      /\ Cardinality(1 .. n) = n
   BY PffsIs, FS_Interval
<1>6. Cardinality(1 .. n) <= Cardinality(1 .. MaxFat - 1) BY <1>4, <1>5, FS_Injection
<1> QED BY <1>1, <1>5, <1>6

\* What freeing the rest of a chain does to the table.
LEMMA FreedIs ==
  ASSUME NEW links, NEW from, NEW n \in Nat, NEW c, c[0] = from,
         \A k \in 0 .. n - 1 : c[k + 1] = Follow(links, c[k])
  PROVE  /\ DOMAIN Freed(links, from, n) = DOMAIN links
         /\ \A l \in DOMAIN links :
              Freed(links, from, n)[l] = IF \E k \in 1 .. n : c[k] = l THEN FAT_FREE ELSE links[l]
<1> DEFINE walk == Walk(links, from, n)
<1>1. \A k \in 1 .. n : walk[k] = c[k] BY WalkIs
<1>2. Freed(links, from, n) = [l \in DOMAIN links |-> IF \E k \in 1 .. n : walk[k] = l THEN FAT_FREE ELSE links[l]]
   BY DEF Freed
<1> HIDE DEF walk
<1> QED BY <1>1, <1>2

\* The table with an entry's chain: its links, and what it holds.
LEMMA LinksAre ==
  ASSUME NEW img, NEW chain
  PROVE  /\ DOMAIN Links(img, chain) = -1 .. MAXFAT - 1
         /\ Links(img, chain)[-1] = chain
         /\ \A l \in 0 .. MAXFAT - 1 : Links(img, chain)[l] = img.fat[l]
BY PffsIs DEF Links

\* An entry goes, with the sectors of its chain.
LEMMA DeletedIs ==
  ASSUME NEW img, NEW ch, Chained(img, ch), NEW i \in Entries(img)
  PROVE  /\ Chained(Unlinked(img, i, MAXFAT), ch)
         /\ FilesOf(Unlinked(img, i, MAXFAT)) = Files!Without(FilesOf(img), img.dir[i].name)
<1> DEFINE new == Unlinked(img, i, MAXFAT)
           links == Links(img, img.dir[i].chain)
           c == [k \in 0 .. MAXFAT |-> IF k = 0 THEN -1 ELSE IF k <= Length(img, i) THEN ch[i][k] ELSE FAT_END]
           freed == Freed(links, -1, MAXFAT)
           fat == [l \in DOMAIN img.fat |-> freed[l]]
<1>0. Shape(img) /\ HasChain(img, i, ch[i]) BY DEF Chained
<1>1. PICK n \in Nat : n = Length(img, i) /\ n <= MaxFat - 1 BY ChainFits
<1>2. PICK z \in Nat : z = MAXFAT /\ n <= z /\ MaxFat <= z /\ z <= FAT_SYSTEM BY <1>1, PffsIs
<1>3. /\ DOMAIN links = -1 .. z - 1
      /\ links[-1] = img.dir[i].chain /\ \A l \in 0 .. z - 1 : links[l] = img.fat[l]
   BY <1>2, LinksAre
<1>4. /\ c[0] = -1 /\ \A k \in 1 .. n : c[k] = ch[i][k]
      /\ \A k \in n + 1 .. z : c[k] = FAT_END
   BY <1>1, <1>2
<1>5. \A k \in 1 .. n : ch[i][k] \in 1 .. MaxFat - 1 /\ ch[i][k] \in 0 .. z - 1 /\ img.fat[ch[i][k]] = ch[i][k + 1]
   BY <1>1, <1>2, ChainIsTaken
<1>6. ch[i][1] = img.dir[i].chain /\ ch[i][n + 1] = FAT_END BY <1>0, <1>1 DEF HasChain
<1> HIDE DEF links, c
<1>7. \A k \in 0 .. z - 1 : c[k + 1] = Follow(links, c[k])
   <2> TAKE k \in 0 .. z - 1
   <2>1. c[k + 1] = ch[i][k + 1] \/ (k > n /\ c[k + 1] = FAT_END)
      <3>1. CASE k + 1 \in 1 .. n BY <1>4, <3>1
      <3>2. CASE k = n
         <4>1. k + 1 \in n + 1 .. z BY <3>2
         <4> QED BY <1>4, <1>6, <3>2, <4>1
      <3>3. CASE k > n
         <4>1. k + 1 \in n + 1 .. z BY <3>3
         <4> QED BY <1>4, <3>3, <4>1
      <3> QED BY <3>1, <3>2, <3>3
   <2>2. CASE k = 0
      <3>1. c[k] = -1 /\ -1 \in DOMAIN links /\ links[-1] = ch[i][1] BY <1>3, <1>4, <1>6, <2>2
      <3> QED BY <2>1, <2>2, <3>1 DEF Follow
   <2>3. CASE k \in 1 .. n
      <3>1. c[k] = ch[i][k] /\ ch[i][k] \in 0 .. z - 1 /\ img.fat[ch[i][k]] = ch[i][k + 1] BY <1>4, <1>5, <2>3
      <3>2. c[k] \in DOMAIN links /\ links[c[k]] = ch[i][k + 1] BY <1>3, <3>1
      <3>3. c[k + 1] = ch[i][k + 1] BY <2>1, <2>3
      <3> QED BY <3>2, <3>3 DEF Follow
   <2>4. CASE k > n
      <3>1. k \in n + 1 .. z /\ k + 1 \in n + 1 .. z BY <2>4
      <3>2. c[k] = FAT_END /\ c[k + 1] = FAT_END BY <1>4, <3>1
      <3>3. FAT_END \notin DOMAIN links BY <1>2, <1>3 DEF FAT_END, FAT_SYSTEM
      <3> QED BY <3>2, <3>3 DEF Follow
   <2> QED BY <2>2, <2>3, <2>4
<1>8. \A l \in 0 .. z - 1 : fat[l] = IF \E k \in 1 .. n : ch[i][k] = l THEN FAT_FREE ELSE img.fat[l]
   <2>1. \A l \in DOMAIN links : freed[l] = IF \E k \in 1 .. z : c[k] = l THEN FAT_FREE ELSE links[l]
      BY <1>2, <1>4, <1>7, FreedIs
   <2> HIDE DEF freed
   <2> TAKE l \in 0 .. z - 1
   <2>2. fat[l] = freed[l] BY <1>0, <1>2 DEF Shape
   <2>3. l \in DOMAIN links /\ links[l] = img.fat[l] BY <1>3
   <2>4. (\E k \in 1 .. z : c[k] = l) <=> \E k \in 1 .. n : ch[i][k] = l
      <3>1. \A k \in 1 .. n : k \in 1 .. z /\ c[k] = ch[i][k] BY <1>2, <1>4
      <3>2. \A k \in 1 .. z : k \in 1 .. n \/ c[k] = FAT_END BY <1>4
      <3>3. l # FAT_END BY <1>2 DEF FAT_END, FAT_SYSTEM
      <3> QED BY <3>1, <3>2, <3>3
   <2> QED BY <2>1, <2>2, <2>3, <2>4
<1>9. new = [img EXCEPT !.dir[i] = Unused, !.fat = fat] BY DEF Unlinked, links
<1>10. DOMAIN fat = 0 .. z - 1 BY <1>0, <1>2 DEF Shape
<1> HIDE DEF fat, new
<1>11. /\ DOMAIN new = DOMAIN img /\ new.fat = fat /\ new.data = img.data
       /\ DOMAIN new.dir = DOMAIN img.dir /\ new.dir[i] = Unused
       /\ \A j \in 1 .. MAXDIR : j # i => new.dir[j] = img.dir[j]
   BY <1>0, <1>9 DEF Shape, Entries
<1>12. Entries(new) = Entries(img) \ {i} BY <1>11 DEF Entries, InUse
<1>13. \A j \in Entries(new) : /\ j \in Entries(img) /\ j # i /\ new.dir[j] = img.dir[j]
                               /\ Length(new, j) = Length(img, j) /\ HasChain(img, j, ch[j])
   BY <1>11, <1>12 DEF Entries, Length, Chained
<1>14. \A j \in Entries(new) : \A k \in 1 .. Length(img, j) : fat[ch[j][k]] = img.fat[ch[j][k]]
   <2> TAKE j \in Entries(new)
   <2> TAKE k \in 1 .. Length(img, j)
   <2>1. ch[j][k] \in 0 .. z - 1 BY <1>2, <1>13, ChainIsTaken
   <2>2. \A l \in 1 .. n : ch[i][l] # ch[j][k] BY <1>1, <1>13 DEF Chained, ChainsDiffer
   <2> QED BY <1>8, <2>1, <2>2
<1>15. Chained(new, ch)
   <2>1. Shape(new) BY <1>0, <1>2, <1>10, <1>11 DEF Shape
   <2>2. \A j \in Entries(new) : HasChain(new, j, ch[j])
      BY <1>11, <1>13, <1>14 DEF HasChain
   <2>3. NamesDiffer(new) BY <1>13 DEF NamesDiffer, Chained
   <2>4. ChainsDiffer(new, ch) BY <1>13 DEF ChainsDiffer, Chained
   <2>5. ASSUME NEW s \in 1 .. MaxFat - 1
         PROVE  new.fat[s] = FAT_FREE \/ \E j \in Entries(new) : \E k \in 1 .. Length(new, j) : s = ch[j][k]
      <3>1. s \in 0 .. z - 1 BY <1>2, PffsIs
      <3>2. CASE \E k \in 1 .. n : ch[i][k] = s BY <1>8, <1>11, <3>1, <3>2
      <3>3. CASE ~\E k \in 1 .. n : ch[i][k] = s
         <4>1. new.fat[s] = img.fat[s] BY <1>8, <1>11, <3>1, <3>3
         <4>2. img.fat[s] = FAT_FREE \/ \E j \in Entries(img) : \E k \in 1 .. Length(img, j) : s = ch[j][k] BY DEF Chained
         <4>3. ASSUME NEW j \in Entries(img), NEW k \in 1 .. Length(img, j), s = ch[j][k]
               PROVE  j \in Entries(new) /\ k \in 1 .. Length(new, j)
            <5>1. j # i BY <1>1, <3>3, <4>3
            <5> QED BY <1>12, <1>13, <5>1
         <4> QED BY <4>1, <4>2, <4>3
      <3> QED BY <3>2, <3>3
   <2>6. new.fat[0] # FAT_FREE
      <3>1. 0 \in 0 .. z - 1 BY <1>2, PffsIs
      <3>2. ~\E k \in 1 .. n : ch[i][k] = 0 BY <1>5
      <3> QED BY <1>8, <1>11, <3>1, <3>2 DEF Chained
   <2> QED BY <2>1, <2>2, <2>3, <2>4, <2>5, <2>6 DEF Chained
<1>16. FilesOf(new) = Files!Without(FilesOf(img), img.dir[i].name)
   <2> DEFINE x == img.dir[i].name
              A == FilesOf(new)
              B == Files!Without(FilesOf(img), x)
   <2>1. DOMAIN A = {new.dir[j].name : j \in Entries(new)} BY <1>15, FilesAre
   <2>2. DOMAIN FilesOf(img) = {img.dir[j].name : j \in Entries(img)} BY FilesAre
   <2>3. DOMAIN A = DOMAIN FilesOf(img) \ {x} BY <1>12, <1>13, <2>1, <2>2 DEF Chained, NamesDiffer
   <2>4. DOMAIN B = DOMAIN FilesOf(img) \ {x} /\ \A y \in DOMAIN B : B[y] = FilesOf(img)[y] BY DEF Files!Without
   <2>5. ASSUME NEW y \in DOMAIN A PROVE A[y] = FilesOf(img)[y]
      <3>1. PICK j \in Entries(new) : y = new.dir[j].name BY <2>1
      <3>2. A[y] = Bytes(new, ch[j], new.dir[j].size) BY <1>15, <3>1, FilesAre
      <3>0. j \in Entries(img) /\ y = img.dir[j].name BY <1>13, <3>1
      <3>3. FilesOf(img)[y] = Bytes(img, ch[j], img.dir[j].size) BY <3>0, FilesAre
      <3> QED BY <1>11, <1>13, <3>2, <3>3 DEF Bytes
   <2>6. A = [y \in DOMAIN A |-> A[y]] BY DEF FilesOf
   <2>7. B = [y \in DOMAIN B |-> B[y]] BY DEF Files!Without
   <2> HIDE DEF A, B
   <2>8. A = B BY <2>3, <2>4, <2>5, <2>6, <2>7
   <2> QED BY <2>8 DEF A, B
<1> QED BY <1>15, <1>16 DEF new

\* The recursion of AllocateSectors.
Untaken(links) == [ok |-> TRUE, links |-> links, at |-> -1, nn |-> 0]
Takes(f, links, n) == f = [k \in 0 .. n |-> IF k = 0 THEN Untaken(links) ELSE Take(f[k - 1])]

\* It has a solution, too.
LEMMA TakesExist ==
  ASSUME NEW links, NEW n0 \in Nat
  PROVE  \E f : Takes(f, links, n0)
<1> DEFINE S == {n \in Nat : \E f : Takes(f, links, n)}
<1>1. 0 \in S
   <2> DEFINE f == [k \in 0 .. 0 |-> Untaken(links)]
   <2>1. f = [k \in 0 .. 0 |-> IF k = 0 THEN Untaken(links) ELSE Take(f[k - 1])] OBVIOUS
   <2> HIDE DEF f
   <2>2. Takes(f, links, 0) BY <2>1 DEF Takes
   <2> QED BY <2>2
<1>2. ASSUME NEW n \in Nat, n \in S PROVE n + 1 \in S
   <2>1. PICK f : Takes(f, links, n) BY <1>2
   <2>2. f = [k \in 0 .. n |-> IF k = 0 THEN Untaken(links) ELSE Take(f[k - 1])] BY <2>1 DEF Takes
   <2> DEFINE g == [k \in 0 .. n + 1 |-> IF k = n + 1 THEN Take(f[n]) ELSE f[k]]
              h == [k \in 0 .. n + 1 |-> IF k = 0 THEN Untaken(links) ELSE Take(g[k - 1])]
   <2>3. \A k \in 0 .. n : g[k] = f[k] OBVIOUS
   <2>4. \A k \in 0 .. n + 1 : g[k] = IF k = 0 THEN Untaken(links) ELSE Take(g[k - 1])
      <3> TAKE k \in 0 .. n + 1
      <3>1. CASE k = n + 1
         <4>1. g[k] = Take(f[n]) BY <3>1
         <4>2. g[k - 1] = f[n] /\ k # 0 BY <2>3, <3>1
         <4> HIDE DEF g
         <4> QED BY <4>1, <4>2
      <3>2. CASE k = 0 BY <2>2, <2>3, <3>2
      <3>3. CASE k \in 1 .. n
         <4>1. k \in 0 .. n /\ k - 1 \in 0 .. n /\ k # 0 BY <3>3
         <4>2. f[k] = Take(f[k - 1]) BY <2>2, <4>1
         <4>3. g[k] = f[k] /\ g[k - 1] = f[k - 1] BY <2>3, <4>1
         <4> HIDE DEF g
         <4> QED BY <4>1, <4>2, <4>3
      <3> QED BY <3>1, <3>2, <3>3
   <2>5. g = h
      <3>1. \A k \in 0 .. n + 1 : h[k] = IF k = 0 THEN Untaken(links) ELSE Take(g[k - 1]) OBVIOUS
      <3>2. \A k \in 0 .. n + 1 : g[k] = h[k] BY <2>4, <3>1
      <3> QED BY <3>2
   <2> HIDE DEF g
   <2>6. Takes(g, links, n + 1) BY <2>5 DEF Takes
   <2> QED BY <2>6
<1>3. Nat \subseteq S
   <2> HIDE DEF S
   <2> QED BY <1>1, <1>2, SetInduction
<1> QED BY <1>3

\* Taken is the last of its steps.
LEMMA TakenSteps ==
  ASSUME NEW links, NEW n \in Nat
  PROVE  \E f : f[0] = Untaken(links) /\ Taken(links, n) = f[n] /\ \A k \in 0 .. n - 1 : f[k + 1] = Take(f[k])
<1>1. PICK f : f = CHOOSE g : g = [k \in 0 .. n |-> IF k = 0 THEN Untaken(links) ELSE Take(g[k - 1])] OBVIOUS
<1>2. Taken(links, n) = f[n] BY <1>1 DEF Taken, Untaken
<1>3. f = CHOOSE g : Takes(g, links, n) BY <1>1 DEF Takes
<1>4. Takes(f, links, n) BY <1>3, TakesExist
<1>5. \A k \in 0 .. n : f[k] = IF k = 0 THEN Untaken(links) ELSE Take(f[k - 1])
   <2>1. f = [k \in 0 .. n |-> IF k = 0 THEN Untaken(links) ELSE Take(f[k - 1])] BY <1>4 DEF Takes
   <2> DEFINE g == [k \in 0 .. n |-> IF k = 0 THEN Untaken(links) ELSE Take(f[k - 1])]
   <2>2. \A k \in 0 .. n : g[k] = IF k = 0 THEN Untaken(links) ELSE Take(f[k - 1]) OBVIOUS
   <2> HIDE DEF g
   <2>3. f = g BY <2>1 DEF g
   <2> QED BY <2>2, <2>3
<1>6. f[0] = Untaken(links) BY <1>5
<1>7. ASSUME NEW k \in 0 .. n - 1 PROVE f[k + 1] = Take(f[k])
   <2>1. k + 1 \in 0 .. n /\ k + 1 # 0 /\ (k + 1) - 1 = k OBVIOUS
   <2> QED BY <1>5, <2>1
<1> QED BY <1>2, <1>6, <1>7

\* The entry that a file gets: o[1] to o[no] are the sectors it has already, the
\* others of the image are those of other entries, or free.
Others(img, i) == Entries(img) \ {i}
Slot(img, ch, i, no, o) ==
  /\ i \in 1 .. MAXDIR /\ no \in Nat
  /\ o[0] = -1 /\ o[no + 1] \in {FAT_FREE, FAT_END}
  /\ \A k \in 1 .. no : o[k] \in 1 .. MaxFat - 1 /\ img.fat[o[k]] = o[k + 1] /\ img.fat[o[k]] # FAT_FREE
  /\ \A k, l \in 1 .. no : o[k] = o[l] => k = l
  /\ \A j \in Others(img, i) : \A l \in 1 .. Length(img, j), k \in 1 .. no : ch[j][l] # o[k]
  /\ \A s \in 1 .. MaxFat - 1 :
       \/ img.fat[s] = FAT_FREE
       \/ \E k \in 1 .. no : s = o[k]
       \/ \E j \in Others(img, i) : \E l \in 1 .. Length(img, j) : s = ch[j][l]

\* A file that is there is put into the entry it has,
LEMMA SlotOfEntry ==
  ASSUME NEW img, NEW ch, Chained(img, ch), NEW i \in Entries(img)
  PROVE  \E o : Slot(img, ch, i, Length(img, i), o) /\ o[1] = img.dir[i].chain
<1>0. HasChain(img, i, ch[i]) BY DEF Chained
<1>1. PICK no \in Nat : no = Length(img, i) BY ChainFits
<1> DEFINE o == [k \in 0 .. no + 1 |-> IF k = 0 THEN -1 ELSE ch[i][k]]
<1>2. o[0] = -1 /\ \A k \in 1 .. no + 1 : o[k] = ch[i][k] OBVIOUS
<1> HIDE DEF o
<1>3. o[no + 1] = FAT_END /\ o[1] = img.dir[i].chain BY <1>0, <1>1, <1>2 DEF HasChain
<1>4. \A k \in 1 .. no : o[k] = ch[i][k] /\ o[k + 1] = ch[i][k + 1] BY <1>2
<1>5. \A k \in 1 .. no : o[k] \in 1 .. MaxFat - 1 /\ img.fat[o[k]] = o[k + 1] /\ img.fat[o[k]] # FAT_FREE
   BY <1>1, <1>4, ChainIsTaken
<1>6. \A k, l \in 1 .. no : o[k] = o[l] => k = l BY <1>1, <1>4 DEF Chained, ChainsDiffer
<1>7. \A j \in Others(img, i) : \A l \in 1 .. Length(img, j), k \in 1 .. no : ch[j][l] # o[k]
   BY <1>1, <1>4 DEF Chained, ChainsDiffer, Others
<1>8. ASSUME NEW s \in 1 .. MaxFat - 1
      PROVE  \/ img.fat[s] = FAT_FREE
             \/ \E k \in 1 .. no : s = o[k]
             \/ \E j \in Others(img, i) : \E l \in 1 .. Length(img, j) : s = ch[j][l]
   <2>1. img.fat[s] = FAT_FREE \/ \E j \in Entries(img) : \E l \in 1 .. Length(img, j) : s = ch[j][l] BY DEF Chained
   <2> QED BY <1>1, <1>4, <2>1 DEF Others
<1>9. i \in 1 .. MAXDIR BY DEF Entries
<1>10. Slot(img, ch, i, no, o) BY <1>2, <1>3, <1>5, <1>6, <1>7, <1>8, <1>9 DEF Slot
<1> QED BY <1>1, <1>3, <1>10

\* one that is not into an entry that is not in use.
LEMMA SlotOfFree ==
  ASSUME NEW img, NEW ch, Chained(img, ch), NEW i \in (1 .. MAXDIR) \ Entries(img)
  PROVE  \E o : Slot(img, ch, i, 0, o) /\ o[1] = FAT_FREE
<1> DEFINE o == [k \in 0 .. 1 |-> IF k = 0 THEN -1 ELSE FAT_FREE]
<1>1. o[0] = -1 /\ o[0 + 1] = FAT_FREE /\ o[1] = FAT_FREE OBVIOUS
<1>2. Others(img, i) = Entries(img) BY DEF Others
<1> HIDE DEF o
<1>3. 1 .. 0 = {} OBVIOUS
<1>4. Slot(img, ch, i, 0, o) BY <1>1, <1>2, <1>3 DEF Slot, Chained
<1> QED BY <1>1, <1>4

\* After t sectors were taken: d[1] to d[t], the old ones first, then free ones in
\* ascending order, are linked to one another; the rest of the table is as it was.
Drawn(img, ch, i, no, o, st, t, d) ==
  /\ DOMAIN st = {"ok", "links", "at", "nn"} /\ st.ok = TRUE
  /\ st.at = d[t] /\ st.nn \in Nat /\ DOMAIN st.links = -1 .. MAXFAT - 1
  /\ d[0] = -1 /\ \A k \in 1 .. t : d[k] \in 1 .. MaxFat - 1
  /\ \A k, l \in 0 .. t : d[k] = d[l] => k = l
  /\ \A j \in Others(img, i) : \A l \in 1 .. Length(img, j), k \in 1 .. t : ch[j][l] # d[k]
  /\ \A k \in 0 .. t - 1 : st.links[d[k]] = d[k + 1]
  /\ \A l \in -1 .. MAXFAT - 1 : (\A k \in 0 .. t - 1 : d[k] # l) => st.links[l] = Links(img, o[1])[l]
  /\ \A k \in 0 .. t : k <= no => d[k] = o[k]
  /\ t <= no => st.nn = 0
  /\ \A k \in no + 1 .. t : d[k] < st.nn /\ img.fat[d[k]] = FAT_FREE
  /\ \A s \in 1 .. st.nn - 1 : img.fat[s] = FAT_FREE => \E k \in no + 1 .. t : d[k] = s

\* No sector is free behind t sectors, and one is asked for.
Stuck(img, no, t, d) ==
  t >= no /\ \A s \in 1 .. MaxFat - 1 : img.fat[s] = FAT_FREE => \E k \in no + 1 .. t : d[k] = s

\* Nothing is drawn at first.
LEMMA DrawnNone ==
  ASSUME NEW img, NEW ch, NEW i, NEW no, NEW o, Slot(img, ch, i, no, o)
  PROVE  \E d : Drawn(img, ch, i, no, o, Untaken(Links(img, o[1])), 0, d)
<1> DEFINE d == [k \in 0 .. 0 |-> -1]
           st == Untaken(Links(img, o[1]))
<1>1. d[0] = -1 OBVIOUS
<1>2. DOMAIN st = {"ok", "links", "at", "nn"} /\ st.ok = TRUE /\ st.at = -1 /\ st.nn = 0 /\ st.links = Links(img, o[1])
   BY DEF Untaken
<1>3. 1 .. 0 = {} /\ 0 .. 0 - 1 = {} /\ 1 .. 0 - 1 = {} OBVIOUS
<1>4. no \in Nat /\ o[0] = -1 BY DEF Slot
<1>5. no + 1 .. 0 = {} BY <1>4
<1>6. \A k \in 0 .. 0 : k = 0 OBVIOUS
<1> HIDE DEF d, st
<1>7. Drawn(img, ch, i, no, o, st, 0, d) BY <1>1, <1>2, <1>3, <1>4, <1>5, <1>6, LinksAre DEF Drawn
<1> QED BY <1>7 DEF st

\* What the pointer points to then.
LEMMA NextIs ==
  ASSUME NEW img, NEW ch, NEW i, NEW no, NEW o, Slot(img, ch, i, no, o),
         NEW st, NEW t \in Nat, NEW d, Drawn(img, ch, i, no, o, st, t, d)
  PROVE  /\ t <= no => st.links[st.at] = o[t + 1]
         /\ t > no => st.links[st.at] = FAT_FREE
         /\ st.at \in -1 .. MAXFAT - 1
<1>0. no \in Nat /\ st.at = d[t] BY DEF Slot, Drawn
<1>1. t \in 0 .. t /\ \A k \in 0 .. t - 1 : k \in 0 .. t /\ k # t OBVIOUS
<1>2. \A k \in 0 .. t - 1 : d[k] # d[t] BY <1>1 DEF Drawn
<1>3. t = 0 => d[t] = -1 BY DEF Drawn
<1>4. t # 0 => d[t] \in 1 .. MaxFat - 1
   <2> SUFFICES ASSUME t # 0 PROVE d[t] \in 1 .. MaxFat - 1 OBVIOUS
   <2>1. t \in 1 .. t OBVIOUS
   <2> QED BY <2>1 DEF Drawn
<1>5. d[t] \in -1 .. MAXFAT - 1 BY <1>3, <1>4, PffsIs
<1>6. st.links[d[t]] = Links(img, o[1])[d[t]] BY <1>2, <1>5 DEF Drawn
<1>7. ASSUME t <= no PROVE st.links[st.at] = o[t + 1]
   <2>1. CASE t = 0
      <3>1. d[t] = -1 BY <1>3, <2>1
      <3>2. st.links[d[t]] = o[1] BY <1>6, <3>1, LinksAre
      <3> QED BY <1>0, <2>1, <3>2
   <2>2. CASE t # 0
      <3>1. d[t] = o[t] BY <1>1, <1>7 DEF Drawn
      <3>2. t \in 1 .. no BY <1>0, <1>7, <2>2
      <3>3. img.fat[o[t]] = o[t + 1] BY <3>2 DEF Slot
      <3>4. d[t] \in 0 .. MAXFAT - 1 BY <1>4, <2>2, PffsIs
      <3>5. Links(img, o[1])[d[t]] = img.fat[d[t]] BY <3>4, LinksAre
      <3> QED BY <1>0, <1>6, <3>1, <3>3, <3>5
   <2> QED BY <2>1, <2>2
<1>8. ASSUME t > no PROVE st.links[st.at] = FAT_FREE
   <2>1. t \in no + 1 .. t /\ t # 0 BY <1>0, <1>8
   <2>2. img.fat[d[t]] = FAT_FREE BY <2>1 DEF Drawn
   <2>3. d[t] \in 0 .. MAXFAT - 1 BY <1>4, <2>1, PffsIs
   <2>4. Links(img, o[1])[d[t]] = img.fat[d[t]] BY <2>3, LinksAre
   <2> QED BY <1>0, <1>6, <2>2, <2>4
<1> QED BY <1>0, <1>5, <1>7, <1>8

\* A sector to draw next: no other place holds it, and none free was passed over.
Drawable(img, ch, i, no, o, st, t, d, got, nn) ==
  /\ \A k \in 0 .. t : d[k] # got
  /\ \A j \in Others(img, i) : \A l \in 1 .. Length(img, j) : ch[j][l] # got
  /\ t + 1 <= no => got = o[t + 1] /\ nn = 0
  /\ t + 1 > no => got < nn /\ st.nn <= nn /\ img.fat[got] = FAT_FREE
  /\ \A s \in st.nn .. nn - 1 :
       s \in Nat \ {0} /\ img.fat[s] = FAT_FREE => s = got \/ \E k \in no + 1 .. t : d[k] = s

\* A sector more, which was in no other place.
LEMMA DrawnOne ==
  ASSUME NEW img, NEW ch, NEW i, NEW no, NEW o, Slot(img, ch, i, no, o),
         NEW st, NEW t \in Nat, NEW d, Drawn(img, ch, i, no, o, st, t, d),
         NEW got \in 1 .. MaxFat - 1, NEW nn \in Nat,
         Drawable(img, ch, i, no, o, st, t, d, got, nn)
  PROVE  \E e : Drawn(img, ch, i, no, o, [st EXCEPT !.links[st.at] = got, !.at = got, !.nn = nn], t + 1, e)
<1> DEFINE e == [k \in 0 .. t + 1 |-> IF k = t + 1 THEN got ELSE d[k]]
           new == [st EXCEPT !.links[st.at] = got, !.at = got, !.nn = nn]
<1> USE DEF Drawable
<1>0. no \in Nat /\ st.at = d[t] /\ st.nn \in Nat BY DEF Slot, Drawn
<1>1. e[t + 1] = got /\ \A k \in 0 .. t : e[k] = d[k] OBVIOUS
<1>2. /\ DOMAIN new = {"ok", "links", "at", "nn"} /\ new.ok = TRUE /\ new.at = got /\ new.nn = nn
      /\ DOMAIN new.links = -1 .. MAXFAT - 1
      /\ \A l \in -1 .. MAXFAT - 1 : new.links[l] = IF l = d[t] THEN got ELSE st.links[l]
   BY <1>0 DEF Drawn
<1> HIDE DEF e, new
<1>3. \A k \in 0 .. t : d[k] \in -1 .. MAXFAT - 1
   <2> TAKE k \in 0 .. t
   <2>1. CASE k = 0 BY <2>1, PffsIs DEF Drawn
   <2>2. CASE k # 0
      <3>1. k \in 1 .. t BY <2>2
      <3>2. d[k] \in 1 .. MaxFat - 1 BY <3>1 DEF Drawn
      <3> QED BY <3>2, PffsIs
   <2> QED BY <2>1, <2>2
<1>4. e[0] = -1 /\ new.at = e[t + 1] BY <1>1, <1>2 DEF Drawn
<1>5. \A k \in 0 .. t + 1 : k \in 0 .. t \/ k = t + 1 OBVIOUS
<1>5a. \A k \in 1 .. t + 1 : k \in 1 .. t \/ k = t + 1 OBVIOUS
<1>5b. \A k \in 1 .. t : k \in 0 .. t OBVIOUS
<1>6. \A k \in 1 .. t + 1 : e[k] \in 1 .. MaxFat - 1
   <2>1. \A k \in 1 .. t : e[k] = d[k] /\ d[k] \in 1 .. MaxFat - 1 BY <1>1, <1>5b DEF Drawn
   <2> QED BY <1>1, <1>5a, <2>1
<1>7. \A k, l \in 0 .. t + 1 : e[k] = e[l] => k = l
   <2>1. \A k, l \in 0 .. t : d[k] = d[l] => k = l BY DEF Drawn
   <2> QED BY <1>1, <1>5, <2>1
<1>8. \A j \in Others(img, i) : \A l \in 1 .. Length(img, j), k \in 1 .. t + 1 : ch[j][l] # e[k]
   <2>1. \A j \in Others(img, i) : \A l \in 1 .. Length(img, j), k \in 1 .. t : ch[j][l] # d[k] BY DEF Drawn
   <2> QED BY <1>1, <1>5a, <1>5b, <2>1
<1>9. ASSUME NEW k \in 0 .. (t + 1) - 1 PROVE new.links[e[k]] = e[k + 1]
   <2>1. k \in 0 .. t /\ e[k] = d[k] /\ d[k] \in -1 .. MAXFAT - 1 BY <1>1, <1>3
   <2>2. CASE k = t BY <1>1, <1>2, <2>1, <2>2
   <2>3. CASE k # t
      <3>1. k \in 0 .. t - 1 /\ k + 1 \in 0 .. t /\ t \in 0 .. t BY <2>3
      <3>2. d[k] # d[t] BY <2>1, <2>3, <3>1 DEF Drawn
      <3>3. new.links[d[k]] = st.links[d[k]] BY <1>2, <2>1, <3>2
      <3>4. st.links[d[k]] = d[k + 1] BY <3>1 DEF Drawn
      <3> QED BY <1>1, <2>1, <3>1, <3>3, <3>4
   <2> QED BY <2>2, <2>3
<1>10. ASSUME NEW l \in -1 .. MAXFAT - 1, \A k \in 0 .. (t + 1) - 1 : e[k] # l
       PROVE  new.links[l] = Links(img, o[1])[l]
   <2>1. \A k \in 0 .. t : k \in 0 .. (t + 1) - 1 OBVIOUS
   <2>2. \A k \in 0 .. t : d[k] # l BY <1>1, <1>10, <2>1
   <2>3. t \in 0 .. t /\ \A k \in 0 .. t - 1 : k \in 0 .. t OBVIOUS
   <2>4. l # d[t] /\ \A k \in 0 .. t - 1 : d[k] # l BY <2>2, <2>3
   <2>5. st.links[l] = Links(img, o[1])[l] BY <2>4 DEF Drawn
   <2> QED BY <1>2, <2>4, <2>5
<1>11. ASSUME NEW k \in 0 .. t + 1, k <= no PROVE e[k] = o[k]
   <2>1. CASE k \in 0 .. t BY <1>1, <1>11, <2>1 DEF Drawn
   <2>2. CASE k = t + 1 BY <1>1, <1>11, <2>2
   <2> QED BY <1>5, <2>1, <2>2
<1>12. t + 1 <= no => new.nn = 0 BY <1>2
<1>13. ASSUME NEW k \in no + 1 .. t + 1 PROVE e[k] < new.nn /\ img.fat[e[k]] = FAT_FREE
   <2>1. t + 1 > no BY <1>0
   <2>2. CASE k = t + 1 BY <1>1, <1>2, <2>1, <2>2
   <2>3. CASE k # t + 1
      <3>1. k \in no + 1 .. t /\ k \in 1 .. t /\ k \in 0 .. t BY <1>0, <2>3
      <3>2. d[k] < st.nn /\ img.fat[d[k]] = FAT_FREE /\ d[k] \in 1 .. MaxFat - 1 BY <3>1 DEF Drawn
      <3>3. e[k] = d[k] BY <1>1, <3>1
      <3>4. d[k] < nn BY <1>0, <2>1, <3>2, PffsIs
      <3> QED BY <1>2, <3>2, <3>3, <3>4
   <2> QED BY <2>2, <2>3
<1>14. ASSUME NEW s \in 1 .. new.nn - 1, img.fat[s] = FAT_FREE PROVE \E k \in no + 1 .. t + 1 : e[k] = s
   <2>0. s \in 1 .. nn - 1 BY <1>2
   <2>1. t + 1 > no
      <3> SUFFICES ASSUME t + 1 <= no PROVE FALSE BY <1>0
      <3>1. nn = 0 OBVIOUS
      <3> QED BY <2>0, <3>1
   <2>2. CASE s = got
      <3>1. t + 1 \in no + 1 .. t + 1 BY <1>0, <2>1
      <3> QED BY <1>1, <2>2, <3>1
   <2>3. ASSUME NEW k \in no + 1 .. t, d[k] = s PROVE \E x \in no + 1 .. t + 1 : e[x] = s
      <3>1. k \in 0 .. t /\ k \in no + 1 .. t + 1 BY <1>0
      <3> QED BY <1>1, <2>3, <3>1
   <2>4. s = got \/ \E k \in no + 1 .. t : d[k] = s
      <3>1. CASE s < st.nn
         <4>1. s \in 1 .. st.nn - 1 BY <1>0, <2>0, <3>1
         <4> QED BY <1>14, <4>1 DEF Drawn
      <3>2. CASE s >= st.nn
         <4>1. s \in st.nn .. nn - 1 /\ s \in Nat \ {0} BY <1>0, <2>0, <3>2
         <4> QED BY <1>14, <4>1
      <3> QED BY <1>0, <2>0, <3>1, <3>2
   <2> QED BY <2>2, <2>3, <2>4
<1>15. Drawn(img, ch, i, no, o, new, t + 1, e)
   BY <1>2, <1>4, <1>6, <1>7, <1>8, <1>9, <1>10, <1>11, <1>12, <1>13, <1>14 DEF Drawn
<1> QED BY <1>15 DEF new

\* A step of AllocateSectors draws a sector more, or there is none.
LEMMA TakeDraws ==
  ASSUME NEW img, NEW ch, Chained(img, ch), NEW i, NEW no, NEW o, Slot(img, ch, i, no, o),
         NEW st, NEW t \in Nat, NEW d, Drawn(img, ch, i, no, o, st, t, d)
  PROVE  \/ \E e : Drawn(img, ch, i, no, o, Take(st), t + 1, e)
         \/ Take(st).ok = FALSE /\ Stuck(img, no, t, d)
<1> DEFINE n == st.links[st.at]
           fresh == n \in {FAT_FREE, FAT_END}
           got == IF fresh THEN GetFreeFAT(st.links, st.nn) ELSE n
           nn == IF fresh THEN got + 1 ELSE st.nn
<1>0. no \in Nat /\ st.nn \in Nat /\ st.ok = TRUE /\ DOMAIN st = {"ok", "links", "at", "nn"} BY DEF Slot, Drawn
<1>1. /\ t <= no => n = o[t + 1]
      /\ t > no => n = FAT_FREE
   <2>1. /\ t <= no => st.links[st.at] = o[t + 1]
         /\ t > no => st.links[st.at] = FAT_FREE
         /\ st.at \in -1 .. MAXFAT - 1
      BY NextIs
   <2> QED BY <2>1
<1>2. Take(st) = IF got < 0 THEN [st EXCEPT !.ok = FALSE]
                 ELSE [st EXCEPT !.links[st.at] = got, !.at = got, !.nn = nn]
   BY <1>0 DEF Take
<1>3. CASE t < no
   <2>1. t + 1 \in 1 .. no /\ t <= no /\ t + 1 <= no /\ ~ (t + 1 > no) BY <1>0, <1>3
   <2>2. n = o[t + 1] /\ o[t + 1] \in 1 .. MaxFat - 1 BY <1>1, <2>1 DEF Slot
   <2>3. ~fresh BY <2>2, PffsIs DEF FAT_FREE, FAT_END, FAT_SYSTEM
   <2>4. got = o[t + 1] /\ nn = st.nn BY <2>2, <2>3
   <2>5. st.nn = 0 BY <2>1 DEF Drawn
   <2>6. ASSUME NEW k \in 0 .. t PROVE d[k] # o[t + 1]
      <3>1. CASE k = 0 BY <2>2, <3>1, PffsIs DEF Drawn
      <3>2. CASE k # 0
         <4>1. k \in 1 .. no /\ k <= no /\ k # t + 1 BY <1>0, <1>3, <3>2
         <4>2. d[k] = o[k] BY <4>1 DEF Drawn
         <4> QED BY <2>1, <4>1, <4>2 DEF Slot
      <3> QED BY <3>1, <3>2
   <2>7. \A j \in Others(img, i) : \A l \in 1 .. Length(img, j) : ch[j][l] # o[t + 1] BY <2>1 DEF Slot
   <2>8. Take(st) = [st EXCEPT !.links[st.at] = o[t + 1], !.at = o[t + 1], !.nn = 0]
      <3>1. ~ (got < 0) BY <2>2, <2>4, PffsIs
      <3> HIDE DEF got, nn
      <3> QED BY <1>2, <2>4, <2>5, <3>1
   <2>9. st.nn .. 0 - 1 = {} BY <2>5
   <2> HIDE DEF got, nn, n, fresh
   <2>10. \E e : Drawn(img, ch, i, no, o, [st EXCEPT !.links[st.at] = o[t + 1], !.at = o[t + 1], !.nn = 0], t + 1, e)
      <3>1. Drawable(img, ch, i, no, o, st, t, d, o[t + 1], 0) BY <2>1, <2>2, <2>6, <2>7, <2>9 DEF Drawable
      <3> QED BY <2>2, <3>1, DrawnOne
   <2> QED BY <2>8, <2>10
<1>4. CASE t >= no
   <2> DEFINE free == {x \in st.nn .. MaxFat - 1 : st.links[x] = FAT_FREE}
   <2>1. fresh
      <3>1. CASE t = no BY <1>1, <3>1 DEF Slot
      <3>2. CASE t > no BY <1>1, <3>2
      <3> QED BY <1>0, <1>4, <3>1, <3>2
   <2>2. got = (IF free = {} THEN -1 ELSE Min(free)) /\ nn = got + 1 BY <2>1 DEF GetFreeFAT
   <2>3. \A k \in 0 .. t - 1 : st.links[d[k]] # FAT_FREE
      <3> TAKE k \in 0 .. t - 1
      <3>1. k + 1 \in 1 .. t OBVIOUS
      <3>2. st.links[d[k]] = d[k + 1] /\ d[k + 1] \in 1 .. MaxFat - 1 BY <3>1 DEF Drawn
      <3> QED BY <3>2, PffsIs DEF FAT_FREE, FAT_SYSTEM
   <2>4. \A x \in 0 .. MaxFat - 1 : (\A k \in 0 .. t - 1 : d[k] # x) => st.links[x] = img.fat[x]
      <3> TAKE x \in 0 .. MaxFat - 1
      <3> SUFFICES ASSUME \A k \in 0 .. t - 1 : d[k] # x PROVE st.links[x] = img.fat[x] OBVIOUS
      <3>1. x \in -1 .. MAXFAT - 1 /\ x \in 0 .. MAXFAT - 1 BY PffsIs
      <3>2. st.links[x] = Links(img, o[1])[x] BY <3>1 DEF Drawn
      <3> QED BY <3>1, <3>2, LinksAre
   <2>5. ASSUME NEW s \in Nat, s \in 1 .. MaxFat - 1, img.fat[s] = FAT_FREE, s >= st.nn, s \notin free
         PROVE  \E k \in no + 1 .. t : d[k] = s
      <3>0. s \in st.nn .. MaxFat - 1 /\ s \in 0 .. MaxFat - 1 BY <1>0, <2>5, PffsIs
      <3>1. st.links[s] # FAT_FREE BY <2>5, <3>0
      <3>2. PICK k \in 0 .. t - 1 : d[k] = s BY <2>4, <2>5, <3>0, <3>1
      <3>3. k > no
         <4> SUFFICES ASSUME k <= no PROVE FALSE BY <1>0
         <4>1. k \in 0 .. t OBVIOUS
         <4>2. d[k] = o[k] BY <4>1 DEF Drawn
         <4>3. CASE k = 0 BY <2>5, <3>2, <4>2, <4>3 DEF Slot
         <4>4. CASE k # 0
            <5>1. k \in 1 .. no BY <1>0, <4>4
            <5> QED BY <2>5, <3>2, <4>2, <5>1 DEF Slot
         <4> QED BY <4>3, <4>4
      <3>4. k \in no + 1 .. t BY <1>0, <3>3
      <3> QED BY <3>2, <3>4
   <2>6. CASE free = {}
      <3>1. Take(st).ok = FALSE
         <4>1. got < 0 BY <2>2, <2>6
         <4> HIDE DEF got, nn, free
         <4>2. Take(st) = [st EXCEPT !.ok = FALSE] BY <1>2, <4>1
         <4> QED BY <1>0, <4>2
      <3>2. ASSUME NEW s \in 1 .. MaxFat - 1, img.fat[s] = FAT_FREE PROVE \E k \in no + 1 .. t : d[k] = s
         <4>0. s \in Nat /\ s \notin free BY <2>6, PffsIs
         <4>1. CASE s < st.nn
            <5>1. s \in 1 .. st.nn - 1 BY <1>0, <4>0, <4>1, PffsIs
            <5> QED BY <3>2, <5>1 DEF Drawn
         <4>2. CASE s >= st.nn
            <5> HIDE DEF free
            <5> QED BY <2>5, <3>2, <4>0, <4>2
         <4> QED BY <1>0, <4>0, <4>1, <4>2
      <3>3. Stuck(img, no, t, d) BY <1>4, <3>2 DEF Stuck
      <3> QED BY <3>1, <3>3
   <2>7. CASE free # {}
      <3>0. free \subseteq Nat BY <1>0
      <3>1. PICK g : g = Min(free) /\ g \in free /\ \A x \in free : g <= x
         <4> HIDE DEF free
         <4> QED BY <2>7, <3>0, LeastIs
      <3>2. got = g /\ nn = g + 1 BY <2>2, <2>7, <3>1
      <3>3. g \in Nat /\ g \in st.nn .. MaxFat - 1 /\ g \in 0 .. MaxFat - 1 /\ st.links[g] = FAT_FREE
         BY <1>0, <3>1, PffsIs
      <3>4. Take(st) = [st EXCEPT !.links[st.at] = g, !.at = g, !.nn = g + 1]
         <4>1. ~ (g < 0) BY <3>3
         <4> HIDE DEF got, nn
         <4> QED BY <1>2, <3>2, <4>1
      <3>5. (\A k \in 0 .. t - 1 : d[k] # g) /\ img.fat[g] = FAT_FREE BY <2>3, <2>4, <3>3
      <3>6. g # 0 BY <3>5 DEF Chained
      <3>7. g \in 1 .. MaxFat - 1 BY <3>3, <3>6, PffsIs
      <3>8. d[t] # g
         <4>1. CASE t > no
            <5>1. t \in no + 1 .. t /\ t \in 1 .. t BY <1>0, <4>1
            <5>2. d[t] < st.nn /\ d[t] \in 1 .. MaxFat - 1 BY <5>1 DEF Drawn
            <5> QED BY <1>0, <3>3, <5>2, PffsIs
         <4>2. CASE t = 0 BY <3>3, <4>2 DEF Drawn
         <4>3. CASE t = no /\ t # 0
            <5>1. t \in 0 .. t /\ t <= no /\ t \in 1 .. no BY <4>3
            <5>2. d[t] = o[t] /\ img.fat[o[t]] # FAT_FREE BY <5>1 DEF Drawn, Slot
            <5> QED BY <3>5, <5>2
         <4> QED BY <1>0, <1>4, <4>1, <4>2, <4>3
      <3>9. \A k \in 0 .. t : d[k] # g
         <4>1. \A k \in 0 .. t : k = t \/ k \in 0 .. t - 1 OBVIOUS
         <4> QED BY <3>5, <3>8, <4>1
      <3>10. \A j \in Others(img, i) : \A l \in 1 .. Length(img, j) : ch[j][l] # g
         <4>1. \A j \in Others(img, i) : j \in Entries(img) BY DEF Others
         <4> QED BY <3>5, <4>1, ChainIsTaken
      <3>11. g < g + 1 /\ st.nn <= g + 1 /\ g + 1 \in Nat /\ ~ (t + 1 <= no) BY <1>0, <1>4, <3>3
      <3>12. ASSUME NEW s \in st.nn .. (g + 1) - 1, s \in Nat \ {0}, img.fat[s] = FAT_FREE
             PROVE  s = g \/ \E k \in no + 1 .. t : d[k] = s
         <4> SUFFICES ASSUME s # g PROVE \E k \in no + 1 .. t : d[k] = s OBVIOUS
         <4>1. s < g /\ s \in 1 .. MaxFat - 1 /\ s >= st.nn BY <1>0, <3>3, <3>12, PffsIs
         <4>2. s \notin free BY <1>0, <3>1, <3>3, <4>1
         <4> HIDE DEF free
         <4> QED BY <2>5, <3>12, <4>1, <4>2
      <3>13. PICK h \in Nat : h = g + 1 BY <3>11
      <3>14. \A s \in st.nn .. h - 1 :
               s \in Nat \ {0} /\ img.fat[s] = FAT_FREE => s = g \/ \E k \in no + 1 .. t : d[k] = s
         BY <3>12, <3>13
      <3>15. t + 1 <= no => g = o[t + 1] /\ h = 0 BY <3>11
      <3>16. t + 1 > no => g < h /\ st.nn <= h /\ img.fat[g] = FAT_FREE BY <3>5, <3>11, <3>13
      <3> HIDE DEF got, nn, n, fresh, free
      <3>17. \E e : Drawn(img, ch, i, no, o, [st EXCEPT !.links[st.at] = g, !.at = g, !.nn = h], t + 1, e)
         <4>1. Drawable(img, ch, i, no, o, st, t, d, g, h) BY <3>9, <3>10, <3>14, <3>15, <3>16, Zenon DEF Drawable
         <4> QED BY <3>7, <4>1, DrawnOne, ZenonT(60)
      <3> QED BY <3>4, <3>13, <3>17
   <2> QED BY <2>6, <2>7
<1>5. t < no \/ t >= no BY <1>0
<1> QED BY <1>3, <1>4, <1>5, Zenon

\* So it draws all of them, or is stuck before.
LEMMA TakenIs ==
  ASSUME NEW img, NEW ch, Chained(img, ch), NEW i, NEW no, NEW o, Slot(img, ch, i, no, o), NEW n \in Nat
  PROVE  \/ \E d : Drawn(img, ch, i, no, o, Taken(Links(img, o[1]), n), n, d)
         \/ /\ Taken(Links(img, o[1]), n).ok = FALSE
            /\ \E t \in 0 .. n - 1 : \E st, d : Drawn(img, ch, i, no, o, st, t, d) /\ Stuck(img, no, t, d)
<1>1. PICK f : /\ f[0] = Untaken(Links(img, o[1])) /\ Taken(Links(img, o[1]), n) = f[n]
               /\ \A k \in 0 .. n - 1 : f[k + 1] = Take(f[k])
   <2>1. PICK links : links = Links(img, o[1]) OBVIOUS
   <2>2. \E f : f[0] = Untaken(links) /\ Taken(links, n) = f[n] /\ \A k \in 0 .. n - 1 : f[k + 1] = Take(f[k])
      BY TakenSteps
   <2> QED BY <2>1, <2>2
<1> DEFINE Goes(k) == \E d : Drawn(img, ch, i, no, o, f[k], k, d)
           Halts(k) == f[k].ok = FALSE /\ DOMAIN f[k] = {"ok", "links", "at", "nn"}
                       /\ \E t \in 0 .. k - 1 : \E st, d : Drawn(img, ch, i, no, o, st, t, d) /\ Stuck(img, no, t, d)
           S == {k \in Nat : k <= n => Goes(k) \/ Halts(k)}
<1>2. 0 \in S BY <1>1, DrawnNone
<1>3. ASSUME NEW k \in Nat, k \in S PROVE k + 1 \in S
   <2> SUFFICES ASSUME k + 1 <= n PROVE Goes(k + 1) \/ Halts(k + 1)
      <3> HIDE DEF Goes, Halts
      <3> QED OBVIOUS
   <2>1. f[k + 1] = Take(f[k]) BY <1>1
   <2>2. CASE Goes(k)
      <3>1. PICK d : Drawn(img, ch, i, no, o, f[k], k, d) BY <2>2
      <3>2. CASE \E e : Drawn(img, ch, i, no, o, Take(f[k]), k + 1, e) BY <2>1, <3>2
      <3>3. CASE Take(f[k]).ok = FALSE /\ Stuck(img, no, k, d)
         <4>1. k \in 0 .. (k + 1) - 1 OBVIOUS
         <4>2. DOMAIN Take(f[k]) = {"ok", "links", "at", "nn"} BY <3>1 DEF Drawn, Take
         <4> QED BY <2>1, <3>1, <3>3, <4>1, <4>2
      <3> QED BY <3>1, <3>2, <3>3, TakeDraws
   <2>3. CASE Halts(k)
      <3>1. PICK t, st, d : t \in 0 .. k - 1 /\ Drawn(img, ch, i, no, o, st, t, d) /\ Stuck(img, no, t, d) BY <2>3
      <3>2. t \in 0 .. (k + 1) - 1 BY <3>1
      <3>3. Take(f[k]) = [f[k] EXCEPT !.ok = FALSE] BY <2>3 DEF Take
      <3>4. Take(f[k]).ok = FALSE /\ DOMAIN Take(f[k]) = {"ok", "links", "at", "nn"} BY <2>3, <3>3
      <3> QED BY <2>1, <3>1, <3>2, <3>4
   <2> HIDE DEF Goes, Halts
   <2>4. Goes(k) \/ Halts(k) BY <1>3
   <2> QED BY <2>2, <2>3, <2>4
<1>4. Nat \subseteq S
   <2> HIDE DEF S
   <2> QED BY <1>2, <1>3, SetInduction
<1>5. Goes(n) \/ Halts(n) BY <1>4
<1> QED BY <1>1, <1>5

\* The table at the end: the rest of a longer old chain is given back, and
\* the new chain has an end.
Freeing(st, no, t) == Freed(st.links, st.at, no - t)
Sealed(st, no, t) == [Freeing(st, no, t) EXCEPT ![st.at] = FAT_END]

\* What is freed are the old sectors that were not drawn again.
LEMMA RestIsFreed ==
  ASSUME NEW img, NEW ch, NEW i, NEW no, NEW o, Slot(img, ch, i, no, o),
         NEW st, NEW t \in Nat, NEW d, Drawn(img, ch, i, no, o, st, t, d)
  PROVE  /\ DOMAIN Freeing(st, no, t) = -1 .. MAXFAT - 1
         /\ \A l \in -1 .. MAXFAT - 1 :
              Freeing(st, no, t)[l] = IF \E k \in t + 1 .. no : o[k] = l THEN FAT_FREE ELSE st.links[l]
<1>0. no \in Nat /\ DOMAIN st.links = -1 .. MAXFAT - 1 /\ st.at = d[t] BY DEF Slot, Drawn
<1>1. CASE t >= no
   <2> DEFINE walk == Walk(st.links, st.at, no - t)
   <2>1. 1 .. no - t = {} /\ t + 1 .. no = {} BY <1>0, <1>1
   <2>2. Freeing(st, no, t)
         = [l \in DOMAIN st.links |-> IF \E k \in 1 .. no - t : walk[k] = l THEN FAT_FREE ELSE st.links[l]]
            BY DEF Freed, Freeing
   <2> HIDE DEF walk
   <2> QED BY <1>0, <2>1, <2>2
<1>2. CASE t < no
   <2>1. PICK r \in Nat : r = no - t /\ r # 0 BY <1>0, <1>2
   <2> DEFINE c == [k \in 0 .. r |-> o[t + k]]
   <2>2. \A k \in 0 .. r : c[k] = o[t + k] OBVIOUS
   <2> HIDE DEF c
   <2>3. st.at = o[t]
      <3>1. t \in 0 .. t /\ t <= no BY <1>0, <1>2
      <3> QED BY <1>0, <3>1 DEF Drawn
   <2>4. c[0] = st.at
      <3>1. t + 0 = t /\ 0 \in 0 .. r OBVIOUS
      <3> QED BY <2>2, <2>3, <3>1
   <2>5. ASSUME NEW k \in 0 .. r - 1 PROVE c[k + 1] = Follow(st.links, c[k])
      <3>0. k \in 0 .. r /\ k + 1 \in 0 .. r /\ t + (k + 1) = (t + k) + 1 OBVIOUS
      <3>1. c[k + 1] = o[(t + k) + 1] /\ c[k] = o[t + k] BY <2>2, <3>0
      <3>2. CASE k = 0
         <4>1. c[k] = st.at /\ (t + k) + 1 = t + 1 BY <2>4, <3>2
         <4>2. t <= no BY <1>0, <1>2
         <4>3. /\ t <= no => st.links[st.at] = o[t + 1]
               /\ t > no => st.links[st.at] = FAT_FREE
               /\ st.at \in -1 .. MAXFAT - 1
            BY NextIs
         <4> QED BY <1>0, <3>1, <4>1, <4>2, <4>3 DEF Follow
      <3>3. CASE k # 0
         <4>1. t + k \in 1 .. no BY <1>0, <2>1, <3>3
         <4>2. o[t + k] \in 1 .. MaxFat - 1 /\ img.fat[o[t + k]] = o[(t + k) + 1] BY <4>1 DEF Slot
         <4>3. o[t + k] \in 0 .. MAXFAT - 1 /\ o[t + k] \in -1 .. MAXFAT - 1 BY <4>2, PffsIs
         <4>4. ASSUME NEW l \in 0 .. t - 1 PROVE d[l] # o[t + k]
            <5>1. l \in 0 .. t /\ l <= no /\ l # t + k BY <1>0, <1>2, <3>3
            <5>2. d[l] = o[l] BY <5>1 DEF Drawn
            <5>3. CASE l = 0 BY <4>2, <5>2, <5>3, PffsIs DEF Slot
            <5>4. CASE l # 0
               <6>1. l \in 1 .. no BY <1>0, <5>1, <5>4
               <6> QED BY <4>1, <5>1, <5>2, <6>1 DEF Slot
            <5> QED BY <5>3, <5>4
         <4>5. st.links[o[t + k]] = Links(img, o[1])[o[t + k]] BY <4>3, <4>4 DEF Drawn
         <4>6. Links(img, o[1])[o[t + k]] = img.fat[o[t + k]] BY <4>3, LinksAre
         <4> QED BY <1>0, <3>1, <4>2, <4>3, <4>5, <4>6 DEF Follow
      <3> QED BY <3>2, <3>3
   <2>6. /\ DOMAIN Freed(st.links, st.at, r) = DOMAIN st.links
         /\ \A l \in DOMAIN st.links :
              Freed(st.links, st.at, r)[l] = IF \E k \in 1 .. r : c[k] = l THEN FAT_FREE ELSE st.links[l]
      BY <2>4, <2>5, FreedIs
   <2>7. ASSUME NEW l PROVE (\E k \in 1 .. r : c[k] = l) <=> \E k \in t + 1 .. no : o[k] = l
      <3>1. ASSUME NEW k \in 1 .. r, c[k] = l PROVE \E x \in t + 1 .. no : o[x] = l
         <4>1. k \in 0 .. r /\ t + k \in t + 1 .. no BY <1>0, <2>1
         <4> QED BY <2>2, <3>1, <4>1
      <3>2. ASSUME NEW k \in t + 1 .. no, o[k] = l PROVE \E x \in 1 .. r : c[x] = l
         <4>1. k - t \in 1 .. r /\ k - t \in 0 .. r /\ t + (k - t) = k BY <1>0, <2>1
         <4>2. c[k - t] = o[t + (k - t)] BY <2>2, <4>1
         <4> QED BY <3>2, <4>1, <4>2
      <3> QED BY <3>1, <3>2
   <2> QED BY <1>0, <2>1, <2>6, <2>7 DEF Freeing
<1> QED BY <1>0, <1>1, <1>2

\* The table then links the sectors drawn, up to the end.
Seals(img, no, o, t, d, w) ==
  /\ DOMAIN w = -1 .. MAXFAT - 1
  /\ w[d[t]] = FAT_END
  /\ \A k \in 0 .. t - 1 : w[d[k]] = d[k + 1]
  /\ \A l \in 0 .. MAXFAT - 1 :
       (\A k \in 1 .. t : d[k] # l) => w[l] = IF \E k \in t + 1 .. no : o[k] = l THEN FAT_FREE ELSE img.fat[l]

\* And AllocateSectors returns such a table.
LEMMA SealedIs ==
  ASSUME NEW img, NEW ch, NEW i, NEW no, NEW o, Slot(img, ch, i, no, o),
         NEW st, NEW t \in Nat, NEW d, Drawn(img, ch, i, no, o, st, t, d)
  PROVE  Seals(img, no, o, t, d, Sealed(st, no, t))
<1>0. no \in Nat /\ st.at = d[t] BY DEF Slot, Drawn
<1> DEFINE w == Sealed(st, no, t)
<1>1. /\ DOMAIN Freeing(st, no, t) = -1 .. MAXFAT - 1
      /\ \A l \in -1 .. MAXFAT - 1 :
           Freeing(st, no, t)[l] = IF \E k \in t + 1 .. no : o[k] = l THEN FAT_FREE ELSE st.links[l]
   BY RestIsFreed
<1>2. PICK r : /\ r = Freeing(st, no, t) /\ DOMAIN r = -1 .. MAXFAT - 1
               /\ \A l \in -1 .. MAXFAT - 1 :
                    r[l] = IF \E k \in t + 1 .. no : o[k] = l THEN FAT_FREE ELSE st.links[l]
   BY <1>1
<1>3. w = [r EXCEPT ![d[t]] = FAT_END] BY <1>0, <1>2 DEF Sealed
<1> HIDE DEF w
<1>4. d[t] \in -1 .. MAXFAT - 1 BY <1>0, NextIs
<1>5. /\ DOMAIN w = -1 .. MAXFAT - 1 /\ w[d[t]] = FAT_END
      /\ \A l \in -1 .. MAXFAT - 1 : l # d[t] => w[l] = r[l]
   BY <1>2, <1>3, <1>4
<1>6. ASSUME NEW k \in 0 .. t - 1 PROVE w[d[k]] = d[k + 1]
   <2>1. k \in 0 .. t /\ t \in 0 .. t /\ k # t OBVIOUS
   <2>2. d[k] # d[t] BY <2>1 DEF Drawn
   <2>3. d[k] \in -1 .. MAXFAT - 1
      <3>1. CASE k = 0 BY <3>1, PffsIs DEF Drawn
      <3>2. CASE k # 0
         <4>1. k \in 1 .. t BY <3>2
         <4>2. d[k] \in 1 .. MaxFat - 1 BY <4>1 DEF Drawn
         <4> QED BY <4>2, PffsIs
      <3> QED BY <3>1, <3>2
   <2>4. ASSUME NEW x \in t + 1 .. no, o[x] = d[k] PROVE FALSE
      <3>1. k <= no /\ x \in 1 .. no /\ x # k BY <1>0
      <3>2. d[k] = o[k] BY <2>1, <3>1 DEF Drawn
      <3>3. CASE k = 0 BY <2>4, <3>1, <3>2, <3>3, PffsIs DEF Slot
      <3>4. CASE k # 0
         <4>1. k \in 1 .. no BY <1>0, <3>1, <3>4
         <4> QED BY <2>4, <3>1, <3>2, <4>1 DEF Slot
      <3> QED BY <3>3, <3>4
   <2>5. st.links[d[k]] = d[k + 1] BY DEF Drawn
   <2> QED BY <1>2, <1>5, <2>2, <2>3, <2>4, <2>5
<1>7. ASSUME NEW l \in 0 .. MAXFAT - 1, \A k \in 1 .. t : d[k] # l
      PROVE  w[l] = IF \E k \in t + 1 .. no : o[k] = l THEN FAT_FREE ELSE img.fat[l]
   <2>0. l \in -1 .. MAXFAT - 1 BY PffsIs
   <2>1. \A k \in 0 .. t : d[k] # l
      <3>1. \A k \in 0 .. t : k = 0 \/ k \in 1 .. t OBVIOUS
      <3>2. d[0] # l BY PffsIs DEF Drawn
      <3> QED BY <1>7, <3>1, <3>2
   <2>2. t \in 0 .. t /\ \A k \in 0 .. t - 1 : k \in 0 .. t OBVIOUS
   <2>3. st.links[l] = Links(img, o[1])[l] BY <2>0, <2>1, <2>2 DEF Drawn
   <2>4. st.links[l] = img.fat[l] BY <2>3, LinksAre
   <2> QED BY <1>2, <1>5, <2>0, <2>1, <2>2, <2>4
<1>8. Seals(img, no, o, t, d, w) BY <1>5, <1>6, <1>7 DEF Seals
<1> QED BY <1>8 DEF w

\* The image with the file in it, and its chains.
Filed(img, i, n, size, links, data) ==
  [img EXCEPT !.dir[i] = [name |-> n, chain |-> links[-1], size |-> size],
              !.fat = [l \in DOMAIN img.fat |-> links[l]],
              !.data = data]
NewChain(t, d) == [k \in 1 .. t + 1 |-> IF k = t + 1 THEN FAT_END ELSE d[k]]
NewChains(ch, i, t, d) == [j \in 1 .. MAXDIR |-> IF j = i THEN NewChain(t, d) ELSE ch[j]]

\* It is chained again.
LEMMA FiledIs ==
  ASSUME NEW img, NEW ch, Chained(img, ch), NEW i, NEW no, NEW o, Slot(img, ch, i, no, o),
         NEW st, NEW t \in Nat, NEW d, Drawn(img, ch, i, no, o, st, t, d),
         NEW n, ValidName(n), \A j \in Others(img, i) : img.dir[j].name # n,
         NEW size \in Nat, SectorsOf(size) = t,
         NEW data, DOMAIN data = DOMAIN img.data
  PROVE  /\ Chained(Filed(img, i, n, size, Sealed(st, no, t), data), NewChains(ch, i, t, d))
         /\ Entries(Filed(img, i, n, size, Sealed(st, no, t), data)) = Others(img, i) \cup {i}
<1> DEFINE w == Sealed(st, no, t)
           new == Filed(img, i, n, size, w, data)
           fat == [l \in DOMAIN img.fat |-> w[l]]
           c == NewChain(t, d)
           ch2 == NewChains(ch, i, t, d)
<1>0. Shape(img) /\ i \in 1 .. MAXDIR /\ no \in Nat /\ d[0] = -1 BY DEF Chained, Slot, Drawn
<1>1. /\ DOMAIN w = -1 .. MAXFAT - 1 /\ w[d[t]] = FAT_END
      /\ \A k \in 0 .. t - 1 : w[d[k]] = d[k + 1]
      /\ \A l \in 0 .. MAXFAT - 1 :
           (\A k \in 1 .. t : d[k] # l) => w[l] = IF \E k \in t + 1 .. no : o[k] = l THEN FAT_FREE ELSE img.fat[l]
   <2>1. Seals(img, no, o, t, d, Sealed(st, no, t)) BY SealedIs
   <2> QED BY <2>1 DEF Seals
<1> HIDE DEF w
<1>2. DOMAIN fat = 0 .. MAXFAT - 1 /\ \A l \in 0 .. MAXFAT - 1 : fat[l] = w[l] BY <1>0 DEF Shape
<1>3. new = [img EXCEPT !.dir[i] = [name |-> n, chain |-> w[-1], size |-> size], !.fat = fat, !.data = data]
   BY DEF Filed
<1> HIDE DEF fat, new
<1>4. /\ DOMAIN new = DOMAIN img /\ new.fat = fat /\ new.data = data
      /\ DOMAIN new.dir = DOMAIN img.dir /\ new.dir[i] = [name |-> n, chain |-> w[-1], size |-> size]
      /\ \A j \in 1 .. MAXDIR : j # i => new.dir[j] = img.dir[j]
   BY <1>0, <1>3 DEF Shape
<1>5. Entries(new) = Others(img, i) \cup {i}
   <2>1. InUse(new.dir[i]) BY <1>4, ValidIsUsed DEF InUse
   <2> QED BY <1>0, <1>4, <2>1 DEF Entries, Others
<1>6. Length(new, i) = t BY <1>4 DEF Length
<1>7. \A j \in Others(img, i) : /\ j \in Entries(img) /\ j # i /\ j \in 1 .. MAXDIR /\ new.dir[j] = img.dir[j]
                                /\ Length(new, j) = Length(img, j) /\ HasChain(img, j, ch[j])
   BY <1>4 DEF Entries, Others, Length, Chained
<1>8. c[t + 1] = FAT_END /\ \A k \in 1 .. t : c[k] = d[k] BY DEF NewChain
<1>9. ch2[i] = c /\ \A j \in Others(img, i) : ch2[j] = ch[j] BY <1>0, <1>7 DEF NewChains
<1> HIDE DEF c, ch2
<1>10. \A k \in 1 .. t : /\ d[k] \in 1 .. MaxFat - 1 /\ d[k] \in 0 .. MAXFAT - 1
                         /\ fat[d[k]] = c[k + 1]
   <2> TAKE k \in 1 .. t
   <2>1. d[k] \in 1 .. MaxFat - 1 BY DEF Drawn
   <2>2. d[k] \in 0 .. MAXFAT - 1 BY <2>1, PffsIs
   <2>2a. fat[d[k]] = w[d[k]] BY <1>2, <2>2
   <2>3. CASE k = t
      <3>1. w[d[k]] = FAT_END BY <1>1, <2>3
      <3>2. c[k + 1] = FAT_END BY <1>8, <2>3
      <3> QED BY <2>1, <2>2, <2>2a, <3>1, <3>2
   <2>4. CASE k # t
      <3>1. k \in 0 .. t - 1 /\ k + 1 \in 1 .. t BY <2>4
      <3>2. w[d[k]] = d[k + 1] BY <1>1, <3>1
      <3>3. c[k + 1] = d[k + 1] BY <1>8, <3>1
      <3> QED BY <2>1, <2>2, <2>2a, <3>2, <3>3
   <2> QED BY <2>1, <2>2, <2>3, <2>4
<1>11. c[1] = w[-1]
   <2>1. CASE t = 0
      <3>1. w[-1] = FAT_END BY <1>0, <1>1, <2>1
      <3>2. c[0 + 1] = FAT_END BY <1>8, <2>1
      <3> QED BY <3>1, <3>2
   <2>2. CASE t # 0
      <3>1. 0 \in 0 .. t - 1 /\ 1 \in 1 .. t BY <2>2
      <3>2. w[d[0]] = d[0 + 1] BY <1>1, <3>1
      <3> QED BY <1>0, <1>8, <3>1, <3>2
   <2> QED BY <2>1, <2>2
<1>12. HasChain(new, i, c)
   <2>1. \A k \in 1 .. t : c[k] = d[k] BY <1>8
   <2> QED BY <1>4, <1>6, <1>8, <1>10, <1>11, <2>1 DEF HasChain
<1>13. \A j \in Others(img, i) : \A l \in 1 .. Length(img, j) :
         /\ fat[ch[j][l]] = img.fat[ch[j][l]] /\ \A k \in 1 .. t : ch[j][l] # d[k]
   <2> TAKE j \in Others(img, i)
   <2> TAKE l \in 1 .. Length(img, j)
   <2>1. ch[j][l] \in 0 .. MAXFAT - 1 BY <1>7, ChainIsTaken
   <2>2. \A k \in 1 .. t : ch[j][l] # d[k] BY DEF Drawn
   <2>3. \A k \in t + 1 .. no : k \in 1 .. no OBVIOUS
   <2>4. \A k \in t + 1 .. no : ch[j][l] # o[k] BY <2>3 DEF Slot
   <2> QED BY <1>1, <1>2, <2>1, <2>2, <2>4
<1>14. \A j \in Others(img, i) : HasChain(new, j, ch2[j]) BY <1>4, <1>7, <1>9, <1>13 DEF HasChain
<1>15. Chained(new, ch2)
   <2>1. Shape(new) BY <1>0, <1>2, <1>4 DEF Shape
   <2>2. \A j \in Entries(new) : HasChain(new, j, ch2[j]) BY <1>5, <1>9, <1>12, <1>14
   <2>3. NamesDiffer(new)
      <3>1. \A j \in Others(img, i) : new.dir[j].name # new.dir[i].name BY <1>4, <1>7
      <3>2. \A j, l \in Others(img, i) : new.dir[j].name = new.dir[l].name => j = l BY <1>7 DEF NamesDiffer, Chained
      <3> QED BY <1>5, <3>1, <3>2 DEF NamesDiffer
   <2>4. ChainsDiffer(new, ch2)
      <3>1. ASSUME NEW k \in 1 .. t, NEW l \in 1 .. t, c[k] = c[l] PROVE k = l
         <4>1. k \in 0 .. t /\ l \in 0 .. t /\ d[k] = d[l] BY <1>8, <3>1
         <4> QED BY <4>1 DEF Drawn
      <3>2. ASSUME NEW x \in Others(img, i), NEW y \in Others(img, i), NEW k \in 1 .. Length(img, x),
                   NEW l \in 1 .. Length(img, y), ch[x][k] = ch[y][l]
            PROVE  x = y /\ k = l
         BY <1>7, <3>2 DEF Chained, ChainsDiffer
      <3>3. ASSUME NEW x \in Others(img, i), NEW k \in 1 .. Length(img, x), NEW l \in 1 .. t PROVE ch[x][k] # c[l]
         BY <1>8, <1>13
      <3>4. ASSUME NEW x \in Entries(new), NEW y \in Entries(new), NEW k \in 1 .. Length(new, x),
                   NEW l \in 1 .. Length(new, y), ch2[x][k] = ch2[y][l]
            PROVE  x = y /\ k = l
         <4>1. CASE x = i /\ y = i BY <1>6, <1>9, <3>1, <3>4, <4>1
         <4>2. CASE x = i /\ y # i
            <5>1. y \in Others(img, i) /\ ch2[y] = ch[y] /\ l \in 1 .. Length(img, y) BY <1>5, <1>7, <1>9, <4>2
            <5> QED BY <1>6, <1>9, <3>3, <3>4, <4>2, <5>1
         <4>3. CASE x # i /\ y = i
            <5>1. x \in Others(img, i) /\ ch2[x] = ch[x] /\ k \in 1 .. Length(img, x) BY <1>5, <1>7, <1>9, <4>3
            <5> QED BY <1>6, <1>9, <3>3, <3>4, <4>3, <5>1
         <4>4. CASE x # i /\ y # i
            <5>1. x \in Others(img, i) /\ ch2[x] = ch[x] /\ k \in 1 .. Length(img, x) BY <1>5, <1>7, <1>9, <4>4
            <5>2. y \in Others(img, i) /\ ch2[y] = ch[y] /\ l \in 1 .. Length(img, y) BY <1>5, <1>7, <1>9, <4>4
            <5> QED BY <3>2, <3>4, <5>1, <5>2
         <4> QED BY <4>1, <4>2, <4>3, <4>4
      <3> QED BY <3>4 DEF ChainsDiffer
   <2>5. ASSUME NEW s \in 1 .. MaxFat - 1
         PROVE  new.fat[s] = FAT_FREE \/ \E j \in Entries(new) : \E k \in 1 .. Length(new, j) : s = ch2[j][k]
      <3>0. s \in 0 .. MAXFAT - 1 BY PffsIs
      <3>1. CASE \E k \in 1 .. t : d[k] = s BY <1>5, <1>6, <1>8, <1>9, <3>1
      <3>2. CASE ~\E k \in 1 .. t : d[k] = s
         <4>1. fat[s] = IF \E k \in t + 1 .. no : o[k] = s THEN FAT_FREE ELSE img.fat[s] BY <1>1, <1>2, <3>0, <3>2
         <4>2. ASSUME NEW k \in 1 .. no, s = o[k] PROVE fat[s] = FAT_FREE
            <5>1. CASE k > t
               <6>1. k \in t + 1 .. no BY <1>0, <5>1
               <6> QED BY <4>1, <4>2, <6>1
            <5>2. CASE k <= t
               <6>1. k \in 0 .. t /\ k \in 1 .. t /\ k <= no BY <1>0, <5>2
               <6>2. d[k] = o[k] BY <6>1 DEF Drawn
               <6> QED BY <3>2, <4>2, <6>1, <6>2
            <5> QED BY <1>0, <5>1, <5>2
         <4>3. ASSUME NEW j \in Others(img, i), NEW l \in 1 .. Length(img, j), s = ch[j][l]
               PROVE  j \in Entries(new) /\ l \in 1 .. Length(new, j) /\ s = ch2[j][l]
            BY <1>5, <1>7, <1>9, <4>3
         <4>4. CASE img.fat[s] = FAT_FREE BY <1>4, <4>1, <4>4
         <4>5. CASE \E k \in 1 .. no : s = o[k] BY <1>4, <4>2, <4>5
         <4>6. CASE \E j \in Others(img, i) : \E l \in 1 .. Length(img, j) : s = ch[j][l] BY <4>3, <4>6
         <4> QED BY <4>4, <4>5, <4>6 DEF Slot
      <3> QED BY <3>1, <3>2
   <2>6. new.fat[0] # FAT_FREE
      <3>1. 0 \in 0 .. MAXFAT - 1 BY PffsIs
      <3>2. \A k \in 1 .. t : d[k] # 0 BY <1>10
      <3>3. \A k \in t + 1 .. no : k \in 1 .. no OBVIOUS
      <3>4. \A k \in t + 1 .. no : o[k] # 0 BY <3>3, PffsIs DEF Slot
      <3>5. img.fat[0] # FAT_FREE BY DEF Chained
      <3> QED BY <1>1, <1>2, <1>4, <3>1, <3>2, <3>4, <3>5
   <2> QED BY <2>1, <2>2, <2>3, <2>4, <2>5, <2>6 DEF Chained
<1> QED BY <1>5, <1>15 DEF new, w, ch2

\* The sectors drawn hold the file then, and the others what they held.
LEMMA WrittenIs ==
  ASSUME NEW img, Shape(img), NEW ch, NEW i, NEW no, NEW o, Slot(img, ch, i, no, o),
         NEW st, NEW t \in Nat, NEW d, Drawn(img, ch, i, no, o, st, t, d),
         NEW content, t = SectorsOf(Len(content))
  PROVE  LET data == WriteFileToSectors(img, Sealed(st, no, t), content)
         IN /\ DOMAIN data = DOMAIN img.data
            /\ \A s \in DOMAIN img.data : (\A k \in 1 .. t : d[k] # s) => data[s] = img.data[s]
            /\ \A k \in 1 .. t, b \in 1 .. SECTOR :
                 (k - 1) * SECTOR + b <= Len(content) => data[d[k]][b] = content[(k - 1) * SECTOR + b]
<1> DEFINE w == Sealed(st, no, t)
           walk == Walk(w, -1, t)
           Put(k, old) == [b \in 1 .. SECTOR |-> IF (k - 1) * SECTOR + b <= Len(content)
                                                 THEN content[(k - 1) * SECTOR + b] ELSE old[b]]
           data == WriteFileToSectors(img, w, content)
<1>1. data = [s \in DOMAIN img.data |-> IF \E k \in 1 .. t : walk[k] = s
                                        THEN Put(CHOOSE k \in 1 .. t : walk[k] = s, img.data[s]) ELSE img.data[s]]
   BY DEF WriteFileToSectors
<1>2. /\ DOMAIN w = -1 .. MAXFAT - 1
      /\ w[d[t]] = FAT_END
      /\ \A k \in 0 .. t - 1 : w[d[k]] = d[k + 1]
      /\ \A l \in 0 .. MAXFAT - 1 :
           (\A k \in 1 .. t : d[k] # l) => w[l] = IF \E k \in t + 1 .. no : o[k] = l THEN FAT_FREE ELSE img.fat[l]
   <2>1. Seals(img, no, o, t, d, Sealed(st, no, t)) BY SealedIs
   <2> QED BY <2>1 DEF Seals
<1>3. d[0] = -1 /\ \A k \in 1 .. t : d[k] \in 1 .. MaxFat - 1 BY DEF Drawn
<1> HIDE DEF w
<1>4. \A k \in 0 .. t - 1 : d[k + 1] = Follow(w, d[k])
   <2> TAKE k \in 0 .. t - 1
   <2>1. k = 0 \/ k \in 1 .. t OBVIOUS
   <2>2. d[k] \in DOMAIN w BY <1>2, <1>3, <2>1, PffsIs
   <2> QED BY <1>2, <2>2 DEF Follow
<1>5. \A k \in 0 .. t : walk[k] = d[k] BY <1>3, <1>4, WalkIs
<1> HIDE DEF walk
<1>6. \A k \in 1 .. t : walk[k] = d[k] /\ d[k] \in DOMAIN img.data BY <1>3, <1>5, PffsIs DEF Shape
<1>7. \A k, l \in 1 .. t : d[k] = d[l] => k = l
   <2>1. \A k \in 1 .. t : k \in 0 .. t OBVIOUS
   <2> QED BY <2>1 DEF Drawn
<1> HIDE DEF data
<1>8. DOMAIN data = DOMAIN img.data BY <1>1
<1>9. \A s \in DOMAIN img.data : (\A k \in 1 .. t : d[k] # s) => data[s] = img.data[s] BY <1>1, <1>6
<1>10. ASSUME NEW k \in 1 .. t, NEW b \in 1 .. SECTOR, (k - 1) * SECTOR + b <= Len(content)
       PROVE  data[d[k]][b] = content[(k - 1) * SECTOR + b]
   <2>1. PICK x : x = CHOOSE l \in 1 .. t : walk[l] = d[k] OBVIOUS
   <2>2. x = k BY <1>6, <1>7, <2>1
   <2>3. data[d[k]] = Put(k, img.data[d[k]])
      <3> HIDE DEF Put
      <3> QED BY <1>1, <1>6, <2>1, <2>2
   <2> QED BY <1>10, <2>3
<1> QED BY <1>8, <1>9, <1>10 DEF data, w

\* So the store has the file.
LEMMA FiledFiles ==
  ASSUME NEW img, NEW ch, Chained(img, ch), NEW i, NEW no, NEW o, Slot(img, ch, i, no, o),
         NEW content, content \in Seq(Range(content)),
         NEW st, NEW t \in Nat, NEW d, Drawn(img, ch, i, no, o, st, t, d), t = SectorsOf(Len(content)),
         NEW n, ValidName(n), \A j \in Others(img, i) : img.dir[j].name # n,
         i \in Entries(img) => img.dir[i].name = n
  PROVE  LET data == WriteFileToSectors(img, Sealed(st, no, t), content)
             new == Filed(img, i, n, Len(content), Sealed(st, no, t), data)
         IN Chained(new, NewChains(ch, i, t, d)) /\ FilesOf(new) = Files!With(FilesOf(img), n, content)
<1> DEFINE data == WriteFileToSectors(img, Sealed(st, no, t), content)
           new == Filed(img, i, n, Len(content), Sealed(st, no, t), data)
           c == NewChain(t, d)
           ch2 == NewChains(ch, i, t, d)
           w == Sealed(st, no, t)
<1>0. PICK size \in Nat : size = Len(content) /\ DOMAIN content = 1 .. size /\ SectorsOf(size) = t OBVIOUS
<1>1. Shape(img) /\ i \in 1 .. MAXDIR /\ no \in Nat BY DEF Chained, Slot
<1>2. /\ DOMAIN data = DOMAIN img.data
      /\ \A s \in DOMAIN img.data : (\A k \in 1 .. t : d[k] # s) => data[s] = img.data[s]
      /\ \A k \in 1 .. t, b \in 1 .. SECTOR :
           (k - 1) * SECTOR + b <= Len(content) => data[d[k]][b] = content[(k - 1) * SECTOR + b]
   BY <1>1, WrittenIs
<1> HIDE DEF data
<1>3. Chained(new, ch2) /\ Entries(new) = Others(img, i) \cup {i} BY <1>0, <1>2, FiledIs
<1>4. new = [img EXCEPT !.dir[i] = [name |-> n, chain |-> w[-1], size |-> size],
                        !.fat = [l \in DOMAIN img.fat |-> w[l]], !.data = data]
   BY <1>0 DEF Filed
<1> HIDE DEF w, ch2, new
<1>5. /\ new.data = data /\ new.dir[i].name = n /\ new.dir[i].size = size
      /\ \A j \in 1 .. MAXDIR : j # i => new.dir[j] = img.dir[j]
   <2>1. PICK e, fat : e = [name |-> n, chain |-> w[-1], size |-> size] /\ fat = [l \in DOMAIN img.fat |-> w[l]] OBVIOUS
   <2>2. e.name = n /\ e.size = size BY <2>1
   <2>3. new = [img EXCEPT !.dir[i] = e, !.fat = fat, !.data = data] BY <1>4, <2>1
   <2>4. new.data = data /\ new.dir = [img.dir EXCEPT ![i] = e] BY <1>1, <2>3 DEF Shape
   <2>5. i \in DOMAIN img.dir /\ DOMAIN img.dir = 1 .. MAXDIR BY <1>1 DEF Shape
   <2>6. new.dir[i] = e /\ \A j \in 1 .. MAXDIR : j # i => new.dir[j] = img.dir[j] BY <2>4, <2>5
   <2> QED BY <2>2, <2>4, <2>6
<1>6. \A j \in Others(img, i) : j \in Entries(img) /\ j # i /\ j \in 1 .. MAXDIR /\ new.dir[j] = img.dir[j]
   BY <1>5 DEF Entries, Others
<1>7. ch2[i] = c /\ \A j \in Others(img, i) : ch2[j] = ch[j] BY <1>1, <1>6 DEF NewChains, ch2
<1>8. \A k \in 1 .. t : c[k] = d[k] BY DEF NewChain
<1> HIDE DEF c
<1>9. Bytes(new, c, size) = content
   <2>1. ASSUME NEW b \in 1 .. size
         PROVE  new.data[c[((b - 1) \div SECTOR) + 1]][((b - 1) % SECTOR) + 1] = content[b]
      <3>1. PICK k, x : /\ k = ((b - 1) \div SECTOR) + 1 /\ x = ((b - 1) % SECTOR) + 1
                        /\ k \in 1 .. t /\ x \in 1 .. SECTOR /\ (k - 1) * SECTOR + x = b
         BY <1>0, SectorsAre
      <3>2. b <= Len(content) BY <1>0
      <3>3. data[d[k]][x] = content[b] BY <1>2, <3>1, <3>2
      <3> QED BY <1>5, <1>8, <3>1, <3>3
   <2>2. Bytes(new, c, size) = [b \in 1 .. size |-> content[b]] BY <2>1 DEF Bytes
   <2>3. content = [b \in 1 .. size |-> content[b]] BY <1>0
   <2> QED BY <2>2, <2>3
<1>10. ASSUME NEW j \in Others(img, i)
       PROVE  Bytes(new, ch2[j], new.dir[j].size) = Bytes(img, ch[j], img.dir[j].size)
   <2>1. PICK z \in Nat : z = img.dir[j].size /\ z = new.dir[j].size BY <1>6 DEF Chained, HasChain
   <2>2. ASSUME NEW b \in 1 .. z
         PROVE  new.data[ch[j][((b - 1) \div SECTOR) + 1]] = img.data[ch[j][((b - 1) \div SECTOR) + 1]]
      <3>1. PICK k : k = ((b - 1) \div SECTOR) + 1 /\ k \in 1 .. Length(img, j) BY <2>1, SectorsAre DEF Length
      <3>2. ch[j][k] \in 1 .. MaxFat - 1 BY <1>6, <3>1, ChainIsTaken
      <3>3. ch[j][k] \in DOMAIN img.data BY <1>1, <3>2, PffsIs DEF Shape
      <3>4. \A l \in 1 .. t : d[l] # ch[j][k] BY <3>1 DEF Drawn
      <3> QED BY <1>2, <1>5, <3>1, <3>3, <3>4
   <2> QED BY <1>7, <2>1, <2>2 DEF Bytes
<1>11. FilesOf(new) = Files!With(FilesOf(img), n, content)
   <2> DEFINE A == FilesOf(new)
              F == FilesOf(img)
              B == Files!With(F, n, content)
   <2>1. DOMAIN A = {new.dir[j].name : j \in Entries(new)} BY <1>3, FilesAre
   <2>2. DOMAIN F = {img.dir[j].name : j \in Entries(img)} BY FilesAre
   <2>3. DOMAIN A = DOMAIN F \cup {n}
      <3>1. \A j \in Entries(img) : j \in Others(img, i) \/ img.dir[j].name = n BY DEF Others
      <3>2. \A x \in DOMAIN A : x \in DOMAIN F \cup {n} BY <1>3, <1>5, <1>6, <2>1, <2>2
      <3>3. \A x \in DOMAIN F : x \in DOMAIN A BY <1>3, <1>5, <1>6, <2>1, <2>2, <3>1
      <3>4. n \in DOMAIN A BY <1>3, <1>5, <2>1
      <3> QED BY <3>2, <3>3, <3>4
   <2>4. DOMAIN B = DOMAIN F \cup {n} /\ \A y \in DOMAIN B : B[y] = IF y = n THEN content ELSE F[y] BY DEF Files!With
   <2>5. ASSUME NEW y \in DOMAIN A PROVE A[y] = IF y = n THEN content ELSE F[y]
      <3>1. PICK j \in Entries(new) : y = new.dir[j].name BY <2>1
      <3>2. A[y] = Bytes(new, ch2[j], new.dir[j].size) BY <1>3, <3>1, FilesAre
      <3>3. CASE j = i BY <1>5, <1>7, <1>9, <3>1, <3>2, <3>3
      <3>4. CASE j # i
         <4>1. j \in Others(img, i) BY <1>3, <3>4
         <4>2. j \in Entries(img) /\ y = img.dir[j].name /\ y # n BY <1>6, <3>1, <4>1
         <4>3. F[y] = Bytes(img, ch[j], img.dir[j].size) BY <4>2, FilesAre
         <4> QED BY <1>10, <3>2, <4>1, <4>2, <4>3
      <3> QED BY <3>3, <3>4
   <2>6. A = [y \in DOMAIN A |-> A[y]] BY DEF FilesOf
   <2>7. B = [y \in DOMAIN B |-> B[y]] BY DEF Files!With
   <2> HIDE DEF A, B, F
   <2>8. A = B BY <2>3, <2>4, <2>5, <2>6, <2>7
   <2> QED BY <2>8 DEF A, B, F
<1> QED BY <1>3, <1>11 DEF ch2, new, data

\* A sector is asked for and none is free: the files and the one that was to come
\* need more sectors than there are.
LEMMA StuckIs ==
  ASSUME NEW img, NEW ch, Chained(img, ch), NEW i, NEW no, NEW o, Slot(img, ch, i, no, o),
         NEW st, NEW t \in Nat, NEW d, Drawn(img, ch, i, no, o, st, t, d), Stuck(img, no, t, d),
         NEW n, ValidName(n), \A j \in Others(img, i) : img.dir[j].name # n,
         i \in Entries(img) => img.dir[i].name = n,
         NEW content, content \in Seq(Range(content)), t < SectorsOf(Len(content))
  PROVE  ~Files!Room(Files!With(FilesOf(img), n, content))
<1> DEFINE w == Sealed(st, no, t)
           new == Filed(img, i, n, t * SECTOR, w, img.data)
           ch2 == NewChains(ch, i, t, d)
           files == FilesOf(img)
           more == Files!With(files, n, content)
           P == Places(FilesOf(new))
           Q == Places(more)
<1>0. Shape(img) /\ i \in 1 .. MAXDIR /\ no \in Nat /\ t >= no BY DEF Chained, Slot, Stuck
<1>1. PICK z \in Nat : z = t * SECTOR /\ SectorsOf(z) = t
   <2>1. PICK s \in Nat \ {0} : s = SECTOR BY PffsIs
   <2>2. t * s \in Nat /\ t * s = s * t OBVIOUS
   <2>3. t * s + s - 1 \in Nat BY <2>2
   <2>4. PICK q \in Nat, r \in 0 .. s - 1 : q = (t * s + s - 1) \div s /\ t * s + s - 1 = s * q + r
      BY <2>3, Division
   <2>5. q = t
      <3>1. CASE q > t
         <4>1. s * q >= s * (t + 1) BY <3>1
         <4>2. s * (t + 1) = s * t + s OBVIOUS
         <4> QED BY <2>2, <2>4, <4>1, <4>2
      <3>2. CASE q < t
         <4>1. s * t >= s * (q + 1) BY <3>2
         <4>2. s * (q + 1) = s * q + s OBVIOUS
         <4> QED BY <2>2, <2>4, <4>1, <4>2
      <3> QED BY <3>1, <3>2
   <2>6. SectorsOf(t * s) = t BY <2>1, <2>4, <2>5 DEF SectorsOf
   <2> QED BY <2>1, <2>2, <2>6
<1>2. Chained(new, ch2) /\ Entries(new) = Others(img, i) \cup {i} BY <1>1, FiledIs
<1>3. /\ DOMAIN w = -1 .. MAXFAT - 1 /\ w[d[t]] = FAT_END
      /\ \A k \in 0 .. t - 1 : w[d[k]] = d[k + 1]
      /\ \A l \in 0 .. MAXFAT - 1 :
           (\A k \in 1 .. t : d[k] # l) => w[l] = IF \E k \in t + 1 .. no : o[k] = l THEN FAT_FREE ELSE img.fat[l]
   <2>1. Seals(img, no, o, t, d, Sealed(st, no, t)) BY SealedIs
   <2> QED BY <2>1 DEF Seals
<1>4. /\ \A l \in 0 .. MAXFAT - 1 : new.fat[l] = w[l]
      /\ new.dir[i].name = n /\ new.dir[i].size = z
      /\ \A j \in 1 .. MAXDIR : j # i => new.dir[j] = img.dir[j]
   <2> HIDE DEF w
   <2>1. PICK e, fat : e = [name |-> n, chain |-> w[-1], size |-> z] /\ fat = [l \in DOMAIN img.fat |-> w[l]] OBVIOUS
   <2>2. e.name = n /\ e.size = z /\ \A l \in 0 .. MAXFAT - 1 : fat[l] = w[l] BY <1>0, <2>1 DEF Shape
   <2>3. new = [img EXCEPT !.dir[i] = e, !.fat = fat, !.data = img.data] BY <1>1, <2>1 DEF Filed
   <2>4. new.fat = fat /\ new.dir = [img.dir EXCEPT ![i] = e] BY <1>0, <2>3 DEF Shape
   <2>5. i \in DOMAIN img.dir /\ DOMAIN img.dir = 1 .. MAXDIR BY <1>0 DEF Shape
   <2>6. new.dir[i] = e /\ \A j \in 1 .. MAXDIR : j # i => new.dir[j] = img.dir[j] BY <2>4, <2>5
   <2> QED BY <2>2, <2>4, <2>6
<1>5. ch2[i] = NewChain(t, d) /\ \A k \in 1 .. t : NewChain(t, d)[k] = d[k] BY <1>0 DEF NewChains, NewChain
<1> HIDE DEF w, new, ch2
<1>6. Length(new, i) = t BY <1>1, <1>4 DEF Length
<1>7. \A j \in Others(img, i) : j \in Entries(img) /\ new.dir[j] = img.dir[j] /\ Length(new, j) = Length(img, j)
   BY <1>4 DEF Others, Entries, Length
<1>8. FreeSectors(new) = {}
   <2> SUFFICES ASSUME NEW s \in FreeSectors(new) PROVE FALSE OBVIOUS
   <2>1. s \in 0 .. MaxFat - 1 /\ new.fat[s] = FAT_FREE BY DEF FreeSectors
   <2>2. s # 0 BY <1>2, <2>1 DEF Chained
   <2>3. s \in 1 .. MaxFat - 1 /\ s \in 0 .. MAXFAT - 1 BY <2>1, <2>2, PffsIs
   <2>4. \A k \in 1 .. t : d[k] # s
      <3> SUFFICES ASSUME NEW k \in 1 .. t, d[k] = s PROVE FALSE OBVIOUS
      <3>1. i \in Entries(new) /\ k \in 1 .. Length(new, i) /\ ch2[i][k] = s BY <1>2, <1>5, <1>6
      <3>2. new.fat[ch2[i][k]] # FAT_FREE BY <1>2, <3>1, ChainIsTaken
      <3> QED BY <2>1, <3>1, <3>2
   <2>5. t + 1 .. no = {} BY <1>0
   <2>6. img.fat[s] = FAT_FREE BY <1>3, <1>4, <2>1, <2>3, <2>4, <2>5
   <2>7. PICK k \in no + 1 .. t : d[k] = s BY <2>3, <2>6 DEF Stuck
   <2>8. k \in 1 .. t BY <1>0
   <2> QED BY <2>4, <2>7, <2>8
<1>9. Cardinality(P) = MaxFat - 1
   <2>1. Free(new) = 0
      <3>1. Free(new) = Cardinality(FreeSectors(new)) BY DEF Free, FreeSectors
      <3> QED BY <1>8, <3>1, FS_EmptySet
   <2>2. Files!Used(FilesOf(new)) = Cardinality(P) BY CountsAlike DEF Files!Used, Places
   <2>3. Files!Used(FilesOf(new)) \in Nat /\ Files!Used(FilesOf(new)) + Free(new) = MaxFat - 1 BY <1>2, RoomIs
   <2> QED BY <2>1, <2>2, <2>3
<1>10. DOMAIN more = DOMAIN files \cup {n} /\ more[n] = content /\ \A x \in DOMAIN files : x # n => more[x] = files[x]
   BY DEF Files!With
<1>11. PICK m0 \in Nat : m0 = Files!Sectors(content) /\ t < m0
   <2>1. Len(content) \in Nat OBVIOUS
   <2>2. SectorsOf(Len(content)) \in Nat BY <2>1, SectorsAre
   <2>3. Files!Sectors(content) = SectorsOf(Len(content)) BY DEF Files!Sectors, SectorsOf
   <2> QED BY <2>2, <2>3
<1>12. \A j \in Entries(img) : /\ img.dir[j].name \in DOMAIN files
                               /\ Files!Sectors(files[img.dir[j].name]) = Length(img, j)
   BY PlacesAre
<1>13. \A p \in P : \E j \in Entries(new) : \E k \in 1 .. Length(new, j) : p = <<new.dir[j].name, k>> BY <1>2, PlacesAre
<1> HIDE DEF more, files, P
<1>14. \A k \in 1 .. m0 : <<n, k>> \in Q
   <2> TAKE k \in 1 .. m0
   <2>1. <<n, k>> \in {n} \X (1 .. Files!Sectors(more[n])) BY <1>10, <1>11
   <2>2. n \in DOMAIN more BY <1>10
   <2> QED BY <2>1, <2>2 DEF Places
<1>15. P \subseteq Q
   <2> SUFFICES ASSUME NEW p \in P PROVE p \in Q OBVIOUS
   <2>1. PICK j, k : j \in Entries(new) /\ k \in 1 .. Length(new, j) /\ p = <<new.dir[j].name, k>> BY <1>13
   <2>2. CASE j = i
      <3>1. k \in 1 .. m0 BY <1>6, <1>11, <2>1, <2>2
      <3> QED BY <1>4, <1>14, <2>1, <2>2, <3>1
   <2>3. CASE j # i
      <3>1. j \in Others(img, i) BY <1>2, <2>1, <2>3
      <3>2. PICK x : x = img.dir[j].name /\ x \in DOMAIN files /\ Files!Sectors(files[x]) = Length(img, j)
         BY <1>7, <1>12, <3>1
      <3>3. x # n /\ x \in DOMAIN more /\ more[x] = files[x] BY <1>10, <3>1, <3>2
      <3>4. p = <<x, k>> /\ k \in 1 .. Files!Sectors(more[x]) BY <1>7, <2>1, <3>1, <3>2, <3>3
      <3>5. p \in {x} \X (1 .. Files!Sectors(more[x])) BY <3>4
      <3> QED BY <3>3, <3>5 DEF Places
   <2> QED BY <2>2, <2>3
<1>16. <<n, m0>> \in Q /\ <<n, m0>> \notin P
   <2>1. m0 \in 1 .. m0 BY <1>11
   <2>2. ASSUME <<n, m0>> \in P PROVE FALSE
      <3>1. PICK j, k : j \in Entries(new) /\ k \in 1 .. Length(new, j) /\ <<n, m0>> = <<new.dir[j].name, k>>
         BY <1>13, <2>2
      <3>2. new.dir[j].name = n /\ k = m0 BY <3>1
      <3>3. j = i
         <4> SUFFICES ASSUME j # i PROVE FALSE OBVIOUS
         <4>1. j \in Others(img, i) BY <1>2, <3>1
         <4> QED BY <1>7, <3>2, <4>1
      <3> QED BY <1>6, <1>11, <3>1, <3>2, <3>3
   <2> QED BY <1>14, <2>1, <2>2
<1>17. IsFiniteSet(Q)
   <2> DEFINE R == Places(files)
              N == {n} \X (1 .. m0)
   <2>1. IsFiniteSet(R) BY RoomIs DEF files
   <2>2. IsFiniteSet({n}) BY FS_Singleton
   <2>3. IsFiniteSet(1 .. m0) BY FS_Interval
   <2>4. IsFiniteSet(N) BY <2>2, <2>3, FS_Product
   <2>5. Q \subseteq R \cup N
      <3> SUFFICES ASSUME NEW p \in Q PROVE p \in R \cup N OBVIOUS
      <3>1. PICK x \in DOMAIN more : p \in {x} \X (1 .. Files!Sectors(more[x])) BY DEF Places
      <3>2. CASE x = n BY <1>10, <1>11, <3>1, <3>2
      <3>3. CASE x # n
         <4>1. x \in DOMAIN files /\ more[x] = files[x] BY <1>10, <3>1, <3>3
         <4>2. p \in R BY <3>1, <4>1 DEF Places
         <4> QED BY <4>2
      <3> QED BY <3>2, <3>3
   <2> HIDE DEF R, N, Q
   <2>6. IsFiniteSet(R \cup N) BY <2>1, <2>4, FS_Union
   <2> QED BY <2>5, <2>6, FS_Subset
<1> HIDE DEF Q
<1>18. Cardinality(P) <= Cardinality(Q) /\ Cardinality(P) # Cardinality(Q) BY <1>15, <1>16, <1>17, FS_Subset
<1>19. Cardinality(Q) \in Nat BY <1>17, FS_CardinalityType
<1>20. Files!Used(more) = Cardinality(Q) BY CountsAlike DEF Files!Used, Places, Q
<1>21. ~ (Files!Used(more) <= MaxFat - 1) BY <1>9, <1>18, <1>19, <1>20, PffsIs
<1> QED BY <1>21 DEF Files!Room, more, files

\* No entry is left: the store has as many files as it may have.
LEMMA FullIs ==
  ASSUME NEW img, NEW ch, Chained(img, ch), Entries(img) = 1 .. MAXDIR,
         NEW n, \A i \in Entries(img) : img.dir[i].name # n, NEW content
  PROVE  ~Files!Room(Files!With(FilesOf(img), n, content))
<1> DEFINE D == DOMAIN FilesOf(img)
           more == Files!With(FilesOf(img), n, content)
<1>1. D = {img.dir[i].name : i \in Entries(img)} BY FilesAre
<1>2. n \notin D BY <1>1
<1>3. IsFiniteSet(D) /\ Cardinality(D) = MAXDIR BY NamesFit
<1>4. DOMAIN more = D \cup {n} BY DEF Files!With
<1> HIDE DEF D, more
<1>5. Cardinality(DOMAIN more) = MAXDIR + 1 BY <1>2, <1>3, <1>4, FS_AddElement
<1>6. ~ (Files!Cardinality(DOMAIN more) <= MAXDIR) BY <1>5, CountsAlike, PffsIs
<1> QED BY <1>6 DEF Files!Room, more

\* What the sectors that an entry got make of a request.
Outcome(img, i, n, content, got) ==
  LET new == Filed(img, i, n, Len(content), got.links, WriteFileToSectors(img, got.links, content))
      more == Files!With(FilesOf(img), n, content)
  IN \/ got.ok = TRUE /\ Files!Room(more) /\ FilesOf(new) = more /\ \E ch2 : Chained(new, ch2)
     \/ got.ok = FALSE /\ ~Files!Room(more)

\* A file comes into its entry if there is room for it, and only then.
LEMMA AddedAt ==
  ASSUME NEW img, NEW ch, Chained(img, ch), NEW i, NEW no, NEW o, Slot(img, ch, i, no, o),
         NEW n, ValidName(n), \A j \in Others(img, i) : img.dir[j].name # n,
         i \in Entries(img) => img.dir[i].name = n,
         NEW content, content \in Seq(Range(content))
  PROVE  Outcome(img, i, n, content, AllocateSectors(img, o[1], SectorsOf(Len(content)), no))
<1> DEFINE got == AllocateSectors(img, o[1], SectorsOf(Len(content)), no)
           new == Filed(img, i, n, Len(content), got.links, WriteFileToSectors(img, got.links, content))
           more == Files!With(FilesOf(img), n, content)
<1>1. PICK t \in Nat : t = SectorsOf(Len(content))
   <2>1. Len(content) \in Nat OBVIOUS
   <2> QED BY <2>1, SectorsAre
<1>2. PICK taken : taken = Taken(Links(img, o[1]), t) OBVIOUS
<1>3. got.ok = taken.ok /\ got.links = Sealed(taken, no, t) BY <1>1, <1>2 DEF AllocateSectors, Sealed, Freeing
<1>4. \/ \E d : Drawn(img, ch, i, no, o, taken, t, d)
      \/ /\ taken.ok = FALSE
         /\ \E k \in 0 .. t - 1 : \E st, d : Drawn(img, ch, i, no, o, st, k, d) /\ Stuck(img, no, k, d)
   BY <1>2, TakenIs
<1>5. ASSUME NEW d, Drawn(img, ch, i, no, o, taken, t, d)
      PROVE  got.ok = TRUE /\ Files!Room(more) /\ FilesOf(new) = more /\ \E ch2 : Chained(new, ch2)
   <2>1. got.ok = TRUE BY <1>3, <1>5 DEF Drawn
   <2> DEFINE data == WriteFileToSectors(img, Sealed(taken, no, t), content)
              x == Filed(img, i, n, Len(content), Sealed(taken, no, t), data)
   <2>2. Chained(x, NewChains(ch, i, t, d)) /\ FilesOf(x) = Files!With(FilesOf(img), n, content)
      BY <1>1, <1>5, FiledFiles
   <2>3. new = x BY <1>3
   <2> HIDE DEF x, new, got
   <2>4. Files!Room(FilesOf(x)) BY <2>2, FilesFit
   <2> QED BY <2>1, <2>2, <2>3, <2>4
<1>6. ASSUME NEW k \in 0 .. t - 1, NEW st, NEW d, Drawn(img, ch, i, no, o, st, k, d), Stuck(img, no, k, d)
      PROVE  ~Files!Room(more)
   <2>1. k \in Nat /\ k < SectorsOf(Len(content)) BY <1>1
   <2> QED BY <1>6, <2>1, StuckIs
<1> HIDE DEF got, new, more
<1>7. \/ got.ok = TRUE /\ Files!Room(more) /\ FilesOf(new) = more /\ \E ch2 : Chained(new, ch2)
      \/ got.ok = FALSE /\ ~Files!Room(more)
   BY <1>3, <1>4, <1>5, <1>6
<1> QED BY <1>7 DEF Outcome, got, new, more

\* PFFSAddFile does what the store does when a file comes.
LEMMA AddedIs ==
  ASSUME NEW img, NEW ch, Chained(img, ch), NEW n, NEW content \in Paths
  PROVE  LET result == AddFileAs(img, n, content)
             more == Files!With(FilesOf(img), n, content)
             done == ValidName(n) /\ content # NoFile /\ Files!Room(more)
         IN \/ result.ok = TRUE /\ done /\ FilesOf(result.img) = more /\ \E ch2 : Chained(result.img, ch2)
            \/ result.ok = FALSE /\ ~done
<1> DEFINE result == AddFileAs(img, n, content)
           more == Files!With(FilesOf(img), n, content)
           done == ValidName(n) /\ content # NoFile /\ Files!Room(more)
           found == Find(img, n)
           i == IF found = 0 THEN FindFreeDir(img) ELSE found
           old == IF found = 0 THEN [name |-> n, chain |-> FAT_FREE, size |-> 0] ELSE img.dir[i]
           got == AllocateSectors(img, old.chain, SectorsOf(Len(content)), SectorsOf(old.size))
           new == Filed(img, i, n, Len(content), got.links, WriteFileToSectors(img, got.links, content))
<1>0. Shape(img) /\ NamesDiffer(img) BY DEF Chained
<1>1. result = IF ~ValidName(n) \/ content = NoFile \/ i = 0 \/ ~got.ok THEN [ok |-> FALSE, img |-> img]
               ELSE [ok |-> TRUE, img |-> new]
   BY DEF AddFileAs, Changed, Refused, Filed
<1>2. content \in Seq(Range(content)) BY PfarAssumption
<1>3. ASSUME ValidName(n), i # 0 PROVE Outcome(img, i, n, content, got)
   <2>1. CASE found = 0
      <3>1. i \in (1 .. MAXDIR) \ Entries(img) BY <1>0, <1>3, <2>1, FreeDirIs
      <3>2. \A j \in Entries(img) : img.dir[j].name # n
         <4> SUFFICES ASSUME NEW j \in Entries(img), img.dir[j].name = n PROVE FALSE OBVIOUS
         <4>1. Find(img, n) = j BY <1>0, <1>3, FoundAt
         <4> QED BY <2>1, <4>1 DEF Entries
      <3>3. PICK no, o : no = 0 /\ Slot(img, ch, i, no, o) /\ o[1] = FAT_FREE BY <3>1, SlotOfFree
      <3>4. old.chain = o[1] /\ SectorsOf(old.size) = no BY <2>1, <3>3, SectorsAre
      <3>5. \A j \in Others(img, i) : img.dir[j].name # n BY <3>2 DEF Others
      <3>6. got = AllocateSectors(img, o[1], SectorsOf(Len(content)), no) BY <3>4
      <3> HIDE DEF i, old, got
      <3>7. Outcome(img, i, n, content, AllocateSectors(img, o[1], SectorsOf(Len(content)), no))
         BY <1>2, <1>3, <3>1, <3>3, <3>5, AddedAt
      <3> QED BY <3>6, <3>7
   <2>2. CASE found # 0
      <3>1. i \in Entries(img) /\ img.dir[i].name = n BY <1>0, <2>2, FoundIs
      <3>2. PICK no : no = Length(img, i) OBVIOUS
      <3>3. PICK o : Slot(img, ch, i, no, o) /\ o[1] = img.dir[i].chain BY <3>1, <3>2, SlotOfEntry
      <3>4. old.chain = o[1] /\ SectorsOf(old.size) = no BY <2>2, <3>2, <3>3 DEF Length
      <3>5. \A j \in Others(img, i) : img.dir[j].name # n BY <1>0, <3>1 DEF Others, NamesDiffer
      <3>6. got = AllocateSectors(img, o[1], SectorsOf(Len(content)), no) BY <3>4
      <3> HIDE DEF i, old, got
      <3>7. Outcome(img, i, n, content, AllocateSectors(img, o[1], SectorsOf(Len(content)), no))
         BY <1>2, <1>3, <3>1, <3>3, <3>5, AddedAt
      <3> QED BY <3>6, <3>7
   <2> QED BY <2>1, <2>2
<1>4. ASSUME ValidName(n), i = 0 PROVE ~Files!Room(more)
   <2>0. found = 0
      <3> SUFFICES ASSUME found # 0 PROVE FALSE OBVIOUS
      <3> QED BY <1>4
   <2>1. Entries(img) = 1 .. MAXDIR BY <1>0, <1>4, <2>0, FreeDirIs
   <2>2. \A j \in Entries(img) : img.dir[j].name # n
      <3> SUFFICES ASSUME NEW j \in Entries(img), img.dir[j].name = n PROVE FALSE OBVIOUS
      <3>1. Find(img, n) = j BY <1>0, <1>4, FoundAt
      <3> QED BY <2>0, <3>1 DEF Entries
   <2> QED BY <2>1, <2>2, FullIs
<1> HIDE DEF result, more, found, i, old, got, new
<1>5. CASE ValidName(n) /\ content # NoFile /\ i # 0 /\ got.ok = TRUE
   <2>1. result.ok = TRUE /\ result.img = new BY <1>1, <1>5
   <2>2. Files!Room(more) /\ FilesOf(new) = more /\ \E ch2 : Chained(new, ch2) BY <1>3, <1>5 DEF Outcome, new, more
   <2> QED BY <1>5, <2>1, <2>2 DEF result, more
<1>6. CASE ~ValidName(n) \/ content = NoFile \/ i = 0 \/ got.ok = FALSE
   <2>1. result.ok = FALSE BY <1>1, <1>6
   <2>2. ~done BY <1>3, <1>4, <1>6 DEF Outcome, more
   <2> QED BY <2>1, <2>2 DEF result, more
<1>7. ValidName(n) /\ i # 0 => got.ok = TRUE \/ got.ok = FALSE BY <1>3 DEF Outcome
<1> QED BY <1>5, <1>6, <1>7

\* And PFFSDeleteFile when one goes.
LEMMA RemovedIs ==
  ASSUME NEW img, NEW ch, Chained(img, ch), NEW n
  PROVE  LET result == DeleteFile(img, n)
         IN \/ /\ result.ok = TRUE /\ n \in DOMAIN FilesOf(img)
               /\ FilesOf(result.img) = Files!Without(FilesOf(img), n) /\ \E ch2 : Chained(result.img, ch2)
            \/ result.ok = FALSE /\ n \notin DOMAIN FilesOf(img)
<1> DEFINE i == Find(img, n)
<1>0. Shape(img) /\ NamesDiffer(img) /\ \A j \in Entries(img) : ValidName(img.dir[j].name) BY DEF Chained, HasChain
<1>1. DOMAIN FilesOf(img) = {img.dir[j].name : j \in Entries(img)} BY FilesAre
<1>2. DeleteFile(img, n) = IF i = 0 THEN [ok |-> FALSE, img |-> img] ELSE [ok |-> TRUE, img |-> Unlinked(img, i, MAXFAT)]
   BY DEF DeleteFile, Changed, Refused
<1>3. CASE i = 0
   <2>1. n \notin DOMAIN FilesOf(img)
      <3> SUFFICES ASSUME NEW j \in Entries(img), n = img.dir[j].name PROVE FALSE BY <1>1
      <3>1. Find(img, n) = j BY <1>0, FoundAt
      <3> QED BY <1>3, <3>1 DEF Entries
   <2> HIDE DEF i
   <2> QED BY <1>2, <1>3, <2>1
<1>4. CASE i # 0
   <2>1. i \in Entries(img) /\ img.dir[i].name = n BY <1>0, <1>4, FoundIs
   <2>2. n \in DOMAIN FilesOf(img) BY <1>1, <2>1
   <2> HIDE DEF i
   <2>3. Chained(Unlinked(img, i, MAXFAT), ch) /\ FilesOf(Unlinked(img, i, MAXFAT)) = Files!Without(FilesOf(img), n)
      BY <2>1, DeletedIs
   <2> QED BY <1>2, <1>4, <2>2, <2>3
<1> QED BY <1>3, <1>4

\* The images that the archiver holds are chained; a command that changed nothing
\* yet has what is on the disk.
ChainedImage(img) == \E ch : Chained(img, ch)
ArchInv ==
  /\ ChainedImage(file) /\ ChainedImage(pfi)
  /\ DOMAIN job = {"action", "nfiles"} /\ job.nfiles \in Nat
  /\ job.nfiles = 0 => pfi = file
  /\ job.nfiles # 0 => job.action \in {"a", "A", "d"}

\* A formatted image has no chain, and all sectors but the first are free.
LEMMA FormattedIs ==
  ASSUME NEW sig
  PROVE  ChainedImage([Formatted EXCEPT !.sig = sig]) /\ ChainedImage(Formatted)
<1>1. ASSUME NEW img, DOMAIN img = {"sig", "dir", "fat", "data"}, img.dir = Formatted.dir, img.fat = Formatted.fat,
             img.data = Formatted.data
      PROVE  ChainedImage(img)
   <2>1. /\ DOMAIN img.dir = 1 .. MAXDIR /\ \A i \in 1 .. MAXDIR : img.dir[i] = Unused
         /\ DOMAIN img.fat = 0 .. MAXFAT - 1
         /\ \A n \in 0 .. MAXFAT - 1 : img.fat[n] = IF n = 0 THEN FAT_SYSTEM ELSE FAT_FREE
         /\ DOMAIN img.data = 0 .. ImageSectors - 1
      BY <1>1 DEF Formatted
   <2>2. Entries(img) = {} BY <2>1 DEF Entries, InUse
   <2>3. Shape(img) BY <1>1, <2>1 DEF Shape
   <2>4. \A s \in 1 .. MaxFat - 1 : img.fat[s] = FAT_FREE
      <3> TAKE s \in 1 .. MaxFat - 1
      <3>1. s \in 0 .. MAXFAT - 1 /\ s # 0 BY PffsIs
      <3> QED BY <2>1, <3>1
   <2>5. img.fat[0] # FAT_FREE
      <3>1. 0 \in 0 .. MAXFAT - 1 BY PffsIs
      <3> QED BY <2>1, <3>1 DEF FAT_SYSTEM, FAT_FREE
   <2>6. \A ch : Chained(img, ch) BY <2>2, <2>3, <2>4, <2>5 DEF Chained, NamesDiffer, ChainsDiffer
   <2> QED BY <2>6 DEF ChainedImage
<1> DEFINE new == [Formatted EXCEPT !.sig = sig]
<1>2. DOMAIN Formatted = {"sig", "dir", "fat", "data"} BY DEF Formatted
<1>3. /\ DOMAIN new = {"sig", "dir", "fat", "data"}
      /\ new.dir = Formatted.dir /\ new.fat = Formatted.fat /\ new.data = Formatted.data
   BY <1>2
<1> HIDE DEF new
<1>4. ChainedImage(new) BY <1>1, <1>3
<1>5. ChainedImage(Formatted) BY <1>1, <1>2
<1> QED BY <1>4, <1>5 DEF new

\* A change of the image in memory.
LEMMA ChangeStep ==
  ASSUME ArchInv, NEW result, NEW request, Change(result, request), job.action \in {"a", "A", "d"},
         (result.ok = TRUE /\ ChainedImage(result.img)) \/ result.ok = FALSE
  PROVE  ArchInv'
<1>1. CASE result.ok = TRUE
   <2>1. pfi' = result.img /\ file' = file /\ job' = [job EXCEPT !.nfiles = @ + 1] BY <1>1 DEF Change
   <2>2. ChainedImage(result.img) BY <1>1
   <2>3. DOMAIN job' = {"action", "nfiles"} /\ job'.nfiles = job.nfiles + 1 /\ job'.action = job.action
      BY <2>1 DEF ArchInv
   <2>4. job'.nfiles \in Nat /\ job'.nfiles # 0 BY <2>3 DEF ArchInv
   <2>5. ChainedImage(file)' BY <2>1 DEF ArchInv, ChainedImage
   <2>6. ChainedImage(pfi)' BY <2>1, <2>2 DEF ChainedImage
   <2> QED BY <2>3, <2>4, <2>5, <2>6 DEF ArchInv
<1>2. CASE result.ok = FALSE
   <2>1. pfi' = file /\ file' = file /\ job' = NoJob BY <1>2 DEF Change
   <2>2. DOMAIN job' = {"action", "nfiles"} /\ job'.nfiles = 0 BY <2>1 DEF NoJob
   <2>3. ChainedImage(file)' /\ ChainedImage(pfi)' BY <2>1 DEF ArchInv, ChainedImage
   <2> QED BY <2>1, <2>2, <2>3 DEF ArchInv
<1> QED BY <1>1, <1>2

\* A step of the archiver keeps this, and is one of the store's.
LEMMA ArchStep ==
  ASSUME ArchInv, PfarStep
  PROVE  ArchInv' /\ [Files!Next]_<<FilesOf(file), FilesOf(pfi), said>>
<1>0. PICK ch : Chained(pfi, ch) BY DEF ArchInv, ChainedImage
<1>1. CASE OpenImage \/ LastCommand
   <2>1. UNCHANGED <<file, pfi, said>> BY <1>1 DEF OpenImage, LastCommand, pfarVars
   <2>2. job' = job \/ (job = NoJob /\ \E action \in host.actions : job' = [NoJob EXCEPT !.action = action])
      BY <1>1 DEF OpenImage, LastCommand, pfarVars
   <2>3. ASSUME job = NoJob, NEW action, job' = [NoJob EXCEPT !.action = action]
         PROVE  DOMAIN job' = {"action", "nfiles"} /\ job'.nfiles = 0 /\ job.nfiles = 0
      BY <2>3 DEF NoJob
   <2>4. ChainedImage(file)' /\ ChainedImage(pfi)' BY <2>1 DEF ArchInv, ChainedImage
   <2>5. ArchInv' BY <2>1, <2>2, <2>3, <2>4 DEF ArchInv
   <2> QED BY <2>1, <2>5
<1>2. CASE AddFile
   <2>1. PICK n \in Asked, content \in Paths : Change(AddFileAs(pfi, n, content), <<"put", n, content>>)
      BY <1>2 DEF AddFile
   <2>2. job.action \in {"a", "A", "d"} BY <1>2 DEF AddFile, Running
   <2>3. PICK result, more : result = AddFileAs(pfi, n, content) /\ more = Files!With(FilesOf(pfi), n, content) OBVIOUS
   <2>4. \/ /\ result.ok = TRUE /\ ValidName(n) /\ content # NoFile /\ Files!Room(more)
            /\ FilesOf(result.img) = more /\ \E ch2 : Chained(result.img, ch2)
         \/ result.ok = FALSE /\ ~ (ValidName(n) /\ content # NoFile /\ Files!Room(more))
      BY <1>0, <2>3, AddedIs
   <2>5. Change(result, <<"put", n, content>>) BY <2>1, <2>3
   <2>6. ArchInv' BY <2>2, <2>4, <2>5, ChangeStep DEF ChainedImage
   <2>7. ValidName(n) <=> n \in Proper BY PfarAssumption
   <2>8. /\ said' = [asked |-> <<"put", n, content>>, ok |-> result.ok, answer |-> << >>]
         /\ pfi' = (IF result.ok THEN result.img ELSE file) /\ file' = file
      BY <2>5 DEF Change, Says
   <2>9. Files!Put(n, content)
      <3> DEFINE done == n \in Proper /\ content \in Paths \ {NoFile} /\ Files!Room(more)
      <3>1. result.ok = done /\ FilesOf(pfi)' = IF done THEN more ELSE FilesOf(file)
         <4>1. CASE result.ok = TRUE
            <5>1. done BY <2>4, <2>7, <4>1
            <5>2. FilesOf(pfi)' = more BY <2>4, <2>8, <4>1
            <5> QED BY <4>1, <5>1, <5>2
         <4>2. CASE result.ok = FALSE
            <5>1. done = FALSE BY <2>4, <2>7, <4>2
            <5>2. FilesOf(pfi)' = FilesOf(file) BY <2>8, <4>2
            <5> HIDE DEF done
            <5> QED BY <4>2, <5>1, <5>2
         <4> QED BY <2>4, <4>1, <4>2
      <3>2. FilesOf(file)' = FilesOf(file) BY <2>8
      <3>3. said' = [asked |-> <<"put", n, content>>, ok |-> done, answer |-> << >>] BY <2>8, <3>1
      <3>4. said'.asked = <<"put", n, content>> BY <2>8
      <3> QED BY <2>3, <3>1, <3>2, <3>3, <3>4 DEF Files!Put, Files!Says
   <2> QED BY <2>6, <2>9 DEF Files!Next
<1>3. CASE DelFile
   <2>1. PICK n \in Asked : Change(DeleteFile(pfi, n), <<"remove", n>>) BY <1>3 DEF DelFile
   <2>2. job.action \in {"a", "A", "d"} BY <1>3 DEF DelFile, Running
   <2>3. PICK result : result = DeleteFile(pfi, n) OBVIOUS
   <2>4. \/ /\ result.ok = TRUE /\ n \in DOMAIN FilesOf(pfi)
            /\ FilesOf(result.img) = Files!Without(FilesOf(pfi), n) /\ \E ch2 : Chained(result.img, ch2)
         \/ result.ok = FALSE /\ n \notin DOMAIN FilesOf(pfi)
      BY <1>0, <2>3, RemovedIs
   <2>5. Change(result, <<"remove", n>>) BY <2>1, <2>3
   <2>6. ArchInv' BY <2>2, <2>4, <2>5, ChangeStep DEF ChainedImage
   <2>7. /\ said' = [asked |-> <<"remove", n>>, ok |-> result.ok, answer |-> << >>]
         /\ pfi' = (IF result.ok THEN result.img ELSE file) /\ file' = file
      BY <2>5 DEF Change, Says
   <2>8. Files!Remove(n)
      <3> DEFINE done == n \in DOMAIN FilesOf(pfi)
      <3>1. result.ok = done /\ FilesOf(pfi)' = IF done THEN Files!Without(FilesOf(pfi), n) ELSE FilesOf(file)
         <4>1. CASE result.ok = TRUE
            <5>1. done BY <2>4, <4>1
            <5>2. FilesOf(pfi)' = Files!Without(FilesOf(pfi), n) BY <2>4, <2>7, <4>1
            <5> QED BY <4>1, <5>1, <5>2
         <4>2. CASE result.ok = FALSE
            <5>1. done = FALSE BY <2>4, <4>2
            <5>2. FilesOf(pfi)' = FilesOf(file) BY <2>7, <4>2
            <5> HIDE DEF done
            <5> QED BY <4>2, <5>1, <5>2
         <4> QED BY <2>4, <4>1, <4>2
      <3>2. FilesOf(file)' = FilesOf(file) BY <2>7
      <3>3. said' = [asked |-> <<"remove", n>>, ok |-> done, answer |-> << >>] BY <2>7, <3>1
      <3>4. said'.asked = <<"remove", n>> BY <2>7
      <3> QED BY <3>1, <3>2, <3>3, <3>4 DEF Files!Remove, Files!Says
   <2> QED BY <2>6, <2>8 DEF Files!Next
<1>4. CASE Extract
   <2>1. PICK n \in Asked : said' = [asked |-> <<"get", n>>, ok |-> Find(pfi, n) # 0,
                                     answer |-> IF Find(pfi, n) = 0 THEN << >>
                                                ELSE ExtractFile(pfi, pfi.dir[Find(pfi, n)])]
      BY <1>4 DEF Extract, Says
   <2>2. UNCHANGED <<file, pfi, job>> BY <1>4 DEF Extract
   <2>3. ArchInv' BY <2>2 DEF ArchInv, ChainedImage
   <2>4. Find(pfi, n) # 0 <=> n \in DOMAIN FilesOf(pfi)
      <3>0. Shape(pfi) /\ NamesDiffer(pfi) /\ \A j \in Entries(pfi) : ValidName(pfi.dir[j].name)
         BY <1>0 DEF Chained, HasChain
      <3>1. DOMAIN FilesOf(pfi) = {pfi.dir[j].name : j \in Entries(pfi)} BY <1>0, FilesAre
      <3>2. ASSUME Find(pfi, n) # 0 PROVE n \in DOMAIN FilesOf(pfi) BY <3>0, <3>1, <3>2, FoundIs
      <3>3. ASSUME NEW j \in Entries(pfi), n = pfi.dir[j].name PROVE Find(pfi, n) # 0
         <4>1. Find(pfi, n) = j BY <3>0, <3>3, FoundAt
         <4> QED BY <4>1 DEF Entries
      <3> QED BY <3>1, <3>2, <3>3
   <2>5. n \in DOMAIN FilesOf(pfi) => FilesOf(pfi)[n] = ExtractFile(pfi, pfi.dir[Find(pfi, n)]) BY DEF FilesOf
   <2>6. Files!Get(n)
      <3> DEFINE files == FilesOf(pfi)
      <3>1. UNCHANGED <<FilesOf(file), FilesOf(pfi)>> BY <2>2
      <3>2. said'.asked = <<"get", n>> BY <2>1
      <3>3. said' = [asked |-> <<"get", n>>, ok |-> n \in DOMAIN files,
                     answer |-> IF n \in DOMAIN files THEN files[n] ELSE << >>]
         <4> HIDE DEF files
         <4>1. (Find(pfi, n) # 0) = (n \in DOMAIN files) BY <2>4 DEF files
         <4>2. CASE Find(pfi, n) = 0 BY <2>1, <4>1, <4>2
         <4>3. CASE Find(pfi, n) # 0
            <5>1. files[n] = ExtractFile(pfi, pfi.dir[Find(pfi, n)]) BY <2>4, <2>5, <4>3 DEF files
            <5> QED BY <2>1, <4>1, <4>3, <5>1
         <4> QED BY <4>2, <4>3
      <3> QED BY <3>1, <3>2, <3>3 DEF Files!Get, Files!Says
   <2> QED BY <2>3, <2>6 DEF Files!Next
<1>5. CASE DumpDir
   <2>1. said' = [asked |-> <<"list">>, ok |-> TRUE, answer |-> <<{<<d.name, d.size>> : d \in Dir(pfi)}, Free(pfi)>>]
      BY <1>5 DEF DumpDir, Says
   <2>2. UNCHANGED <<file, pfi>> /\ job' = NoJob /\ job.action = "l" BY <1>5 DEF DumpDir, Running
   <2>3. ArchInv'
      <3>1. DOMAIN job' = {"action", "nfiles"} /\ job'.nfiles = 0 BY <2>2 DEF NoJob
      <3>2. pfi = file BY <2>2 DEF ArchInv
      <3>3. ChainedImage(file)' /\ ChainedImage(pfi)' BY <2>2 DEF ArchInv, ChainedImage
      <3> QED BY <2>2, <3>1, <3>2, <3>3 DEF ArchInv
   <2>4. {<<d.name, d.size>> : d \in Dir(pfi)} = {<<n, Len(FilesOf(pfi)[n])>> : n \in DOMAIN FilesOf(pfi)}
      <3> DEFINE E == Entries(pfi)
                 F == FilesOf(pfi)
      <3>1. {<<d.name, d.size>> : d \in Dir(pfi)} = {<<pfi.dir[i].name, pfi.dir[i].size>> : i \in E}
         BY <1>0 DEF Dir, Entries, Chained, Shape
      <3>2. DOMAIN F = {pfi.dir[i].name : i \in E} BY <1>0, FilesAre
      <3>3. \A i \in E : Len(F[pfi.dir[i].name]) = pfi.dir[i].size
         <4> TAKE i \in E
         <4>1. F[pfi.dir[i].name] = Bytes(pfi, ch[i], pfi.dir[i].size) BY <1>0, FilesAre
         <4>2. pfi.dir[i].size \in Nat BY <1>0 DEF Chained, HasChain
         <4> QED BY <4>1, <4>2, LengthsAre
      <3> HIDE DEF E, F
      <3>4. {<<pfi.dir[i].name, pfi.dir[i].size>> : i \in E} = {<<n, Len(F[n])>> : n \in DOMAIN F} BY <3>2, <3>3
      <3> QED BY <3>1, <3>4 DEF F
   <2>5. Free(pfi) = (MaxFat - 1) - Files!Used(FilesOf(pfi))
      <3>1. PICK u \in Nat, f \in Nat : u = Files!Used(FilesOf(pfi)) /\ f = Free(pfi) /\ u + f = MaxFat - 1
         BY <1>0, RoomIs
      <3> QED BY <3>1
   <2>6. Files!List
      <3>1. UNCHANGED <<FilesOf(file), FilesOf(pfi)>> BY <2>2
      <3>2. said'.asked = <<"list">> BY <2>1
      <3> QED BY <2>1, <2>4, <2>5, <3>1, <3>2 DEF Files!List, Files!Says
   <2> QED BY <2>3, <2>6 DEF Files!Next
<1>6. CASE EndCommand
   <2>1. UNCHANGED <<pfi, said>> /\ job' = NoJob /\ file' = IF job.nfiles > 0 THEN pfi ELSE file BY <1>6 DEF EndCommand
   <2>2. file' = pfi
      <3>1. job.nfiles \in Nat /\ (job.nfiles = 0 => pfi = file) BY DEF ArchInv
      <3> QED BY <2>1, <3>1
   <2>3. ArchInv'
      <3>1. DOMAIN job' = {"action", "nfiles"} /\ job'.nfiles = 0 BY <2>1 DEF NoJob
      <3>2. ChainedImage(file)' /\ ChainedImage(pfi)' BY <2>1, <2>2 DEF ArchInv, ChainedImage
      <3> QED BY <2>1, <2>2, <3>1, <3>2 DEF ArchInv
   <2>4. Files!Commit
      <3>1. FilesOf(file)' = FilesOf(pfi) BY <2>2
      <3>2. UNCHANGED <<FilesOf(pfi), said>> BY <2>1
      <3> QED BY <3>1, <3>2 DEF Files!Commit
   <2> QED BY <2>3, <2>4 DEF Files!Next
<1> QED BY <1>1, <1>2, <1>3, <1>4, <1>5, <1>6 DEF PfarStep

\* However the archiver's commands follow one another, the image is a store of
\* files: PFFSAddFile takes a file exactly if the store has room for it and
\* keeps every other one, PFFSDeleteFile gives back what it held,
\* PFFSExtractFile returns what was put, the room that is listed is the room
\* there is, and a command takes effect with all its files or not at all.
THEOREM ArchivesAreStores == Spec => ImplementsFileStore
<1>1. Init => ArchInv /\ Files!Init
   <2> SUFFICES ASSUME Init PROVE ArchInv /\ Files!Init OBVIOUS
   <2>1. PfarInit BY DEF Init
   <2>2. ChainedImage(file)
      <3>1. file = [Formatted EXCEPT !.sig = host.image.sig] \/ file = Formatted BY <2>1 DEF PfarInit
      <3> QED BY <3>1, FormattedIs
   <2>3. pfi = file /\ job = NoJob /\ said = [asked |-> << >>, ok |-> TRUE, answer |-> << >>] BY <2>1 DEF PfarInit
   <2>4. DOMAIN job = {"action", "nfiles"} /\ job.nfiles = 0 BY <2>3 DEF NoJob
   <2>5. ArchInv BY <2>2, <2>3, <2>4 DEF ArchInv
   <2>6. Files!Init BY <2>3 DEF Files!Init
   <2> QED BY <2>5, <2>6
<1>2. ArchInv /\ [Next]_vars => ArchInv' /\ [Files!Next]_<<FilesOf(file), FilesOf(pfi), said>>
   <2> SUFFICES ASSUME ArchInv, [Next]_vars
                PROVE  ArchInv' /\ [Files!Next]_<<FilesOf(file), FilesOf(pfi), said>>
      OBVIOUS
   <2>1. CASE PfarStep BY <2>1, ArchStep
   <2>2. CASE UNCHANGED pfarVars
      <3>1. UNCHANGED <<file, pfi, job, said>> BY <2>2 DEF pfarVars
      <3>2. ArchInv' BY <3>1 DEF ArchInv, ChainedImage
      <3> QED BY <3>1, <3>2
   <2>3. PfarStep \/ UNCHANGED pfarVars BY DEF Next, Done, vars
   <2> QED BY <2>1, <2>2, <2>3
<1> QED BY <1>1, <1>2, PTL DEF Spec, ImplementsFileStore, Files!Spec
=============================================================================
