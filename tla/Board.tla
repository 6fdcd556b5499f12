-------------------------------- MODULE Board --------------------------------
(***************************************************************************)
(* The small parts of the P/ECE around the CPU: the clock controller and   *)
(* its listeners, the clock timer (RTC), the watchdog, the ports, and the  *)
(* host's buttons on their way to the K ports.  Registers are bytes at     *)
(* their address less 0x40000; a guest store is of a byte or a halfword.   *)
(* (src/soc/peripheral_clkctl.cpp, peripheral_rtc.cpp, peripheral_wdt.cpp, *)
(* peripheral_portctrl.cpp, src/system/piece_peripherals.cpp,              *)
(* button_input.cpp, src/host/lcd_renderer.cpp)                            *)
(***************************************************************************)
EXTENDS Integers, Sequences, FiniteSets

CONSTANTS Workloads,   \* exercised: "clock", "rtc", "periods", "keys"
          Stores,      \* a workload's stores: <<address, size, value>>
          Controls,    \* host controls: <<kind, device, which>>
          SwapAB,      \* cfg.swap_ab
          UConsole,    \* PIECE_PLATFORM_UCONSOLE: a raw joystick handler is set
          Pads,        \* gamepads of the host
          Joysticks,   \* its joysticks that SDL has no gamepad mapping for
          Start,       \* host time at the start, in seconds since 2000
          MaxHost,     \* bound on the host's seconds
          Period, NmiPeriod, \* at each CPU clock, the cycles of a prescaler
                             \* count and of an NMI: hz / 256 and hz / 1000
          MaxCycles, MaxLate, MaxEvents, \* bounds
          MaxStores    \* bound on a workload's stores and resets

\* Where guests store: the peripherals' addresses, less 0x40000.
IoArea == 0 .. 1023
Halfwords == 0 .. 65535

\* A byte store has a byte to store.
GuestStores == (IoArea \X {1} \X (0 .. 255)) \cup (IoArea \X {2} \X Halfwords)

ASSUME StoresAssumption == \A w \in Workloads : Stores[w] \subseteq GuestStores

\* The host's clock is clamped to years from 2000.
ASSUME StartAssumption == Start \in Nat

\* CPU clocks in units of 3 MHz: 48 or 24 MHz, divided by 1, 2, 4 or 8.
CpuClocks == {1, 2, 4, 8, 16}

ASSUME PeriodsAssumption ==
  Period \in [CpuClocks -> Nat \ {0}] /\ NmiPeriod \in [CpuClocks -> Nat \ {0}]

\* SDL numbers a joystick's buttons, and names the others.
ASSUME ControlsAssumption ==
  /\ Controls \subseteq ({"key"} \X {"keyboard"} \X STRING)
                   \cup ({"pad"} \X Pads \X STRING)
                   \cup ({"joy"} \X (Pads \cup Joysticks) \X Nat)
  /\ "none" \notin Pads \cup Joysticks /\ Pads \cap Joysticks = {}

VARIABLES
  workload,
  regs,       \* the byte registers
  slow, gen,  \* p07_slow_, config_gen_
  cache,      \* per timer channel: cpc_gen_ and the clock cached with it
  announced,  \* the frequency last passed to on_clock_change
  afterReset, \* history: what a reset left unannounced: subset of {"hz", "p07"}
  k5, k6,     \* the K ports, as the set of bits that are 1
  raised,     \* history: the key interrupts of the last poll
  shared,     \* shared_buttons, as its lines that are 0; the SDL thread stores
              \* its ButtonState there after each event
  pads, joys, \* plugged pads and gamepad_, joysticks and joystick_
  held,       \* history: the host controls held down
  by,         \* history: per line, the control whose event pressed it last
  seen,       \* history: "by" when the K ports were last driven
  rtc,        \* offset_sec_, frozen_, frozen_sec_, prescaler_, next_...cycle_
  host,       \* the host's clock
  read,       \* history: the guest's reading of the clock
  last,       \* history: what the clock was set to and when
  cycles, nmi,    \* the cycle counter, next_nmi_cycle_
  ticked,     \* history: the last tick, the prescaler as the clock changed, NMIs
  stored,     \* history: the bytes of the last store or reset, by address
  stores, events

clockVars == <<regs, slow, gen, cache, announced, afterReset>>
keyVars == <<k5, k6, raised, seen>>
inputVars == <<shared, pads, joys, held, by, events>>
rtcVars == <<rtc, host, read, last>>
cycleVars == <<cycles, nmi, ticked>>
vars == <<workload, clockVars, keyVars, inputVars, rtcVars, cycleVars, stored,
          stores>>

Bit(v, i) == (v \div 2^i) % 2
Bits(v) == {i \in 0 .. 7 : Bit(v, i) = 1}

-----------------------------------------------------------------------------
(* The register file.  A halfword of the I/O area has a write callback and *)
(* perhaps a write_byte callback, as its peripheral registered them.       *)

\* Two registers: write stores both, write_byte the one at its address.
Pairs == {326, 328, 330, 332, 342, 344, 346, 368}
           \cup {710, 712, 714, 716, 718} \cup {720 + 2 * i : i \in 0 .. 7}
\* A dummy and a register: write stores the high byte, write_byte only at the
\* odd address.
HighOnly == {324, 336, 340, 706}
\* A register and a dummy or read-only byte: write, which is all there is,
\* stores the low byte unless the address is odd.
LowOnly == {320, 334, 384, 338, 704}

CLKSEL45 == 320
CLKSEL == 326
CLKT16(ch) == 327 + ch
CLKT8(pair) == <<333, 334, 325>>[pair + 1]
PWRCTL == 384
RTCSTOP == 337
SETMI == 341
SETHH == 342
SETDAYL == 343
SETDAYH == 344
EWD == 369
SPPK == 714
SCPK(n) == 716 + n
SMPK(n) == 718 + n
P0D == 721

Registers ==
  Pairs \cup {a + 1 : a \in Pairs} \cup LowOnly \cup {a + 1 : a \in HighOnly}
ClockRegisters == {CLKSEL45, CLKSEL, PWRCTL} \cup {CLKT16(ch) : ch \in 0 .. 5}
                    \cup {CLKT8(p) : p \in 0 .. 2}
PortRegisters == {a \in Registers : a >= 704}

\* The registers that the write callback of a slot stores to.
Write(slot, addr) ==
  CASE slot \in Pairs -> {slot, slot + 1}
    [] slot \in HighOnly -> {slot + 1}
    [] slot \in LowOnly /\ addr % 2 = 0 -> {slot}
    [] OTHER -> {}

\* Mutant: a slot with a dummy has a write callback only.
ByteSlots_pairs == Pairs

ByteSlots == Pairs \cup HighOnly

\* The registers that its write_byte callback stores to.
WriteByte(slot, addr) == IF slot \in HighOnly /\ addr % 2 = 0 THEN {} ELSE {addr}

Slot(a) == a - (a % 2)

\* Bus::write8 prefers write_byte and falls back on write, with the odd address;
\* write16 clears the address's lowest bit.
Precise(a, size) == size = 1 /\ Slot(a) \in ByteSlots
Reached(a, size) ==
  IF Precise(a, size) THEN WriteByte(Slot(a), a)
  ELSE Write(Slot(a), IF size = 1 THEN a ELSE Slot(a))

\* The byte that a callback stores to x: write_byte its argument, write the low
\* or the high byte of what it takes for a halfword.
ByteFor(a, size, v, x) ==
  IF Precise(a, size) THEN v ELSE IF x % 2 = 0 THEN v % 256 ELSE v \div 256

Stored(a, size, v) ==
  [x \in Registers |-> IF x \in Reached(a, size) THEN ByteFor(a, size, v, x)
                       ELSE regs[x]]

\* The bytes a store puts on the bus, by address.
OnBus(a, size, v) ==
  IF size = 1 THEN [x \in {a} |-> v]
  ELSE [x \in {Slot(a), Slot(a) + 1} |-> IF x = Slot(a) THEN v % 256 ELSE v \div 256]

-----------------------------------------------------------------------------
(* Clocks.  A frequency is in units of 3 MHz, before a timer's divider.    *)

Osc3(s) == IF s THEN 8 ELSE 16
CpuHz(r, s) == Osc3(s) \div 2^(r[PWRCTL] \div 64)

DivT16 == <<1, 2, 4, 16, 64, 256, 1024, 4096>>
DivT8(ch) ==
  CASE ch = 1 -> <<32, 64, 128, 256, 512, 1024, 2048, 4096>>
    [] ch \in {2, 4} -> <<2, 4, 8, 16, 32, 64, 2048, 4096>>
    [] OTHER -> <<1, 2, 4, 8, 16, 64, 128, 256>>

\* clock_from_clkctl: a nibble's enable bit and divider; a stopped clock is 0.
FromClkctl(nibble, s, div) ==
  IF nibble < 8 THEN <<0, 1>> ELSE <<Osc3(s), div[(nibble % 8) + 1]>>

T16Clock(r, s, ch, cksl) ==
  FromClkctl((r[CLKT16(ch)] \div 16^cksl) % 16, s, DivT16)

\* A bypassed channel runs on the prescaler's input.
T8Clock(r, s, ch) ==
  IF Bit(IF ch < 4 THEN r[CLKSEL] ELSE r[CLKSEL45], ch % 4) = 1
  THEN <<Osc3(s), 1>>
  ELSE FromClkctl((r[CLKT8(ch \div 2)] \div 16^(ch % 2)) % 16, s, DivT8(ch))

Timers == {"T16.0", "T8.0", "T8.1"}
ClockOf(t, r, s) ==
  CASE t = "T16.0" -> T16Clock(r, s, 0, 0)
    [] t = "T8.0" -> T8Clock(r, s, 0)
    [] t = "T8.1" -> T8Clock(r, s, 1)

\* Mutant: only CLKCHG counts as a change of the CPU clock.
PowerChanges_chgOnly(old, new) == Bit(old, 2) # Bit(new, 2)

\* CLKCHG or CLKDT differ.
PowerChanges(old, new) == Bit(old, 2) # Bit(new, 2) \/ old \div 64 # new \div 64

\* What a store does to the clocks: every register bumps the generation, a
\* change of PWRCTL is announced, P07 switches the oscillator if it changed.
UpdateClock(a, size, new) ==
  LET p07 == Bit(regs[P0D], 7) # Bit(new[P0D], 7)
      switched == p07 /\ slow # (Bit(new[P0D], 7) = 1)
      called == switched \/ PowerChanges(regs[PWRCTL], new[PWRCTL])
  IN /\ slow' = IF p07 THEN Bit(new[P0D], 7) = 1 ELSE slow
     /\ gen' = gen + Cardinality(Reached(a, size) \cap ClockRegisters)
                   + (IF switched THEN 1 ELSE 0)
     /\ announced' = IF called THEN CpuHz(new, slow') ELSE announced
     /\ afterReset' = afterReset \ ((IF called THEN {"hz"} ELSE {})
                                       \cup (IF p07 THEN {"p07"} ELSE {}))

\* A timer asks for its cycles per count: recomputed when the generation moved.
Consult(t) ==
  /\ workload = "clock" /\ cache[t].gen # gen
  /\ cache' = [cache EXCEPT ![t] = [gen |-> gen, clock |-> ClockOf(t, regs, slow)]]
  /\ stored' = << >>
  /\ UNCHANGED <<workload, regs, slow, gen, announced, afterReset, keyVars,
                 inputVars, rtcVars, cycleVars, stores>>

-----------------------------------------------------------------------------
(* The clock timer.                                                        *)

Day == 86400

\* current_seconds_since_2000
Current == IF rtc.frozen THEN rtc.frozenAt ELSE host + rtc.offset

\* The time set in the registers; its seconds are zero.
SetTime(r) == (r[SETDAYH] * 256 + r[SETDAYL]) * Day + r[SETHH] * 3600 + r[SETMI] * 60

\* STOP leaves the time it stopped at in the set registers.
Latched(r, s) ==
  [r EXCEPT ![SETHH] = (s % Day) \div 3600, ![SETMI] = (s % 3600) \div 60,
            ![SETDAYL] = (s \div Day) % 256, ![SETDAYH] = ((s \div Day) \div 256) % 256]

\* apply_set_to_offset
Run(c, r) == [c EXCEPT !.offset = SetTime(r) - host, !.sub = 0, !.frozen = FALSE]

\* Mutant: STOP leaves the clock running.
StopRtc_running(c) == c

\* STOP freezes the clock, unless it was stopped already.
StopRtc(c) ==
  IF Bit(regs[RTCSTOP], 1) = 1 THEN c
  ELSE [c EXCEPT !.frozen = TRUE, !.frozenAt = host + c.offset]

\* write_rtcstop: bit 1 stops; bit 0 runs a stopped clock from what was set.
WriteRtcstop(new) ==
  LET v == new[RTCSTOP]
      stopped == IF Bit(v, 1) = 1 THEN StopRtc(rtc) ELSE rtc
      r == IF Bit(v, 1) = 1 THEN Latched(new, stopped.frozenAt) ELSE new
      runs == Bit(v, 0) = 1 /\ Bit(regs[RTCSTOP], 1) = 1
  IN /\ regs' = r
     /\ rtc' = IF runs THEN Run(stopped, r) ELSE stopped
     /\ last' = IF runs
                THEN [last EXCEPT !.set = SetTime(r), !.at = host, !.kept = ~last.touched]
                ELSE IF Bit(v, 1) = 1 /\ Bit(regs[RTCSTOP], 1) = 0
                     THEN [last EXCEPT !.stop = last.set + host - last.at,
                                       !.touched = FALSE, !.kept = FALSE]
                     ELSE last
     /\ read' = << >>

\* A guest store to any of the registers, with what its handler does.
Store(a, size, v) ==
  /\ stores < MaxStores[workload] /\ stores' = stores + 1
  /\ stored' = OnBus(a, size, v)
  /\ LET new == Stored(a, size, v)
     IN /\ UpdateClock(a, size, new)
        /\ IF RTCSTOP \in Reached(a, size)
           THEN WriteRtcstop(new)
           ELSE /\ regs' = new
                /\ last' = [last EXCEPT !.touched = @ \/
                              Reached(a, size) \cap SETMI .. SETDAYH # {}]
                /\ UNCHANGED <<rtc, read>>
  /\ ticked' = IF RTCSTOP \in Reached(a, size) \/ CpuHz(regs', slow') # CpuHz(regs, slow)
               THEN [ticked EXCEPT !.due = rtc'.due, !.sub = rtc'.sub] ELSE ticked
  /\ UNCHANGED <<workload, cache, keyVars, inputVars, host, cycles, nmi>>

\* The guest reads the time, a halfword at a time: RTCSEC/MIN, HOUR/DAYL, DAYH.
ReadTime ==
  /\ workload = "rtc" /\ Len(read) < 3
  /\ read' = Append(read,
       CASE Len(read) = 0 -> <<Current % 60, (Current % 3600) \div 60>>
         [] Len(read) = 1 -> <<(Current % Day) \div 3600, (Current \div Day) % 256>>
         [] Len(read) = 2 -> <<((Current \div Day) \div 256) % 256, 0>>)
  /\ stored' = << >>
  /\ UNCHANGED <<workload, clockVars, keyVars, inputVars, rtc, host, last,
                 cycleVars, stores>>

HostSecond ==
  /\ workload = "rtc" /\ host < MaxHost
  /\ host' = host + 1 /\ stored' = << >>
  /\ UNCHANGED <<workload, clockVars, keyVars, inputVars, rtc, read, last,
                 cycleVars, stores>>

-----------------------------------------------------------------------------
(* The cycle counter's clients.                                            *)

Hz == CpuHz(regs, slow)

\* Mutant: the counts of an interval are one short.
RtcCounts_short(due) == (cycles - due) \div Period[Hz]

\* The counts since one was due, at the CPU clock of the tick.
RtcCounts(due) == (cycles - due) \div Period[Hz] + 1

TickRtc(c) ==
  IF cycles < c.due THEN c
  ELSE IF Bit(regs[RTCSTOP], 1) = 1 THEN [c EXCEPT !.due = cycles + 1]
  ELSE [c EXCEPT !.due = @ + RtcCounts(@) * Period[Hz],
                 !.sub = (@ + RtcCounts(c.due)) % 256]

WdtOn == Bit(regs[EWD], 1) = 1
Least(x, y) == IF x < y THEN x ELSE y

\* PiecePeripherals::tick, at some cycle after the last one.
Tick ==
  /\ workload = "periods" /\ ticked.at # cycles
  /\ rtc' = TickRtc(rtc)
  /\ nmi' = IF ~WdtOn \/ cycles >= nmi THEN cycles + NmiPeriod[Hz] ELSE nmi
  /\ ticked' = IF WdtOn /\ cycles >= nmi
               THEN [ticked EXCEPT !.at = cycles, !.gap = cycles - ticked.nmi,
                                   !.allowed = ticked.least,
                                   !.nmi = cycles, !.least = NmiPeriod[Hz]]
               ELSE [ticked EXCEPT !.at = cycles, !.least = Least(@, NmiPeriod[Hz])]
  /\ stored' = << >>
  /\ UNCHANGED <<workload, clockVars, keyVars, inputVars, host, read, last, cycles,
                 stores>>

Elapse ==
  /\ workload = "periods" /\ cycles < MaxCycles
  /\ ticked.at >= 0 => cycles < ticked.at + MaxLate
  /\ cycles' = cycles + 1 /\ stored' = << >>
  /\ UNCHANGED <<workload, clockVars, keyVars, inputVars, rtcVars, nmi, ticked,
                 stores>>

-----------------------------------------------------------------------------
(* Buttons: the host's controls, the shared word, the K ports.  A control  *)
(* is a source of events: a key, a button of a gamepad as SDL maps it, or  *)
(* a raw button of a joystick; each gamepad is also a joystick.  The       *)
(* stick's controls are its positions.  A line is <<port, bit>>.           *)

KLines == {<<6, i>> : i \in 0 .. 5} \cup {<<5, 3>>, <<5, 4>>}

\* handle_key, handle_gamepad_button, handle_joystick_button with its table.
KeyLine(k) ==
  CASE k = "right" -> {<<6, 0>>} [] k = "left" -> {<<6, 1>>}
    [] k = "down" -> {<<6, 2>>} [] k = "up" -> {<<6, 3>>}
    [] k = "Z" -> {<<6, 4>>} [] k = "X" -> {<<6, 5>>}
    [] k = "return" -> {<<5, 4>>} [] k = "backspace" -> {<<5, 3>>}
    [] OTHER -> {}
PadLine(b) ==
  CASE b = "right" -> {<<6, 0>>} [] b = "left" -> {<<6, 1>>}
    [] b = "down" -> {<<6, 2>>} [] b = "up" -> {<<6, 3>>}
    [] b = "south" -> {<<6, IF SwapAB THEN 4 ELSE 5>>}
    [] b = "east" -> {<<6, IF SwapAB THEN 5 ELSE 4>>}
    [] b = "west" -> {<<6, 4>>} [] b = "north" -> {<<6, 5>>}
    [] b = "start" -> {<<5, 4>>} [] b = "back" -> {<<5, 3>>}
    [] OTHER -> {}
JoyLine(j) ==
  CASE j \in {0, 1} -> {<<6, 5>>} [] j \in {2, 3} -> {<<6, 4>>}
    [] j = 8 -> {<<5, 3>>} [] j = 9 -> {<<5, 4>>} [] OTHER -> {}

\* SDL has events of the opened devices only; the raw events of any of them
\* are handled while a joystick is open, whichever they come from.
Delivered(c) ==
  CASE c[1] = "key" -> TRUE
    [] c[1] = "pad" -> c[2] = pads.open
    [] c[1] = "joy" -> c[2] \in {pads.open, joys.open}
Handled(c) == c[1] = "joy" => UConsole /\ joys.open # "none"
LinesOf(c) ==
  CASE c[1] = "key" -> KeyLine(c[3]) [] c[1] = "pad" -> PadLine(c[3])
    [] c[1] = "joy" -> JoyLine(c[3])

\* What a control is for, by the K ports' wiring and the labels of the hosts'
\* devices: for the histories.
For(l) ==
  CASE l = <<6, 0>> -> {<<"key", "right">>, <<"pad", "right">>, <<"stick", "right">>}
    [] l = <<6, 1>> -> {<<"key", "left">>, <<"pad", "left">>, <<"stick", "left">>}
    [] l = <<6, 2>> -> {<<"key", "down">>, <<"pad", "down">>, <<"stick", "down">>}
    [] l = <<6, 3>> -> {<<"key", "up">>, <<"pad", "up">>, <<"stick", "up">>}
    [] l = <<6, 4>> -> {<<"key", "Z">>, <<"pad", "west">>, <<"joy", 2>>, <<"joy", 3>>,
                        <<"pad", IF SwapAB THEN "south" ELSE "east">>}
    [] l = <<6, 5>> -> {<<"key", "X">>, <<"pad", "north">>, <<"joy", 0>>, <<"joy", 1>>,
                        <<"pad", IF SwapAB THEN "east" ELSE "south">>}
    [] l = <<5, 3>> -> {<<"key", "backspace">>, <<"pad", "back">>, <<"joy", 8>>}
    [] l = <<5, 4>> -> {<<"key", "return">>, <<"pad", "start">>, <<"joy", 9>>}
IsFor(c, l) == <<c[1], c[3]>> \in For(l)

Port(n, pressed) == 0 .. 7 \ {l[2] : l \in {x \in pressed : x[1] = n}}

\* An event of a control, and the history of a line it is for.
Event(c, pressed, told) ==
  /\ events < MaxEvents /\ events' = events + 1
  /\ shared' = IF Handled(c) THEN pressed ELSE shared
  /\ by' = [l \in KLines |-> IF IsFor(c, l) /\ Handled(c) THEN told ELSE by[l]]
  /\ stored' = << >>
  /\ UNCHANGED <<workload, clockVars, keyVars, pads, joys, rtcVars, cycleVars, stores>>

\* Key repeat is ignored.
Press(c) ==
  /\ c \notin held /\ Delivered(c)
  /\ held' = held \cup {c}
  /\ Event(c, shared \cup LinesOf(c), c)

Release(c) ==
  /\ c \in held
  /\ held' = held \ {c}
  /\ Event(c, shared \ LinesOf(c), << >>)

AxisOf(x) == IF x \in {"left", "right"} THEN {"left", "right"} ELSE {"up", "down"}
AxisLines(axis) == IF axis = {"left", "right"} THEN {<<6, 0>>, <<6, 1>>}
                   ELSE {<<6, 2>>, <<6, 3>>}
Positions == {"left", "right", "up", "down"}

\* Mutant: an axis only presses.
Tilt_presses(axis, x) ==
  IF x = "centre" THEN shared ELSE shared \cup KeyLine(x)

\* handle_gamepad_axis: both lines of the axis follow its position.
Tilt(axis, x) ==
  (shared \ AxisLines(axis)) \cup (IF x = "centre" THEN {} ELSE KeyLine(x))

\* The stick of the open pad moves along an axis, from any position to another.
Move(axis, x) ==
  /\ pads.open # "none"
  /\ events < MaxEvents /\ events' = events + 1
  /\ shared' = Tilt(axis, x)
  /\ LET others == {c \in held : ~(c[1] = "stick" /\ c[3] \in axis)}
         at == <<"stick", "stick", x>>
     IN /\ held' = IF x = "centre" THEN others ELSE others \cup {at}
        /\ by' = [l \in KLines |->
                    IF IsFor(at, l) THEN at
                    ELSE IF \E y \in axis : IsFor(<<"stick", "stick", y>>, l)
                         THEN << >> ELSE by[l]]
  /\ stored' = << >>
  /\ UNCHANGED <<workload, clockVars, keyVars, pads, joys, rtcVars, cycleVars, stores>>

\* A device comes: if none is open it is opened, which may fail.
Added(d, devices, opened) ==
  /\ d \notin devices.plugged
  /\ opened \in (IF devices.open = "none" THEN {d, "none"} ELSE {devices.open})

\* SDL releases what a device held before it reports the device removed.
Removable(d, devices) ==
  /\ d \in devices.plugged
  /\ devices.open = d => \A c \in held : c[2] # d

Plug(d, devices, opened) == [plugged |-> devices.plugged \cup {d}, open |-> opened]
Unplug(d, devices) == [plugged |-> devices.plugged \ {d},
                       open |-> IF devices.open = d THEN "none" ELSE devices.open]
NoDevice == [plugged |-> {}, open |-> "none"]

HotPlug ==
  /\ events < MaxEvents /\ events' = events + 1
  /\ stored' = << >>
  /\ UNCHANGED <<workload, clockVars, keyVars, shared, held, by, rtcVars, cycleVars,
                 stores>>

\* The first gamepad to be added is opened; others are not, even later.
AddPad(p, opened) ==
  /\ Added(p, pads, opened) /\ pads' = Plug(p, pads, opened)
  /\ UNCHANGED joys /\ HotPlug

RemovePad(p) ==
  /\ Removable(p, pads) /\ (pads.open = p => \A c \in held : c[1] # "stick")
  /\ pads' = Unplug(p, pads)
  /\ UNCHANGED joys /\ HotPlug

\* The first joystick that is no gamepad, if there is a handler for it.
AddJoystick(j, opened) ==
  /\ Added(j, joys, opened) /\ (UConsole \/ opened = "none")
  /\ joys' = Plug(j, joys, opened)
  /\ UNCHANGED pads /\ HotPlug

RemoveJoystick(j) ==
  /\ Removable(j, joys) /\ joys' = Unplug(j, joys)
  /\ UNCHANGED pads /\ HotPlug

\* check_key_irq: the unmasked bits of the selected port against the pattern.
KeyMatches(r, n, five, six) ==
  LET mask == Bits(r[SMPK(n)])
      sel == (r[SPPK] \div 4^n) % 4
      act == CASE sel = 0 -> five [] sel = 1 -> six [] OTHER -> {}
  IN act \ mask = Bits(r[SCPK(n)]) \ mask
Matching(r, five, six) == {n \in {0, 1} : KeyMatches(r, n, five, six)}

\* poll_buttons: K5 and then K6 is set, each with its check.
PollButtons ==
  /\ workload = "keys"
  /\ k5' = Port(5, shared) /\ k6' = Port(6, shared)
  /\ raised' = Matching(regs, k5', k6) \cup Matching(regs, k5', k6')
  /\ stored' = << >> /\ seen' = by
  /\ UNCHANGED <<workload, clockVars, inputVars, rtcVars, cycleVars, stores>>

-----------------------------------------------------------------------------

Cleared == [a \in Registers |-> IF a = RTCSTOP THEN 1 ELSE IF a = P0D THEN 128 ELSE 0]
NoCache == [t \in Timers |-> [gen |-> -1, clock |-> <<0, 1>>]]
RtcStart == [offset |-> 0, frozen |-> FALSE, frozenAt |-> 0, sub |-> 0,
             due |-> Period[CpuHz(Cleared, TRUE)]]

\* PiecePeripherals::reset and the runner around it, which drives the K ports
\* released and then as held: nothing announces the clock; a hot start leaves
\* the ports, and with them P07, as they are.
Reset(cold) ==
  /\ stores < MaxStores[workload] /\ stores' = stores + 1
  /\ regs' = [a \in Registers |->
                IF ~cold /\ a \in PortRegisters THEN regs[a] ELSE Cleared[a]]
  /\ slow' = TRUE /\ gen' = gen + 1 /\ cache' = NoCache
  /\ afterReset' = {"hz"} \cup (IF cold THEN {} ELSE {"p07"})
  /\ rtc' = RtcStart /\ nmi' = 0
  /\ last' = [last EXCEPT !.set = host, !.at = host, !.kept = FALSE]
  /\ read' = << >>
  /\ ticked' = [ticked EXCEPT !.at = -1, !.due = RtcStart.due, !.sub = 0, !.least = 0]
  /\ k5' = Port(5, shared) /\ k6' = Port(6, shared)
  /\ raised' = UNION {Matching(regs', 0 .. 7, IF cold THEN 0 .. 7 ELSE k6),
                      Matching(regs', 0 .. 7, 0 .. 7), Matching(regs', k5', 0 .. 7),
                      Matching(regs', k5', k6')}
  /\ stored' = regs' /\ seen' = by
  /\ UNCHANGED <<workload, announced, inputVars, host, cycles>>

Init ==
  /\ workload \in Workloads
  /\ regs = Cleared /\ slow = TRUE /\ gen = 0
  /\ cache = NoCache
  /\ announced = CpuHz(regs, slow) /\ afterReset = {}
  /\ k5 = 0 .. 7 /\ k6 = 0 .. 7 /\ raised = {}
  /\ shared = {} /\ held = {} /\ by = [l \in KLines |-> << >>] /\ seen = by
  /\ pads = NoDevice /\ joys = NoDevice
  /\ rtc = RtcStart /\ host = Start /\ read = << >>
  /\ last = [set |-> Start, at |-> Start, stop |-> 0, touched |-> FALSE, kept |-> FALSE]
  /\ cycles = 0 /\ nmi = 0
  /\ ticked = [at |-> 0, due |-> RtcStart.due, sub |-> 0,
               nmi |-> 0, least |-> 0, gap |-> 0, allowed |-> 0]
  /\ stored = << >> /\ stores = 0 /\ events = 0

HostInput ==
  /\ workload = "keys"
  /\ \/ \E c \in Controls : Press(c) \/ Release(c)
     \/ \E y \in Positions : Move(AxisOf(y), y) \/ Move(AxisOf(y), "centre")
     \/ \E p \in Pads : RemovePad(p) \/ \E opened \in {p, pads.open} : AddPad(p, opened)
     \/ \E j \in Joysticks :
          RemoveJoystick(j) \/ \E opened \in {j, joys.open} : AddJoystick(j, opened)

Next ==
  \/ \E st \in Stores[workload] : Store(st[1], st[2], st[3])
  \/ \E cold \in BOOLEAN : Reset(cold)
  \/ \E t \in Timers : Consult(t)
  \/ ReadTime \/ HostSecond \/ Tick \/ Elapse
  \/ HostInput \/ PollButtons

Spec == Init /\ [][Next]_vars

-----------------------------------------------------------------------------
\* A register changes to the byte stored at its address, and only then: the
\* other byte of its halfword, stored as a byte, leaves it alone; STOP also
\* latches the time it stopped at.
StoresStayInLane ==
  [][\A a \in Registers :
       \/ regs'[a] = IF a \in DOMAIN stored' THEN stored'[a] ELSE regs[a]
       \/ /\ RTCSTOP \in DOMAIN stored' /\ Bit(stored'[RTCSTOP], 1) = 1
          /\ a \in SETMI .. SETDAYH]_vars

\* The runner was told the CPU clock in force, the oscillator is the one P07
\* selects, and a timer whose cache is current uses the clock of the registers:
\* but for what a reset leaves to the next change.
ClockIsFollowed ==
  /\ "hz" \notin afterReset => announced = CpuHz(regs, slow)
  /\ "p07" \notin afterReset => slow = (Bit(regs[P0D], 7) = 1)
  /\ \A t \in Timers :
       cache[t].gen = gen => cache[t].clock = ClockOf(t, regs, slow)

\* The time the three halfwords of a reading say.
TimeRead ==
  (read[3][1] * 256 + read[2][2]) * Day + read[2][1] * 3600 + read[1][2] * 60
    + read[1][1]

\* A time as 16 bits of days and the rest of a day can say it.
In16Bits(t) == ((t \div Day) % 65536) * Day + (t % Day)

\* A guest's stores stop the clock with 2 and run it with 1, as the source's
\* header says: 0 or 3 in RTCSTOP leaves frozen_ apart from the bit that says so.
RtcGuests ==
  \A w \in Workloads : \A st \in Stores[w] :
    LET bytes == OnBus(st[1], st[2], st[3])
    IN RTCSTOP \in DOMAIN bytes => bytes[RTCSTOP] % 4 \in {1, 2}

\* A running clock shows what it was set to plus the host's time since then; a
\* stopped one stays, is read whole, and loses only its seconds if it runs again
\* without being set.  (Of RtcGuests.)
RtcKeepsTime ==
  /\ Bit(regs[RTCSTOP], 1) = 0 => Current = last.set + (host - last.at)
  /\ Bit(regs[RTCSTOP], 1) = 1 =>
       Current = last.stop /\ (Len(read) = 3 => TimeRead = In16Bits(last.stop))
  /\ last.kept => last.set = In16Bits(last.stop) - (last.stop % 60)

\* However late the ticks and whatever the CPU clock was before: since it last
\* changed, or the timer was last run, the prescaler has counted every period
\* of the clock in force; and two NMIs are at least as far apart as the shortest
\* period the clock gave in between, unless a reset came between them.
PeriodsHold ==
  /\ ticked.at = cycles /\ Bit(regs[RTCSTOP], 1) = 0 =>
       LET counts == IF cycles < ticked.due THEN 0
                     ELSE (cycles - ticked.due) \div Period[Hz] + 1
       IN /\ rtc.sub = (ticked.sub + counts) % 256
          /\ rtc.due = ticked.due + counts * Period[Hz]
  /\ ticked.gap >= ticked.allowed

\* After a poll or a reset a K line is pressed for the guest exactly if the last
\* event for it, as the host's devices label them, was a press: no event is lost
\* or turned into another, whatever the devices that come, go and overlap.  The
\* control that pressed it is still held, unless it is a gamepad's raw button.
ButtonsFollowEvents ==
  /\ k5 = {i \in 0 .. 7 : <<5, i>> \in KLines => seen[<<5, i>>] = << >>}
  /\ k6 = {i \in 0 .. 7 : <<6, i>> \in KLines => seen[<<6, i>>] = << >>}
  /\ \A l \in KLines :
       by[l] # << >> => by[l] \in held \/ (by[l][1] = "joy" /\ by[l][2] \in Pads)

\* lcd_renderer.hpp:50-53: raw joystick button events are "used for devices that
\* SDL3 does not recognise as a gamepad"; "the first non-gamepad joystick device
\* seen will be opened and forwarded".  The device of an event is not looked at.
RawEventsAreTheJoysticks ==
  \A l \in KLines : by[l] # << >> /\ by[l][1] = "joy" => by[l][2] \in Joysticks
=============================================================================
