-------------------------------- MODULE Boot --------------------------------
(***************************************************************************)
(* What the single-threaded hosts have in common: the PFI file read in     *)
(* chunks before the first instruction, and the bookkeeping of when the    *)
(* peripherals are ticked next (src/headless_system_main.cpp and           *)
(* src/libretro/piece_libretro.cpp; src/main.cpp ticks every instruction). *)
(***************************************************************************)
EXTENDS Guest

\* How often a host ticks: at the least and at the most, in cycles.
Burst(least, most) == [least |-> least, most |-> most]

VARIABLES
  host,             \* which front end, its image and its options; never changes
  at,               \* where the host is
  m,                \* the machine
  total,            \* bytes pfi_load has loaded, or segments of elf_load
  code,             \* the exit code, or None
  next_timer_wake,
  stop,             \* the end of the current burst
  late              \* history: how late the last tick was for an event known at
                    \* the tick before and for any, and the next one known

bootVars == <<total>>
tickVars == <<next_timer_wake, stop, late>>
baseVars == <<host, at, m, bootVars, code, tickVars>>

Kind(k) == host.kind = k
Exit(c) == at' = "done" /\ code' = c

-----------------------------------------------------------------------------
(* Loading a PFI file.                                                     *)

\* main.cpp takes the flash size from its options, the headless runner from
\* the header.
Part == for_min_bytes(IF Kind("bare") THEN Parts[1] ELSE FlashSize(host.image))

OpenPfi ==
  /\ at = "start" /\ ~Kind("libretro") /\ ~host.elf
  /\ IF read_pfi_header(host.image) /\ host.image.flash_size > 0
     THEN /\ m' = PowerOn(Blank(Part), host.gdb)
          /\ at' = "loading"
          /\ UNCHANGED code
     ELSE Exit(1) /\ UNCHANGED m
  /\ UNCHANGED <<host, total, tickVars>>

\* One chunk; a chunk past the end of the part is an exception.
ReadChunk ==
  LET n == ChunkLength(host.image, total) IN
  /\ at = "loading" /\ total < host.image.flash_size /\ n > 0
  /\ IF Fits(m.mem, total, n)
     THEN /\ m' = [m EXCEPT !.mem = load_image(@, total, host.image.bytes, host.image.offset + total, n)]
          /\ total' = total + n
          /\ UNCHANGED <<at, code>>
     ELSE Exit(1) /\ UNCHANGED <<m, total>>
  /\ UNCHANGED <<host, tickVars>>

AtResetVector(machine) == [machine EXCEPT !.regs["pc"] = machine.mem[FLASH_BASE][2]]

EndLoad ==
  /\ at = "loading"
  /\ total >= host.image.flash_size \/ ChunkLength(host.image, total) <= 0
  /\ IF total = 0 THEN Exit(1) /\ UNCHANGED m
     ELSE m' = AtResetVector(m) /\ at' = "boot" /\ UNCHANGED code
  /\ UNCHANGED <<host, total, tickVars>>

LoadPfi == OpenPfi \/ ReadChunk \/ EndLoad

-----------------------------------------------------------------------------
(* Ticks.                                                                  *)

Clamp(x, lo, hi) == IF x < lo THEN lo ELSE IF x > hi THEN hi ELSE x

\* Mutant: the wake point is not looked at.
TimerWake_latest(machine, burst) == machine.cycles + burst.most

\* update_timer_wake, and the end of the libretro core's do_tick
TimerWake(machine, burst) ==
  Clamp(next_wake_cycle(machine), machine.cycles + burst.least, machine.cycles + burst.most)

Lateness(machine, due) == IF due > machine.cycles THEN 0 ELSE machine.cycles - due

\* do_tick.  A sleeping machine's timers wait for the RTC; a timer programmed
\* anew awaits its old event no longer.
do_tick(machine, burst) ==
  LET due == next_wake_cycle(machine) IN
  /\ m' = Ticked(machine)
  /\ next_timer_wake' = TimerWake(Ticked(machine), burst)
  /\ late' = [known |-> IF machine.halt = "slp" \/ due > late.next THEN 0 ELSE Lateness(machine, late.next),
              any |-> IF machine.halt = "slp" THEN 0 ELSE Lateness(machine, due),
              next |-> next_wake_cycle(Ticked(machine))]

-----------------------------------------------------------------------------
(* Property of both hosts that tick in bursts.                             *)

\* Ticking late loses no event: one that the last tick knew of waits at most
\* a shortest burst, one that was programmed since then a longest.  Where a
\* halted CPU's jump is a burst, the jump's burst comes on top.
TicksAreTimely ==
  host.bursts # {} =>
    \E b, c \in host.bursts :
      LET jump == IF Kind("libretro") THEN c.least - 1 ELSE 0 IN
      /\ late.known <= b.least + jump
      /\ late.any <= b.most + jump

BootInit ==
  /\ code = None /\ total = 0
  /\ m = PowerOn(Blank(Parts[1]), FALSE)
  /\ next_timer_wake = 0 /\ stop = 0 /\ late = [known |-> 0, any |-> 0, next |-> RtcPeriod]
=============================================================================
