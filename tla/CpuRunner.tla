----------------------------- MODULE CpuRunner ------------------------------
(***************************************************************************)
(* The CPU thread's loop, CpuRunner::run (src/system/cpu_runner.cpp) in    *)
(* normal mode, with the main thread's three flags and the peripherals'    *)
(* wake points: when peripherals are ticked, buttons polled, frames paced, *)
(* where a halted CPU jumps to, and how a reset is handed over.            *)
(*                                                                         *)
(* The code keeps absolute cycle counts; here every one of them is its     *)
(* distance from total_cycles, so executing c cycles subtracts c from each.*)
(* One T16 channel stands for the timers; the RTC prescaler always runs.   *)
(***************************************************************************)
EXTENDS Integers, FiniteSets

CONSTANTS EVENT_INTERVAL, MIN_TICK_BURST,
          RtcPeriod,    \* cycles between RTC prescaler steps, by clock speed
          TimerPeriods, \* cycles to the timer's next match when it is programmed
          Costs,        \* cycles an instruction takes
          Frame,        \* cycles of a video frame, by clock speed
          Gating,       \* whether the program stops the clock of a running timer
          Requests,     \* reset requests: 1 hot, 2 cold
          Past          \* bound: how far in the past a wake point is distinguished

Speeds == {"slow", "fast"}

ASSUME RunnerAssumption ==
  /\ MIN_TICK_BURST \in Nat \ {0} /\ EVENT_INTERVAL \in Nat /\ MIN_TICK_BURST <= EVENT_INTERVAL
  /\ RtcPeriod \in [Speeds -> Nat \ {0}]
  /\ TimerPeriods \subseteq Nat \ {0}
  /\ Costs \subseteq 1 .. EVENT_INTERVAL /\ Costs # {}
  /\ Frame \in [Speeds -> Nat] /\ \A s \in Speeds : Frame[s] > 2 * EVENT_INTERVAL
  /\ Gating \in BOOLEAN
  /\ Requests \subseteq {1, 2}
  /\ Past \in Nat

VARIABLES
  at,                                \* "outer", "reset", "burst", "tail" or "exit"
  mode,                              \* "run", in_halt as "hlt" or "slp", or "fault"
  next_render, next_event_poll, next_timer_wake, stop,
  speed, bus_div,                    \* the CPU clock, and the clock the bus was told
  rtc,                               \* next_prescaler_cycle_
  prun, clocked, armed, wake,        \* timer: PRUN, its clock, and cached_wake_
  wake_cached,                       \* PiecePeripherals::wake_cached_
  k5, quit,                          \* the port's copy of the buttons; local quit
  buttons, quit_flag, reset_request \* shared with the main thread

eventVars == <<next_render, next_event_poll>>
clockVars == <<speed, bus_div>>
timerVars == <<rtc, prun, clocked, armed, wake, wake_cached>>
mainVars == <<buttons, quit_flag, reset_request>>
vars == <<at, mode, eventVars, next_timer_wake, stop, clockVars, timerVars, k5, quit, mainVars>>

Least(S) == CHOOSE x \in S : \A y \in S : x <= y
Clamp(x, lo, hi) == IF x < lo THEN lo ELSE IF x > hi THEN hi ELSE x

\* A distance after c more cycles (c < 0: total_cycles is set back).
Later(d, c) == IF d - c < -Past THEN -Past ELSE d - c

-----------------------------------------------------------------------------
(* Main thread: the event loop ends when quit_flag is set.                 *)

PressOrRelease ==
  /\ ~quit_flag
  /\ buttons' = ~buttons
  /\ UNCHANGED <<at, mode, eventVars, next_timer_wake, stop, clockVars, timerVars, k5, quit,
                 quit_flag, reset_request>>

AskToQuit ==
  /\ ~quit_flag
  /\ quit_flag' = TRUE
  /\ UNCHANGED <<at, mode, eventVars, next_timer_wake, stop, clockVars, timerVars, k5, quit,
                 buttons, reset_request>>

\* request_reset
AskForReset ==
  /\ ~quit_flag
  /\ \E r \in Requests : reset_request' = r
  /\ UNCHANGED <<at, mode, eventVars, next_timer_wake, stop, clockVars, timerVars, k5, quit,
                 buttons, quit_flag>>

MainStep == PressOrRelease \/ AskToQuit \/ AskForReset

-----------------------------------------------------------------------------
(* Peripherals.                                                            *)

\* PiecePeripherals::next_wake_cycle, recomputed: with a the timer's cached
\* wake point, if it has one.
EarliestWake(r, has, a) == IF has /\ a < r THEN a ELSE r

\* update_timer_wake
TimerWake(w) == Clamp(w, MIN_TICK_BURST, EVENT_INTERVAL)

\* The timer's tick c cycles after now finds a match.
Matches(c) == prun /\ clocked /\ ~(armed /\ wake - c > 0)

\* do_tick, c cycles after now: the RTC catches up; a running, clocked timer
\* that is due requests its interrupt and is due again later.
DoTick(c) ==
  /\ rtc' = IF rtc - c > 0 THEN rtc - c ELSE ((rtc - c - 1) % RtcPeriod[speed]) + 1
  /\ IF Matches(c)
     THEN armed' = TRUE /\ wake' \in TimerPeriods
     ELSE armed' = armed /\ wake' = Later(wake, c)
  /\ wake_cached' = EarliestWake(rtc', armed', wake')
  /\ next_timer_wake' = TimerWake(wake_cached')
  /\ UNCHANGED <<prun, clocked>>

NoTick == UNCHANGED <<timerVars, next_timer_wake>>

\* poll_buttons
PollButtons == k5' = buttons /\ quit' = quit_flag

NoPoll == UNCHANGED <<k5, quit>>

\* The interrupt of a match or of a key may be accepted and end a halt.
MayWake(requested) == mode' \in {mode} \cup (IF requested THEN {"run"} ELSE {})
KeyChanges == k5 # buttons

-----------------------------------------------------------------------------
(* CPU thread: the loops.                                                  *)

\* Mutant: the burst does not stop for the poll.
EnterBurst_pastPoll(m, q, render, poll, tick) ==
  IF m = "run" /\ ~q /\ render > 0
  THEN at' = "burst" /\ stop' = Least({tick, render})
  ELSE at' = "tail" /\ stop' = 0

\* The head of the burst loop: another burst, or on to its tail.
EnterBurst(m, q, render, poll, tick) ==
  IF m = "run" /\ ~q /\ render > 0
  THEN at' = "burst" /\ stop' = Least({tick, poll, render})
  ELSE at' = "tail" /\ stop' = 0

\* The head of the outer loop; reset_request is loaded.
Outer ==
  /\ at = "outer"
  /\ UNCHANGED <<mode, eventVars, next_timer_wake, clockVars, timerVars, k5, quit, buttons,
                 reset_request>>
  /\ IF quit
     THEN at' = "exit" /\ quit_flag' = TRUE /\ UNCHANGED <<stop>>
     ELSE /\ UNCHANGED quit_flag
          /\ IF reset_request # 0
             THEN at' = "reset" /\ UNCHANGED stop
             ELSE EnterBurst(mode, quit, next_render, next_event_poll, next_timer_wake)

\* periph.reset() and cpu.reset(): clocks off, slow oscillator, no wake points
\* but the RTC's, whose next step is set to a cycle of long ago; the anchors
\* are re-seeded, the bus keeps its divisor.
Restart ==
  /\ mode' = "run" /\ speed' = "slow"
  /\ prun' = FALSE /\ clocked' = FALSE /\ armed' = FALSE /\ wake' = 0
  /\ rtc' = -Past /\ wake_cached' = -Past
  /\ k5' = buttons
  /\ next_render' = Frame["slow"] /\ next_event_poll' = EVENT_INTERVAL
  /\ next_timer_wake' = TimerWake(-Past) /\ stop' = 0
  /\ UNCHANGED <<bus_div, quit, buttons, quit_flag>>

\* reset_request is cleared, whatever it holds now, and the machine restarts.
Reset == at = "reset" /\ at' = "outer" /\ reset_request' = 0 /\ Restart

\* Mutant: only halts tick.
Boundary_noTick ==
  /\ at = "burst" /\ ~(mode = "run" /\ stop > 0) /\ mode # "fault"
  /\ NoTick
  /\ LET polls == next_event_poll <= 0
     IN /\ IF polls THEN PollButtons /\ next_event_poll' = EVENT_INTERVAL
           ELSE NoPoll /\ UNCHANGED next_event_poll
        /\ MayWake(polls /\ KeyChanges)
  /\ EnterBurst(mode', quit', next_render, next_event_poll', next_timer_wake')
  /\ UNCHANGED <<next_render, clockVars, mainVars>>

\* After the inner loop: tick and poll what is due, then the loop's head.
Boundary ==
  /\ at = "burst" /\ ~(mode = "run" /\ stop > 0) /\ mode # "fault"
  /\ LET ticks == next_timer_wake <= 0
         polls == next_event_poll <= 0
     IN /\ IF ticks THEN DoTick(0) ELSE NoTick
        /\ IF polls THEN PollButtons /\ next_event_poll' = EVENT_INTERVAL
           ELSE NoPoll /\ UNCHANGED next_event_poll
        /\ MayWake((ticks /\ Matches(0)) \/ (polls /\ KeyChanges))
  /\ EnterBurst(mode', quit', next_render, next_event_poll', next_timer_wake')
  /\ UNCHANGED <<next_render, clockVars, mainVars>>

\* A frame that is over is paced.
NextFrame(render) == next_render' = IF render <= 0 THEN render + Frame[speed] ELSE render

\* The burst ended with the frame.
FrameTail ==
  /\ at = "tail" /\ mode = "run" /\ ~quit
  /\ at' = "outer"
  /\ NextFrame(next_render)
  /\ UNCHANGED <<mode, next_event_poll, next_timer_wake, stop, clockVars, timerVars, k5, quit,
                 mainVars>>

\* Where a halted CPU's clock is set to.
Wake == IF mode = "slp" THEN rtc ELSE wake_cached

Target == Least({Wake, next_render, next_event_poll})

\* Mutant: the poll is left out.
HaltTail_noPoll ==
  /\ at = "tail" /\ mode \in {"hlt", "slp"} /\ ~quit
  /\ at' = "outer"
  /\ DoTick(Target)
  /\ next_event_poll' = next_event_poll - Target /\ NoPoll
  /\ MayWake(Matches(Target))
  /\ NextFrame(next_render - Target)
  /\ UNCHANGED <<stop, clockVars, mainVars>>

\* A halted CPU jumps, ticks and polls.
HaltTail ==
  /\ at = "tail" /\ mode \in {"hlt", "slp"} /\ ~quit
  /\ at' = "outer"
  /\ DoTick(Target)
  /\ IF next_event_poll <= Target
     THEN PollButtons /\ next_event_poll' = EVENT_INTERVAL
     ELSE NoPoll /\ next_event_poll' = next_event_poll - Target
  /\ MayWake(Matches(Target) \/ (next_event_poll <= Target /\ KeyChanges))
  /\ NextFrame(next_render - Target)
  /\ UNCHANGED <<stop, clockVars, mainVars>>

\* Quit was polled in the burst, or the CPU is stuck in a fault.
Leave ==
  /\ (at = "tail" /\ quit) \/ (at = "burst" /\ mode = "fault")
  /\ at' = "exit" /\ quit_flag' = TRUE
  /\ UNCHANGED <<mode, eventVars, next_timer_wake, stop, clockVars, timerVars, k5, quit, buttons,
                 reset_request>>

-----------------------------------------------------------------------------
(* CPU thread: an instruction of c cycles in the inner loop, which executes *)
(* while neither halted nor at the stop.                                    *)

Execute(c) ==
  /\ at = "burst" /\ mode = "run" /\ stop > 0
  /\ stop' = stop - c /\ next_event_poll' = next_event_poll - c
  /\ rtc' = Later(rtc, c) /\ wake_cached' = Later(wake_cached, c)
  /\ UNCHANGED <<at, k5, quit, mainVars>>

\* It may halt, or fault.
Plain(c) ==
  /\ Execute(c)
  /\ next_render' = next_render - c /\ next_timer_wake' = next_timer_wake - c
  /\ wake' = Later(wake, c)
  /\ mode' \in {"run", "hlt", "slp", "fault"}
  /\ UNCHANGED <<clockVars, prun, clocked, armed>>

\* A write to the timer's registers recomputes the channel's wake point only.
\* A timer that was stopped counts from its old next_tick_cycle_.
WriteTimer(c) ==
  /\ Execute(c)
  /\ next_render' = next_render - c /\ next_timer_wake' = next_timer_wake - c
  /\ prun' \in BOOLEAN /\ armed' = (prun' /\ clocked)
  /\ wake' \in IF armed' THEN TimerPeriods \cup {-Past} ELSE {0}
  /\ UNCHANGED <<mode, clockVars, clocked>>

\* A write to CLKCTL recomputes no wake point.
WriteClkctl(c) ==
  /\ Execute(c)
  /\ next_render' = next_render - c /\ next_timer_wake' = next_timer_wake - c
  /\ wake' = Later(wake, c)
  /\ clocked' \in BOOLEAN
  /\ prun /\ clocked /\ ~clocked' => Gating
  /\ UNCHANGED <<mode, clockVars, prun, armed>>

\* A write to the clock registers: on_clock_change, before the instruction's
\* cycles are added.
ChangeSpeed(c) ==
  /\ Execute(c)
  /\ speed' \in Speeds /\ bus_div' = speed'
  /\ next_render' = Frame[speed'] - c
  /\ next_timer_wake' = TimerWake(wake_cached) - c
  /\ wake' = Later(wake, c)
  /\ UNCHANGED <<mode, prun, clocked, armed>>

Instruction(c) == Plain(c) \/ WriteTimer(c) \/ WriteClkctl(c) \/ ChangeSpeed(c)

CpuStep ==
  \/ Outer \/ Reset \/ Boundary \/ FrameTail \/ HaltTail \/ Leave
  \/ \E c \in Costs : Instruction(c)

Init ==
  /\ at = "outer" /\ mode = "run"
  /\ next_render = Frame["slow"] /\ next_event_poll = EVENT_INTERVAL
  /\ speed = "slow" /\ bus_div = "slow"
  /\ rtc = RtcPeriod["slow"]
  /\ prun = FALSE /\ clocked = FALSE /\ armed = FALSE /\ wake = 0
  /\ wake_cached = rtc /\ next_timer_wake = TimerWake(rtc) /\ stop = 0
  /\ k5 = FALSE /\ quit = FALSE /\ buttons = FALSE /\ quit_flag = FALSE
  /\ reset_request = 0

Next == MainStep \/ CpuStep

\* The CPU thread is scheduled; the main thread need not do anything.
Spec == Init /\ [][Next]_vars /\ WF_vars(CpuStep)

-----------------------------------------------------------------------------
(* Properties.                                                             *)

TypeOK ==
  /\ at \in {"outer", "reset", "burst", "tail", "exit"}
  /\ mode \in {"run", "hlt", "slp", "fault"}
  /\ next_render \in Int /\ next_event_poll \in Int /\ stop \in Int
  /\ next_timer_wake \in Int /\ next_timer_wake <= EVENT_INTERVAL
  /\ speed \in Speeds /\ bus_div \in Speeds
  /\ rtc \in Int /\ wake \in Int /\ wake_cached \in Int
  /\ prun \in BOOLEAN /\ clocked \in BOOLEAN /\ armed \in BOOLEAN
  /\ k5 \in BOOLEAN /\ quit \in BOOLEAN /\ buttons \in BOOLEAN /\ quit_flag \in BOOLEAN
  /\ reset_request \in {0} \cup Requests

\* A burst runs to a stop that was computed before its instructions, a clock
\* change among them, moved the deadlines; all the same it passes neither the
\* next poll nor the end of the frame by as much as one instruction.
EventsOnTime ==
  \E c \in Costs : next_event_poll > -c /\ next_render > -c

\* cpu_runner.cpp: poll_buttons() is what "we guarantee to run at least every
\* EVENT_INTERVAL cycles", also in a halt: what the main thread publishes
\* reaches the key port.
ButtonsArePolled ==
  \A b \in BOOLEAN : (buttons = b) ~> (k5 = b \/ buttons # b \/ at = "exit")

\* A program that for ever changes the clock before the frame is over puts the
\* outer loop and the ticks off for ever.
ClockSettles == <>[][\A c \in Costs : ~ChangeSpeed(c)]_vars

\* A timer that is due is ticked, however its registers were written since the
\* deadline of the next tick was computed.
Due == prun /\ clocked /\ armed /\ wake <= 0
DueTimersFire == ClockSettles => (Due ~> (~Due \/ at = "exit"))
=============================================================================
