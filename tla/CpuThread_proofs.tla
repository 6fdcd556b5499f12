--------------------------- MODULE CpuThread_proofs ---------------------------
(***************************************************************************)
(* Proofs about the CPU thread.                                            *)
(*                                                                         *)
(* CpuRunner: for any intervals, instruction costs and frame lengths that  *)
(* keep the order of the real ones, a burst passes neither the next poll   *)
(* nor the end of the frame by a whole instruction, whatever the program   *)
(* and the main thread do.                                                 *)
(*                                                                         *)
(* GdbAsync: safety of the debugger handshake for any number of run        *)
(* commands.  The invariant follows a command from async_run_cmd_ through  *)
(* the CPU thread to the reply: it is in exactly one of these places while *)
(* the RSP thread is inside run().                                         *)
(***************************************************************************)
EXTENDS CpuRunner, GdbAsync, TLAPS

-----------------------------------------------------------------------------
(* The pace of CpuRunner::run.                                             *)


\* While a burst runs, its stop is before every deadline it was computed from,
\* and before any a clock change can set.
StopIsBeforeEvents ==
  at = "burst" => stop <= next_event_poll /\ stop <= next_render /\ stop <= EVENT_INTERVAL

IndInv ==
  /\ TypeOK
  /\ EventsOnTime
  /\ StopIsBeforeEvents
-----------------------------------------------------------------------------
\* Least of three integers, as the pairwise std::min computes it.
LEMMA LeastOfThree ==
  ASSUME NEW a \in Int, NEW b \in Int, NEW c \in Int
  PROVE  LET m == Least({a, b, c})
         IN m \in {a, b, c} /\ m \in Int /\ m <= a /\ m <= b /\ m <= c
<1>1. \E x \in {a, b, c} : \A y \in {a, b, c} : x <= y
  <2>1. CASE a <= b /\ a <= c
    BY <2>1
  <2>2. CASE b <= a /\ b <= c
    BY <2>2
  <2>3. CASE c <= a /\ c <= b
    BY <2>3
  <2>4. QED
    BY <2>1, <2>2, <2>3
<1>2. QED
  BY <1>1 DEF Least

\* update_timer_wake never schedules a tick beyond EVENT_INTERVAL.
LEMMA TimerWakeBound ==
  ASSUME NEW w \in Int
  PROVE  TimerWake(w) \in Int /\ TimerWake(w) <= EVENT_INTERVAL
BY RunnerAssumption DEF TimerWake, Clamp

LEMMA LaterType ==
  ASSUME NEW d \in Int, NEW c \in Int
  PROVE  Later(d, c) \in Int
BY RunnerAssumption DEF Later

\* do_tick keeps the timers' types and re-arms its own deadline.
LEMMA DoTickType ==
  ASSUME TypeOK, NEW c \in Int, DoTick(c)
  PROVE  /\ rtc' \in Int /\ wake' \in Int /\ wake_cached' \in Int
         /\ prun' \in BOOLEAN /\ clocked' \in BOOLEAN /\ armed' \in BOOLEAN
         /\ next_timer_wake' \in Int /\ next_timer_wake' <= EVENT_INTERVAL
<1>1. rtc' \in Int
  BY RunnerAssumption DEF DoTick, TypeOK
<1>2. wake' \in Int /\ armed' \in BOOLEAN
  <2>1. CASE Matches(c)
    <3>1. armed' = TRUE /\ wake' \in TimerPeriods
      BY <2>1 DEF DoTick
    <3>2. TimerPeriods \subseteq Int
      BY RunnerAssumption
    <3>3. QED
      BY <3>1, <3>2
  <2>2. CASE ~Matches(c)
    <3>1. wake' = Later(wake, c) /\ armed' = armed
      BY <2>2 DEF DoTick
    <3>2. QED
      BY <3>1, LaterType DEF TypeOK
  <2>3. QED
    BY <2>1, <2>2
<1>3. wake_cached' \in Int
  BY <1>1, <1>2 DEF DoTick, EarliestWake
<1>4. next_timer_wake' \in Int /\ next_timer_wake' <= EVENT_INTERVAL
  BY <1>3, TimerWakeBound DEF DoTick
<1>5. prun' \in BOOLEAN /\ clocked' \in BOOLEAN
  BY DEF DoTick, TypeOK
<1>6. QED
  BY <1>1, <1>2, <1>3, <1>4, <1>5

\* Entering a burst establishes StopIsBeforeEvents.
LEMMA EnterBurstStop ==
  ASSUME NEW m, NEW q, NEW render \in Int, NEW poll \in Int, NEW tick \in Int,
         tick <= EVENT_INTERVAL, EnterBurst(m, q, render, poll, tick)
  PROVE  /\ at' \in {"burst", "tail"} /\ stop' \in Int
         /\ at' = "burst" => stop' <= poll /\ stop' <= render /\ stop' <= EVENT_INTERVAL
<1>1. EVENT_INTERVAL \in Int
  BY RunnerAssumption
<1>2. CASE at' = "burst"
  <2>1. stop' = Least({tick, poll, render})
    BY <1>2 DEF EnterBurst
  <2>2. QED
    BY <1>1, <1>2, <2>1, LeastOfThree
<1>3. CASE at' # "burst"
  BY <1>3 DEF EnterBurst
<1>4. QED
  BY <1>2, <1>3

\* Every cost is an integer between 1 and EVENT_INTERVAL, and there is one.
LEMMA CostFacts ==
  /\ \A c \in Costs : c \in Int /\ c >= 1 /\ c <= EVENT_INTERVAL
  /\ \E c \in Costs : TRUE
  /\ EVENT_INTERVAL \in Int /\ EVENT_INTERVAL >= 1
<1>1. EVENT_INTERVAL \in Int /\ Costs \subseteq 1 .. EVENT_INTERVAL
  BY RunnerAssumption
<1>2. \A c \in Costs : c \in Int /\ c >= 1 /\ c <= EVENT_INTERVAL
  BY <1>1
<1>3. PICK c \in Costs : TRUE
  BY RunnerAssumption
<1>4. QED
  BY <1>1, <1>2, <1>3

LEMMA InstructionStep ==
  ASSUME IndInv, NEW c \in Costs, Instruction(c)
  PROVE  IndInv'
<1> USE CostFacts
<1>1. Execute(c)
  BY DEF Instruction, Plain, WriteTimer, WriteClkctl, ChangeSpeed
<1>2. at = "burst" /\ at' = "burst" /\ stop > 0 /\ stop' = stop - c
      /\ next_event_poll' = next_event_poll - c
  BY <1>1 DEF Execute
<1>3. rtc' \in Int /\ wake_cached' \in Int
  BY <1>1, LaterType DEF Execute, IndInv, TypeOK
<1>4. UNCHANGED <<k5, quit, buttons, quit_flag, reset_request>>
  BY <1>1 DEF Execute, mainVars
<1>5. wake' \in Int
  <2>1. CASE WriteTimer(c)
    <3>1. TimerPeriods \cup {-Past} \subseteq Int
      BY RunnerAssumption
    <3>2. QED
      BY <2>1, <3>1 DEF WriteTimer
  <2>2. CASE Plain(c) \/ WriteClkctl(c) \/ ChangeSpeed(c)
    <3>1. wake' = Later(wake, c)
      BY <2>2 DEF Plain, WriteClkctl, ChangeSpeed
    <3>2. QED
      BY <3>1, LaterType DEF IndInv, TypeOK
  <2>3. QED
    BY <2>1, <2>2 DEF Instruction
<1>6. /\ mode' \in {"run", "hlt", "slp", "fault"}
      /\ speed' \in Speeds /\ bus_div' \in Speeds
  BY DEF Instruction, Plain, WriteTimer, WriteClkctl, ChangeSpeed, clockVars, IndInv, TypeOK
<1>7. prun' \in BOOLEAN /\ clocked' \in BOOLEAN /\ armed' \in BOOLEAN
  <2>1. CASE WriteTimer(c)
    BY <2>1 DEF WriteTimer, IndInv, TypeOK
  <2>2. CASE Plain(c) \/ WriteClkctl(c) \/ ChangeSpeed(c)
    BY <2>2 DEF Plain, WriteClkctl, ChangeSpeed, IndInv, TypeOK
  <2>3. QED
    BY <2>1, <2>2 DEF Instruction
<1>8. next_render' \in Int /\ next_timer_wake' \in Int /\ next_timer_wake' <= EVENT_INTERVAL
      /\ next_render' >= stop'
  <2>1. CASE ChangeSpeed(c)
    <3>1. next_render' = Frame[speed'] - c /\ next_timer_wake' = TimerWake(wake_cached) - c
          /\ speed' \in Speeds
      BY <2>1 DEF ChangeSpeed
    <3>2. Frame[speed'] \in Int /\ Frame[speed'] > EVENT_INTERVAL
      BY <3>1, RunnerAssumption
    <3>3. TimerWake(wake_cached) \in Int /\ TimerWake(wake_cached) <= EVENT_INTERVAL
      BY TimerWakeBound DEF IndInv, TypeOK
    <3>4. stop \in Int /\ stop <= EVENT_INTERVAL
      BY <1>2 DEF IndInv, TypeOK, StopIsBeforeEvents
    <3>5. QED
      BY <1>2, <3>1, <3>2, <3>3, <3>4
  <2>2. CASE Plain(c) \/ WriteTimer(c) \/ WriteClkctl(c)
    <3>1. next_render' = next_render - c /\ next_timer_wake' = next_timer_wake - c
      BY <2>2 DEF Plain, WriteTimer, WriteClkctl
    <3>2. QED
      BY <1>2, <3>1 DEF IndInv, TypeOK, StopIsBeforeEvents
  <2>3. QED
    BY <2>1, <2>2 DEF Instruction
<1>9. stop' \in Int /\ next_event_poll' \in Int /\ stop' <= next_event_poll'
      /\ stop' <= EVENT_INTERVAL /\ stop' > -c
  BY <1>2 DEF IndInv, TypeOK, StopIsBeforeEvents
<1>10. EventsOnTime'
  <2>1. next_event_poll' > -c /\ next_render' > -c
    BY <1>8, <1>9
  <2>2. QED
    BY <2>1 DEF EventsOnTime
<1>11. TypeOK'
  <2>1. reset_request' \in {0} \cup Requests /\ k5' \in BOOLEAN /\ quit' \in BOOLEAN
        /\ buttons' \in BOOLEAN /\ quit_flag' \in BOOLEAN
    BY <1>4 DEF IndInv, TypeOK
  <2>2. QED
    BY <1>2, <1>3, <1>5, <1>6, <1>7, <1>8, <1>9, <2>1 DEF TypeOK
<1>12. QED
  BY <1>8, <1>9, <1>10, <1>11 DEF IndInv, StopIsBeforeEvents

\* What poll_buttons and the next-poll update do at the two places they occur.
LEMMA BoundaryStep ==
  ASSUME IndInv, Boundary
  PROVE  IndInv'
<1> USE CostFacts
<1>1. /\ rtc' \in Int /\ wake' \in Int /\ wake_cached' \in Int
      /\ prun' \in BOOLEAN /\ clocked' \in BOOLEAN /\ armed' \in BOOLEAN
      /\ next_timer_wake' \in Int /\ next_timer_wake' <= EVENT_INTERVAL
  <2>1. CASE DoTick(0)
    BY <2>1, DoTickType DEF IndInv
  <2>2. CASE NoTick
    BY <2>2 DEF NoTick, timerVars, IndInv, TypeOK
  <2>3. QED
    BY <2>1, <2>2 DEF Boundary
<1>2. /\ next_event_poll' \in Int /\ next_event_poll' > 0
      /\ k5' \in BOOLEAN /\ quit' \in BOOLEAN
  BY DEF Boundary, PollButtons, NoPoll, IndInv, TypeOK
<1>3. mode' \in {"run", "hlt", "slp", "fault"}
  <2>1. \E r \in BOOLEAN : MayWake(r)
    BY DEF Boundary
  <2>2. QED
    BY <2>1 DEF MayWake, IndInv, TypeOK
<1>4. next_render' = next_render /\ next_render \in Int
      /\ UNCHANGED <<speed, bus_div, buttons, quit_flag, reset_request>>
  BY DEF Boundary, clockVars, mainVars, IndInv, TypeOK
<1>5. EnterBurst(mode', quit', next_render, next_event_poll', next_timer_wake')
  BY DEF Boundary
<1>6. at' \in {"burst", "tail"} /\ stop' \in Int
      /\ (at' = "burst" => stop' <= next_event_poll' /\ stop' <= next_render
                           /\ stop' <= EVENT_INTERVAL)
  BY <1>1, <1>2, <1>4, <1>5, EnterBurstStop
<1>7. EventsOnTime'
  <2>1. PICK c \in Costs : next_event_poll > -c /\ next_render > -c
    BY DEF IndInv, EventsOnTime
  <2>2. next_event_poll' > -c /\ next_render' > -c
    BY <1>2, <1>4, <2>1
  <2>3. QED
    BY <2>2 DEF EventsOnTime
<1>8. QED
  BY <1>1, <1>2, <1>3, <1>4, <1>6, <1>7 DEF IndInv, TypeOK, StopIsBeforeEvents

LEMMA NextFrameBound ==
  ASSUME NEW render \in Int, \E c \in Costs : render > -c, speed \in Speeds, NextFrame(render)
  PROVE  next_render' \in Int /\ next_render' > 0
<1>1. Frame[speed] \in Int /\ Frame[speed] > EVENT_INTERVAL
  BY RunnerAssumption
<1>2. QED
  BY <1>1, CostFacts DEF NextFrame

LEMMA HaltTailStep ==
  ASSUME IndInv, HaltTail
  PROVE  IndInv'
<1> USE CostFacts
<1>1. Wake \in Int
  BY DEF Wake, IndInv, TypeOK
<1>2. Target \in Int /\ Target <= next_render /\ Target <= next_event_poll
  BY <1>1, LeastOfThree DEF Target, IndInv, TypeOK
<1>3. /\ rtc' \in Int /\ wake' \in Int /\ wake_cached' \in Int
      /\ prun' \in BOOLEAN /\ clocked' \in BOOLEAN /\ armed' \in BOOLEAN
      /\ next_timer_wake' \in Int /\ next_timer_wake' <= EVENT_INTERVAL
  BY <1>2, DoTickType DEF HaltTail, IndInv
<1>4. /\ next_event_poll' \in Int /\ next_event_poll' > 0
      /\ k5' \in BOOLEAN /\ quit' \in BOOLEAN
  BY <1>2 DEF HaltTail, PollButtons, NoPoll, IndInv, TypeOK
<1>5. mode' \in {"run", "hlt", "slp", "fault"}
  <2>1. \E r \in BOOLEAN : MayWake(r)
    BY DEF HaltTail
  <2>2. QED
    BY <2>1 DEF MayWake, IndInv, TypeOK
<1>6. next_render' \in Int /\ next_render' > 0
  <2>1. next_render - Target \in Int /\ next_render - Target >= 0
    BY <1>2 DEF IndInv, TypeOK
  <2>2. \E c \in Costs : next_render - Target > -c
    BY <2>1
  <2>3. NextFrame(next_render - Target) /\ speed \in Speeds
    BY DEF HaltTail, IndInv, TypeOK
  <2>4. QED
    BY <2>1, <2>2, <2>3, NextFrameBound
<1>7. at' = "outer" /\ UNCHANGED <<stop, speed, bus_div, buttons, quit_flag, reset_request>>
  BY DEF HaltTail, clockVars, mainVars
<1>8. EventsOnTime'
  BY <1>4, <1>6 DEF EventsOnTime
<1>9. QED
  BY <1>3, <1>4, <1>5, <1>6, <1>7, <1>8 DEF IndInv, TypeOK, StopIsBeforeEvents

\* The outer loop, the paced frame and the reset, and the main thread's flags.
LEMMA NextStep == IndInv /\ [Next]_vars => IndInv'
<1> SUFFICES ASSUME IndInv, [Next]_vars PROVE IndInv'
  OBVIOUS
<1> USE CostFacts
<1>1. CASE MainStep
  <2>1. UNCHANGED <<at, mode, eventVars, next_timer_wake, stop, clockVars, timerVars, k5, quit>>
    BY <1>1 DEF MainStep, PressOrRelease, AskToQuit, AskForReset
  <2>2. buttons' \in BOOLEAN
    BY <1>1 DEF MainStep, PressOrRelease, AskToQuit, AskForReset, IndInv, TypeOK
  <2>3. quit_flag' \in BOOLEAN
    BY <1>1 DEF MainStep, PressOrRelease, AskToQuit, AskForReset, IndInv, TypeOK
  <2>4. reset_request' \in {0} \cup Requests
    BY <1>1 DEF MainStep, PressOrRelease, AskToQuit, AskForReset, IndInv, TypeOK
  <2>5. QED
    BY <2>1, <2>2, <2>3, <2>4 DEF IndInv, TypeOK, EventsOnTime, StopIsBeforeEvents,
       eventVars, clockVars, timerVars
<1>2. CASE Outer
  <2>1. /\ UNCHANGED <<mode, next_render, next_event_poll, next_timer_wake, speed, bus_div, rtc,
                      prun, clocked, armed, wake, wake_cached, k5, quit, buttons, reset_request>>
        /\ quit_flag' \in BOOLEAN
    BY <1>2 DEF Outer, eventVars, clockVars, timerVars, IndInv, TypeOK
  <2>2. CASE EnterBurst(mode, quit, next_render, next_event_poll, next_timer_wake)
    <3>1. at' \in {"burst", "tail"} /\ stop' \in Int
          /\ (at' = "burst" => stop' <= next_event_poll /\ stop' <= next_render
                               /\ stop' <= EVENT_INTERVAL)
      BY <2>2, EnterBurstStop DEF IndInv, TypeOK
    <3>2. QED
      BY <2>1, <3>1 DEF IndInv, TypeOK, EventsOnTime, StopIsBeforeEvents
  <2>3. CASE at' \in {"exit", "reset"} /\ stop' = stop
    BY <2>1, <2>3 DEF IndInv, TypeOK, EventsOnTime, StopIsBeforeEvents
  <2>4. QED
    BY <1>2, <2>2, <2>3 DEF Outer
<1>3. CASE Reset
  <2>1. TimerWake(-Past) \in Int /\ TimerWake(-Past) <= EVENT_INTERVAL /\ -Past \in Int
    BY TimerWakeBound, RunnerAssumption
  <2>2. Frame["slow"] \in Int /\ Frame["slow"] > 0 /\ "slow" \in Speeds
    BY RunnerAssumption DEF Speeds
  <2>3. /\ at' = "outer" /\ mode' = "run" /\ speed' = "slow" /\ stop' = 0
        /\ prun' = FALSE /\ clocked' = FALSE /\ armed' = FALSE /\ wake' = 0
        /\ rtc' = -Past /\ wake_cached' = -Past /\ reset_request' = 0
        /\ k5' = buttons /\ next_render' = Frame["slow"]
        /\ next_event_poll' = EVENT_INTERVAL /\ next_timer_wake' = TimerWake(-Past)
        /\ UNCHANGED <<bus_div, quit, buttons, quit_flag>>
    BY <1>3 DEF Reset, Restart
  <2>4. TypeOK'
    <3>1. EVENT_INTERVAL \in Int /\ 0 \in {0} \cup Requests
      OBVIOUS
    <3>2. k5' \in BOOLEAN /\ prun' \in BOOLEAN /\ clocked' \in BOOLEAN /\ armed' \in BOOLEAN
      BY <2>3 DEF IndInv, TypeOK
    <3>3. bus_div' \in Speeds /\ quit' \in BOOLEAN /\ buttons' \in BOOLEAN
          /\ quit_flag' \in BOOLEAN
      BY <2>3 DEF IndInv, TypeOK
    <3>4. QED
      BY <2>1, <2>2, <2>3, <3>1, <3>2, <3>3 DEF TypeOK
  <2>5. EventsOnTime'
    BY <2>2, <2>3 DEF EventsOnTime
  <2>6. QED
    BY <2>3, <2>4, <2>5 DEF IndInv, StopIsBeforeEvents
<1>4. CASE Boundary
  BY <1>4, BoundaryStep
<1>5. CASE FrameTail
  <2>1. next_render' \in Int /\ next_render' > 0
    BY <1>5, NextFrameBound DEF FrameTail, IndInv, TypeOK, EventsOnTime
  <2>2. at' = "outer" /\ UNCHANGED <<mode, next_event_poll, next_timer_wake, stop, speed, bus_div,
          rtc, prun, clocked, armed, wake, wake_cached, k5, quit, buttons, quit_flag,
          reset_request>>
    BY <1>5 DEF FrameTail, clockVars, timerVars, mainVars
  <2>3. QED
    BY <2>1, <2>2 DEF IndInv, TypeOK, EventsOnTime, StopIsBeforeEvents
<1>6. CASE HaltTail
  BY <1>6, HaltTailStep
<1>7. CASE Leave
  BY <1>7 DEF Leave, IndInv, TypeOK, EventsOnTime, StopIsBeforeEvents, eventVars, clockVars,
     timerVars
<1>8. CASE \E c \in Costs : Instruction(c)
  BY <1>8, InstructionStep
<1>9. CASE UNCHANGED vars
  BY <1>9 DEF vars, IndInv, TypeOK, EventsOnTime, StopIsBeforeEvents, eventVars, clockVars,
     timerVars, mainVars
<1>10. QED
  BY <1>1, <1>2, <1>3, <1>4, <1>5, <1>6, <1>7, <1>8, <1>9 DEF Next, CpuStep

LEMMA InitInv == Init => IndInv
<1> SUFFICES ASSUME Init PROVE IndInv
  OBVIOUS
<1>1. "slow" \in Speeds
  BY DEF Speeds
<1>2. rtc \in Int /\ next_render \in Int /\ next_render > 0
  BY <1>1, RunnerAssumption DEF Init
<1>3. next_timer_wake \in Int /\ next_timer_wake <= EVENT_INTERVAL
  BY <1>2, TimerWakeBound DEF Init
<1>4. TypeOK
  <2>1. next_event_poll \in Int /\ wake_cached \in Int /\ stop \in Int /\ wake \in Int
    BY <1>2, CostFacts DEF Init
  <2>2. /\ prun \in BOOLEAN /\ clocked \in BOOLEAN /\ armed \in BOOLEAN /\ k5 \in BOOLEAN
        /\ quit \in BOOLEAN /\ buttons \in BOOLEAN /\ quit_flag \in BOOLEAN
    BY DEF Init
  <2>3. /\ at \in {"outer"} /\ mode \in {"run"} /\ reset_request \in {0} \cup Requests
        /\ speed \in Speeds /\ bus_div \in Speeds
    BY <1>1 DEF Init
  <2>4. QED
    BY <1>2, <1>3, <2>1, <2>2, <2>3 DEF TypeOK
<1>5. EventsOnTime
  BY <1>2, CostFacts DEF Init, EventsOnTime
<1>6. QED
  BY <1>4, <1>5 DEF Init, IndInv, StopIsBeforeEvents

LEMMA InvariantHolds == Spec => []IndInv
  BY InitInv, NextStep, PTL DEF Spec

\* Type correctness; the next tick is never further away than EVENT_INTERVAL.
THEOREM TypeCorrect == Spec => []TypeOK
<1>1. IndInv => TypeOK
  BY DEF IndInv
<1>2. QED
  BY <1>1, InvariantHolds, PTL

\* No burst passes the next poll or the end of the frame by an instruction.
THEOREM BurstsStopInTime == Spec => []EventsOnTime
<1>1. IndInv => EventsOnTime
  BY DEF IndInv
<1>2. QED
  BY <1>1, InvariantHolds, PTL

-----------------------------------------------------------------------------
(* The handshake with the debugger.                                        *)


InRun == rsp \in {"stored", "waiting"}

\* A command is pending, taken or answered, and only inside run().
Handshake ==
  /\ cmd # 0 => InRun /\ ~Debugging /\ asked = runs + 1
  /\ cmd = 0 => asked = runs
  /\ Debugging => InRun
  /\ (rsp = "waiting" /\ stopped) => cmd = 0 /\ ~Debugging /\ reply = asked

\* The client is announced before the outer loop can see it and no burst
\* starts while it is.
Attachment ==
  /\ rsp = "accept" => ~active /\ ~attached
  /\ (InRun \/ rsp \in {"setup", "recv", "access"}) => active
  /\ (active /\ attached) => cpu # "burst"

StubInv == StubTypeOK /\ Handshake /\ Attachment

LEMMA StubInitInv == StubInit => StubInv
<1>1. StubInit => StubTypeOK
  <2> SUFFICES ASSUME StubInit PROVE StubTypeOK
    OBVIOUS
  <2>1. active \in BOOLEAN /\ stopped \in BOOLEAN /\ in_halt \in BOOLEAN /\ attached \in BOOLEAN
    BY DEF StubInit
  <2>2. socket \in Seq(Packets) /\ cmd \in {0} \cup RunCommands
    BY DEF StubInit
  <2>3. asked \in Nat /\ runs \in Nat /\ reply \in Nat /\ over \in BOOLEAN
        /\ host \subseteq {"reset", "quit"}
    BY DEF StubInit
  <2> QED BY <2>1, <2>2, <2>3 DEF StubInit, StubTypeOK
<1>2. StubInit => Handshake /\ Attachment
  BY DEF StubInit, Handshake, Attachment, InRun, Debugging
<1> QED BY <1>1, <1>2 DEF StubInv

\* Sending appends to the socket and touches nothing else but the belief.
LEMMA SendStep ==
  ASSUME StubInv, ClientStep
  PROVE  StubInv'
<1>1. UNCHANGED <<rsp, active, cmd, stopped, reply, in_halt, cpu, over, host, asked, runs,
                 attached>>
  BY DEF ClientStep, Connect, SendAccess, SendRun, SendInterrupt, Disconnect, Send,
     runVars, histVars, loopVars
<1>2. client' \in {"away", "stopped", "asking", "running", "gone"}
  BY DEF ClientStep, Connect, SendAccess, SendRun, SendInterrupt, Disconnect, Send
<1>3. socket' \in Seq(Packets)
  <2>1. socket' = socket \/ \E p \in Packets : socket' = Append(socket, p)
    BY DEF ClientStep, Connect, SendAccess, SendRun, SendInterrupt, Disconnect, Send, Packets
  <2> QED BY <2>1 DEF StubInv, StubTypeOK
<1> QED BY <1>1, <1>2, <1>3 DEF StubInv, StubTypeOK, Handshake, Attachment, InRun, Debugging

\* Asking for a reset or to quit.
LEMMA HostAsksStep ==
  ASSUME StubInv, HostAsks
  PROVE  StubInv'
<1>1. UNCHANGED <<client, socket, rsp, active, cmd, stopped, reply, in_halt, cpu, over, asked,
                 runs, attached>>
  BY DEF HostAsks, clientVars, runVars, histVars
<1>2. host' \subseteq {"reset", "quit"}
  BY DEF HostAsks, StubInv, StubTypeOK
<1> QED BY <1>1, <1>2 DEF StubInv, StubTypeOK, Handshake, Attachment, InRun, Debugging

LEMMA RspStepInv ==
  ASSUME StubInv, RspStep
  PROVE  StubInv'
<1>1. socket' \in Seq(Packets) /\ client' \in {"away", "stopped", "asking", "running", "gone"}
  <2>1. socket' = socket \/ (socket # << >> /\ socket' = Tail(socket))
    BY DEF RspStep, Accept, SetUp, BeginAccess, EndAccess, StoreCmd, Await, WakeRun,
       Interrupt, TearDown, Finish, Receive, clientVars
  <2>2. client' = client \/ client' = "stopped"
    BY DEF RspStep, Accept, SetUp, BeginAccess, EndAccess, StoreCmd, Await, WakeRun,
       Interrupt, TearDown, Finish, Believes, clientVars
  <2> QED BY <2>1, <2>2 DEF StubInv, StubTypeOK
<1> USE DEF StubInv, StubTypeOK, Handshake, Attachment, InRun, Debugging, RunCommands,
            runVars, loopVars, histVars, Receive, STEP, CONTINUE
<1>2. CASE Accept
  <2>1. rsp = "accept" /\ rsp' = "setup" /\ active' = TRUE
    BY <1>2 DEF Accept
  <2>2. UNCHANGED <<cmd, stopped, reply, in_halt, cpu, over, host, asked, runs, attached>>
    BY <1>2 DEF Accept
  <2>3. ~InRun /\ ~InRun' /\ ~attached
    BY <2>1
  <2> QED BY <1>1, <2>1, <2>2, <2>3
<1>3. CASE SetUp \/ BeginAccess \/ EndAccess
  <2>1. rsp \in {"setup", "recv", "access"} /\ rsp' \in {"recv", "access"}
    BY <1>3 DEF SetUp, BeginAccess, EndAccess
  <2>2. UNCHANGED <<active, cmd, stopped, reply, in_halt, cpu, over, host, asked, runs, attached>>
    BY <1>3 DEF SetUp, BeginAccess, EndAccess
  <2>3. ~InRun /\ ~InRun'
    BY <2>1
  <2> QED BY <1>1, <2>1, <2>2, <2>3
<1>4. CASE \E c \in RunCommands : StoreCmd(c)
  BY <1>1, <1>4 DEF StoreCmd
<1>5. CASE Await
  BY <1>1, <1>5 DEF Await
<1>6. CASE WakeRun
  BY <1>1, <1>6 DEF WakeRun
<1>7. CASE Interrupt
  BY <1>1, <1>7 DEF Interrupt
<1>8. CASE TearDown
  BY <1>1, <1>8 DEF TearDown
<1>9. CASE Finish
  BY <1>1, <1>9 DEF Finish
<1> QED BY <1>2, <1>3, <1>4, <1>5, <1>6, <1>7, <1>8, <1>9 DEF RspStep

LEMMA OuterLoopInv ==
  ASSUME StubInv, OuterLoop \/ ProgramStops
  PROVE  StubInv'
<1> USE DEF StubInv, StubTypeOK, Handshake, Attachment, InRun, Debugging, RunCommands,
            clientVars, runVars, histVars, STEP, CONTINUE
<1>1. CASE Burst
  BY <1>1 DEF Burst, AtTop
<1>2. CASE EndBurst
  BY <1>2 DEF EndBurst
<1>3. CASE BeginReset \/ EndReset
  <2>1. UNCHANGED <<client, socket, rsp, active, cmd, stopped, reply, over, asked, runs,
                   attached>>
    BY <1>3 DEF BeginReset, EndReset
  <2>2. in_halt' \in BOOLEAN /\ host' \subseteq {"reset", "quit"}
    BY <1>3 DEF BeginReset, EndReset
  <2>3. cpu \in {"outer", "reset"} /\ cpu' \in {"outer", "reset"}
    BY <1>3 DEF BeginReset, EndReset
  <2> QED BY <2>1, <2>2, <2>3
<1>4. CASE TakeCmd
  BY <1>4 DEF TakeCmd, AtTop
<1>5. CASE Idle
  BY <1>5 DEF Idle, AtTop
<1>6. CASE EndStep \/ ProgramStops
  BY <1>6 DEF EndStep, ProgramStops, Notify
<1>7. CASE QuitRun
  BY <1>7 DEF QuitRun, Notify
<1>8. CASE LeaveLoop
  BY <1>8 DEF LeaveLoop
<1> QED BY <1>1, <1>2, <1>3, <1>4, <1>5, <1>6, <1>7, <1>8 DEF OuterLoop

LEMMA StubInvHolds == StubSpec => []StubInv
<1>1. StubInv /\ [StubNext]_stubVars => StubInv'
  <2>1. StubInv /\ UNCHANGED stubVars => StubInv'
    BY DEF stubVars, clientVars, runVars, loopVars, histVars, StubInv, StubTypeOK, Handshake,
       Attachment, InRun, Debugging
  <2>2. StubInv /\ StubNext => StubInv'
    BY <2>1, SendStep, HostAsksStep, RspStepInv, OuterLoopInv DEF StubNext, Ended
  <2> QED BY <2>1, <2>2
<1> QED BY <1>1, StubInitInv, PTL DEF StubSpec

\* The handshake keeps its types.
THEOREM StubTypeCorrect == StubSpec => []StubTypeOK
<1>1. StubInv => StubTypeOK
  BY DEF StubInv
<1> QED BY <1>1, StubInvHolds, PTL

\* The CPU executes for the debugger only inside the run() that asked.
THEOREM NoStrayRun == StubSpec => []ExecutesOnlyForRun
<1>1. StubInv => ExecutesOnlyForRun
  BY DEF StubInv, Handshake, ExecutesOnlyForRun, InRun
<1> QED BY <1>1, StubInvHolds, PTL

\* Once the outer loop has seen the client, accesses and execution exclude
\* each other without a lock.
THEOREM DebuggerExcludesCpu == StubSpec => []PausedWhileDebugged
<1>1. StubInv => PausedWhileDebugged
  BY DEF StubInv, Handshake, Attachment, PausedWhileDebugged, InRun, Executing
<1> QED BY <1>1, StubInvHolds, PTL

\* run() never returns the reply of another run.
THEOREM RepliesMatch == StubSpec => AnswersOwnRun
<1>1. StubInv /\ [StubNext]_stubVars =>
        [(rsp = "waiting" /\ rsp' = "recv") => reply = asked]_stubVars
  <2> SUFFICES ASSUME StubInv, StubNext, rsp = "waiting", rsp' = "recv"
               PROVE  reply = asked
    OBVIOUS
  <2>1. WakeRun
    BY DEF StubNext, ClientStep, Connect, SendAccess, SendRun, SendInterrupt, Disconnect, Send,
       RspStep, Accept, SetUp, BeginAccess, EndAccess, StoreCmd, Await, Interrupt, TearDown,
       Finish, Receive, HostAsks, OuterLoop, BeginReset, EndReset, Burst, EndBurst, TakeCmd,
       Idle, EndStep, QuitRun, LeaveLoop, ProgramStops, Notify, Ended, stubVars
  <2> QED BY <2>1 DEF WakeRun, StubInv, Handshake
<1> QED BY <1>1, StubInvHolds, PTL DEF StubSpec, AnswersOwnRun
=============================================================================
