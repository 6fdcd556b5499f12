------------------------------ MODULE GdbAsync ------------------------------
(***************************************************************************)
(* The handshake between the debugger's RSP thread and the CPU thread in   *)
(* asynchronous mode: GdbRsp::run, take_async_run_cmd, notify_async_stopped*)
(* and serve (src/debug/gdb_rsp.cpp) against the debug branch of the outer *)
(* loop of CpuRunner::run (src/system/cpu_runner.cpp).                     *)
(*                                                                         *)
(* async_run_cmd_ and async_client_active_ are atomics, async_stopped_ and *)
(* the reply are guarded by async_mutex_; the CPU state and the bus are    *)
(* guarded by nothing but the handshake.  The client is a debugger that    *)
(* sends one packet at a time, may interrupt a run and may disconnect; the *)
(* host may ask for a reset or to quit at any time.                        *)
(***************************************************************************)
EXTENDS Integers, Sequences

CONSTANTS MaxRuns  \* bound: with so many run commands received, the client sends no more

ASSUME GdbAssumption == MaxRuns \in Nat

VARIABLES
  client,   \* "away", "stopped", "asking", "running" or "gone", as it believes
  socket,   \* what it has sent and serve() has not received
  rsp,      \* where the RSP thread is
  active,   \* async_client_active_
  cmd,      \* async_run_cmd_
  stopped,  \* async_stopped_
  reply,    \* the run async_stop_reply_ tells of (0: none)
  cpu,      \* where the CPU thread is: "outer" loop, normal "burst", "step",
            \* "continue", "reset", or "exit" when it has left the loop
  over,     \* what ends the loop: its quit, cpu.state.fault or a halt for ever
  host,     \* what the host asks for: {"reset"} of reset_request, {"quit"} of
            \* quit_flag, which the CPU thread sets, too, when it leaves
  in_halt,  \* in_halt, as far as the debugger sets it
  asked,    \* history: run commands received
  runs,     \* history: run commands the CPU thread has taken
  attached  \* history: the outer loop has seen the client

clientVars == <<client, socket>>
runVars == <<cmd, stopped, reply, in_halt>>
histVars == <<asked, runs, attached>>
loopVars == <<cpu, over, host>>
stubVars == <<clientVars, rsp, active, runVars, loopVars, histVars>>

STEP == 1
CONTINUE == 2
RunCommands == {STEP, CONTINUE}
Packets == {"access", "step", "continue", "interrupt", "eof"}

-----------------------------------------------------------------------------
(* The debugger.                                                           *)

Connect ==
  /\ client = "away"
  /\ client' = "stopped"
  /\ UNCHANGED <<socket, rsp, active, runVars, loopVars, histVars>>

Send(packet, belief) ==
  /\ socket' = Append(socket, packet)
  /\ client' = belief
  /\ UNCHANGED <<rsp, active, runVars, loopVars, histVars>>

SendAccess == client = "stopped" /\ Send("access", "asking")
SendRun == /\ client = "stopped" /\ asked < MaxRuns
           /\ \E p \in {"step", "continue"} : Send(p, "running")
SendInterrupt == /\ client = "running" /\ \A i \in 1 .. Len(socket) : socket[i] # "interrupt"
                 /\ Send("interrupt", "running")
Disconnect == client \in {"stopped", "asking", "running"} /\ Send("eof", "gone")

ClientStep == Connect \/ SendAccess \/ SendRun \/ SendInterrupt \/ Disconnect

\* F5, and the end of the window.
HostAsks ==
  /\ "quit" \notin host
  /\ \E what \in {"reset", "quit"} : host' = host \cup {what}
  /\ UNCHANGED <<clientVars, rsp, active, runVars, cpu, over, histVars>>

-----------------------------------------------------------------------------
(* RSP thread.                                                             *)

\* accept() returned: the client is announced, then breakpoints, watchpoints,
\* their callback and the strict flag of the CPU are set up.
Accept ==
  /\ rsp = "accept" /\ client # "away"
  /\ active' = TRUE
  /\ rsp' = "setup"
  /\ UNCHANGED <<clientVars, runVars, loopVars, histVars>>

SetUp ==
  /\ rsp = "setup"
  /\ rsp' = "recv"
  /\ UNCHANGED <<clientVars, active, runVars, loopVars, histVars>>

Receive(packet) ==
  /\ rsp = "recv"
  /\ socket # << >> /\ Head(socket) = packet
  /\ socket' = Tail(socket)

\* A packet that reads or writes registers, memory or breakpoints.
BeginAccess ==
  /\ Receive("access")
  /\ rsp' = "access"
  /\ UNCHANGED <<client, active, runVars, loopVars, histVars>>

Believes(belief) == client' = IF client = "gone" THEN client ELSE belief

EndAccess ==
  /\ rsp = "access"
  /\ rsp' = "recv"
  /\ Believes("stopped")
  /\ UNCHANGED <<socket, active, runVars, loopVars, histVars>>

\* run() stores the command before it takes the mutex,
StoreCmd(c) ==
  /\ Receive(IF c = STEP THEN "step" ELSE "continue")
  /\ cmd' = c
  /\ asked' = asked + 1
  /\ rsp' = "stored"
  /\ UNCHANGED <<client, active, stopped, reply, in_halt, loopVars, runs, attached>>

\* Mutant: the flag of the previous run is not reset.
Await_stale ==
  /\ rsp = "stored"
  /\ rsp' = "waiting"
  /\ UNCHANGED <<clientVars, active, cmd, stopped, reply, in_halt, loopVars, histVars>>

\* ... then resets async_stopped_ and waits, releasing the mutex,
Await ==
  /\ rsp = "stored"
  /\ stopped' = FALSE
  /\ rsp' = "waiting"
  /\ UNCHANGED <<clientVars, active, cmd, reply, in_halt, loopVars, histVars>>

\* ... until it is set, and sends the stop reply.
WakeRun ==
  /\ rsp = "waiting" /\ stopped
  /\ rsp' = "recv"
  /\ Believes("stopped")
  /\ UNCHANGED <<socket, active, runVars, loopVars, histVars>>

\* Ctrl-C: the CPU is told to halt and a stop reply goes out at once.
Interrupt ==
  /\ Receive("interrupt")
  /\ in_halt' = TRUE
  /\ Believes("stopped")
  /\ UNCHANGED <<rsp, active, cmd, stopped, reply, loopVars, histVars>>

\* recv() returned 0: the client is withdrawn and a stop is reported,
TearDown ==
  /\ Receive("eof")
  /\ active' = FALSE
  /\ stopped' = TRUE
  /\ rsp' = "teardown"
  /\ UNCHANGED <<client, cmd, reply, in_halt, loopVars, histVars>>

\* ... then strict flag, watchpoints and callback are taken back; serve()
\* returns and nobody accepts another client.
Finish ==
  /\ rsp = "teardown"
  /\ rsp' = "done"
  /\ UNCHANGED <<clientVars, active, runVars, loopVars, histVars>>

RspStep ==
  \/ Accept \/ SetUp \/ BeginAccess \/ EndAccess
  \/ \E c \in RunCommands : StoreCmd(c)
  \/ Await \/ WakeRun \/ Interrupt \/ TearDown \/ Finish

-----------------------------------------------------------------------------
(* CPU thread: the outer loop of CpuRunner::run.                           *)

\* The top of the loop: the reset first.
BeginReset ==
  /\ cpu = "outer" /\ ~over /\ "reset" \in host
  /\ host' = host \ {"reset"}
  /\ cpu' = "reset"
  /\ UNCHANGED <<clientVars, rsp, active, runVars, over, histVars>>

\* Devices and CPU are reset, whether a client is attached or not.
EndReset ==
  /\ cpu = "reset"
  /\ in_halt' = FALSE
  /\ cpu' = "outer"
  /\ UNCHANGED <<clientVars, rsp, active, cmd, stopped, reply, over, host, histVars>>

AtTop == cpu = "outer" /\ ~over /\ "reset" \notin host

\* No client: instructions run until the next frame.
Burst ==
  /\ AtTop /\ ~active
  /\ cpu' = "burst"
  /\ UNCHANGED <<clientVars, rsp, active, runVars, over, host, histVars>>

\* The frame ends; or a fault, a poll of quit_flag or a halt for ever ends the loop.
EndBurst ==
  /\ cpu = "burst"
  /\ over' \in BOOLEAN
  /\ cpu' = "outer"
  /\ UNCHANGED <<clientVars, rsp, active, runVars, host, histVars>>

\* Mutant: the command is read but not consumed.
TakeCmd_keeps ==
  /\ AtTop /\ active /\ cmd # 0
  /\ cpu' = IF cmd = STEP THEN "step" ELSE "continue"
  /\ in_halt' = FALSE
  /\ runs' = runs + 1 /\ attached' = TRUE
  /\ UNCHANGED <<clientVars, rsp, active, cmd, stopped, reply, over, host, asked>>

\* take_async_run_cmd
TakeCmd ==
  /\ AtTop /\ active /\ cmd # 0
  /\ cmd' = 0
  /\ cpu' = IF cmd = STEP THEN "step" ELSE "continue"
  /\ in_halt' = FALSE
  /\ runs' = runs + 1 /\ attached' = TRUE
  /\ UNCHANGED <<clientVars, rsp, active, stopped, reply, over, host, asked>>

\* "RSP connected but CPU paused - just idle", with a poll of quit_flag.
Idle ==
  /\ AtTop /\ active /\ cmd = 0
  /\ over' = ("quit" \in host)
  /\ attached' = TRUE
  /\ UNCHANGED <<clientVars, rsp, active, runVars, cpu, host, asked, runs>>

\* Mutant: the reply is stored but the flag is not set.
Notify_silent ==
  /\ reply' = runs
  /\ cpu' = "outer"
  /\ UNCHANGED <<clientVars, rsp, active, cmd, stopped, in_halt, host, histVars>>

\* notify_async_stopped
Notify ==
  /\ stopped' = TRUE
  /\ reply' = runs
  /\ cpu' = "outer"
  /\ UNCHANGED <<clientVars, rsp, active, cmd, in_halt, host, histVars>>

\* The instruction may be a fault.
EndStep == cpu = "step" /\ over' \in BOOLEAN /\ Notify

\* The program halted or met a breakpoint, a watchpoint or a fault.  (in_halt
\* set by the debugger does not get here: an interrupt is not received while
\* the program runs.)
ProgramStops == cpu = "continue" /\ over' \in BOOLEAN /\ Notify

\* A poll sees quit_flag while the program runs.
QuitRun == cpu = "continue" /\ "quit" \in host /\ over' = TRUE /\ Notify

\* The main thread is woken; it joins this one and the process ends.
LeaveLoop ==
  /\ cpu = "outer" /\ over
  /\ cpu' = "exit" /\ host' = host \cup {"quit"}
  /\ UNCHANGED <<clientVars, rsp, active, runVars, over, histVars>>

OuterLoop ==
  \/ BeginReset \/ EndReset \/ Burst \/ EndBurst
  \/ TakeCmd \/ Idle \/ EndStep \/ QuitRun \/ LeaveLoop

Ended == cpu = "exit" /\ UNCHANGED stubVars

StubInit ==
  /\ client = "away" /\ socket = << >>
  /\ rsp = "accept" /\ active = FALSE
  /\ cmd = 0 /\ stopped = FALSE /\ reply = 0 /\ in_halt = FALSE
  /\ cpu = "outer" /\ over = FALSE /\ host = {}
  /\ asked = 0 /\ runs = 0 /\ attached = FALSE

StubNext == ClientStep \/ HostAsks \/ RspStep \/ OuterLoop \/ ProgramStops \/ Ended

\* Both threads are scheduled.  Client and host need not do anything and the
\* program need not stop.
StubSpec == StubInit /\ [][StubNext]_stubVars /\ WF_stubVars(RspStep) /\ WF_stubVars(OuterLoop)

-----------------------------------------------------------------------------
(* Properties.                                                             *)

StubTypeOK ==
  /\ client \in {"away", "stopped", "asking", "running", "gone"}
  /\ socket \in Seq(Packets)
  /\ rsp \in {"accept", "setup", "recv", "access", "stored", "waiting", "teardown", "done"}
  /\ active \in BOOLEAN /\ stopped \in BOOLEAN /\ in_halt \in BOOLEAN
  /\ cmd \in {0} \cup RunCommands
  /\ cpu \in {"outer", "burst", "step", "continue", "reset", "exit"}
  /\ over \in BOOLEAN /\ host \subseteq {"reset", "quit"}
  /\ asked \in Nat /\ runs \in Nat /\ reply \in Nat
  /\ attached \in BOOLEAN

Debugging == cpu \in {"step", "continue"}
Executing == Debugging \/ cpu = "burst"

\* The CPU executes for the debugger only while the RSP thread is inside
\* run() for that command: no command is taken twice, none after a reply.
ExecutesOnlyForRun == Debugging => rsp \in {"stored", "waiting"} /\ runs = asked

\* The CPU state and the bus have no lock.  From the first time the outer
\* loop sees the client, a packet that reads or writes them never overlaps
\* with an instruction.  (Before that it may: the burst in which the client
\* connects runs to its end.  And a reset by F5 waits for no packet.)
PausedWhileDebugged == (rsp = "access" /\ attached) => ~Executing

\* The stop reply that run() returns is that of the run it asked for, not one
\* left over from an earlier run.
AnswersOwnRun == [][(rsp = "waiting" /\ rsp' = "recv") => reply = asked]_stubVars

\* A step that ends while run() is waiting wakes it: the client gets its stop
\* reply, unless the emulator ends first.
WaitingRunIsAnswered ==
  (cpu = "step" /\ rsp = "waiting") ~> (rsp = "recv" \/ cpu = "exit")

\* gdb_rsp.cpp:110-112: run() "signals the main loop via async_run_cmd_ and blocks
\* until notify_async_stopped() is called by the main loop": a step the CPU thread
\* takes comes back, unless the emulator ends first.  It does not when it ends
\* before Await: the code resets the flag after it has stored the command.
StepsReturn == (rsp = "stored" /\ cpu = "step") ~> (rsp = "recv" \/ cpu = "exit")

=============================================================================
