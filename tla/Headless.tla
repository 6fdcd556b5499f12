------------------------------ MODULE Headless ------------------------------
(***************************************************************************)
(* src/headless_system_main.cpp: a PFI image run frame by frame, a script  *)
(* pressing buttons and taking hashes at frame boundaries.  A script is a  *)
(* sequence of lines: <<"frame", N, verb, argument>> or <<"wait", K>>.     *)
(***************************************************************************)
EXTENDS Boot

VARIABLES
  cmds,         \* what parse_script made of the script
  script_idx,   \* commands already applied
  frame_no,
  btn,          \* ButtonState, the buttons held
  pixels,       \* what on_ch0_complete took from the LCD
  quit_flag, script_quit, wall_timeout_tripped,
  hashed        \* history: frames that put a line out, with what it says

headlessVars == <<cmds, script_idx, frame_no, btn, pixels, quit_flag, script_quit, wall_timeout_tripped, hashed>>

-----------------------------------------------------------------------------
(* parse_script                                                            *)

Verbs == {"press", "release", "snapshot", "hash", "quit"}
NoScript == [ok |-> TRUE, last |-> None, cmds |-> << >>]

Start(st) == IF st.last = None THEN 0 ELSE st.last

\* Mutant: a frame line may go back.
ParseLine_any(st, line) ==
  IF ~st.ok \/ line[1] \notin {"wait", "frame"} THEN [st EXCEPT !.ok = FALSE]
  ELSE IF line[1] = "wait" THEN [st EXCEPT !.last = Start(st) + line[2]]
  ELSE IF line[3] \notin Verbs THEN [st EXCEPT !.ok = FALSE]
  ELSE [st EXCEPT !.last = line[2], !.cmds = Append(@, line)]

ParseLine(st, line) ==
  IF ~st.ok \/ line[1] \notin {"wait", "frame"} THEN [st EXCEPT !.ok = FALSE]
  ELSE IF line[1] = "wait" THEN [st EXCEPT !.last = Start(st) + line[2]]
  ELSE IF line[3] \notin Verbs \/ (st.last # None /\ line[2] < st.last) THEN [st EXCEPT !.ok = FALSE]
  ELSE [st EXCEPT !.last = line[2], !.cmds = Append(@, line)]

parse_script(lines) ==
  LET after[i \in 0 .. Len(lines)] ==
        IF i = 0 THEN NoScript ELSE ParseLine(after[i - 1], lines[i])
  IN after[Len(lines)]

\* The script is read before the image: an error ends the run at once.
ParseScript ==
  LET st == parse_script(host.script) IN
  /\ at = "script" /\ Kind("headless")
  /\ IF st.ok THEN cmds' = st.cmds /\ at' = "start" /\ UNCHANGED code
     ELSE Exit(1) /\ UNCHANGED cmds
  /\ UNCHANGED <<host, m, total, tickVars, script_idx, frame_no, btn, pixels, quit_flag, script_quit, wall_timeout_tripped, hashed>>

-----------------------------------------------------------------------------
(* step_until_frame: at "outer" between bursts, at "burst" inside one.     *)

BeginHeadless ==
  /\ at = "boot" /\ Kind("headless")
  /\ m' = [m EXCEPT !.keys = {}]
  /\ next_timer_wake' = TimerWake(m, host.burst)
  /\ at' = "frame"
  /\ UNCHANGED <<host, total, code, stop, late, headlessVars>>

HeadlessExit == Exit(IF m.fault THEN 1 ELSE IF wall_timeout_tripped THEN 3 ELSE 0)

\* The outer loop: one more frame, or the end.
BeginFrame ==
  /\ at = "frame"
  /\ IF quit_flag \/ m.fault \/ script_quit \/ frame_no >= host.max_frames
     THEN HeadlessExit /\ UNCHANGED m
     ELSE at' = "outer" /\ m' = [m EXCEPT !.frame = FALSE] /\ UNCHANGED code
  /\ UNCHANGED <<host, total, tickVars, headlessVars>>

Going == ~m.frame /\ ~m.fault /\ ~quit_flag

\* A halted CPU jumps to its wake point.
HeadlessJump ==
  LET jumped == [m EXCEPT !.cycles = IF Wake(m) > @ THEN Wake(m) ELSE @] IN
  /\ at = "outer" /\ Kind("headless") /\ Going /\ m.halt # "run"
  /\ do_tick(jumped, host.burst)
  /\ UNCHANGED <<host, at, total, code, stop, headlessVars>>

HeadlessBurst ==
  /\ at = "outer" /\ Kind("headless") /\ Going /\ m.halt = "run"
  /\ stop' = next_timer_wake
  /\ at' = "burst"
  /\ UNCHANGED <<host, m, total, code, next_timer_wake, late, headlessVars>>

\* An instruction; on_ch0_complete takes the picture in the middle of it.
HeadlessInstruction ==
  LET next == Step(m) IN
  /\ at = "burst" /\ Kind("headless") /\ Runnable(m) /\ ~m.frame /\ ~quit_flag /\ m.cycles < stop
  /\ m' = next
  /\ pixels' = IF next.frame THEN next.lcd ELSE pixels
  /\ quit_flag' = (quit_flag \/ (host.max # 0 /\ next.cycles >= host.max))
  /\ UNCHANGED <<host, at, total, code, tickVars, cmds, script_idx, frame_no, btn, script_quit, wall_timeout_tripped, hashed>>

\* The burst is over: the tick, if it is due.
HeadlessTick ==
  /\ at = "burst" /\ Kind("headless") /\ (~Runnable(m) \/ m.frame \/ quit_flag \/ m.cycles >= stop)
  /\ IF ~m.fault /\ m.cycles >= next_timer_wake
     THEN do_tick(m, host.burst)
     ELSE UNCHANGED <<m, next_timer_wake, late>>
  /\ at' = "outer"
  /\ UNCHANGED <<host, total, code, stop, headlessVars>>

\* A signal, or the wall-clock guard that every tick looks at.
Interrupted ==
  /\ Kind("headless") /\ at \in {"outer", "frame"} /\ host.signals /\ ~quit_flag
  /\ quit_flag' = TRUE
  /\ wall_timeout_tripped' \in {FALSE, at = "outer"}
  /\ UNCHANGED <<baseVars, cmds, script_idx, frame_no, btn, pixels, script_quit, hashed>>

\* No frame came: a terminal condition.
NoFrame ==
  /\ at = "outer" /\ Kind("headless") /\ ~Going /\ ~m.frame
  /\ HeadlessExit
  /\ UNCHANGED <<host, m, total, tickVars, headlessVars>>

\* Mutant: a frame's first command only.
Due_first == [i \in 1 .. Len(SelectSeq(SubSeq(cmds, script_idx + 1, AtMost(script_idx + 1, Len(cmds))),
                                       LAMBDA c : c[2] = frame_no)) |-> cmds[script_idx + i]]
\* The commands of this frame: as far as the frame number is the same.
Due ==
  LET n == CHOOSE n \in 0 .. Len(cmds) - script_idx :
             /\ \A i \in 1 .. n : cmds[script_idx + i][2] = frame_no
             /\ script_idx + n < Len(cmds) => cmds[script_idx + n + 1][2] # frame_no
  IN SubSeq(cmds, script_idx + 1, script_idx + n)

\* The buttons held after some commands: the last one about each decides.
On(c, verb, button) == c[3] = verb /\ c[4] = button
Held(held, seq) ==
  {button \in held \cup {seq[i][4] : i \in DOMAIN seq} :
     \/ button \in held /\ \A j \in DOMAIN seq : ~On(seq[j], "release", button)
     \/ \E i \in DOMAIN seq :
          /\ On(seq[i], "press", button)
          /\ \A j \in DOMAIN seq : j > i => ~On(seq[j], "release", button)}
Has(seq, verb) == \E i \in DOMAIN seq : seq[i][3] = verb

\* The script's turn, the buttons to the port, the hash line, the next frame.
EndFrame ==
  LET due == Due
      held == Held(btn, due)
      emit == Has(due, "hash") \/ frame_no % host.hash_every = 0 \/ Has(due, "quit")
  IN
  /\ at = "outer" /\ Kind("headless") /\ m.frame
  /\ btn' = held /\ m' = [m EXCEPT !.keys = held]
  /\ script_idx' = script_idx + Len(due)
  /\ script_quit' = (script_quit \/ Has(due, "quit"))
  /\ hashed' = IF emit THEN Append(hashed, <<frame_no, pixels>>) ELSE hashed
  /\ frame_no' = frame_no + 1
  /\ at' = "frame"
  /\ UNCHANGED <<host, total, code, tickVars, cmds, pixels, quit_flag, wall_timeout_tripped>>

HeadlessStep ==
  \/ ParseScript \/ BeginHeadless \/ BeginFrame \/ HeadlessJump \/ HeadlessBurst
  \/ HeadlessInstruction \/ HeadlessTick \/ Interrupted \/ NoFrame \/ EndFrame

HeadlessInit ==
  /\ cmds = << >> /\ script_idx = 0 /\ frame_no = 0 /\ btn = {} /\ pixels = 0
  /\ quit_flag = FALSE /\ script_quit = FALSE /\ wall_timeout_tripped = FALSE /\ hashed = << >>

-----------------------------------------------------------------------------
(* Properties.                                                             *)

\* The frame lines of the frames before n, in their order.
Before(lines, n) ==
  LET after[i \in 0 .. Len(lines)] ==
        IF i = 0 THEN << >>
        ELSE IF lines[i][1] = "frame" /\ lines[i][2] < n THEN Append(after[i - 1], lines[i])
        ELSE after[i - 1]
  IN after[Len(lines)]

\* At each frame boundary exactly the script's commands of the frames before
\* have been applied, each once and in the script's order: the port shows the
\* buttons they leave held, each hash line they ask for is out, and no frame
\* follows a quit.
ScriptRunsOnTime ==
  (Kind("headless") /\ at \in {"frame", "outer", "burst"}) =>
    LET past == Before(host.script, frame_no) IN
    /\ SubSeq(cmds, 1, script_idx) = past
    /\ m.keys = Held({}, past)
    /\ \A i \in DOMAIN past : past[i][3] = "hash" => \E j \in DOMAIN hashed : hashed[j][1] = past[i][2]
    /\ Has(past, "quit") => at = "frame"
=============================================================================
