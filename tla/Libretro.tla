------------------------------ MODULE Libretro ------------------------------
(***************************************************************************)
(* The libretro core, src/libretro/piece_libretro.cpp: the frontend loads  *)
(* a game from a blob, may put back the save RAM it stored, calls          *)
(* retro_run once a frame, and may reset or unload at any frame.           *)
(***************************************************************************)
EXTENDS Boot

CONSTANTS Fps, SampleRate   \* of the audio: SampleRate samples in Fps frames

VARIABLES
  srm,       \* g_srm_buffer: [header, flash], or << >> when it is empty
  overlay,   \* g_srm_overlay_pending
  cached_hz, \* g_cached_cpu_hz
  target,    \* the end of the frame retro_run is in
  options,   \* core options the core has read: [swap, burst]
  video,     \* the picture last sent to the frontend
  audio,     \* [credit, want]: audio_credit in 1/Fps samples, the last batch
  store,     \* the frontend's .srm file, or << >>
  runs,      \* history: frames run since the game was loaded
  sessions,  \* history: games loaded
  garbled,   \* history: the buffer still has what a damaged .srm put there,
             \* and the sectors written since
  kept       \* history: the flash when the .srm file was stored

frontVars == <<store, sessions, kept>>
coreVars == <<srm, overlay, cached_hz, options, video, audio, garbled, runs>>
retroVars == <<frontVars, coreVars, target>>

GoodHeader == TRUE
FlashCells(pfi) == Flash(FlashSize(pfi))
FlashOf(mem, cells) == [a \in cells |-> mem[a]]

-----------------------------------------------------------------------------
(* retro_load_game                                                         *)

LoadGame ==
  LET pfi == host.image
      part == for_min_bytes(FlashSize(pfi))
      r == pfi_load_blob(PowerOn(Blank(part), FALSE).mem, pfi)
  IN
  /\ at = "start" /\ Kind("libretro") /\ sessions < host.sessions
  /\ IF r.ok
     THEN /\ m' = AtResetVector(PowerOn(r.mem, FALSE))
          /\ srm' = [header |-> GoodHeader, flash |-> FlashOf(r.mem, FlashCells(pfi))]
          /\ overlay' = TRUE
          /\ cached_hz' = ResetHz
          /\ \E o \in host.options : options' = o
          /\ next_timer_wake' = 0
          /\ late' = [known |-> 0, any |-> 0, next |-> RtcPeriod]
          /\ runs' = 0 /\ garbled' = [is |-> FALSE, written |-> {}]
          /\ at' = "boot"
          /\ UNCHANGED code
     ELSE /\ Exit(1)
          /\ UNCHANGED <<m, coreVars, next_timer_wake, late>>
  /\ sessions' = sessions + 1
  /\ UNCHANGED <<host, total, stop, target, video, audio, store, kept>>

\* The frontend's part, between load and the first frame: what it stored, or a
\* file that was damaged on the way.
RestoreSave ==
  /\ at = "boot" /\ Kind("libretro") /\ overlay
  /\ store # << >>
  /\ \E file \in {store} \cup (IF host.damage THEN {[store EXCEPT !.header = FALSE]} ELSE {}) :
       /\ srm' = file
       /\ garbled' = [garbled EXCEPT !.is = ~file.header]
  /\ at' = "idle"
  /\ UNCHANGED <<host, m, total, code, tickVars, frontVars, overlay, cached_hz, target, options, video, audio, runs>>

NoSave ==
  /\ at = "boot" /\ Kind("libretro") /\ store = << >>
  /\ at' = "idle"
  /\ UNCHANGED <<host, m, total, code, tickVars, retroVars>>

-----------------------------------------------------------------------------
(* retro_run                                                               *)

\* The joypad's A and B, as the option says.
Swapped(b) == CASE b = "A" -> "B" [] b = "B" -> "A" [] OTHER -> b
Pressed(pad, swap) == IF swap THEN {Swapped(b) : b \in pad} ELSE pad

\* Mutant: a stored image is not put back.
Overlaid_not(machine) == machine
\* The save RAM the frontend restored goes to the flash, if its header is one.
\* load_image marks nothing dirty.
Overlaid(machine) ==
  IF overlay /\ srm.header
  THEN [machine EXCEPT !.mem = [a \in DOMAIN @ |-> IF a \in DOMAIN srm.flash THEN srm.flash[a] ELSE @[a]]]
  ELSE machine

BeginRetroRun ==
  /\ at = "idle" /\ runs < host.runs
  /\ overlay' = FALSE
  /\ \E pad \in host.pads, o \in host.options :
       /\ options' = o
       /\ m' = [Overlaid(m) EXCEPT !.keys = Pressed(pad, o.swap)]
  /\ target' = m.cycles + cached_hz
  /\ at' = "loop"
  /\ UNCHANGED <<host, total, code, tickVars, frontVars, srm, cached_hz, video, audio, garbled, runs>>

burst == Burst(options.burst, 4 * options.burst)

RetroBurst ==
  /\ at = "loop" /\ m.cycles < target /\ ~m.fault
  /\ stop' = AtMost(next_timer_wake, target)
  /\ at' = "cpu"
  /\ UNCHANGED <<host, m, total, code, next_timer_wake, late, retroVars>>

RetroInstruction ==
  LET next == Step(m) IN
  /\ at = "cpu" /\ Runnable(m) /\ m.cycles < stop
  /\ m' = next
  /\ garbled' = [garbled EXCEPT !.written = @ \cup next.dirty]
  /\ UNCHANGED <<host, at, total, code, tickVars, frontVars, target, srm, overlay, cached_hz, options, video, audio, runs>>

RetroTick ==
  /\ at = "cpu" /\ (~Runnable(m) \/ m.cycles >= stop)
  /\ IF ~m.fault /\ m.cycles >= next_timer_wake
     THEN do_tick(m, burst)
     ELSE UNCHANGED <<m, next_timer_wake, late>>
  /\ at' = IF m.fault THEN "loop" ELSE "wake"
  /\ UNCHANGED <<host, total, code, stop, retroVars>>

\* A halted CPU: to the wake point, but a burst at least and no further than
\* the frame.
RetroWake ==
  LET to == AtMost(IF Wake(m) > m.cycles + burst.least THEN Wake(m) ELSE m.cycles + burst.least, target) IN
  /\ at = "wake"
  /\ IF m.halt # "run"
     THEN do_tick([m EXCEPT !.cycles = to], burst)
     ELSE UNCHANGED <<m, next_timer_wake, late>>
  /\ at' = "loop"
  /\ UNCHANGED <<host, total, code, stop, retroVars>>

\* Mutant: the copy stops at the first sector.
Synced_first(cells) ==
  [srm EXCEPT !.flash = [a \in DOMAIN @ |-> IF a \in cells /\ \A b \in cells : a <= b THEN m.mem[a] ELSE @[a]]]
\* The dirty sectors, as far as the image reaches, to the save RAM.
Synced(cells) == [srm EXCEPT !.flash = [a \in DOMAIN @ |-> IF a \in cells THEN m.mem[a] ELSE @[a]]]

\* The frame is over: the clock, the picture, the save RAM, the audio.
EndRetroRun ==
  LET credit == audio.credit + SampleRate IN
  /\ at = "loop" /\ (m.cycles >= target \/ m.fault)
  /\ cached_hz' = m.hz
  /\ video' = IF m.frame THEN m.lcd ELSE video
  /\ srm' = Synced(m.dirty)
  /\ m' = [m EXCEPT !.frame = FALSE, !.dirty = {}]
  /\ audio' = [credit |-> credit % Fps, want |-> credit \div Fps]
  /\ runs' = runs + 1
  /\ at' = "idle"
  /\ UNCHANGED <<host, total, code, tickVars, frontVars, overlay, target, options, garbled>>

-----------------------------------------------------------------------------
(* The other calls of the frontend, between frames.                        *)

\* retro_reset: peripherals cold, CPU, cycle count; not the cached clock.
RetroReset ==
  /\ at = "idle" /\ host.resets
  /\ m' = AtResetVector([PowerOn(m.mem, FALSE) EXCEPT !.dirty = m.dirty])
  /\ next_timer_wake' = 0
  /\ late' = [known |-> 0, any |-> 0, next |-> RtcPeriod]
  /\ UNCHANGED <<host, at, total, code, stop, retroVars>>

\* The frontend stores the save RAM and unloads the game.
Unload ==
  /\ at = "idle" /\ ~overlay
  /\ store' = srm
  /\ kept' = FlashOf(m.mem, DOMAIN srm.flash)
  /\ srm' = << >> /\ overlay' = FALSE
  /\ next_timer_wake' = 0
  /\ at' = IF sessions < host.sessions THEN "start" ELSE "done"
  /\ code' = IF sessions < host.sessions THEN code ELSE 0
  /\ UNCHANGED <<host, m, total, stop, late, sessions, cached_hz, target, options, video, audio, garbled, runs>>

RetroStep ==
  \/ LoadGame \/ RestoreSave \/ NoSave \/ BeginRetroRun \/ RetroBurst \/ RetroInstruction
  \/ RetroTick \/ RetroWake \/ EndRetroRun \/ RetroReset \/ Unload

RetroInit ==
  /\ srm = << >> /\ overlay = FALSE /\ cached_hz = ResetHz /\ target = 0
  /\ options = [swap |-> FALSE, burst |-> 1] /\ video = 0 /\ audio = [credit |-> 0, want |-> 0]
  /\ store = << >> /\ runs = 0 /\ sessions = 0 /\ garbled = [is |-> FALSE, written |-> {}] /\ kept = << >>

-----------------------------------------------------------------------------
(* Properties.                                                             *)

\* Whenever the frontend may read the save RAM, it holds the flash, except for
\* what a damaged .srm put there and no frame has written since; and a stored
\* .srm brings the flash back that it was stored from.
ProgressIsKept ==
  /\ (Kind("libretro") /\ at = "idle" /\ ~overlay) =>
       \A a \in DOMAIN srm.flash :
         srm.flash[a] = m.mem[a] \/ (garbled.is /\ a \notin garbled.written)
  /\ (Kind("libretro") /\ at = "loop" /\ m.cycles = 0 /\ runs = 0 /\ store # << >> /\ ~garbled.is) =>
       FlashOf(m.mem, DOMAIN kept) = kept

=============================================================================
