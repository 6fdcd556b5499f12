------------------------------- MODULE Display -------------------------------
(***************************************************************************)
(* Channels 0 and 1 of the high-speed DMA and what they feed.  Channel 0   *)
(* sends a block through serial interface 3 to the S6B0741 LCD controller; *)
(* its completion makes the CPU thread push a frame that the SDL thread    *)
(* takes and renders.  Channel 1 starts a burst of sound samples whose     *)
(* completion interrupt is scheduled on the CPU's cycle counter.           *)
(* (src/soc/peripheral_hsdma.cpp, peripheral_sif3.cpp,                     *)
(* peripheral_sound.cpp, src/board/s6b0741.cpp,                            *)
(* src/system/lcd_framebuf.hpp, src/host/lcd_renderer.cpp)                 *)
(***************************************************************************)
EXTENDS Integers, Sequences

CONSTANTS Memory(_),    \* the byte at an address
          Workloads,    \* what a guest exercises: "picture" (what the LCD shows),
                        \* "frames" (the two threads) or "sound"
          Writes,       \* a workload's register writes: <<ch, reg, value>>
          Bytes,        \* the bytes it writes to TXD
          Rates,        \* cycles per sample of the CPU clocks it may select
          MaxWrites, MaxSends, MaxFrames, MaxExposed, MaxTime, MaxLate
                        \* bounds on register writes, TXD writes, frames, window
                        \* exposures, cycles, and on the lateness of a tick

Channels == 0 .. 3
Registers == {"cntLo", "cntHi", "sadrLo", "sadrHi", "dadrLo", "dadrHi", "tf", "en"}
Halfwords == 0 .. 65535

ASSUME WritesAssumption ==
  \A w \in Workloads : Writes[w] \subseteq Channels \X Registers \X Halfwords

Byte == 0 .. 255
ASSUME BytesAssumption == \A w \in Workloads : Bytes[w] \subseteq Byte

\* What is at an address is a byte.
MemoryOfBytes == \A a \in Nat : Memory(a) \in Byte

ASSUME RatesAssumption == Rates \subseteq Nat \ {0}

VARIABLES
  workload,
  chan,      \* chan_[ch]
  live,      \* ch0_en, ch0_cnt, ch0_sadr and ch1_...
  serial,    \* ctl_ and irda_ of SIF3
  rs,        \* P21, the RS line of the LCD
  lcd,       \* page_, col2_, the cells of vram_ written since the reset, and
             \* raw, a history: the byte sent to each of them
  sound,     \* pending_, complete_cycle_, last_irq_cycle_ of Sound
  now, rate, \* the cycle counter; cycles per sample of the present clock
  frame,     \* LcdFrameBuf: pixels, pending
  lock,      \* who holds LcdFrameBuf::mtx: "none", "cpu", "main"
  cpu_pc,    \* "run", "push" (waits for the mutex), "upper", "lower"
  main_pc,   \* "poll", "take" (waits for the mutex), "copy", "rest", "render"
  px,        \* the SDL thread's copy
  texture,   \* texture_: none or one picture
  window,    \* what the window shows, unless it has lost its content
  exposure,  \* an exposure event is queued
  writes, sends, exposed, \* the bounded counters
  frames,    \* history: the pixels of the VRAM at each completion
  shown,     \* history: the number of the last frame taken
  tally      \* history of Ch1: whether its last start was of no samples, and
             \* where the present unbroken run of transfers began, its length

dmaVars == <<chan, live, serial>>
lcdVars == <<rs, lcd>>
soundVars == <<sound, now, rate, tally>>
cpuVars == <<cpu_pc, frames>>
mainVars == <<main_pc, px, texture, window, exposure, shown, exposed>>
frameVars == <<frame, lock>>
vars == <<workload, dmaVars, lcdVars, soundVars, cpuVars, mainVars, frameVars,
          writes, sends>>

Bit(v, i) == (v \div 2^i) % 2
Low(v) == v % 65536
High(v) == v \div 65536

-----------------------------------------------------------------------------
(* The LCD controller.                                                     *)

\* Mutant: the byte goes to the controller in the order it was sent.
Reversed_not(v) == v

\* The wiring inverts the bit order.
Reversed(v) == Bit(v, 0) * 128 + Bit(v, 1) * 64 + Bit(v, 2) * 32 + Bit(v, 3) * 16
                 + Bit(v, 4) * 8 + Bit(v, 5) * 4 + Bit(v, 6) * 2 + Bit(v, 7)

\* A command sets half of the column or the page; others are absorbed.
Command(l, d) ==
  CASE d \div 16 = 0 -> [l EXCEPT !.col = (@ \div 32) * 32 + (d % 16) * 2]
    [] d \div 16 = 1 -> [l EXCEPT !.col = ((@ \div 2) % 16) * 2 + (d % 8) * 32]
    [] d \div 16 = 11 -> [l EXCEPT !.page = d % 16]
    [] OTHER -> l

\* A cell is written.
Put(f, x, y) == [z \in {x} \cup DOMAIN f |-> IF z = x THEN y ELSE f[z]]

\* A data byte is stored and the column moves on, round the page.
Data(l, d) ==
  [l EXCEPT !.vram = Put(@, <<l.page, l.col>>, d),
            !.col = (@ + 1) % 256]

WriteLcd(l, byte) ==
  IF rs
  THEN [Data(l, Reversed(byte)) EXCEPT
          !.raw = Put(@, <<l.page, l.col>>, byte)]
  ELSE Command(l, Reversed(byte))

Cell(vram, page, col) ==
  IF <<page, col>> \in DOMAIN vram THEN vram[<<page, col>>] ELSE 0

\* The two cells of a page that make eight pixels, as page and row.
Spots(vram) == {<<c[1], c[2] \div 2>> : c \in DOMAIN vram}

\* A pixel of a spot: its place and its shade.
PixelAt(vram, s, i) ==
  <<127 - ((s[1] - 10) % 16) * 8 - i, s[2],
    2 * Bit(Cell(vram, s[1], 2 * s[2]), i)
      + Bit(Cell(vram, s[1], 2 * s[2] + 1), i)>>

\* The pixels of some pages that are not white.
PixelsOf(vram, pages) ==
  {p \in {PixelAt(vram, s, i) :
            s \in {s \in Spots(vram) : s[1] \in pages /\ s[2] < 88}, i \in 0 .. 7} :
     p[3] # 0}

Pages == 0 .. 15
to_pixels(vram) == PixelsOf(vram, Pages)

\* PALETTE: pixel values from white to black.
Shade(v) == CASE v = 0 -> "white" [] v = 1 -> "light" [] v = 2 -> "dark"
              [] v = 3 -> "black"
Rendered(pixels) == {<<p[1], p[2], Shade(p[3])>> : p \in pixels}

-----------------------------------------------------------------------------
(* The DMA registers.                                                      *)

Enabled(ch) == chan[ch].en % 2 = 1

\* The live copy of a channel's registers: 24 bits of count, 28 of address.
Live(c) == [en |-> c.en % 2 = 1, cnt |-> c.cnt % 2^24, sadr |-> c.sadr % 2^28]

\* The write handlers: half of a register each.  No code sets a trigger flag,
\* so that clearing some leaves none.
WithReg(c, reg, v) ==
  CASE reg = "cntLo" -> [c EXCEPT !.cnt = High(@) * 65536 + v]
    [] reg = "cntHi" -> [c EXCEPT !.cnt = v * 65536 + Low(@)]
    [] reg = "sadrLo" -> [c EXCEPT !.sadr = High(@) * 65536 + v]
    [] reg = "sadrHi" -> [c EXCEPT !.sadr = v * 65536 + Low(@)]
    [] reg = "dadrLo" -> [c EXCEPT !.dadr = High(@) * 65536 + v]
    [] reg = "dadrHi" -> [c EXCEPT !.dadr = v * 65536 + Low(@)]
    [] reg = "tf" -> [c EXCEPT !.tf = 0]
    [] reg = "en" -> [c EXCEPT !.en = v]

\* What a write leaves in the live copies of channels 0 and 1.
Synced(ch, reg, c) ==
  IF ch \notin DOMAIN live THEN live
  ELSE [live EXCEPT ![ch] =
          CASE reg = "en" -> Live(c)
            [] reg \in {"cntLo", "cntHi"} -> [@ EXCEPT !.cnt = Live(c).cnt]
            [] reg \in {"sadrLo", "sadrHi"} -> [@ EXCEPT !.sadr = Live(c).sadr]
            [] OTHER -> @]

Guest == workload \in Workloads /\ cpu_pc = "run"

CanWrite == Guest /\ writes < MaxWrites[workload] /\ writes' = writes + 1

-----------------------------------------------------------------------------
(* Channel 1 and the sound's schedule.                                     *)

\* Where a transfer of the given length is counted from: the last interrupt
\* if it is less than a transfer ago, else the present cycle.
Base(length) ==
  IF sound.last # 0 /\ now >= sound.last /\ now - sound.last < length
  THEN sound.last ELSE now

\* The hardware's view: samples leave at a fixed rate, so that a transfer
\* which follows the one before within its own length continues its run.
RunOn(length) ==
  LET end == tally.from + tally.length
  IN IF ~sound.pending /\ sound.last # 0 /\ now - end < length
     THEN [tally EXCEPT !.empty = FALSE, !.length = @ + length]
     ELSE [empty |-> FALSE, from |-> Base(length), length |-> length]

\* handle_ch1_start: a count of zero is ignored.
StartCh1(cnt) ==
  IF cnt = 0
  THEN tally' = [tally EXCEPT !.empty = TRUE] /\ UNCHANGED sound
  ELSE /\ sound' = [sound EXCEPT !.pending = TRUE,
                                 !.complete = Base(cnt * rate) + cnt * rate]
       /\ tally' = RunOn(cnt * rate)

\* A guest store to a DMA register; a rising EN starts channel 1.
WriteDma(ch, reg, v) ==
  /\ CanWrite
  /\ LET c == WithReg(chan[ch], reg, v)
     IN /\ chan' = [chan EXCEPT ![ch] = c]
        /\ live' = Synced(ch, reg, c)
        /\ IF ch = 1 /\ reg = "en" /\ ~Enabled(1) /\ v % 2 = 1
           THEN StartCh1(Live(c).cnt)
           ELSE UNCHANGED <<sound, tally>>
  /\ UNCHANGED <<workload, serial, lcdVars, now, rate, cpuVars, mainVars,
                 frameVars, sends>>

\* The guest selects another CPU clock; a scheduled completion stays.
ChangeRate(r) ==
  /\ CanWrite /\ r # rate
  /\ rate' = r
  /\ UNCHANGED <<workload, dmaVars, lcdVars, sound, now, tally, cpuVars,
                 mainVars, frameVars, sends>>

Elapse ==
  /\ Guest /\ now < MaxTime
  /\ sound.pending => now < sound.complete + MaxLate
  /\ now' = now + 1
  /\ UNCHANGED <<workload, dmaVars, lcdVars, sound, rate, tally, cpuVars,
                 mainVars, frameVars, writes, sends>>

finish_ch1 ==
  /\ chan' = [chan EXCEPT ![1].en = @ - (@ % 2), ![1].cnt = 0]
  /\ live' = [live EXCEPT ![1].en = FALSE, ![1].cnt = 0]

\* Mutant: the interrupt is remembered at the cycle that delivered it.
Tick_late ==
  /\ Guest /\ sound.pending /\ now >= sound.complete
  /\ sound' = [sound EXCEPT !.pending = FALSE, !.last = now]
  /\ finish_ch1
  /\ UNCHANGED <<workload, serial, lcdVars, now, rate, tally, cpuVars,
                 mainVars, frameVars, writes, sends>>

\* Sound::tick, up to MaxLate cycles late: the interrupt (HSDMA1) is raised
\* and remembered at the cycle it was scheduled for.
Tick ==
  /\ Guest /\ sound.pending /\ now >= sound.complete
  /\ sound' = [sound EXCEPT !.pending = FALSE, !.last = sound.complete]
  /\ finish_ch1
  /\ UNCHANGED <<workload, serial, lcdVars, now, rate, tally, cpuVars,
                 mainVars, frameVars, writes, sends>>

-----------------------------------------------------------------------------
(* Channel 0: the bytes a TXD store sends, and the frame it completes.     *)

WriteSerial(byte, v) ==
  /\ CanWrite
  /\ serial' = [serial EXCEPT ![byte] = v]
  /\ UNCHANGED <<workload, chan, live, lcdVars, soundVars, cpuVars, mainVars,
                 frameVars, sends>>

\* The guest stores to P2's data register: commands or data for the LCD.
WriteRs(level) ==
  /\ CanWrite /\ rs # level
  /\ rs' = level
  /\ UNCHANGED <<workload, dmaVars, lcd, soundVars, cpuVars, mainVars,
                 frameVars, sends>>

\* The block of channel 0, as long as it is enabled.
Block ==
  IF live[0].en
  THEN [i \in 1 .. live[0].cnt |-> Memory(live[0].sadr + i - 1)]
  ELSE << >>

\* on_txd_write: the byte itself, then the block.
Sent(v) == <<v>> \o Block

\* The controller after some bytes, one after the other.
Drawn(bytes) ==
  LET after[i \in 0 .. Len(bytes)] ==
        IF i = 0 THEN lcd ELSE WriteLcd(after[i - 1], bytes[i])
  IN after[Len(bytes)]

\* A byte store to TXD, with do_ch0_inline; the last byte disables the channel
\* and its completion makes the CPU thread push the frame.
SendByte(v) ==
  /\ Guest /\ sends < MaxSends /\ sends' = sends + 1
  /\ LET drawn == Drawn(Sent(v))
     IN /\ lcd' = drawn
        /\ IF Block = << >>
           THEN UNCHANGED <<chan, live, cpuVars>>
           ELSE /\ Len(frames) < MaxFrames
                /\ live' = [live EXCEPT ![0] = [en |-> FALSE, cnt |-> 0,
                                                sadr |-> @.sadr + Len(Block)]]
                /\ chan' = [chan EXCEPT ![0].sadr = live[0].sadr + Len(Block),
                                        ![0].cnt = 0, ![0].en = @ - (@ % 2)]
                /\ cpu_pc' = "push"
                /\ frames' = Append(frames, to_pixels(drawn.vram))
  /\ UNCHANGED <<workload, serial, rs, soundVars, mainVars, frameVars, writes>>

\* LcdFrameBuf::push waits for the mutex.
LockPush ==
  /\ cpu_pc = "push" /\ lock = "none"
  /\ lock' = "cpu" /\ cpu_pc' = "upper"
  /\ UNCHANGED <<workload, dmaVars, lcdVars, soundVars, frames, mainVars, frame,
                 writes, sends>>

\* The page whose eight pixels a pixel belongs to.
PageAt(x) == (25 - x \div 8) % 16

\* The pixels of pages 0 to 7.
FirstPages(pixels) == {p \in pixels : PageAt(p[1]) < 8}

\* Converting pages 0 to 7 in place, then 8 to 15.
ConvertUpper ==
  /\ cpu_pc = "upper"
  /\ frame' = [frame EXCEPT !.pixels =
                 (@ \ FirstPages(@)) \cup PixelsOf(lcd.vram, 0 .. 7)]
  /\ cpu_pc' = "lower"
  /\ UNCHANGED <<workload, dmaVars, lcdVars, soundVars, frames, mainVars, lock,
                 writes, sends>>

ConvertLower ==
  /\ cpu_pc = "lower"
  /\ frame' = [pixels |-> FirstPages(frame.pixels) \cup PixelsOf(lcd.vram, 8 .. 15),
               pending |-> TRUE]
  /\ lock' = "none" /\ cpu_pc' = "run"
  /\ UNCHANGED <<workload, dmaVars, lcdVars, soundVars, frames, mainVars,
                 writes, sends>>

-----------------------------------------------------------------------------
(* The SDL thread.                                                         *)

OthersThanMain == <<workload, dmaVars, lcdVars, soundVars, cpuVars, writes, sends>>

\* present_last: nothing is drawn before the first frame.
Present(picture) == [lost |-> FALSE, shows |-> picture]

\* The environment uncovers the window, which has lost its content.
Expose ==
  /\ exposed < MaxExposed /\ exposed' = exposed + 1
  /\ window' = [lost |-> TRUE, shows |-> << >>] /\ exposure' = TRUE
  /\ UNCHANGED <<OthersThanMain, main_pc, px, texture, shown, frameVars>>

\* Mutant: exposure events are dropped like unknown ones.
PollEvents_ignores ==
  /\ main_pc = "poll"
  /\ exposure' = FALSE
  /\ main_pc' = "take"
  /\ UNCHANGED <<OthersThanMain, window, px, texture, shown, exposed, frameVars>>

\* poll_events drains the queue; an exposed window is presented again.
PollEvents ==
  /\ main_pc = "poll"
  /\ window' = IF exposure THEN Present(texture) ELSE window
  /\ exposure' = FALSE
  /\ main_pc' = "take"
  /\ UNCHANGED <<OthersThanMain, px, texture, shown, exposed, frameVars>>

\* LcdFrameBuf::take waits for the mutex and looks at pending.
LockTake ==
  /\ main_pc = "take" /\ lock = "none"
  /\ IF frame.pending
     THEN main_pc' = "copy" /\ lock' = "main"
     ELSE main_pc' = "poll" /\ lock' = lock
  /\ UNCHANGED <<OthersThanMain, px, texture, window, exposure, shown, exposed,
                 frame>>

\* The upper half of the rows.
UpperRows(pixels) == {p \in pixels : p[2] < 44}

\* The copy, the upper half of the rows and then the lower half.
CopyUpper ==
  /\ main_pc = "copy"
  /\ px' = (px \ UpperRows(px)) \cup UpperRows(frame.pixels)
  /\ main_pc' = "rest"
  /\ UNCHANGED <<OthersThanMain, texture, window, exposure, shown, exposed,
                 frameVars>>

CopyLower ==
  /\ main_pc = "rest"
  /\ px' = UpperRows(px) \cup (frame.pixels \ UpperRows(frame.pixels))
  /\ frame' = [frame EXCEPT !.pending = FALSE]
  /\ lock' = "none"
  /\ shown' = IF cpu_pc = "run" THEN Len(frames) ELSE Len(frames) - 1
  /\ main_pc' = "render"
  /\ UNCHANGED <<OthersThanMain, texture, window, exposure, exposed>>

\* render: palette, texture, present.
Render ==
  /\ main_pc = "render"
  /\ texture' = <<Rendered(px)>> /\ window' = Present(texture')
  /\ main_pc' = "poll"
  /\ UNCHANGED <<OthersThanMain, px, exposure, shown, exposed, frameVars>>

-----------------------------------------------------------------------------

Off == [cnt |-> 0, sadr |-> 0, dadr |-> 0, en |-> 0, tf |-> 0]
Blank == [page |-> 0, col |-> 0, vram |-> << >>, raw |-> << >>]
Silent == [pending |-> FALSE, complete |-> 0, last |-> 0]
NoRun == [empty |-> FALSE, from |-> 0, length |-> 0]

\* PiecePeripherals::reset; only a cold start reaches the ports and the LCD.
Reset(cold) ==
  /\ CanWrite
  /\ chan' = [ch \in Channels |-> Off]
  /\ live' = [ch \in {0, 1} |-> Live(Off)]
  /\ serial' = [ctl |-> 0, irda |-> 0]
  /\ sound' = Silent /\ tally' = NoRun
  /\ IF cold THEN lcd' = Blank /\ rs' = FALSE ELSE UNCHANGED lcdVars
  /\ UNCHANGED <<workload, now, rate, cpuVars, mainVars, frameVars, sends>>

Init ==
  /\ workload \in Workloads
  /\ chan = [ch \in Channels |-> Off] /\ live = [ch \in {0, 1} |-> Live(Off)]
  /\ serial = [ctl |-> 0, irda |-> 0]
  /\ rs = FALSE /\ lcd = Blank
  /\ sound = Silent /\ tally = NoRun /\ now = 1 /\ rate \in Rates
  /\ frame = [pixels |-> {}, pending |-> FALSE] /\ lock = "none"
  /\ cpu_pc = "run" /\ frames = << >>
  /\ main_pc = "poll" /\ px = {} /\ texture = << >> /\ window = Present(<< >>)
  /\ exposure = FALSE /\ shown = 0
  /\ writes = 0 /\ sends = 0 /\ exposed = 0

LcdGuest ==
  /\ workload \in {"picture", "frames"}
  /\ \/ \E level \in BOOLEAN : WriteRs(level)
     \/ \E v \in Bytes[workload] : SendByte(v)
     \/ Reset(TRUE)

SoundGuest ==
  /\ workload = "sound"
  /\ \/ \E r \in Rates : ChangeRate(r)
     \/ \E b \in {"ctl", "irda"} : WriteSerial(b, 1)
     \/ Elapse
     \/ Reset(FALSE)

StoreDma == \E w \in Writes[workload] : WriteDma(w[1], w[2], w[3])

CpuPush == LockPush \/ ConvertUpper \/ ConvertLower
Main == PollEvents \/ LockTake \/ CopyUpper \/ CopyLower \/ Render

\* The SDL thread's loop goes on unseen in the other workloads.
Unseen == workload # "frames" /\ UNCHANGED vars

Next ==
  \/ StoreDma \/ LcdGuest \/ SoundGuest \/ Tick \/ CpuPush
  \/ workload = "frames" /\ (Expose \/ Main)
  \/ Unseen

Spec == Init /\ [][Next]_vars

\* The runner's thread gets on, and the SDL thread loops; the mutex is free
\* again and again, and a waiting thread gets it in the end.
FairSpec == Spec /\ WF_vars(CpuPush) /\ WF_vars(PollEvents) /\ SF_vars(LockTake)
              /\ WF_vars(CopyUpper) /\ WF_vars(CopyLower) /\ WF_vars(Render)

-----------------------------------------------------------------------------
\* What the reference wiring shows: eight pixels from left to right are the
\* bits of the byte sent, from the lowest, two cells of a row making a pixel.
RawPixel(x, y) ==
  LET page == PageAt(x)
  IN 2 * Bit(Cell(lcd.raw, page, 2 * y), x % 8)
       + Bit(Cell(lcd.raw, page, 2 * y + 1), x % 8)

RawPoint(x, y) == <<x, y, RawPixel(x, y)>>

\* The points of some rows that are not white.
RawPixelsOf(rows) == {p \in {RawPoint(x, y) : x \in 0 .. 127, y \in rows} : p[3] # 0}

\* Whatever commands, data and blocks were sent, the picture shows the bytes as
\* they were sent, each at its place: the two bit orders (wiring and
\* conversion), the page order and the interleaved cells agree.
PixelsShowTheBytesSent ==
  to_pixels(lcd.vram) = RawPixelsOf({c[2] \div 2 : c \in DOMAIN lcd.raw} \cap 0 .. 87)

\* A channel 1 that the program sees enabled has a completion coming, unless
\* it was started with a count of zero: else no store would start it again.  And
\* neither the time from an interrupt to the next start nor a late tick changes
\* the rate: an unbroken run of transfers takes exactly the time of its samples.
TransfersKeepTime ==
  /\ Enabled(1) /\ ~tally.empty => sound.pending
  /\ sound.pending => sound.complete = tally.from + tally.length

\* The last frame completed ends up in the window, through frames that replace
\* each other and a window that loses its content.
LatestFrameIsShown ==
  workload = "frames" =>
    <>[](frames # << >> =>
           window = Present(<<Rendered(frames[Len(frames)])>>))
=============================================================================
