---------------------------- MODULE Display_proofs ----------------------------
(***************************************************************************)
(* Proofs about Display for any memory, any register writes, any clocks    *)
(* and any lateness of the ticks: that sound transfers neither get lost nor*)
(* drift, that the SDL thread renders nothing but completed frames, and    *)
(* that a frame's picture is the one that the bytes sent show.             *)
(***************************************************************************)
EXTENDS Display, WellFoundedInduction, TLAPS

Known == workload \in Workloads

\* A guest's store to a DMA register in any of its workloads.
GuestStore ==
  \E ch \in Channels, reg \in Registers, v \in Halfwords : WriteDma(ch, reg, v)

LEMMA StoresAre ==
  ASSUME Known, StoreDma
  PROVE  GuestStore
<1>1. PICK w \in Writes[workload] : WriteDma(w[1], w[2], w[3])
  BY Zenon DEF StoreDma
<1>2. w \in Channels \X Registers \X Halfwords
  BY WritesAssumption DEF Known
<1>3. w[1] \in Channels /\ w[2] \in Registers /\ w[3] \in Halfwords
  BY <1>2
<1> QED
  BY <1>1, <1>3, Zenon DEF GuestStore

\* The steps of the SDL thread and its window.
MainSteps == Expose \/ Main

LEMMA WorkloadStays == Known /\ [Next]_vars => Known'
<1> SUFFICES ASSUME Known, [Next]_vars PROVE Known'
  OBVIOUS
<1> USE DEF Known
<1>1. CASE UNCHANGED vars \/ Unseen
  BY <1>1 DEF vars, Unseen
<1>2. CASE StoreDma
  BY <1>2 DEF StoreDma, WriteDma
<1>3. CASE LcdGuest
  BY <1>3, Zenon DEF LcdGuest, WriteRs, SendByte, Reset
<1>4. CASE SoundGuest
  BY <1>4 DEF SoundGuest, ChangeRate, WriteSerial, Elapse, Reset
<1>5. CASE Tick \/ CpuPush
  BY <1>5 DEF Tick, CpuPush, LockPush, ConvertUpper, ConvertLower
<1>6. CASE MainSteps
  BY <1>6 DEF MainSteps, Main, Expose, PollEvents, LockTake, CopyUpper, CopyLower, Render,
              OthersThanMain
<1> QED
  BY <1>1, <1>2, <1>3, <1>4, <1>5, <1>6, Zenon DEF Next, MainSteps

LEMMA Workload == Spec => []Known
<1>1. Init => Known
  BY DEF Init, Known
<1> QED
  BY <1>1, WorkloadStays, PTL DEF Spec

-----------------------------------------------------------------------------
(* Sound transfers.                                                        *)

Channel == [cnt : Int, sadr : Int, dadr : Int, en : Int, tf : Int]

\* An interrupt delivered last is where the run of transfers ends so far, unless
\* another transfer is on its way.
SoundInv ==
  /\ Known
  /\ DOMAIN chan = Channels /\ chan[1] \in Channel
  /\ now \in Nat /\ rate \in Nat
  /\ tally \in [empty : BOOLEAN, from : Int, length : Int]
  /\ sound \in [pending : BOOLEAN, complete : Int, last : Int]
  /\ sound.last <= now
  /\ ~sound.pending /\ sound.last # 0 => sound.last = tally.from + tally.length

LEMMA OffIsTyped == Off \in Channel /\ Off.en % 2 = 0
BY DEF Off, Channel

LEMMA WithRegIsTyped ==
  ASSUME NEW c \in Channel, NEW reg \in Registers, NEW v \in Halfwords
  PROVE  /\ WithReg(c, reg, v) \in Channel
         /\ WithReg(c, reg, v).en = IF reg = "en" THEN v ELSE c.en
<1>1. v \in Int /\ High(c.cnt) \in Int /\ Low(c.cnt) \in Int
                /\ High(c.sadr) \in Int /\ Low(c.sadr) \in Int
                /\ High(c.dadr) \in Int /\ Low(c.dadr) \in Int
  BY DEF Channel, Halfwords, High, Low
<1> QED
  BY <1>1 DEF WithReg, Registers, Channel

LEMMA LiveCount ==
  ASSUME NEW c \in Channel
  PROVE  Live(c).cnt \in Nat
BY DEF Live, Channel

LEMMA ProductIs ==
  ASSUME NEW n \in Nat, NEW r \in Nat
  PROVE  n * r \in Nat
OBVIOUS

LEMMA OneIsAChannel == 0 \in Channels /\ 1 \in Channels
BY DEF Channels

\* A transfer that starts: its completion ends the run it belongs to.
LEMMA StartKeepsTime ==
  ASSUME SoundInv, TransfersKeepTime, NEW n \in Nat, StartCh1(n)
  PROVE  /\ tally' \in [empty : BOOLEAN, from : Int, length : Int]
         /\ sound' \in [pending : BOOLEAN, complete : Int, last : Int]
         /\ sound'.last = sound.last
         /\ ~sound'.pending /\ sound'.last # 0 => sound'.last = tally'.from + tally'.length
         /\ ~tally'.empty => sound'.pending
         /\ sound'.pending => sound'.complete = tally'.from + tally'.length
<1>1. CASE n = 0
  <2>1. tally' = [empty |-> TRUE, from |-> tally.from, length |-> tally.length]
        /\ sound' = sound
    BY <1>1 DEF StartCh1, SoundInv
  <2> QED
    BY <2>1 DEF SoundInv, TransfersKeepTime
<1>2. CASE n # 0
  <2> DEFINE L == n * rate
  <2>1. L \in Nat
    BY ProductIs DEF SoundInv
  <2>2. /\ sound' = [sound EXCEPT !.pending = TRUE, !.complete = Base(L) + L]
        /\ tally' = RunOn(L)
    BY <1>2 DEF StartCh1
  <2> HIDE DEF L
  <2>3. Base(L) \in Int
    BY DEF Base, SoundInv
  <2>4. sound' = [pending |-> TRUE, complete |-> Base(L) + L, last |-> sound.last]
    BY <2>2 DEF SoundInv
  <2>5. sound.last \in Int /\ tally.from \in Int /\ tally.length \in Int
    BY DEF SoundInv
  <2>6. CASE ~sound.pending /\ sound.last # 0 /\ now - (tally.from + tally.length) < L
    <3>1. Base(L) = tally.from + tally.length
      BY <2>6, <2>1 DEF Base, SoundInv
    <3>2. RunOn(L) = [tally EXCEPT !.empty = FALSE, !.length = @ + L]
      BY <2>6 DEF RunOn
    <3>3. tally' = [empty |-> FALSE, from |-> tally.from, length |-> tally.length + L]
      BY <2>2, <3>2 DEF SoundInv
    <3> QED
      BY <2>1, <2>3, <2>4, <2>5, <3>1, <3>3
  <2>7. CASE ~(~sound.pending /\ sound.last # 0 /\ now - (tally.from + tally.length) < L)
    <3>1. tally' = [empty |-> FALSE, from |-> Base(L), length |-> L]
      BY <2>2, <2>7 DEF RunOn
    <3> QED
      BY <2>1, <2>3, <2>4, <2>5, <3>1
  <2> QED
    BY <2>6, <2>7
<1> QED
  BY <1>1, <1>2

LEMMA StoreKeepsTime ==
  ASSUME SoundInv, TransfersKeepTime, NEW ch \in Channels, NEW reg \in Registers,
         NEW v \in Halfwords, WriteDma(ch, reg, v)
  PROVE  SoundInv' /\ TransfersKeepTime'
<1> DEFINE c == WithReg(chan[ch], reg, v)
<1>1. ch = 1 => c \in Channel /\ c.en = IF reg = "en" THEN v ELSE chan[1].en
  BY WithRegIsTyped DEF SoundInv
<1>2. chan' = [chan EXCEPT ![ch] = c]
  BY DEF WriteDma
<1>3. UNCHANGED <<workload, now, rate>>
  BY DEF WriteDma
<1>4. CASE ch = 1 /\ reg = "en" /\ ~Enabled(1) /\ v % 2 = 1
  <2>1. StartCh1(Live(c).cnt)
    BY <1>4 DEF WriteDma
  <2>2. Live(c).cnt \in Nat
    BY <1>1, <1>4, LiveCount
  <2> HIDE DEF c
  <2>3. DOMAIN chan' = Channels /\ chan'[1] \in Channel
    BY <1>1, <1>2, <1>4, OneIsAChannel DEF SoundInv
  <2> QED
    BY <1>3, <2>1, <2>2, <2>3, StartKeepsTime DEF SoundInv, TransfersKeepTime, Known
<1>5. CASE ~(ch = 1 /\ reg = "en" /\ ~Enabled(1) /\ v % 2 = 1)
  <2>1. UNCHANGED <<sound, tally>>
    BY <1>5 DEF WriteDma
  <2> HIDE DEF c
  <2>2. DOMAIN chan' = Channels /\ chan'[1] \in Channel
    BY <1>1, <1>2, OneIsAChannel DEF SoundInv
  <2>3. chan'[1].en % 2 = 1 => chan[1].en % 2 = 1
    BY <1>1, <1>2, <1>5, OneIsAChannel DEF SoundInv, Enabled
  <2> QED
    BY <1>3, <2>1, <2>2, <2>3 DEF SoundInv, TransfersKeepTime, Enabled, Known
<1> QED
  BY <1>4, <1>5

LEMMA TickKeepsTime ==
  ASSUME SoundInv, TransfersKeepTime, Tick
  PROVE  SoundInv' /\ TransfersKeepTime'
<1>1. chan' = [chan EXCEPT ![1].en = @ - (@ % 2), ![1].cnt = 0]
  BY DEF Tick, finish_ch1
<1> DEFINE even == chan[1].en - (chan[1].en % 2)
<1>2. DOMAIN chan' = Channels /\ chan'[1] = [chan[1] EXCEPT !.en = even, !.cnt = 0]
  BY <1>1, OneIsAChannel DEF SoundInv
<1>3. even \in Int /\ ~(even % 2 = 1)
  BY DEF SoundInv, Channel
<1> HIDE DEF even
<1>4. chan'[1] \in Channel /\ chan'[1].en = even
  <2> DEFINE c == chan[1]
  <2>1. c \in Channel /\ chan'[1] = [c EXCEPT !.en = even, !.cnt = 0]
    BY <1>2 DEF SoundInv
  <2> HIDE DEF c
  <2>2. chan'[1] = [cnt |-> 0, sadr |-> c.sadr, dadr |-> c.dadr, en |-> even, tf |-> c.tf]
    BY <2>1 DEF Channel
  <2> QED
    BY <1>3, <2>1, <2>2 DEF Channel
<1>5. ~(chan'[1].en % 2 = 1)
  BY <1>3, <1>4
<1>6. sound' = [pending |-> FALSE, complete |-> sound.complete, last |-> sound.complete]
  BY DEF Tick, SoundInv
<1>7. sound.pending /\ now >= sound.complete /\ UNCHANGED <<workload, now, rate, tally>>
  BY DEF Tick
<1>8. sound.complete \in Int /\ sound.complete = tally.from + tally.length
  BY <1>7 DEF SoundInv, TransfersKeepTime
<1> QED
  BY <1>2, <1>4, <1>5, <1>6, <1>7, <1>8 DEF SoundInv, TransfersKeepTime, Enabled, Known

\* A reset forgets run and completion together.
LEMMA ResetKeepsTime ==
  ASSUME SoundInv, NEW cold \in BOOLEAN, Reset(cold)
  PROVE  SoundInv' /\ TransfersKeepTime'
<1>1. DOMAIN chan' = Channels /\ chan'[1] = Off
  BY OneIsAChannel DEF Reset
<1>2. sound' = Silent /\ tally' = NoRun /\ UNCHANGED <<workload, now, rate>>
  BY DEF Reset
<1> QED
  BY <1>1, <1>2, OffIsTyped DEF SoundInv, TransfersKeepTime, Enabled, Silent, NoRun, Known

\* A byte sent, and a block of channel 0 behind it, leave channel 1 alone.
LEMMA SendKeepsTime ==
  ASSUME SoundInv, TransfersKeepTime, NEW v, SendByte(v)
  PROVE  SoundInv' /\ TransfersKeepTime'
<1>1. UNCHANGED <<workload, sound, now, rate, tally>>
  BY Zenon DEF SendByte, soundVars
<1>2. \/ chan' = chan
      \/ chan' = [chan EXCEPT ![0].sadr = live[0].sadr + Len(Block),
                              ![0].cnt = 0, ![0].en = @ - (@ % 2)]
  BY Zenon DEF SendByte
<1>3. DOMAIN chan' = Channels /\ chan'[1] = chan[1]
  BY <1>2, OneIsAChannel DEF SoundInv
<1> QED
  BY <1>1, <1>3 DEF SoundInv, TransfersKeepTime, Enabled, Known

LEMMA SoundStep ==
  ASSUME SoundInv, TransfersKeepTime, [Next]_vars
  PROVE  SoundInv' /\ TransfersKeepTime'
<1>1. CASE StoreDma
  <2>1. GuestStore
    BY <1>1, StoresAre DEF SoundInv
  <2> QED
    BY <2>1, StoreKeepsTime DEF GuestStore
<1>2. CASE \E v : SendByte(v)
  BY <1>2, SendKeepsTime
<1>3. CASE \E cold \in BOOLEAN : Reset(cold)
  BY <1>3, ResetKeepsTime
<1>4. CASE Tick
  BY <1>4, TickKeepsTime
<1>5. CASE \E r \in Rates : ChangeRate(r)
  BY <1>5, RatesAssumption DEF ChangeRate, dmaVars, SoundInv, TransfersKeepTime, Enabled, Known
<1>6. CASE Elapse
  BY <1>6 DEF Elapse, dmaVars, SoundInv, TransfersKeepTime, Enabled, Known
<1>7. CASE UNCHANGED <<workload, chan, soundVars>>
  BY <1>7 DEF soundVars, SoundInv, TransfersKeepTime, Enabled, Known
<1>8. UNCHANGED vars \/ Unseen => UNCHANGED <<workload, chan, soundVars>>
  BY DEF vars, Unseen, dmaVars
<1>9. LcdGuest => \/ \E v : SendByte(v)
                  \/ \E cold \in BOOLEAN : Reset(cold)
                  \/ UNCHANGED <<workload, chan, soundVars>>
  BY Zenon DEF LcdGuest, WriteRs, dmaVars
<1>10. SoundGuest => \/ \E r \in Rates : ChangeRate(r)
                     \/ Elapse
                     \/ \E cold \in BOOLEAN : Reset(cold)
                     \/ UNCHANGED <<workload, chan, soundVars>>
  BY DEF SoundGuest, WriteSerial
<1>11. CpuPush => UNCHANGED <<workload, chan, soundVars>>
  BY DEF CpuPush, LockPush, ConvertUpper, ConvertLower, dmaVars
<1>12. MainSteps => UNCHANGED <<workload, chan, soundVars>>
  BY DEF MainSteps, Main, Expose, PollEvents, LockTake, CopyUpper, CopyLower, Render,
         OthersThanMain, dmaVars
<1> QED
  BY <1>1, <1>2, <1>3, <1>4, <1>5, <1>6, <1>7, <1>8, <1>9, <1>10, <1>11, <1>12, Zenon
     DEF Next, MainSteps

\* Whatever the guest writes and however late the ticks: an enabled channel 1
\* has a completion coming unless it was started empty, and an unbroken run of
\* transfers takes the time of its samples.
THEOREM SoundKeepsTime == Spec => []TransfersKeepTime
<1>1. Init => SoundInv /\ TransfersKeepTime
  BY OneIsAChannel, OffIsTyped, RatesAssumption
     DEF Init, SoundInv, TransfersKeepTime, Enabled, Silent, NoRun, Known
<1>2. (SoundInv /\ TransfersKeepTime) /\ [Next]_vars => (SoundInv /\ TransfersKeepTime)'
  BY SoundStep
<1> QED
  BY <1>1, <1>2, PTL DEF Spec

-----------------------------------------------------------------------------
(* Frames.                                                                 *)

\* A pixel's eight neighbours in x tell its page.
LEMMA PageOfPixel ==
  ASSUME NEW page \in Pages, NEW i \in 0 .. 7
  PROVE  PageAt(127 - ((page - 10) % 16) * 8 - i) = page
<1> DEFINE k == (page - 10) % 16
<1>1. k \in 0 .. 15 /\ (10 + k) % 16 = page
  BY DEF Pages
<1>2. 127 - k * 8 - i = 8 * (15 - k) + (7 - i)
  BY <1>1
<1>3. (127 - k * 8 - i) \div 8 = 15 - k
  BY <1>1, <1>2
<1>4. (25 - (15 - k)) % 16 = page
  BY <1>1
<1> QED
  BY <1>3, <1>4 DEF PageAt

\* What it takes to be a pixel of some pages.
LEMMA PixelsAre ==
  ASSUME NEW vram, NEW pages, NEW p
  PROVE  p \in PixelsOf(vram, pages) <=>
           /\ p[3] # 0
           /\ \E s \in Spots(vram), i \in 0 .. 7 :
                s[1] \in pages /\ s[2] < 88 /\ p = PixelAt(vram, s, i)
BY DEF PixelsOf

\* The first pages of a picture are what the first half of the conversion
\* leaves, and the second half adds the rest.
LEMMA HalvesMakeThePicture ==
  ASSUME NEW vram
  PROVE  /\ FirstPages(PixelsOf(vram, 0 .. 7)) = PixelsOf(vram, 0 .. 7)
         /\ PixelsOf(vram, 0 .. 7) \cup PixelsOf(vram, 8 .. 15) = to_pixels(vram)
<1>1. ASSUME NEW p \in PixelsOf(vram, 0 .. 7)
      PROVE  PageAt(p[1]) < 8
  <2>1. PICK s \in Spots(vram), i \in 0 .. 7 :
          s[1] \in 0 .. 7 /\ p = PixelAt(vram, s, i)
    BY PixelsAre
  <2>2. p[1] = 127 - ((s[1] - 10) % 16) * 8 - i
    BY <2>1 DEF PixelAt
  <2>3. s[1] \in Pages
    BY <2>1 DEF Pages
  <2>4. PageAt(127 - ((s[1] - 10) % 16) * 8 - i) = s[1]
    BY <2>3, PageOfPixel
  <2> QED
    BY <2>1, <2>2, <2>4
<1>2. ASSUME NEW p
      PROVE  p \in to_pixels(vram) <=>
               p \in PixelsOf(vram, 0 .. 7) \/ p \in PixelsOf(vram, 8 .. 15)
  <2>1. \A page : page \in Pages <=> page \in 0 .. 7 \/ page \in 8 .. 15
    BY DEF Pages
  <2> DEFINE In(pages) == /\ p[3] # 0
                          /\ \E s \in Spots(vram), i \in 0 .. 7 :
                               s[1] \in pages /\ s[2] < 88 /\ p = PixelAt(vram, s, i)
  <2>2. \A pages : p \in PixelsOf(vram, pages) <=> In(pages)
    BY PixelsAre
  <2>3. In(Pages) <=> In(0 .. 7) \/ In(8 .. 15)
    BY <2>1, Zenon
  <2> QED
    BY <2>2, <2>3 DEF to_pixels
<1> QED
  BY <1>1, <1>2 DEF FirstPages

\* Frames that push has put into the buffer.
Pushed == IF cpu_pc = "run" THEN Len(frames) ELSE Len(frames) - 1

\* What the SDL thread renders is a frame the guest completed, the one it took.
RenderedIsComplete ==
  main_pc = "render" => shown \in 1 .. Len(frames) /\ px = frames[shown]

\* The mutex covers conversion and copy, so that neither sees half of the
\* other's work; while it waits or converts, the CPU thread cannot draw.
FrameInv ==
  /\ cpu_pc \in {"run", "push", "upper", "lower"}
  /\ main_pc \in {"poll", "take", "copy", "rest", "render"}
  /\ lock = "cpu" <=> cpu_pc \in {"upper", "lower"}
  /\ lock = "main" <=> main_pc \in {"copy", "rest"}
  /\ \E S : frames \in Seq(S)
  /\ cpu_pc # "run" => Len(frames) > 0 /\ frames[Len(frames)] = to_pixels(lcd.vram)
  /\ DOMAIN frame = {"pixels", "pending"}
  /\ frame.pending = TRUE /\ cpu_pc \in {"run", "push"} =>
       Pushed > 0 /\ frame.pixels = frames[Pushed]
  /\ cpu_pc = "lower" => FirstPages(frame.pixels) = PixelsOf(lcd.vram, 0 .. 7)
  /\ main_pc \in {"copy", "rest"} => frame.pending = TRUE
  /\ main_pc = "rest" => UpperRows(px) = UpperRows(frame.pixels)
  /\ RenderedIsComplete

\* A frame completed: the ones before it stay.
LEMMA SendKeepsFrames ==
  ASSUME FrameInv, NEW v, SendByte(v)
  PROVE  FrameInv'
<1>1. cpu_pc = "run" /\ UNCHANGED <<frame, lock, main_pc, px, shown>>
  BY Zenon DEF SendByte, Guest, frameVars, mainVars
<1>2. \/ UNCHANGED <<cpu_pc, frames>>
      \/ cpu_pc' = "push" /\ frames' = Append(frames, to_pixels(lcd'.vram))
  BY Zenon DEF SendByte, cpuVars
<1>3. CASE UNCHANGED <<cpu_pc, frames>>
  BY <1>1, <1>3 DEF FrameInv, RenderedIsComplete, Pushed
<1>4. CASE cpu_pc' = "push" /\ frames' = Append(frames, to_pixels(lcd'.vram))
  <2> DEFINE picture == to_pixels(lcd'.vram)
  <2>1. PICK S : frames \in Seq(S)
    BY DEF FrameInv
  <2>2. frames \in Seq(S \cup {picture}) /\ frames' = Append(frames, picture)
    BY <1>4, <2>1
  <2> HIDE DEF picture
  <2>3. /\ frames' \in Seq(S \cup {picture})
        /\ Len(frames) \in Nat /\ Len(frames') = Len(frames) + 1
        /\ frames'[Len(frames')] = picture
        /\ \A n \in 1 .. Len(frames) : frames'[n] = frames[n]
    BY <2>2
  <2>4. Pushed' = Pushed /\ Pushed = Len(frames)
    BY <1>1, <1>4, <2>3 DEF Pushed
  <2>5. RenderedIsComplete'
    BY <1>1, <2>3 DEF FrameInv, RenderedIsComplete
  <2>6. frames'[Len(frames')] = to_pixels(lcd'.vram)
    BY <2>3 DEF picture
  <2>7. \E T : frames' \in Seq(T)
    BY <2>3
  <2>8. frame'.pending = TRUE => Pushed' > 0 /\ frame'.pixels = frames'[Pushed']
    BY <1>1, <2>3, <2>4 DEF FrameInv
  <2>9. Len(frames') > 0
    BY <2>3
  <2>10. /\ cpu_pc' \in {"run", "push", "upper", "lower"}
         /\ main_pc' \in {"poll", "take", "copy", "rest", "render"}
         /\ lock' = "cpu" <=> cpu_pc' \in {"upper", "lower"}
         /\ lock' = "main" <=> main_pc' \in {"copy", "rest"}
         /\ DOMAIN frame' = {"pixels", "pending"}
         /\ cpu_pc' # "lower"
         /\ main_pc' \in {"copy", "rest"} => frame'.pending = TRUE
         /\ main_pc' = "rest" => UpperRows(px') = UpperRows(frame'.pixels)
    BY <1>1, <1>4 DEF FrameInv
  <2> QED
    BY <2>5, <2>6, <2>7, <2>8, <2>9, <2>10 DEF FrameInv
<1> QED
  BY <1>2, <1>3, <1>4

LEMMA PushKeepsFrames ==
  ASSUME FrameInv, CpuPush
  PROVE  FrameInv'
<1>1. UNCHANGED <<lcd, frames, main_pc, px, shown>>
  BY Zenon DEF CpuPush, LockPush, ConvertUpper, ConvertLower, lcdVars, mainVars
<1>2. CASE LockPush
  BY <1>1, <1>2 DEF LockPush, FrameInv, RenderedIsComplete, Pushed
<1>3. CASE ConvertUpper
  <2> DEFINE new == (frame.pixels \ FirstPages(frame.pixels)) \cup PixelsOf(lcd.vram, 0 .. 7)
  <2>1. cpu_pc = "upper" /\ cpu_pc' = "lower" /\ lock' = lock
        /\ frame' = [frame EXCEPT !.pixels = new]
    BY <1>3, Zenon DEF ConvertUpper
  <2>2. FirstPages(new) = PixelsOf(lcd.vram, 0 .. 7)
    <3>1. FirstPages(PixelsOf(lcd.vram, 0 .. 7)) = PixelsOf(lcd.vram, 0 .. 7)
      BY HalvesMakeThePicture
    <3> QED
      BY <3>1 DEF FirstPages
  <2> HIDE DEF new
  <2>3. DOMAIN frame' = DOMAIN frame /\ frame'.pixels = new /\ frame'.pending = frame.pending
    BY <2>1 DEF FrameInv
  <2> QED
    BY <1>1, <2>1, <2>2, <2>3 DEF FrameInv, RenderedIsComplete, Pushed
<1>4. CASE ConvertLower
  <2> DEFINE new == FirstPages(frame.pixels) \cup PixelsOf(lcd.vram, 8 .. 15)
  <2>1. cpu_pc = "lower" /\ cpu_pc' = "run" /\ lock' = "none"
        /\ frame' = [pixels |-> new, pending |-> TRUE]
    BY <1>4, Zenon DEF ConvertLower
  <2>2. new = to_pixels(lcd.vram)
    BY <2>1, HalvesMakeThePicture DEF FrameInv
  <2> HIDE DEF new
  <2>3. DOMAIN frame' = {"pixels", "pending"} /\ frame'.pixels = new /\ frame'.pending = TRUE
    BY <2>1
  <2> QED
    BY <1>1, <2>1, <2>2, <2>3 DEF FrameInv, RenderedIsComplete, Pushed
<1> QED
  BY <1>2, <1>3, <1>4 DEF CpuPush

LEMMA MainKeepsFrames ==
  ASSUME FrameInv, MainSteps
  PROVE  FrameInv'
<1>1. UNCHANGED <<lcd, frames, cpu_pc>>
  BY Zenon DEF MainSteps, Main, Expose, PollEvents, LockTake, CopyUpper, CopyLower, Render,
               OthersThanMain, lcdVars, cpuVars
<1>2. CASE Expose \/ PollEvents \/ LockTake \/ Render
  <2>1. UNCHANGED <<frame, px>>
    BY <1>2 DEF Expose, PollEvents, LockTake, Render, frameVars
  <2> QED
    BY <1>1, <1>2, <2>1 DEF Expose, PollEvents, LockTake, Render, frameVars, FrameInv,
                            RenderedIsComplete, Pushed
<1>3. CASE CopyUpper
  <2> DEFINE new == (px \ UpperRows(px)) \cup UpperRows(frame.pixels)
  <2>1. main_pc = "copy" /\ main_pc' = "rest" /\ px' = new /\ UNCHANGED <<frame, lock>>
    BY <1>3, Zenon DEF CopyUpper, frameVars
  <2>2. UpperRows(new) = UpperRows(frame.pixels)
    BY DEF UpperRows
  <2> HIDE DEF new
  <2> QED
    BY <1>1, <2>1, <2>2 DEF FrameInv, RenderedIsComplete, Pushed
<1>4. CASE CopyLower
  <2> DEFINE new == UpperRows(px) \cup (frame.pixels \ UpperRows(frame.pixels))
  <2>1. /\ main_pc = "rest" /\ main_pc' = "render" /\ px' = new /\ lock' = "none"
        /\ frame' = [frame EXCEPT !.pending = FALSE]
        /\ shown' = Pushed
    BY <1>4, Zenon DEF CopyLower, Pushed
  <2>2. new = frame.pixels
    BY <2>1 DEF FrameInv, UpperRows
  <2> HIDE DEF new
  <2>3. DOMAIN frame' = DOMAIN frame /\ frame'.pixels = frame.pixels /\ frame'.pending = FALSE
    BY <2>1 DEF FrameInv
  <2>4. cpu_pc \in {"run", "push"} /\ frame.pending = TRUE
    BY <2>1 DEF FrameInv
  <2>5. Pushed \in 1 .. Len(frames) /\ px' = frames[Pushed]
    <3>1. Len(frames) \in Nat
      BY DEF FrameInv
    <3> QED
      BY <2>1, <2>2, <2>4, <3>1 DEF FrameInv, Pushed
  <2> QED
    BY <1>1, <2>1, <2>3, <2>4, <2>5 DEF FrameInv, RenderedIsComplete
<1> QED
  BY <1>2, <1>3, <1>4 DEF MainSteps, Main

LEMMA FrameStep == FrameInv /\ [Next]_vars => FrameInv'
<1> SUFFICES ASSUME FrameInv, [Next]_vars PROVE FrameInv'
  OBVIOUS
<1> DEFINE Aside == UNCHANGED <<cpuVars, frameVars, main_pc, px, shown>>
                      /\ (cpu_pc = "run" \/ UNCHANGED lcd)
<1>1. CASE Aside
  BY <1>1 DEF cpuVars, frameVars, FrameInv, RenderedIsComplete, Pushed
<1>2. UNCHANGED vars \/ Unseen => Aside
  BY DEF vars, Unseen, cpuVars, mainVars, lcdVars
<1>3. StoreDma => Aside
  BY DEF StoreDma, WriteDma, mainVars, lcdVars
<1>4. LcdGuest => Aside \/ \E v : SendByte(v)
  BY Zenon DEF LcdGuest, WriteRs, Reset, CanWrite, Guest, mainVars
<1>5. SoundGuest => Aside
  BY DEF SoundGuest, ChangeRate, WriteSerial, Elapse, Reset, CanWrite, Guest, mainVars, lcdVars
<1>6. Tick => Aside
  BY DEF Tick, mainVars, lcdVars
<1> QED
  BY <1>1, <1>2, <1>3, <1>4, <1>5, <1>6, SendKeepsFrames, PushKeepsFrames, MainKeepsFrames,
     Zenon DEF Next, MainSteps

\* However the CPU thread's pushes and the SDL thread's takes interleave, what is
\* rendered is a picture the guest completed, whole and the one last pushed when
\* it was taken: no conversion is seen half done, no pixel is of another frame.
THEOREM FramesAreWhole == Spec => []RenderedIsComplete
<1>1. Init => FrameInv
  <2> SUFFICES ASSUME Init PROVE FrameInv
    OBVIOUS
  <2>1. frames \in Seq({})
    BY DEF Init
  <2>2. frame = [pixels |-> {}, pending |-> FALSE]
    BY DEF Init
  <2>3. DOMAIN frame = {"pixels", "pending"} /\ frame.pending = FALSE
    BY <2>2
  <2> QED
    BY <2>1, <2>3 DEF Init, FrameInv, RenderedIsComplete
<1>2. FrameInv /\ [Next]_vars => FrameInv'
  BY FrameStep
<1>3. FrameInv => RenderedIsComplete
  BY DEF FrameInv
<1> QED
  BY <1>1, <1>2, <1>3, PTL DEF Spec

-----------------------------------------------------------------------------
(* The picture.                                                            *)

\* The powers that a bit's place needs.
LEMMA Powers ==
  /\ 2 ^ 0 = 1 /\ 2 ^ 1 = 2 /\ 2 ^ 2 = 4 /\ 2 ^ 3 = 8 /\ 2 ^ 4 = 16
  /\ 2 ^ 5 = 32 /\ 2 ^ 6 = 64 /\ 2 ^ 7 = 128
OBVIOUS

\* The bits of a byte.
LEMMA BitsAre ==
  ASSUME NEW v \in Byte
  PROVE  /\ Bit(v, 0) = v % 2 /\ Bit(v, 1) = (v \div 2) % 2
         /\ Bit(v, 2) = (v \div 4) % 2 /\ Bit(v, 3) = (v \div 8) % 2
         /\ Bit(v, 4) = (v \div 16) % 2 /\ Bit(v, 5) = (v \div 32) % 2
         /\ Bit(v, 6) = (v \div 64) % 2 /\ Bit(v, 7) = (v \div 128) % 2
         /\ \A i \in 0 .. 7 : Bit(v, i) \in {0, 1}
<1>1. /\ Bit(v, 0) = v % 2 /\ Bit(v, 1) = (v \div 2) % 2
      /\ Bit(v, 2) = (v \div 4) % 2 /\ Bit(v, 3) = (v \div 8) % 2
      /\ Bit(v, 4) = (v \div 16) % 2 /\ Bit(v, 5) = (v \div 32) % 2
      /\ Bit(v, 6) = (v \div 64) % 2 /\ Bit(v, 7) = (v \div 128) % 2
  BY Powers DEF Bit, Byte
<1>2. \A i \in 0 .. 7 : i \in {0, 1, 2, 3, 4, 5, 6, 7}
  OBVIOUS
<1> QED
  BY <1>1, <1>2 DEF Byte

\* A number of eight given bits has these bits.
LEMMA BitsOfSum ==
  ASSUME NEW b0 \in {0, 1}, NEW b1 \in {0, 1}, NEW b2 \in {0, 1}, NEW b3 \in {0, 1},
         NEW b4 \in {0, 1}, NEW b5 \in {0, 1}, NEW b6 \in {0, 1}, NEW b7 \in {0, 1}
  PROVE  LET w == b7 * 128 + b6 * 64 + b5 * 32 + b4 * 16 + b3 * 8 + b2 * 4 + b1 * 2 + b0 IN
         /\ w \in Byte
         /\ w % 2 = b0 /\ (w \div 2) % 2 = b1 /\ (w \div 4) % 2 = b2 /\ (w \div 8) % 2 = b3
         /\ (w \div 16) % 2 = b4 /\ (w \div 32) % 2 = b5 /\ (w \div 64) % 2 = b6
         /\ (w \div 128) % 2 = b7
BY DEF Byte

\* The wiring puts every bit in the place of its mirror image.
LEMMA ReversedBits ==
  ASSUME NEW v \in Byte
  PROVE  /\ Reversed(v) \in Byte
         /\ \A i \in 0 .. 7 : Bit(Reversed(v), i) = Bit(v, 7 - i)
<1> DEFINE b(i) == Bit(v, i)
           w == b(0) * 128 + b(1) * 64 + b(2) * 32 + b(3) * 16 + b(4) * 8 + b(5) * 4
                  + b(6) * 2 + b(7)
<1>1. \A i \in 0 .. 7 : b(i) \in {0, 1}
  BY BitsAre
<1>2. /\ b(0) \in {0, 1} /\ b(1) \in {0, 1} /\ b(2) \in {0, 1} /\ b(3) \in {0, 1}
      /\ b(4) \in {0, 1} /\ b(5) \in {0, 1} /\ b(6) \in {0, 1} /\ b(7) \in {0, 1}
  BY <1>1
<1>3. Reversed(v) = w
  BY DEF Reversed
<1> HIDE DEF b
<1>4. /\ w \in Byte
      /\ w % 2 = b(7) /\ (w \div 2) % 2 = b(6) /\ (w \div 4) % 2 = b(5) /\ (w \div 8) % 2 = b(4)
      /\ (w \div 16) % 2 = b(3) /\ (w \div 32) % 2 = b(2) /\ (w \div 64) % 2 = b(1)
      /\ (w \div 128) % 2 = b(0)
  BY <1>2, BitsOfSum
<1> HIDE DEF w
<1>5. /\ Bit(w, 0) = b(7) /\ Bit(w, 1) = b(6) /\ Bit(w, 2) = b(5) /\ Bit(w, 3) = b(4)
      /\ Bit(w, 4) = b(3) /\ Bit(w, 5) = b(2) /\ Bit(w, 6) = b(1) /\ Bit(w, 7) = b(0)
  BY <1>4, BitsAre
<1>6. \A i \in 0 .. 7 : Bit(w, i) = b(7 - i)
  <2> TAKE i \in 0 .. 7
  <2>1. i \in {0, 1, 2, 3, 4, 5, 6, 7}
    OBVIOUS
  <2>2. /\ 7 - 0 = 7 /\ 7 - 1 = 6 /\ 7 - 2 = 5 /\ 7 - 3 = 4 /\ 7 - 4 = 3 /\ 7 - 5 = 2
        /\ 7 - 6 = 1 /\ 7 - 7 = 0
    OBVIOUS
  <2> QED
    BY <1>5, <2>1, <2>2
<1> QED
  BY <1>3, <1>4, <1>6 DEF b

\* The controller: its cells are of its memory and hold the reversed bytes
\* that were sent to them.
Cells == Pages \X (0 .. 255)
LcdInv(l) ==
  /\ l = [page |-> l.page, col |-> l.col, vram |-> l.vram, raw |-> l.raw]
  /\ l.page \in Pages /\ l.col \in 0 .. 255
  /\ l.vram = [c \in DOMAIN l.raw |-> Reversed(l.raw[c])]
  /\ DOMAIN l.raw \subseteq Cells
  /\ \A c \in DOMAIN l.raw : l.raw[c] \in Byte

\* A command moves within the controller's addresses.
LEMMA CommandKeeps ==
  ASSUME NEW l, LcdInv(l), NEW d \in Byte
  PROVE  LcdInv(Command(l, d))
<1>1. /\ (l.col \div 32) * 32 + (d % 16) * 2 \in 0 .. 255
      /\ ((l.col \div 2) % 16) * 2 + (d % 8) * 32 \in 0 .. 255
      /\ d % 16 \in Pages
  BY DEF LcdInv, Byte, Pages
<1>2. \E p \in Pages, q \in 0 .. 255 :
        Command(l, d) = [page |-> p, col |-> q, vram |-> l.vram, raw |-> l.raw]
  <2> DEFINE q0 == (l.col \div 32) * 32 + (d % 16) * 2
             q1 == ((l.col \div 2) % 16) * 2 + (d % 8) * 32
             p0 == d % 16
  <2>1. Command(l, d) \in {[l EXCEPT !.col = q0], [l EXCEPT !.col = q1], [l EXCEPT !.page = p0], l}
    BY DEF Command
  <2>2. q0 \in 0 .. 255 /\ q1 \in 0 .. 255 /\ p0 \in Pages
    BY <1>1
  <2> HIDE DEF q0, q1, p0
  <2>3. l = [page |-> l.page, col |-> l.col, vram |-> l.vram, raw |-> l.raw]
        /\ l.page \in Pages /\ l.col \in 0 .. 255
    BY DEF LcdInv
  <2> QED
    BY <2>1, <2>2, <2>3
<1> QED
  BY <1>2 DEF LcdInv

\* A byte is stored, reversed, next to its history.
LEMMA DataKeeps ==
  ASSUME NEW l, LcdInv(l), NEW byte \in Byte
  PROVE  LcdInv([Data(l, Reversed(byte)) EXCEPT !.raw = Put(@, <<l.page, l.col>>, byte)])
<1> DEFINE at == <<l.page, l.col>>
           vram == Put(l.vram, at, Reversed(byte))
           raw == Put(l.raw, at, byte)
           col == (l.col + 1) % 256
           n == [Data(l, Reversed(byte)) EXCEPT !.raw = Put(@, at, byte)]
<1>1. n = [page |-> l.page, col |-> col, vram |-> vram, raw |-> raw]
  <2>1. l = [page |-> l.page, col |-> l.col, vram |-> l.vram, raw |-> l.raw]
    BY DEF LcdInv
  <2> DEFINE d == Data(l, Reversed(byte))
  <2>2. d = [l EXCEPT !.vram = vram, !.col = col]
    BY DEF Data
  <2> HIDE DEF at, vram, col
  <2>3. d = [page |-> l.page, col |-> col, vram |-> vram, raw |-> l.raw]
    <3> HIDE DEF d
    <3> QED
      BY <2>1, <2>2
  <2>4. n = [d EXCEPT !.raw = Put(d.raw, at, byte)]
    OBVIOUS
  <2>5. d.raw = l.raw
    BY <2>3
  <2> HIDE DEF d, n
  <2>6. n = [d EXCEPT !.raw = raw]
    BY <2>4, <2>5
  <2> HIDE DEF raw
  <2> QED
    BY <2>3, <2>6
<1>2. at \in Cells /\ col \in 0 .. 255
  BY DEF LcdInv, Cells
<1>3. raw = [z \in {at} \cup DOMAIN l.raw |-> IF z = at THEN byte ELSE l.raw[z]]
  BY DEF Put
<1>4. vram = [z \in {at} \cup DOMAIN l.vram |-> IF z = at THEN Reversed(byte) ELSE l.vram[z]]
  BY DEF Put
<1> HIDE DEF at, vram, raw, col
<1>5. /\ DOMAIN raw = {at} \cup DOMAIN l.raw
      /\ DOMAIN raw \subseteq Cells
      /\ \A c \in DOMAIN raw : raw[c] \in Byte
  BY <1>2, <1>3 DEF LcdInv
<1>6. vram = [c \in DOMAIN raw |-> Reversed(raw[c])]
  <2>1. DOMAIN l.vram = DOMAIN l.raw /\ \A c \in DOMAIN l.raw : l.vram[c] = Reversed(l.raw[c])
    BY DEF LcdInv
  <2> QED
    BY <1>3, <1>4, <1>5, <2>1
<1>7. l.page \in Pages
  BY DEF LcdInv
<1>8. LcdInv(n)
  <2> HIDE DEF n
  <2> QED
    BY <1>1, <1>2, <1>5, <1>6, <1>7 DEF LcdInv
<1> USE DEF at
<1> QED
  BY <1>8

\* A byte sent, as a command or as data.
LEMMA WriteKeeps ==
  ASSUME NEW l, LcdInv(l), NEW byte \in Byte
  PROVE  LcdInv(WriteLcd(l, byte))
<1>1. Reversed(byte) \in Byte
  BY ReversedBits
<1> QED
  BY <1>1, CommandKeeps, DataKeeps DEF WriteLcd

\* Induction over the natural numbers, for a set of them.
LEMMA SetInduction ==
  ASSUME NEW S, 0 \in S, \A n \in Nat : n \in S => n + 1 \in S
  PROVE  Nat \subseteq S
<1> DEFINE R == {p \in Nat \X Nat : p[1] < p[2]}
<1>1. IsWellFoundedOn(R, Nat)
  BY NatLessThanWellFounded DEF OpToRel
<1> SUFFICES ASSUME Nat \ S # {} PROVE FALSE
  OBVIOUS
<1>2. PICK x \in Nat \ S : \A y \in Nat \ S : ~ (<<y, x>> \in R)
  <2> HIDE DEF R
  <2> QED
    BY <1>1, WFMin
<1>3. x # 0 /\ x - 1 \in Nat /\ x - 1 \notin S
  OBVIOUS
<1>4. <<x - 1, x>> \in R
  BY <1>3
<1> QED
  BY <1>2, <1>3, <1>4

\* The controller after each of some bytes: what the recursion asks of f.
Draws(f, bytes, n) ==
  f = [i \in 0 .. n |-> IF i = 0 THEN lcd ELSE WriteLcd(f[i - 1], bytes[i])]

\* There is such a sequence of states of the controller.
LEMMA DrawsExist ==
  ASSUME NEW bytes, NEW n \in Nat
  PROVE  \E f : Draws(f, bytes, n)
<1> DEFINE S == {k \in Nat : \E f : Draws(f, bytes, k)}
<1>1. 0 \in S
  <2> DEFINE f == [i \in 0 .. 0 |-> lcd]
  <2>1. f = [i \in 0 .. 0 |-> IF i = 0 THEN lcd ELSE WriteLcd(f[i - 1], bytes[i])]
    OBVIOUS
  <2> HIDE DEF f
  <2>2. Draws(f, bytes, 0)
    BY <2>1 DEF Draws
  <2> QED
    BY <2>2
<1>2. ASSUME NEW k \in Nat, k \in S PROVE k + 1 \in S
  <2>1. PICK f : Draws(f, bytes, k)
    BY <1>2
  <2>2. f = [i \in 0 .. k |-> IF i = 0 THEN lcd ELSE WriteLcd(f[i - 1], bytes[i])]
    BY <2>1 DEF Draws
  <2> DEFINE g == [i \in 0 .. k + 1 |-> IF i = k + 1 THEN WriteLcd(f[k], bytes[k + 1]) ELSE f[i]]
             h == [i \in 0 .. k + 1 |-> IF i = 0 THEN lcd ELSE WriteLcd(g[i - 1], bytes[i])]
  <2>3. \A i \in 0 .. k : g[i] = f[i]
    OBVIOUS
  <2>4. \A i \in 0 .. k + 1 : g[i] = IF i = 0 THEN lcd ELSE WriteLcd(g[i - 1], bytes[i])
    <3> TAKE i \in 0 .. k + 1
    <3>1. CASE i = k + 1
      <4>1. g[i] = WriteLcd(f[k], bytes[k + 1])
        BY <3>1
      <4>2. g[i - 1] = f[k] /\ i # 0
        BY <2>3, <3>1
      <4> HIDE DEF g
      <4> QED
        BY <3>1, <4>1, <4>2
    <3>2. CASE i = 0
      BY <2>2, <2>3, <3>2
    <3>3. CASE i \in 1 .. k
      <4>1. i \in 0 .. k /\ i - 1 \in 0 .. k /\ i # 0
        BY <3>3
      <4>2. f[i] = WriteLcd(f[i - 1], bytes[i])
        BY <2>2, <4>1
      <4>3. g[i] = f[i] /\ g[i - 1] = f[i - 1]
        BY <2>3, <4>1
      <4> HIDE DEF g
      <4> QED
        BY <4>1, <4>2, <4>3
    <3> QED
      BY <3>1, <3>2, <3>3
  <2>5. g = h
    <3>1. \A i \in 0 .. k + 1 : h[i] = IF i = 0 THEN lcd ELSE WriteLcd(g[i - 1], bytes[i])
      OBVIOUS
    <3>2. \A i \in 0 .. k + 1 : g[i] = h[i]
      BY <2>4, <3>1
    <3> QED
      BY <3>2
  <2>6. Draws(g, bytes, k + 1)
    <3> HIDE DEF g
    <3> QED
      BY <2>5 DEF Draws
  <2> HIDE DEF g
  <2> QED
    BY <2>6
<1>3. Nat \subseteq S
  <2> HIDE DEF S
  <2> QED
    BY <1>1, <1>2, SetInduction
<1> QED
  BY <1>3

\* Bytes leave the controller's cells with what was sent to them.
LEMMA DrawnKeeps ==
  ASSUME LcdInv(lcd), NEW bytes \in Seq(Byte)
  PROVE  LcdInv(Drawn(bytes))
<1> DEFINE n == Len(bytes)
           f == CHOOSE g : Draws(g, bytes, n)
<1>1. n \in Nat
  OBVIOUS
<1>2. Drawn(bytes) = f[n]
  BY DEF Drawn, Draws
<1>3. Draws(f, bytes, n)
  <2> HIDE DEF n
  <2> QED
    BY <1>1, DrawsExist
<1> HIDE DEF f
<1>4. f = [i \in 0 .. n |-> IF i = 0 THEN lcd ELSE WriteLcd(f[i - 1], bytes[i])]
  BY <1>3 DEF Draws
<1> DEFINE S == {k \in Nat : k <= n => LcdInv(f[k])}
<1>5. 0 \in S
  BY <1>1, <1>4
<1>6. ASSUME NEW k \in Nat, k \in S PROVE k + 1 \in S
  <2> SUFFICES ASSUME k + 1 <= n PROVE LcdInv(f[k + 1])
    OBVIOUS
  <2>1. LcdInv(f[k]) /\ k \in 0 .. n /\ k + 1 \in 0 .. n
    BY <1>1, <1>6
  <2>2. f[k + 1] = WriteLcd(f[k], bytes[k + 1])
    <3>1. k + 1 # 0 /\ (k + 1) - 1 = k
      OBVIOUS
    <3> QED
      BY <1>4, <2>1, <3>1
  <2>3. bytes[k + 1] \in Byte
    BY <1>1, <2>1
  <2> QED
    BY <2>1, <2>2, <2>3, WriteKeeps
<1>7. n \in S
  <2> HIDE DEF S, n
  <2> QED
    BY <1>1, <1>5, <1>6, SetInduction
<1> QED
  BY <1>1, <1>2, <1>7

\* Channel 0, and the copy of it that the sending of a block uses.
LiveInv(l) == l = [en |-> l.en, cnt |-> l.cnt, sadr |-> l.sadr] /\ l.cnt \in Nat /\ l.sadr \in Nat
BlockInv ==
  /\ DOMAIN chan = Channels /\ chan[0] \in Channel
  /\ DOMAIN live = {0, 1} /\ LiveInv(live[0])

\* The controller holds what was sent.
PictureInv == Known /\ BlockInv /\ LcdInv(lcd)

\* The live copies are counts and addresses.
LEMMA LiveIs ==
  ASSUME NEW c \in Channel
  PROVE  LiveInv(Live(c))
<1>1. 2 ^ 24 \in Nat \ {0} /\ 2 ^ 28 \in Nat \ {0}
  OBVIOUS
<1>2. c.cnt % 2 ^ 24 \in Nat /\ c.sadr % 2 ^ 28 \in Nat
  BY <1>1 DEF Channel
<1>3. Live(c) = [en |-> c.en % 2 = 1, cnt |-> c.cnt % 2 ^ 24, sadr |-> c.sadr % 2 ^ 28]
  BY DEF Live
<1> QED
  BY <1>2, <1>3 DEF LiveInv

\* A store to a DMA register.
LEMMA StoreKeepsBlock ==
  ASSUME BlockInv, NEW ch \in Channels, NEW reg \in Registers, NEW v \in Halfwords,
         WriteDma(ch, reg, v)
  PROVE  BlockInv'
<1> DEFINE c == WithReg(chan[ch], reg, v)
<1>1. chan' = [chan EXCEPT ![ch] = c] /\ live' = Synced(ch, reg, c)
  BY DEF WriteDma
<1>2. ch = 0 => c \in Channel
  BY WithRegIsTyped DEF BlockInv
<1> HIDE DEF c
<1>3. DOMAIN chan' = Channels /\ chan'[0] \in Channel
  BY <1>1, <1>2, OneIsAChannel DEF BlockInv
<1>4. DOMAIN live' = {0, 1}
  BY <1>1 DEF Synced, BlockInv
<1>5. LiveInv(live'[0])
  <2>1. CASE ch # 0
    <3>1. live'[0] = live[0]
      BY <1>1, <2>1 DEF Synced, BlockInv
    <3> QED
      BY <3>1 DEF BlockInv
  <2>2. CASE ch = 0
    <3> DEFINE l == live[0]
               n == Live(c)
    <3>1. LiveInv(n) /\ LiveInv(l)
      BY <1>2, <2>2, LiveIs DEF BlockInv
    <3> HIDE DEF n
    <3>2. live'[0] \in {n, [l EXCEPT !.cnt = n.cnt], [l EXCEPT !.sadr = n.sadr], l}
      BY <1>1, <2>2 DEF Synced, BlockInv, n
    <3> HIDE DEF l
    <3> QED
      BY <3>1, <3>2 DEF LiveInv
  <2> QED
    BY <2>1, <2>2
<1> QED
  BY <1>3, <1>4, <1>5 DEF BlockInv

\* What a store to TXD sends are bytes.
LEMMA SentAreBytes ==
  ASSUME MemoryOfBytes, BlockInv, NEW v \in Byte
  PROVE  Sent(v) \in Seq(Byte) /\ Block \in Seq(Byte) /\ Len(Block) \in Nat
<1>1. Block \in Seq(Byte)
  <2>1. CASE live[0].en
    <3> DEFINE l == live[0]
    <3>1. Block = [i \in 1 .. l.cnt |-> Memory(l.sadr + i - 1)]
      BY <2>1 DEF Block
    <3>2. l.cnt \in Nat /\ l.sadr \in Nat
      BY DEF BlockInv, LiveInv
    <3> HIDE DEF l
    <3>3. \A i \in 1 .. l.cnt : Memory(l.sadr + i - 1) \in Byte
      BY <3>2 DEF MemoryOfBytes
    <3> QED
      BY <3>1, <3>2, <3>3
  <2>2. CASE ~live[0].en
    BY <2>2 DEF Block
  <2> QED
    BY <2>1, <2>2
<1> QED
  BY <1>1 DEF Sent

\* A byte sent, and the block behind it, keep cells and history together.
LEMMA SendKeepsPicture ==
  ASSUME MemoryOfBytes, PictureInv, NEW v \in Byte, SendByte(v)
  PROVE  PictureInv'
<1>1. workload' = workload /\ lcd' = Drawn(Sent(v))
  BY Zenon DEF SendByte
<1>2. Sent(v) \in Seq(Byte) /\ Len(Block) \in Nat
  BY SentAreBytes DEF PictureInv
<1>3. LcdInv(lcd')
  BY <1>1, <1>2, DrawnKeeps DEF PictureInv
<1>4. CASE UNCHANGED <<chan, live>>
  BY <1>1, <1>3, <1>4 DEF PictureInv, BlockInv, Known
<1>5. ASSUME /\ live' = [live EXCEPT ![0] = [en |-> FALSE, cnt |-> 0, sadr |-> @.sadr + Len(Block)]]
             /\ chan' = [chan EXCEPT ![0].sadr = live[0].sadr + Len(Block),
                                     ![0].cnt = 0, ![0].en = @ - (@ % 2)]
      PROVE  PictureInv'
  <2> DEFINE a == live[0].sadr + Len(Block)
             c == chan[0]
             even == c.en - (c.en % 2)
  <2>1. a \in Nat
    BY <1>2 DEF PictureInv, BlockInv, LiveInv
  <2>2. DOMAIN live' = {0, 1} /\ live'[0] = [en |-> FALSE, cnt |-> 0, sadr |-> a]
    BY <1>5 DEF PictureInv, BlockInv
  <2>3. DOMAIN chan' = Channels /\ chan'[0] = [c EXCEPT !.sadr = a, !.cnt = 0, !.en = even]
    BY <1>5, OneIsAChannel DEF PictureInv, BlockInv
  <2>4. even \in Int /\ c \in Channel
    BY DEF PictureInv, BlockInv, Channel
  <2> HIDE DEF a, c, even
  <2>5. chan'[0] = [cnt |-> 0, sadr |-> a, dadr |-> c.dadr, en |-> even, tf |-> c.tf]
    BY <2>3, <2>4 DEF Channel
  <2>6. chan'[0] \in Channel
    BY <2>1, <2>4, <2>5 DEF Channel
  <2>7. LiveInv(live'[0])
    BY <2>1, <2>2 DEF LiveInv
  <2>8. Known'
    BY <1>1 DEF PictureInv, Known
  <2> QED
    BY <1>3, <2>2, <2>3, <2>6, <2>7, <2>8 DEF PictureInv, BlockInv
<1> QED
  BY <1>4, <1>5, Zenon DEF SendByte

\* Nothing else writes to the controller.
LEMMA PictureStep ==
  ASSUME MemoryOfBytes, PictureInv, [Next]_vars
  PROVE  PictureInv'
<1> DEFINE Aside == UNCHANGED <<workload, chan, live, lcd>>
<1>1. CASE Aside
  BY <1>1 DEF PictureInv, BlockInv, Known
<1>2. UNCHANGED vars \/ Unseen => Aside
  BY DEF vars, Unseen, dmaVars, lcdVars
<1>3. CASE StoreDma
  <2>1. GuestStore
    BY <1>3, StoresAre DEF PictureInv
  <2>2. PICK ch \in Channels, reg \in Registers, v \in Halfwords : WriteDma(ch, reg, v)
    BY <2>1 DEF GuestStore
  <2>3. UNCHANGED <<workload, lcd>>
    BY <2>2 DEF WriteDma, lcdVars
  <2>4. BlockInv'
    BY <2>2, StoreKeepsBlock DEF PictureInv
  <2> QED
    BY <2>3, <2>4 DEF PictureInv, Known
<1>4. CASE Tick
  <2>1. UNCHANGED <<workload, lcd>> /\ finish_ch1
    BY <1>4 DEF Tick, lcdVars
  <2>2. BlockInv'
    BY <2>1, OneIsAChannel DEF finish_ch1, PictureInv, BlockInv
  <2> QED
    BY <2>1, <2>2 DEF PictureInv, Known
<1>5. CASE \E cold \in BOOLEAN : Reset(cold)
  <2>1. /\ workload' = workload
        /\ lcd' \in {lcd, Blank}
        /\ chan' = [ch \in Channels |-> Off] /\ live' = [ch \in {0, 1} |-> Live(Off)]
    BY <1>5 DEF Reset, lcdVars
  <2>2. BlockInv'
    BY <2>1, OneIsAChannel, OffIsTyped, LiveIs DEF BlockInv
  <2>3. LcdInv(Blank)
    BY DEF Blank, LcdInv, Pages
  <2> QED
    BY <2>1, <2>2, <2>3 DEF PictureInv, Known
<1>6. ASSUME NEW v \in Bytes[workload], SendByte(v) PROVE PictureInv'
  <2>1. v \in Byte
    BY <1>6, BytesAssumption DEF PictureInv, Known
  <2> QED
    BY <1>6, <2>1, SendKeepsPicture
<1>7. LcdGuest => \/ \E v \in Bytes[workload] : SendByte(v)
                  \/ \E cold \in BOOLEAN : Reset(cold)
                  \/ Aside
  BY Zenon DEF LcdGuest, WriteRs, dmaVars
<1>8. SoundGuest => (\E cold \in BOOLEAN : Reset(cold)) \/ Aside
  BY DEF SoundGuest, ChangeRate, WriteSerial, Elapse, dmaVars, lcdVars
<1>9. CpuPush => Aside
  BY DEF CpuPush, LockPush, ConvertUpper, ConvertLower, dmaVars, lcdVars
<1>10. MainSteps => Aside
  BY DEF MainSteps, Main, Expose, PollEvents, LockTake, CopyUpper, CopyLower, Render,
         OthersThanMain, dmaVars, lcdVars
<1> QED
  BY <1>1, <1>2, <1>3, <1>4, <1>5, <1>6, <1>7, <1>8, <1>9, <1>10, Zenon DEF Next, MainSteps

\* A cell never written is white.
LEMMA ZeroHasNoBits == \A i \in 0 .. 7 : Bit(0, i) = 0
<1> TAKE i \in 0 .. 7
<1>1. 0 \in Byte /\ i \in {0, 1, 2, 3, 4, 5, 6, 7}
  BY DEF Byte
<1> QED
  BY <1>1, BitsAre

\* A cell shows its byte from the other side; one never written is zero.
LEMMA CellIs ==
  ASSUME LcdInv(lcd), NEW page, NEW col, NEW i \in 0 .. 7
  PROVE  /\ Bit(Cell(lcd.vram, page, col), i) = Bit(Cell(lcd.raw, page, col), 7 - i)
         /\ <<page, col>> \notin DOMAIN lcd.raw => Bit(Cell(lcd.raw, page, col), i) = 0
<1>1. DOMAIN lcd.vram = DOMAIN lcd.raw
  BY DEF LcdInv
<1>2. CASE <<page, col>> \in DOMAIN lcd.raw
  <2> DEFINE v == lcd.raw[<<page, col>>]
  <2>1. v \in Byte /\ lcd.vram[<<page, col>>] = Reversed(v)
    BY <1>2 DEF LcdInv
  <2>2. Bit(Reversed(v), i) = Bit(v, 7 - i)
    BY <2>1, ReversedBits
  <2> QED
    BY <1>1, <1>2, <2>1, <2>2 DEF Cell
<1>3. CASE <<page, col>> \notin DOMAIN lcd.raw
  <2>1. Cell(lcd.vram, page, col) = 0 /\ Cell(lcd.raw, page, col) = 0
    BY <1>1, <1>3 DEF Cell
  <2>2. 7 - i \in 0 .. 7
    OBVIOUS
  <2> QED
    BY <2>1, <2>2, ZeroHasNoBits
<1> QED
  BY <1>2, <1>3

\* The place in a row of a page's pixel, and back.
LEMMA PlaceIs ==
  ASSUME NEW page \in Pages, NEW i \in 0 .. 7
  PROVE  LET x == 127 - ((page - 10) % 16) * 8 - i IN x \in 0 .. 127 /\ x % 8 = 7 - i
<1> DEFINE k == (page - 10) % 16
<1>1. k \in 0 .. 15
  BY DEF Pages
<1>2. 127 - k * 8 - i = 8 * (15 - k) + (7 - i)
  BY <1>1
<1> HIDE DEF k
<1>3. 127 - k * 8 - i \in 0 .. 127 /\ (127 - k * 8 - i) % 8 = 7 - i
  BY <1>1, <1>2
<1> QED
  BY <1>3 DEF k

\* Every place of a row is one of a page's.
LEMMA PlaceOf ==
  ASSUME NEW x \in 0 .. 127
  PROVE  /\ PageAt(x) \in Pages /\ 7 - (x % 8) \in 0 .. 7
         /\ 127 - ((PageAt(x) - 10) % 16) * 8 - (7 - (x % 8)) = x
<1> DEFINE q == x \div 8
<1>1. q \in 0 .. 15 /\ x = q * 8 + (x % 8) /\ x % 8 \in 0 .. 7
  OBVIOUS
<1>2. PageAt(x) = (25 - q) % 16
  BY DEF PageAt
<1> HIDE DEF q
<1>3. (((25 - q) % 16) - 10) % 16 = 15 - q /\ (25 - q) % 16 \in Pages
  BY <1>1 DEF Pages
<1> QED
  BY <1>1, <1>2, <1>3

\* A pixel of the conversion is the pixel of the bytes sent.
LEMMA PixelIs ==
  ASSUME LcdInv(lcd), NEW page \in Pages, NEW row, NEW i \in 0 .. 7
  PROVE  LET x == 127 - ((page - 10) % 16) * 8 - i
         IN PixelAt(lcd.vram, <<page, row>>, i) = <<x, row, RawPixel(x, row)>>
<1> DEFINE x == 127 - ((page - 10) % 16) * 8 - i
<1>1. PageAt(x) = page /\ x % 8 = 7 - i
  BY PageOfPixel, PlaceIs
<1>2. PixelAt(lcd.vram, <<page, row>>, i) =
        <<x, row, 2 * Bit(Cell(lcd.vram, page, 2 * row), i)
                    + Bit(Cell(lcd.vram, page, 2 * row + 1), i)>>
  BY DEF PixelAt
<1> HIDE DEF x
<1>3. RawPixel(x, row) = 2 * Bit(Cell(lcd.raw, page, 2 * row), 7 - i)
                           + Bit(Cell(lcd.raw, page, 2 * row + 1), 7 - i)
  BY <1>1 DEF RawPixel
<1>4. /\ Bit(Cell(lcd.vram, page, 2 * row), i) = Bit(Cell(lcd.raw, page, 2 * row), 7 - i)
      /\ Bit(Cell(lcd.vram, page, 2 * row + 1), i) = Bit(Cell(lcd.raw, page, 2 * row + 1), 7 - i)
  BY CellIs
<1> QED
  BY <1>2, <1>3, <1>4 DEF x

\* A pixel of the bytes sent that is not white is one of the conversion.
LEMMA SentIsShown ==
  ASSUME LcdInv(lcd), NEW x \in 0 .. 127, NEW y \in 0 .. 87, RawPixel(x, y) # 0
  PROVE  <<x, y, RawPixel(x, y)>> \in to_pixels(lcd.vram)
<1> DEFINE page == PageAt(x)
           i == 7 - (x % 8)
           s == <<page, y>>
           p == <<x, y, RawPixel(x, y)>>
<1>1. page \in Pages /\ i \in 0 .. 7 /\ 127 - ((page - 10) % 16) * 8 - i = x
  BY PlaceOf
<1>2. x % 8 \in 0 .. 7
  OBVIOUS
<1>3. RawPixel(x, y) = 2 * Bit(Cell(lcd.raw, page, 2 * y), x % 8)
                         + Bit(Cell(lcd.raw, page, 2 * y + 1), x % 8)
  BY DEF RawPixel
<1> HIDE DEF page, i
<1>4. p = PixelAt(lcd.vram, s, i)
  BY <1>1, PixelIs
<1>5. <<page, 2 * y>> \in DOMAIN lcd.raw \/ <<page, 2 * y + 1>> \in DOMAIN lcd.raw
  <2> SUFFICES ASSUME <<page, 2 * y>> \notin DOMAIN lcd.raw,
                      <<page, 2 * y + 1>> \notin DOMAIN lcd.raw
               PROVE  FALSE
    OBVIOUS
  <2>1. /\ Bit(Cell(lcd.raw, page, 2 * y), x % 8) = 0
        /\ Bit(Cell(lcd.raw, page, 2 * y + 1), x % 8) = 0
    BY <1>2, CellIs
  <2> QED
    BY <1>3, <2>1
<1>6. s \in Spots(lcd.vram)
  <2>1. PICK col \in {2 * y, 2 * y + 1} : <<page, col>> \in DOMAIN lcd.vram
    BY <1>5 DEF LcdInv
  <2>2. col \div 2 = y
    OBVIOUS
  <2> DEFINE c == <<page, col>>
  <2>3. s = <<c[1], c[2] \div 2>>
    BY <2>2
  <2> QED
    BY <2>1, <2>3 DEF Spots
<1>7. s[1] \in Pages /\ s[2] < 88 /\ p[3] # 0
  BY <1>1
<1> HIDE DEF s, p
<1>8. p \in to_pixels(lcd.vram)
  BY <1>1, <1>4, <1>6, <1>7, PixelsAre DEF to_pixels
<1> QED
  BY <1>8 DEF p

\* The points of some rows, spelled out.
LEMMA RawPixelsAre ==
  ASSUME NEW rows, NEW p
  PROVE  p \in RawPixelsOf(rows) <=>
           p[3] # 0 /\ \E x \in 0 .. 127, y \in rows : p = RawPoint(x, y)
BY DEF RawPixelsOf

\* Both make the same picture.
LEMMA PictureShown == PictureInv => PixelsShowTheBytesSent
<1> SUFFICES ASSUME LcdInv(lcd) PROVE PixelsShowTheBytesSent
  BY DEF PictureInv
<1> DEFINE rows == {c[2] \div 2 : c \in DOMAIN lcd.raw} \cap 0 .. 87
<1>1. DOMAIN lcd.vram = DOMAIN lcd.raw /\ DOMAIN lcd.raw \subseteq Cells
  BY DEF LcdInv
<1>2. ASSUME NEW p \in to_pixels(lcd.vram) PROVE p \in RawPixelsOf(rows)
  <2>1. p[3] # 0
    BY <1>2, PixelsAre DEF to_pixels
  <2>2. PICK s \in Spots(lcd.vram), i \in 0 .. 7 :
          s[1] \in Pages /\ s[2] < 88 /\ p = PixelAt(lcd.vram, s, i)
    BY <1>2, PixelsAre DEF to_pixels
  <2>3. PICK c \in DOMAIN lcd.vram : s = <<c[1], c[2] \div 2>>
    BY <2>2 DEF Spots
  <2>4. c \in DOMAIN lcd.raw /\ c[1] \in Pages /\ c[2] \in 0 .. 255
    BY <1>1, <2>3 DEF Cells
  <2> DEFINE page == c[1]
             row == c[2] \div 2
             x == 127 - ((page - 10) % 16) * 8 - i
  <2>5. row \in rows
    <3>1. row \in 0 .. 87
      BY <2>2, <2>3, <2>4
    <3> QED
      BY <2>4, <3>1
  <2>6. x \in 0 .. 127
    BY <2>4, PlaceIs
  <2>7. p = <<x, row, RawPixel(x, row)>>
    BY <2>2, <2>3, <2>4, PixelIs
  <2> HIDE DEF x, row, rows
  <2>8. p = RawPoint(x, row)
    BY <2>7 DEF RawPoint
  <2> QED
    BY <2>1, <2>5, <2>6, <2>8, RawPixelsAre
<1>3. ASSUME NEW p \in RawPixelsOf(rows) PROVE p \in to_pixels(lcd.vram)
  <2>1. \A y \in rows : y \in 0 .. 87
    OBVIOUS
  <2> HIDE DEF rows
  <2>2. p[3] # 0 /\ \E x \in 0 .. 127, y \in rows : p = RawPoint(x, y)
    BY <1>3, RawPixelsAre
  <2>3. PICK x \in 0 .. 127, y \in rows : p = RawPoint(x, y)
    BY <2>2
  <2>4. y \in 0 .. 87
    BY <2>1
  <2>5. p = <<x, y, RawPixel(x, y)>> /\ p[3] = RawPixel(x, y)
    BY <2>3 DEF RawPoint
  <2>6. RawPixel(x, y) # 0
    BY <2>2, <2>5
  <2> QED
    BY <2>4, <2>5, <2>6, SentIsShown
<1>4. to_pixels(lcd.vram) = RawPixelsOf(rows)
  <2> HIDE DEF rows
  <2> QED
    BY <1>2, <1>3
<1> QED
  BY <1>4 DEF PixelsShowTheBytesSent

\* For any memory of bytes, and whatever commands, data and blocks a guest
\* sends: the picture the conversion makes is the one that the bytes sent show.
THEOREM BytesAreShown == ASSUME MemoryOfBytes PROVE Spec => []PixelsShowTheBytesSent
<1>1. Init => PictureInv
  <2>1. LcdInv(Blank)
    BY DEF Blank, LcdInv, Pages
  <2> QED
    BY <2>1, OneIsAChannel, OffIsTyped, LiveIs DEF Init, PictureInv, BlockInv, Known
<1>2. PictureInv /\ [Next]_vars => PictureInv'
  BY PictureStep
<1> QED
  BY <1>1, <1>2, PictureShown, PTL DEF Spec
=============================================================================
