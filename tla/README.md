# piece-emu in TLA+

piece-emu (`src/`) emulates the Aquaplus P/ECE handheld: a S1C33209 CPU with its
peripherals, a NOR flash whose contents are written back to a PFI file on the host, a
sound path, an LCD, and a GDB stub. The SDL front end runs it on four threads: the main
(SDL) thread, the CPU thread, the debugger's RSP thread and SDL's audio thread. A
bare-metal host, a headless runner and a libretro core run the same machine on one
thread, and a few tools work on the images it loads. This directory models them, checks
the models with TLC on small instances and proves with TLAPS, for every value of the
constants, the central invariants of the concurrent parts, of the flash, the display, the small
peripherals, the timers and the single-threaded hosts.

## 1. Inventory

Paths are relative to `src/src/`.

| Component | State | Operations | Talks to | What makes it correct |
|---|---|---|---|---|
| NOR flash `board/flash_sst39vf` | array, command state, dirty bitmap | bus writes (command cycles), `clear_dirty`, `reset` | CPU (stores), writeback (bitmap, callback) | only a full unlock sequence alters the array; every alteration is marked dirty |
| Writeback `system/pfi_writeback`, `platform_file` | timestamp of the last dirtying | `poll`, `flush_dirty_sectors`, `shutdown_flush`, destructor | flash bitmap and array from another thread, host file | nothing the program wrote is lost; every dirty sector reaches the file |
| Interrupt controller `soc/peripheral_intc` | ISR, IEN, priorities, RSTONLY, level overrides, `poll_dirty_`, `current_il_` | `raise`, register writes, `poll` | every peripheral, CPU | the highest acceptable request is delivered; none is forgotten |
| CPU traps `core/cpu_core`, `cpu_class0`, `cpu_class6` | PSR.IE/IL, halt, EXT count, delay slot, deferred trap | `step`, `assert_trap`, `reti`, `halt`, `slp`, `int` | interrupt controller, watchdog | EXT and delay-slot sequences are atomic; traps nest by level |
| CPU instructions `core/cpu_class1..5`, dispatch | registers, flags, memory | one handler per instruction, `Cpu::step` | bus | idioms of several instructions compute what they are for, interrupted anywhere |
| Bus `core/bus`, `soc/peripheral_bcu_area` | memories, wait states, watchpoints, I/O table | reads, writes, fetch | everything | an access reaches the bytes the map has there, and watchpoints hit exactly |
| CPU loop `system/cpu_runner` | `total_cycles`, three deadlines, halt | burst, tick, poll, halt jump, frame, reset | main thread's flags, peripherals, GDB stub | deadlines are met; requests are taken; a halt always ends in time |
| Aggregation `system/piece_peripherals` | cached wake point, bitmap of running timers | `tick`, `next_wake_cycle`, `reset` | CPU loop, peripherals | the cache is never too late |
| Timers `soc/peripheral_t16`, `_t8` | counter, compare/reload, next tick, cached rate and wake | register writes, `tick`, wake prediction | clock control, interrupt controller | a closed formula equals counting; predictions are right |
| Clocks `soc/peripheral_clkctl` | CLKCTL bytes, PWRCTL, P07, `config_gen_` | writes, `on_clock_change` | timers, CPU loop | caches are invalidated |
| Watchdog `soc/peripheral_wdt` | enable, next NMI | `tick` | CPU | NMI while enabled |
| RTC `soc/peripheral_rtc` | prescaler, offset, frozen time | `tick`, RTCSTOP and date writes, reads | CPU loop, host clock | time goes on from what was set; a stopped clock is read whole; no period is lost |
| Ports, buttons `soc/peripheral_portctrl`, `system/button_input` | K5/K6, key match, P07, P21, button word | `set_k5/6`, register writes, SDL events | main thread, clocks, LCD | the guest sees the last event of every line; key interrupts on a match |
| Sound `soc/peripheral_sound`, `host/audio_output` | sample ring, completion clock | `try_push`, `pop`, `reset`, Ch1 start | HSDMA, SDL audio thread | samples in order, once, dropped only when full |
| HSDMA, SIF3 `soc/peripheral_hsdma`, `_sif3` | channels | inline transfers | LCD, sound | each byte once, completion once |
| LCD `board/s6b0741`, `system/lcd_framebuf`, `host/lcd_renderer` | VRAM, column/page; latest frame; texture | `write`, `push`, `take`, render | SIF3, main thread | pixels are the bytes sent; the latest complete frame is shown |
| GDB stub `debug/gdb_rsp` | command, stop flag and reply, buffer, break- and watchpoints | packets, `run`, `notify_async_stopped` | RSP client, CPU loop | runs are answered, with the right reason; packets exclude instructions; the stream stays framed |
| SDL front end `system_main` | button word, quit flag | event loop, exit sequence | all | everything is saved and joined at exit |
| Bare-metal host `main` | limit, quit flag | run, halt jumps, verdict | CPU, debugger, semihosting | the verdict is the program's first; limits hold |
| Headless runner `headless_system_main` | script position, frame number | script commands, frames, bursts | CPU, LCD, buttons | commands act in order at their frame; ticks are not late |
| libretro core `libretro/piece_libretro` | save buffer, overlay flag, batched tick | load, run, reset, unload | frontend | progress reaches the save file and comes back |
| Loaders, semihosting `debug/elf_loader`, `pfi_loader`, `semihosting` | memory, latches | load, CYCLE_COUNT, TEST_RESULT, BKPT | hosts | memory holds the image; 64-bit reads agree |
| Archiver `tools/pfar`, `pffs`, `pfi` | directory, sector table, sectors | add, delete, extract, list | image file | an image is a store of files; a command is all or nothing |
| Disassembler, diagnostics, screenshots, logs, other tools | - | output | - | - |

Hard behaviours: threads that share plain memory (flash array and bitmap, sound ring,
CPU state under the debugger); values cached between ticks (wake points, rates, the
controller's "nothing to do"); traps that arrive between instructions, in a tick or in
the middle of a store; deadlines moved while they are being used; closed formulas that
jump over periods; a reset between any two instructions; failing writes to the host;
fast paths that repeat by hand what a slow path does; streams cut into arbitrary pieces;
long sequences of commands on a linked structure.

## 2. Modules

| Module | Models | Used by |
|---|---|---|
| `Sst39vf` | the flash chip's command state machine and bitmap | `MCSst39vf`, `Sst39vf_proofs` |
| `FlashWriteback` | flash bitmap, writeback and exit on one or two threads | `MCFlashWriteback`, `FlashWriteback_proofs` |
| `Interrupts` | interrupt controller and CPU traps, with the tick that joins them | `MCInterrupts`, `Interrupts_proofs` |
| `GdbAsync` | client, RSP thread and CPU thread in asynchronous debugging | `CpuThread_proofs` |
| `SoundFifo` | what the sound buffer promises: a bounded queue | `SoundRing` |
| `SoundRing` | the ring on two threads; implements `SoundFifo` | `MCSoundRing`, `SoundRing_proofs` |
| `CpuRunner` | the CPU thread's loop against the main thread's flags | `MCCpuRunner`, `CpuThread_proofs` |
| `Timers` | a T16 and a T8 channel between two ticks | `MCTimers`, `Interrupts_proofs` |
| `C33Bus` | the bus: memory map, I/O table, wait states, watchpoints | `C33` |
| `C33` | decoder, every instruction, `Cpu::step` | `C33Programs` |
| `C33Programs` | short programs on that core, interrupted at any instruction | `MCC33Programs` |
| `Display` | HSDMA channels, serial interface, LCD, frame buffer, renderer, sound transfers | `MCDisplay`, `Display_proofs` |
| `Board` | clock control, RTC, watchdog, ports, host buttons | `MCBoard`, `Board_proofs` |
| `Loaders` | ELF and PFI images into memory | `Guest` |
| `Guest` | the machine as a single-threaded host sees it; semihosting | `Boot` |
| `Boot` | PFI loading in chunks and tick bookkeeping common to the hosts | the hosts |
| `GdbSession` | a synchronous debug session over a stream of bytes | `BareHost` |
| `BareHost` | `main.cpp` | `Hosts` |
| `Headless` | `headless_system_main.cpp` with its script | `Hosts` |
| `Libretro` | the libretro core with its frontend | `Hosts` |
| `FileStore` | what the archiver promises: a bounded store of files | `Pfar` |
| `Pffs` | the file system in an image: directory, chains, sectors | `Pfar` |
| `Pfar` | the archiver's commands; implements `FileStore` | `Hosts` |
| `Hosts` | the four programs above, one per behaviour | `MCHosts`, `Hosts_proofs` |

Operators named `Action_something` with the comment "Mutant" are deliberately broken
variants of the definition below them. No specification uses them; substituting one
shows that a property does notice that mistake.

### Sst39vf
`state`, `mem`, `dirty` are `state_`, `mem_`, `dirty_`. `Write(a, d)` is `write16`: the
next state, the altered words and their content are three operators over the same case
distinction. What a command clears is the bytes of its `std::fill`; what it marks is the span
of bytes it gives to `mark_dirty`, divided into sectors there: the two are computed apart, and
`AlteredSectorsAreDirty` compares them through the array itself: `saved` is the array at the
last `clear_dirty`, and a word that differs from it must lie in what `Copied` reads of a dirty
sector. `Read` is `read16` in the array mode; the ID and CFI words are left out.
`log` remembers five bus writes so that properties can speak of "the unlock sequence
just before".

### FlashWriteback
One step per shared access: `Alter` (the CPU thread's array write), `SkipDirty` /
`LoadBits` / `StoreBits` / `Notify` (`mark_dirty`: test the bit, read-modify-write its
word of the `vector<bool>`, callback), `FillBits` (Chip-Erase sets the whole bitmap);
`PollDue`, `ClearStamp`, `ScanClean`, `ScanDirty`, `WriteOk`/`WriteFailed`, `ScanDone`,
`ClearDirty`, `Sync` (`poll` and `flush_dirty_sectors`); `QuitAndJoin`, `Destroy` (the
exit of `system_main.cpp`). `host` chooses the front end: two threads, or `main.cpp`,
which polls between instructions on the CPU's own thread. A copy that overlaps a command
may reach the file before, after or as a mixture (`Torn`). `WritesReachTheFile` is about what
stands in the file: a stale sector gets current again, but for a failed write and for the
sector whose bit a flush cleared behind a command that overlapped it.

### Interrupts
`cpu` has PSR.IE and IL, the halt, the unfinished sequence (`atom`: EXT or delay slot),
the one deferred trap, and the frames traps have pushed. One action per kind of
instruction, one per register write; `RaiseTimer`, `AssertNmi`, `RaiseSound`, `Poll`
follow the order of `PiecePeripherals::tick` and `do_tick`; `RaiseKey` and
`StoreRaisingKey` are key requests from a poll of the buttons and from the middle of a
store. Handlers are arbitrary programs: any register write can happen anywhere.

### GdbAsync
The RSP thread's `run()` is three steps (store the command; lock, clear the flag and
wait; woken), as is the disconnect. The CPU thread is the outer loop: `BeginReset` and
`EndReset`, which ask nothing of the RSP thread, `Burst` and `EndBurst`, `TakeCmd`, `Idle`,
`EndStep`, `ProgramStops`, `QuitRun`. `over` is what ends that loop (a fault, a halt that
nothing can end, a poll that saw `quit_flag`), `LeaveLoop` its end. `HostAsks` is F5 and the
end of the window. The client is external: it sends one packet at a time, may interrupt and
may disconnect.

### SoundRing, SoundFifo
Indices are atomics, slots plain memory: `LoadTail`, `WriteSlot`, `Publish` are
`try_push`; `LoadHead`, `LoadOwnTail`, `Copy`, `Release` are `pop`. `Reset` happens between
any two steps of the audio thread, inside a callback too: nothing in `CpuRunner` holds that
thread back. `calm` is a history: false from a reset that meets a callback until both threads
are outside the ring again. The refinement maps the queue to the slots between tail and head;
`Publish` is the abstract push, `Release` the abstract take; while `calm` is false `SoundFifo`
leaves the queue open, and takes it up again with what the ring then holds.

### CpuRunner
All cycle numbers are distances from `total_cycles`, so that no counter grows; distances
further back than `Past` are not told apart. `Outer`, `Reset`, `EnterBurst`, `Boundary`,
`FrameTail`, `HaltTail`, `Leave` are the blocks of `CpuRunner::run`; an instruction is
`Plain`, `WriteTimer`, `WriteClkctl` or `ChangeSpeed`. One timer stands for all of them:
its next match lies an arbitrary distance from `TimerPeriods` ahead, or in the past when
a stopped timer is started again. A match or a key may or may not end a halt (that
depends on masks, which `Interrupts` models).

### Timers
A record per channel, an operator per handler: `Refresh` (`refresh_wake`), `Tick16`,
`Ptd`, `Wake8`... `TcAfter` and `PtdAfter` count one by one and are the reference the
closed formulas are compared with, in every reachable state. Its specification is
`TimersSpec`, that of `GdbAsync` is `StubSpec`, so that one proof module can extend two
components.

### C33Bus, C33, C33Programs
A bus and a core are records, an access and an instruction operators on them, so that a
program of several instructions is a composition. Widths are constants: the code has 8-bit
bytes, 13-bit EXT prefixes, 6-bit immediates and 8-bit branches; the run has 12-bit words
made of 3-bit bytes, which has the same boundaries (sign, carry, mirror, misalignment) and
few enough values to try them all. `Encode` and `Dispatch` are the numeric encoding and
`build_table`; `Step` keeps the order of `Cpu::step`: fetch, strict-mode refusals, EXT,
handler, bus fault, delay slot, deferred trap. `MacPath` is the choice of `h_mac` between
its two fast paths (`MacOpenBus`, `MacSram`) and its loop over the bus (`MacLoop`).
`MacPathsAgree` holds for runs that are `Ordinary`: even pointers, an end below that of the
decoded addresses, and not from below the SRAM up to it; it compares pointers by the address
bits the bus decodes. `OpenBusReadsOnes` and `SramPathStaysInside` are what the code says of
its paths; they fail outside (section 5). `C33Programs` is the part with behaviours: a test is a program, operand values and at most one interrupt, and each `Run` step is one
`Cpu::step`. The programs are the idioms that need several instructions to agree: the
division and multiplication sequences, add and subtract with carry, EXT prefixes,
comparisons with every condition and slot, calls, a normalising loop, `mac`, single
accesses of every width, and every word in a delay slot.

### Display
`WriteDma` is a store to an HSDMA register; `SendByte` is a byte store to TXD, with the
whole block of channel 0 behind it, through `Sif3` into `S6b0741::write` (`Drawn`).
`lcd.raw` is a history of the bytes as the guest sent them. `LockPush`, `ConvertUpper`, `ConvertLower` are `LcdFrameBuf::push`
under its mutex, `LockTake`, `CopyUpper`, `CopyLower` are `take`, so that an unlocked
version would tear. `Tick`, `Elapse` and `ChangeRate` drive the completion of channel 1.

### Board
`Store(a, n, v)` is a byte or halfword store. `Pairs`, `HighOnly` and `LowOnly` are the
halfwords by the kind of callbacks their peripherals registered: `Write` and `WriteByte` say
what each callback stores (with its `addr & 1` test or without), `Reached` which of them
`Bus::write8` and `write16` call and with which address. `StoresStayInLane` compares the
outcome with the bytes that were on the bus (`OnBus`), which knows nothing of callbacks.
A store then has its side effects on clocks, RTC, watchdog and ports. `Consult` is a timer
that fetches its clock through the `config_gen_` cache. `ReadTime` reads one of the three
halfwords of the time; `HostSecond` is the host's clock, `Tick` the prescaler and the
watchdog's NMI, both with the period of the CPU clock at the tick. `HostInput` is SDL's
events, each written through its handler (`KeyLine`, `PadLine`, `JoyLine`, `Tilt`) into the
button word, `PollButtons` the CPU thread's copy into K5 and K6. SDL delivers events of
opened devices only, and the raw events of a gamepad with those of the joystick; `Handled`
is all that `poll_events` asks of them. `For` is what each control is for by the wiring and the
devices' labels, apart from the handlers, and `by` the history made with it: for each line the
control whose event pressed it last. `ButtonsFollowEvents` compares K5 and K6 with that.

### Loaders, Guest, Boot, GdbSession, BareHost, Headless, Libretro, Hosts
One address stands for a flash sector or a word; a value is data or one of a dozen
instructions chosen for what a host reacts to (halt, slow instruction, timer, semihosting
call, frame, store to flash, undefined word). A host is one record of options; `host.kind`
says which program runs.
`BareInstruction`, `HeadlessInstruction` and `RetroInstruction` execute one instruction and
then do what their loop does, in its order: limits, breakpoints, ticks, the end of a burst.
Loading is an action per turn of the loader's loop: `ReadSegment` a program header of
`elf_load`, `ReadChunk` a buffer of `pfi_load`, `LoadGame` the blob's one copy. `ElfByte`
says what n segments leave at an address without following the loop: the last segment
that covers it decides.
`late` is a history of how late a tick was for events known at the tick before and for
any event; `TicksAreTimely` bounds both by the host's bursts, plus the jump of a halted
CPU where the libretro core makes it a burst of its own (after an overshoot that jump may
set the cycle back to `target`).
In `GdbSession` a packet is one token for its text between the tokens of its frame, and
`Receive` delivers any number of tokens the instance allows, as `recv()` does.
`Libretro`'s frontend may store and put back the save RAM, damage it, change options,
press buttons, reset and unload.

### FileStore, Pffs, Pfar
`FileStore` knows names, contents and two numbers of room. `Pffs` has the directory, the
sector table and the sectors; `Take` is one round of `AllocateSectors`, which takes over the
next sector of the old file or else the first free one, and `Freed` gives the rest of a
longer old file back. Names are tuples of the lengths of their parts, which is all
`CheckFileName` looks at besides the letters. A host file is one value: it does not change
between the call that takes its size and the one that copies it. `PFISave` is one step.
`Pfar`'s actions are one argument of a command each; a failing argument drops the
command. `ImplementsFileStore` maps the two images (in memory and on disk) to the
functions from names to the contents `ExtractFile` returns.

## 3. Runs

| Run | Question | Bounds |
|---|---|---|
| `sst39vf` | do only unlocked writes alter the array, does mark_dirty cover what they alter, does a program take effect? | 8 halfwords, 4 sectors, 2 blocks; the cycles of every command; 2 alterations |
| `writeback` | what can be lost, and does everything else reach the file? | 3 sectors, 2 contents, 2 commands, three hosts |
| `writeback_lost` (violation) | does the exit save every command? | 2 sectors |
| `interrupts` | trap nesting, poll's fast path | 2 sources, levels 0..2, one frame |
| `gdb_async` | are runs the client's own, are their replies, and does a waiting run get one? | 3 runs, every interrupt, disconnect, reset, fault and quit |
| `sound_ring` | does the ring implement the queue, and is it drained? | 4 slots, 5 samples, callbacks of 1 and 5, 2 resets at any time |
| `cpu_runner` | are deadlines met and requests taken? | poll every 2 cycles, minimum burst 1, frames of 5 and 7, RTC 3 and 4, timer periods 1 and 3, hot resets |
| `timers` | do the formulas equal counting? | counter modulo 8, compare values and values written to TC 0, 1, 3, 7, ticks up to 11 cycles late |
| `c33_programs` | do idioms compute, do fast paths agree, are accesses exact? | 12-bit words, 9 boundary values per operand, both ends of every region, 3 sets of watchpoints, one interrupt |
| `display` | are pixels, frames and transfer times right? | 5 or 6 register writes, 3 bytes, 2 frames, 1 lost window, 9 cycles, ticks 1 late |
| `board` | registers, clocks, time, periods, buttons | 1 to 4 stores, every halfword and byte once each in the workload `lanes`, 5 events, 2 host seconds over midnight, ticks up to 5 late, 2 gamepads and a joystick |
| `hosts` | loading, sessions, verdicts, scripts, saves, ticks, the archiver | ELF images with overlapping, cut and cleared segments, PFI images of every front end, scripts of 3 lines from 9, sessions of 3 or 4 packets, 2 sessions of 3 frames with a save, a program that idles over a burst, archiver commands on 2 and 4 files |

Why the bounds are enough. Three sectors let one lie before, at and behind the position
of the walk over the bitmap; two commands let one overlap a flush and one come after.
Two sources and two levels give a request below, at and above IL, and a tie; a frame is
checked on its own, so one frame (with returns and re-entries) shows the nesting
condition at every depth, which the proof states. Three runs give a stale flag of one
run the chance to answer the next but one. Five samples wrap a ring of four, and two resets
let one meet a callback and another come before both threads have left the ring. The
runner's interval lengths keep the order of the real ones (minimum burst < poll
interval < RTC step < frame); counts modulo 8 with 11 cycles of delay pass CRB
several times in one tick. A division needs as many steps as a word has bits, so a
smaller word is the same proof with fewer steps; its operands are 0, the values around
the sign bit and around the word's end. Three register writes set up a transfer, one
starts it, one disturbs it. Three stores are a change, its consequence and a change back
(for the RTC four: STOP, two fields, RUN; two for the lanes, where the second meets what the
first left). Five events are two devices that come, a press, and two that overlap it. Three lines of a script are one before, at and behind
another's frame; three packets with pieces of 1, 3 and 6 tokens cut a frame at every
place. Four archiver commands on files of 0 to 3 sectors in 5 fill the image, fragment it and
refill it; the limit of two directory entries is met by the third file.

`CHECK_DEADLOCK FALSE` appears where the modelled program ends or a bound stops it:
`FlashWriteback` and `CpuRunner` (the process exits), `C33Programs` (a test is over),
`Board` (its bounds on stores and events). Elsewhere deadlock is checked: a program of
`hosts` stops only in `Done`. In `gdb_async` it says little, because the idle step keeps the CPU
thread alive by design; that no run waits for nothing is `WaitingRunIsAnswered`.

Fairness. Weak fairness of each thread's next step, which an operating system gives; in
`FlashWriteback` also of the passage of the debounce time. In `Display` the mutex is free
again and again while the CPU thread pushes frames, and a waiting thread gets it in the
end: strong fairness of `LockTake`. Nobody is obliged to write the flash, press a key,
quit, send a packet or stop a program. `SoundRing` assumes the audio device keeps calling
back. `ButtonsArePolled` and `DueTimersFire` are checked with `Gating = FALSE`: the program
does not turn off the clock of a running timer; section 5 says what happens otherwise.
`DueTimersFire` also carries the condition `ClockSettles` (the program does not rewrite
the clock register for ever), without which the code makes no promise.

## 4. Proofs

Each `*_proofs` module proves its theorems for every value of the constants that
satisfies the assumption of the component's module.

* **Sst39vf_proofs**: `TypeCorrect`, `ProgramTakesEffect`, `OnlyUnlockedWrites`,
  `AlterationsAreMarked`, for any geometry in which sectors divide blocks and blocks the
  part, any two unlock addresses and any set of bus writes. The properties speak of the
  last writes, the code only knows its state: the invariant `StateIsEarned` says for every
  state which writes must have led there, `ExitIsTaken` that an F0 among the last writes
  with a correct sequence behind it leaves the state that sequence leads to. For
  `AlterationsAreMarked` a byte of a span is shown to lie in a sector between that of the
  span's first and that of its last byte, and a sector or block erase to clear no others.
* **FlashWriteback_proofs**: `TypeCorrect`, `LossExplained`, `ExitSavesAll`. The inductive
  invariant says, per stale sector, who will still take care of it (its dirty bit, the
  rest of `todo`, or one of the two histories), and what the walk has left behind it;
  the bitmap word `mark_dirty` loaded makes it more than the safety property. For one
  thread it adds that a flush meets no open command, so that a sector the walk has passed
  is on the file or failed. Number of sectors and commands arbitrary.
* **Interrupts_proofs**: `TypeCorrect`, `TrapsNest`, `OverridesEnd`, `FastPathSound`,
  `SequencesAreAtomic`. `DoTrap` preserves "every frame's trap was above the level it
  interrupted", and a deferred trap is re-examined before it is entered; for the fast
  path the invariant relates the last empty scan to `current_il` (`ScanHolds`). Any
  number of sources, any nesting.
* **SoundRing_proofs**: `TypeCorrect`, `RaceFree`, `RingRefinesFifo`, with resets at any time.
  The invariant, while `calm`: the consumer's copies of the indices lie in order between tail
  and head, what was copied so far is the front of the queue, and a slot being written is
  outside. With both threads outside it holds whatever came before (`OutsideIsCalm`).
  `RingRefinesFifo` is the full refinement: initial states, and every step a step of the
  queue or a stutter.
* **CpuThread_proofs** (`GdbAsync`): `StubTypeCorrect`, `NoStrayRun`,
  `DebuggerExcludesCpu`, `RepliesMatch`.
  The invariant `Handshake` ties the RSP thread's position to the command, the CPU
  thread's position and the counts of commands sent and taken; `Attachment` says when the
  CPU is known to idle. Resets, faults and the end of the loop are among the steps; the lost
  wake-up of section 5 breaks none of these, it only leaves `run()` waiting.
* **CpuThread_proofs** (`CpuRunner`): `TypeCorrect`, `BurstsStopInTime`. `EventsOnTime` is not
  inductive: `StopIsBeforeEvents` adds that a burst's stop lies before every deadline it
  was computed from *and* before any deadline a clock change inside the burst can set
  (a frame is longer than `EVENT_INTERVAL`).
* **Board_proofs**: `StoresKeepTheirLane`, `ClocksAreFollowed`, `ButtonsAreFollowed`,
  `PeriodsAreKept`, `TimeIsKept`, for any stores of bytes and halfwords to the I/O area, any
  gamepads, joysticks and controls, any periods at each CPU clock and any lateness of a tick.
  A store's lane is a case distinction over the kinds of halfwords and the callbacks
  (`ReachedIsAddressed`). For the clocks the invariant
  `CacheIsPast` says that no cache is from a generation to come; with it, every change of a
  clock register or of the oscillator makes a new generation and so leaves no stale cache.
  For the buttons `ButtonInv` says that the shared word has exactly the lines that some
  control pressed last; `LinesAreFor` takes each handler's table to what the controls are for.
  For the periods the invariant ties prescaler and due cycle to where they were when the
  clock last changed or the timer was last run, and the next NMI to the last one and the
  shortest period since.
  `TimeIsKept` assumes `RtcGuests`, that RTCSTOP is stored to with 2 or 1 in its low bits
  (see section 5), and `StartAssumption`, that the host's clock is not before 2000, to which
  the code clamps it. Its invariant `RtcInv` says that a running clock's offset is the time
  set less the host's time of the setting; and that a stopped clock's frozen time is the time
  of the stop, which the set registers hold until a store touches them and from which every
  halfword read so far is. `SetTimeOf` and `ReadWhole` do the calendar: bytes of a day's number,
  hours, minutes and seconds make up the time modulo 65536 days, all that the registers have room for.
* **Display_proofs**: `SoundKeepsTime`, `FramesAreWhole`, `BytesAreShown`, for any memory,
  register writes and clocks. For the sound the invariant says that the last interrupt, when no transfer is
  under way, is where the run of transfers ends so far. For the frames it says who may hold
  the mutex where, that the half converted or copied is the half of the present picture,
  and that a pending buffer is the frame last pushed; `HalvesMakeThePicture` shows that the
  pages a pixel belongs to can be told from its place. `RenderedIsComplete` is the safety
  behind `LatestFrameIsShown`. `BytesAreShown` needs no more of the memory than that it
  holds bytes (`MemoryOfBytes`). Its invariant `LcdInv` says that each cell holds the byte
  sent to it, reversed; that a block of any length keeps it is an induction over the bytes
  (`DrawnKeeps`, by `SetInduction`). `ReversedBits` and `PlaceOf` then take every pixel of
  the conversion to a bit of a byte sent, and back.
* **Interrupts_proofs** (`Timers`): `T16Exact`, `T8Exact`, for any modulus, registers,
  clocks and lateness of a tick. The references count one by one; that a recursion over
  counts has the closed formula as its only solution is an induction over a *set* of
  numbers (`SetInduction`, from the library's well-foundedness of `<`), which needs no
  operator parameter. The invariant `Inv16` says that the cached wake point belongs to the
  registers it was computed from.
* **Hosts_proofs**: `VerdictsStand`, `TimersAreTimely`, `SavesKeepProgress`,
  `RunsStopRight`, `ImagesAreLoaded`, `ScriptsAreTimely`, `SessionsAreFramed`, `CycleReadsAreOne`,
  `ArchivesAreStores`,
  for any set of hosts that `HostsAssumption` allows.
  Lemmas about the machine come first: what an instruction, a tick, a packet may change
  (`StepKeeps`, `StepHits`, `TickedKeeps`, `EffectKeeps`). Then
  * `VerdictInv`: a result that was written has raised the stop, and is the first;
  * `HeadlessInv`, `RetroInv`: wherever a burst runs, `next_timer_wake` lies within a
    burst of the machine's next event (`Ticking`) and the cycle count at most one past it;
    all periods are positive, because programs are legal;
  * `SaveInv`: the save RAM differs from the flash only in sectors that are dirty, or in
    what a damaged file put there and no frame has written since; while the restored
    file waits for its overlay no sector is dirty;
  * `StopInv`: within a run the recorded hit is the first watched access, with the first
    watchpoint that covers it, and a run that goes on has met neither a hit nor a
    breakpoint;
  * `ImageInv`: after n segments, or n bytes, memory is what n segments, or n bytes,
    leave; an empty chunk means that the file or the header's size has ended;
  * `ScriptInv`, with `HeadlessInv`: the commands are what `parse_script` made of the
    script, those applied are those of the frames before this one (`Split`, `OnTime`),
    and the port's buttons are what they leave. By induction over the lines
    (`ScriptIsParsed`) the commands are in the order of their frames, so that the ones
    before any frame are the first ones; `HeldJoins` says that the buttons of one frame's
    commands after another's are those of all of them;
  * `FrameInv`: the packets that were sent and not yet handled lie one behind the other in
    what the stub has buffered, what has arrived and what is still under way, at known
    places with nothing but noise between them (`FramesLie`); the acknowledgements and
    the replies so far are as many as the packets handled ask for. Receiving moves the
    boundary between buffer and wire, skipping moves all places down by one
    (`FramesStay`, `FramesMoveUp`), and the front packet is the one the stub takes
    (`FrontTaken`), however its bytes came in;
  * `CycleInv`, with `VerdictInv`: the snapshot in the semihosting port is the count at
    the last read of the first half, and every half read since is cut from it;
  * `ArchInv`: both images are `Chained`: every entry in use has a chain as long as its
    size says, and every sector is in exactly one place of one chain, or free; a command that has changed nothing yet has the image of the disk.
    `ArchivesAreStores` is the full refinement. After each round of `AllocateSectors` the
    sectors drawn are the old ones in order and then free ones in ascending order (`Drawn`);
    sealed with an end they make a chained image again (`FiledIs`), which reads as the store
    with the file (`FiledFiles`). That the code refuses a file only if the store has no
    room is a count: when no sector is left, the image sealed early has no free sector,
    and the store would need more places than that (`StuckIs`). `RoomIs` is the
    bijection between the places in the files and the sectors in the chains.

  All were model-checked on `hosts` before they were proved.
  `HostsAssumption` says what the numbers of a host's options are and that a program of
  the bursting hosts is `Legal`: no timer or clock of period zero, and no plain store to
  the flash, which takes commands (an instruction of its own here). It excludes a libretro
  image that claims more flash than any part has in a file so short that it loads all the
  same: the code then copies the save RAM from behind the flash's buffer, which means
  nothing. Of a script it says that frame numbers and waits are numbers; that they do not
  wrap at 64 bits is left out of the model. Of a debugger it says that a packet is not
  empty and has no `#` of its own, and that no `$` comes between packets: then what is a
  packet is not in doubt. `PffsAssumption` says that sector numbers are not marks of the
  table (MAXFAT is 496 in the code, the least mark 52428), `PfarAssumption` that a content
  is a sequence of bytes and which names `CheckFileName` accepts.

Only model-checked: all liveness (TLAPS has no ENABLED); `C33` and what uses it (bitwise
operators, and recursion over the bits of a word).

## 5. What the work showed

Disagreements between the code and what it says of itself. The first has a run of its own;
the others are definitions that no `.cfg` names, because they fail: as a further property
of the run in brackets TLC refutes each of them.

* `writeback_lost`: a command that overlaps a flush is lost: `clear_dirty()`
  (`pfi_writeback.cpp:133`) also clears bits set after the walk passed them.
* `StepsReturn` (`gdb_async`): `run()` publishes the command before it clears the flag it waits for
  (`gdb_rsp.cpp:117-121`); the notification of a step that is faster is wiped out, and the
  debugger waits for ever. `WaitingRunIsAnswered` starts once `run()` waits.
* `ResetDiscards` (`sound_ring`): `Sound::reset` relies on the callback not running (`peripheral_sound.hpp:61-62`,
  "handshake in CpuRunner"), but nothing stops the audio thread: the callback's last store
  puts an older tail back, and the samples from before the reset are heard.
* `OpenBusReadsOnes` (`c33_programs`): the first fast path of `mac` does not reduce the end of a run to 28 bits
  (`cpu_class5.cpp:162`), so a run across the end of the address space reads ones where the
  bus has the internal RAM.
* `SramPathStaysInside` (`c33_programs`): the second compares offsets that wrap (`cpu_class5.cpp:183`): a run from below the
  SRAM that ends at its start or inside is indexed far outside the array.
* `RawEventsAreTheJoysticks` (`board`): `poll_events` never looks at which joystick an event is from
  (`lcd_renderer.cpp:188`): with a joystick open, an opened gamepad's raw buttons are pressed through the
  joystick's table as well, and stay pressed if the joystick is unplugged first.

Seen while modelling. The first two are one constant or one conjunct away: with it the
named property fails.

* **Forgotten request.** `poll()` forgets a request that was refused because IE was clear
  (`peripheral_intc.cpp:276`); it comes back only when something else marks the
  controller dirty. `SkippedPollMissesNothing` is therefore about scans that found no
  request (`empty`).
* **Stuck halt.** A running T16 whose clock is turned off keeps its wake point; a halted CPU
  jumps to that same cycle for ever, and buttons, quit and frames are never looked at
  again (`cpu_runner.cpp:376`). `Gating = TRUE` in `CpuRunner.cfg` shows it.
* **Spurious match.** When a tick ends with TC on CRB, the next one raises CRB again
  (`peripheral_t16.cpp:180`). Likewise CRA is raised when an interval that starts at or
  above CRA ends on CRB (line 195). `T16IsExact` asks that nothing is missed.
* **One deferred trap.** `cpu_core.cpp:103` overwrites a deferred watchdog NMI with a
  request asserted later in the same tick; the NMI never fires.
* **RSTONLY.** `peripheral_intc.hpp:30-33` describes the two modes the other way round than
  `io_write` implements them; at power-on the bit is 0 although the comment at
  `peripheral_intc.cpp:98` says an initial reset sets it (`reset()` does, `attach()` does
  not).
* **Reset during a packet.** A reset asked for at the host rewrites CPU and devices while
  the RSP thread may be reading them for a packet (`cpu_runner.cpp:206`); neither takes a
  lock. `GdbAsync` has the overlap, not what the packet then reads.
* **Ctrl-C and disconnect.** The thread that would receive them is the one blocked in
  `run()` (`gdb_rsp.cpp:532`, `:556-557`): neither is noticed until the program stops by
  itself.
* **Debounce.** `README.md:169` counts idle time from the most recent write; the timestamp
  is only renewed by clean-to-dirty transitions (`flash_sst39vf.cpp:218`).
* **Partial failure.** If one sector of a flush was written the whole bitmap is cleared,
  failed sectors included (`pfi_writeback.cpp:131`); if none was, the sectors stay dirty
  without a timestamp until another one is dirtied.
* **Reset request.** `cpu_runner.hpp:40` speaks of a CAS; the code loads and then stores 0
  (`cpu_runner.cpp:199-200`), so a request made in between is swallowed.
* **Clock after reset.** `PiecePeripherals::reset` does not call `on_clock_change`: the bus
  keeps the divisor of the old clock (`bus_div` in `CpuRunner`).
* **Endless clock changes.** Each one moves the frame's end and the tick's deadline
  (`cpu_runner.cpp:99-101`); hence `ClockSettles`.
* **Time going back.** A halt jump sets `total_cycles` to the wake point even if that lies
  in the past (line 196 calls it monotonic); after a reset the RTC's next step is an
  absolute small cycle.
* **T16 details.** With TC resting on CRB, `refresh_wake` predicts CRA a period late; below
  CRB every prediction is one count late. Choosing another clock with CKSL does not
  invalidate the cached rate. PRESET sets `next_tick_cycle_` to 0, so the first tick
  processes all of the time since power-on; starting a stopped timer counts the time it
  was stopped. `peripheral_t16.hpp:27-29` says compare A resets TC and compare B does not;
  the code does the opposite, as the manual it quotes.
* **CPU.** A `halt` or `slp` in a delay slot can never be woken. `retd` pops PC before PSR,
  `reti` PSR before PC. `mac`'s second fast path drops the upper four bits of the pointers
  and skips misalignment faults. `cpu.hpp` calls PSR bit 6 "Delay Slot active"; it is the dividend's
  sign. The test encoder writes some instructions of class 4 and 5 wrongly
  (`c33insn.hpp:31-42`).
* **Bus.** The bus controller and HSDMA have no byte handler, so a byte store rewrites the
  halfword, although `bus.hpp:56-65` speaks of byte-precise access. Watchpoints fire only
  for SRAM; `bus.cpp:416-417` speaks of the first matching watchpoint, the code fires all.
* **Sound transfers.** Channel 1 started with a count of 0 stays enabled without a completion.
  Disabling it does not cancel its completion; enabling it again replaces it.
* **RTC and watchdog.** Writing 2, 0, 1 to RTCSTOP leaves the clock frozen; 2, 3, 2, 1 sets it
  back to the first stop's time. `RtcKeepsTime` is therefore checked and proved for guests
  that stop with 2 and run with 1, as `peripheral_rtc.hpp:28-31` describes setting it. A stopped RTC
  is due at every cycle. Since the RTC always has a wake point, the "Deadlock: CPU
  halted" branches of `main.cpp` and the headless runner cannot be reached. The NMI period
  drifts by the ticks' lateness, and `main.cpp`'s wake-up ignores the watchdog.
* **Reset.** A hot reset sets `p07_slow_` while the port's register keeps P07 = 0
  (`afterReset` in `Board`).
* **Buttons.** A second pad plugged in while the first is open is not opened when the first
  goes. Releasing a button on one device releases it though another holds it. A key match
  with the reserved source and a pattern of zero matches at every poll.
* **Clock change and counting.** The prescaler counts an interval at the CPU clock of the tick
  that ends it (`peripheral_rtc.cpp:119`): the part before a change of the clock is counted at
  the new period. `PeriodsHold` says that from the change on.
* **Debugging.** A reset by F5 rewrites the CPU and the devices while the RSP thread may be
  handling a packet (`cpu_runner.cpp:206`). With `--gdb`, `main.cpp:252` returns 1 if no test result was written; `Accept`
  drops the watchpoints of `--wp-*` with their callback; `total_cycles` does not advance,
  so CYCLE_COUNT reads 0. A fault stays set, so every later run answers T04. A breakpoint
  set by semihosting is hit again at every resume. Ctrl-C in synchronous mode is read after
  the run and answers an unsolicited T02.
* **Limits.** `--max-cycles`: after a halt jump the bare host may execute an instruction at
  the limit; the headless runner jumps past the limit without looking, and a program
  that sleeps with interrupts off runs until the wall-clock guard.
* **Headless scripts.** `docs/headless-system-script.md` says that commands act at the head of
  the frame they name; they act after it has completed.
* **libretro.** The reset vector is taken before the save RAM is overlaid. A rejected save
  file stays in `g_srm_buffer` although `piece_libretro.cpp:540-541` says that the buffer
  reflects the flash, and its header goes into every later file. `retro_reset` refreshes
  neither the cached clock nor the flash's command state; a failed load leaves the globals
  set.
* **Loaders.** `.bss` in the flash or past a region's end goes through `write8`, is ignored or
  raises a bus fault at the first instruction.
* **Archiver.** A file that fails in a command drops those before it that were reported as
  done, and the exit code says success. `PFISave` truncates the only copy before it writes,
  unchecked (`pfi.c:72`). `parse_iso8601` accepts February 31.

## 6. Not modelled, and what is left

* The disassembler, diagnostics, screenshots, `audio_log`, option parsing: text and picture
  output and straight-line input.
* `mkpfi`, `ripper` and `pieceif_libusb`: straight-line tools; the USB tool's partner is the
  device itself, whose firmware is not in the repository.
* Pacing against the audio queue and the wall clock (`cpu_runner.cpp:111-187`) and
  HOST_TIME_MS: the code only sleeps or reads a clock, and no other state depends on it.
* The bus control unit's registers except wait states, HSDMA channels 2 and 3, and port
  registers without effect: stored and read back.
* The colours and geometry of the window, PWM and sample-rate conversion: arithmetic
  on outputs.
* Attaching: `PiecePeripherals::attach`, `PfiWriteback::attach`'s header checks, sockets.
* Threads at exit under `--gdb`: the RSP thread is detached and may outlive the objects it
  uses (`gdb_rsp.cpp:166`); C++ gives such a run no meaning.

`libretro.h` (7886 lines) is the vendored interface header.

PROJECT.json lists every component with what is left out of it. What could follow: the
calendar of the RTC as an operator against its reference; `Sst39vf`
composed with `FlashWriteback`.
