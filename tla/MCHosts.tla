------------------------------ MODULE MCHosts ------------------------------
EXTENDS Hosts

MCParts == <<12, 24>>
MCRegNames == <<"r0", "sp", "pc", "psr", "alr", "ahr">>

-----------------------------------------------------------------------------
(* ELF images: code at 8, data at 4 .. 7.                                  *)

Segment(paddr, offset, filesz, memsz) ==
  [load |-> TRUE, offset |-> offset, paddr |-> paddr, filesz |-> filesz, memsz |-> memsz]
Elf(body) == [valid |-> TRUE, entry |-> 8, body |-> body, segments |-> <<Segment(8, 0, Len(body), Len(body))>>]

Fails == Elf(<< <<"ei">>, <<"timer", 3>>, <<"semi", "TEST_RESULT", 1>>, <<"nop">>,
                <<"semi", "TEST_RESULT", 0>>, <<"hlt">> >>)
Passes == Elf(<< <<"semi", "TEST_RESULT", 0>>, <<"undef">> >>)
\* Breakpoint at 14, cleared again with the other latch in between.
Breakpoints == Elf(<< <<"ei">>, <<"semi", "BKPT_SET lo", 2>>, <<"semi", "BKPT_CLR lo", 1>>,
                      <<"semi", "BKPT_SET hi", 3>>, <<"semi", "BKPT_CLR hi", 3>>, <<"nop">>, <<"nop">> >>)
Loops == Elf(<< <<"ei">>, <<"timer", 2>>, <<"hlt">>, <<"slow">>, <<"jump", 10>> >>)
Deaf == Elf(<< <<"ei">>, <<"di">>, <<"slp">> >>)
\* The count's halfwords, the upper two in either order.
Reads(n, i) == Elf([k \in 1 .. n |-> <<"nop">>] \o
                << <<"cycle", 0>>, <<"put", 4>>, <<"slow">>, <<"cycle", i>>, <<"put", 5>>, <<"slow">>,
                   <<"cycle", 3 - i>>, <<"put", 6>>, <<"semi", "TEST_RESULT", 0>> >>)

\* Segments over each other, in every region and in none; and broken files.
Body == [i \in 1 .. 6 |-> Data(i)]
Layouts ==
  {<<Segment(8, 0, 2, 5), Segment(9, 2, 2, 2)>>, <<Segment(9, 2, 2, 2), Segment(8, 0, 2, 5)>>,
   <<Segment(0, 0, 1, 2), Segment(33, 1, 3, 4), Segment(28, 0, 2, 2)>>,
   <<Segment(1, 0, 2, 2)>>, <<Segment(42, 0, 3, 3)>>, <<Segment(18, 0, 3, 3)>>, <<Segment(8, 4, 3, 3)>>,
   <<[Segment(8, 0, 2, 2) EXCEPT !.load = FALSE], Segment(4, 0, 0, 2), Segment(4, 0, 0, 0)>>, << >>}
Images == {[valid |-> v, entry |-> 8, body |-> Body, segments |-> l] : v \in BOOLEAN, l \in Layouts}

Bare(image) ==
  [kind |-> "bare", elf |-> TRUE, image |-> image, gdb |-> FALSE, max |-> 0, signals |-> FALSE,
   bursts |-> {}]

BareHosts ==
  {[Bare(i) EXCEPT !.max = max, !.signals = s] : i \in {Fails, Passes}, max \in {0, 6}, s \in BOOLEAN}
  \cup {[Bare(i) EXCEPT !.max = 12] : i \in {Breakpoints, Loops, Deaf}}
  \cup {Bare(Reads(n, i)) : n \in 0 .. 3, i \in 1 .. 2}
  \cup {Bare(i) : i \in Images}

-----------------------------------------------------------------------------
(* Debug sessions.                                                         *)

Debuggee == Elf(<< <<"store", 4, 7>>, <<"load", 4>>, <<"nop">>, <<"soft">>, <<"store", 5, 1>>, <<"hlt">> >>)

Session(ask, packets, window, pieces, leads) ==
  Bare(Debuggee) @@ [ask |-> ask, packets |-> packets, window |-> window, pieces |-> pieces, leads |-> leads]

Framing == Session({<<"?">>, <<"QStartNoAckMode">>, <<"s">>}, 3, 2, {1, 3, 6}, {<< >>, <<ACK>>, <<INTERRUPT>>})
Stops == Session({<<"Z", 0, 10, 0>>, <<"z", 1, 10, 0>>, <<"Z", 2, 4, 1>>, <<"Z", 4, 4, 2>>, <<"z", 2, 4, 1>>,
                  <<"Z", 3, 1, 0>>, <<"c">>, <<"s">>}, 4, 1, {}, {<< >>})
Accesses == Session({<<"g">>, <<"G", [i \in 1 .. 6 |-> i]>>, <<"G", <<1>> >>, <<"p", 2>>, <<"p", 6>>,
                     <<"P", 0, 9>>, <<"P", 6, 9>>, <<"m", 4, 2>>, <<"M", 4, <<Data(8), Data(9)>> >>,
                     <<"Z", 4, 4, 1>>, <<"Z", 5, 4, 1>>, <<"H">>, <<"qSupported">>, <<"qRegisterInfo", 1>>,
                     <<"qRegisterInfo", 6>>, <<"qXfer", 0, 2>>, <<"qXfer", 2, 2>>, <<"qXfer", 4, 2>>,
                     <<"qHostInfo">>, <<"QThreadSuffixSupported">>, <<"c">>, <<"j">>}, 3, 1, {}, {<< >>})
GdbHosts == {[h EXCEPT !.gdb = TRUE] : h \in {Framing, Stops, Accesses}}

-----------------------------------------------------------------------------
(* PFI images: the reset vector, then code.                                *)

Pfi(size, body) ==
  [sig |-> TRUE, offset |-> 3, syssize |-> 32, flash_size |-> size,
   bytes |-> [i \in 1 .. 3 |-> Data(0)] \o << Data(33) >> \o body]
Code == << <<"nop">>, <<"undef">> >>
Broken ==
  {[Pfi(8, Code) EXCEPT !.sig = FALSE], [Pfi(8, Code) EXCEPT !.offset = 1], [Pfi(8, Code) EXCEPT !.syssize = 30],
   Pfi(0, Code), Pfi(30, [i \in 1 .. 28 |-> <<"nop">>]), [Pfi(8, Code) EXCEPT !.offset = 6],
   [Pfi(8, Code) EXCEPT !.offset = 9], [Pfi(8, Code) EXCEPT !.bytes = << Data(0) >>]}
Whole == {Pfi(n, Code) : n \in {1, 2, 3, 5, 13}}

Frames == << <<"ei">>, <<"timer", 3>>, <<"draw", 1>>, <<"frame">>, <<"slow">>, <<"hlt">>, <<"draw", 2>>,
             <<"frame">>, <<"timer", 4>>, <<"slp">>, <<"jump", 35>> >>

Lines == {<<"frame", 0, "press", "A">>, <<"frame", 1, "press", "B">>, <<"frame", 1, "release", "A">>,
          <<"frame", 1, "hash", "">>, <<"frame", 2, "release", "B">>, <<"frame", 2, "quit", "">>,
          <<"frame", 1, "dance", "">>, <<"wait", 1>>, <<"wait", 2>>}
Scripts == UNION {[1 .. n -> Lines] : n \in 0 .. 3}

PfiHosts == {[Bare(i) EXCEPT !.elf = FALSE, !.max = 3] : i \in Broken \cup Whole}

Runner(image, script) ==
  [kind |-> "headless", elf |-> FALSE, image |-> image, gdb |-> FALSE, script |-> script, max |-> 0,
   max_frames |-> 4, hash_every |-> 2, signals |-> FALSE, burst |-> Burst(2, 5), bursts |-> {Burst(2, 5)}]

HeadlessHosts ==
  {Runner(Pfi(12, Frames), s) : s \in Scripts}
  \cup {[Runner(Pfi(12, Frames), << >>) EXCEPT !.max = 9], [Runner(Pfi(12, Frames), << >>) EXCEPT !.signals = TRUE],
        Runner(Pfi(12, << <<"soft">>, <<"frame">>, <<"undef">> >>), << >>)}
  \cup {[Runner(i, << >>) EXCEPT !.max = 3] : i \in Broken \cup Whole}

-----------------------------------------------------------------------------
(* The libretro core.                                                      *)

\* A frame without a store, two sectors in the next, one of them again in the
\* third; and a program that changes its clock, sleeps and takes interrupts.
Saves == << <<"ei">>, <<"slow">>, <<"slow">>, <<"frame">>, <<"program", 40, 1>>, <<"program", 42, 2>>,
            <<"slow">>, <<"slow">>, <<"program", 40, 3>>, <<"hlt">> >>
Player == << <<"ei">>, <<"timer", 2>>, <<"clock", 9>>, <<"draw", 3>>, <<"frame">>, <<"slow">>, <<"hlt">>,
             <<"timer", 5>>, <<"slp">>, <<"jump", 38>> >>

\* Halts between two wake points, where the jump's own burst makes it late.
Idler == << <<"ei">>, <<"clock", 20>>, <<"timer", 3>>, <<"nop">>, <<"hlt">>, <<"jump", 36>> >>

Core(image) ==
  [kind |-> "libretro", elf |-> FALSE, image |-> image, gdb |-> FALSE, sessions |-> 1, runs |-> 4, damage |-> FALSE,
   resets |-> FALSE, pads |-> {{}, {"A", "left"}},
   options |-> {[swap |-> FALSE, burst |-> 1], [swap |-> TRUE, burst |-> 2]},
   bursts |-> {Burst(1, 4), Burst(2, 8)}]
Saving == [Core(Pfi(13, Saves)) EXCEPT !.sessions = 2, !.runs = 3, !.resets = TRUE, !.pads = {{}},
                                       !.options = {[swap |-> FALSE, burst |-> 2]}]

Idling == [Core(Pfi(12, Idler)) EXCEPT !.runs = 3, !.pads = {{}},
                                       !.options = {[swap |-> s, burst |-> 4] : s \in BOOLEAN},
                                       !.bursts = {Burst(4, 16)}]

RetroHosts ==
  {[Saving EXCEPT !.damage = d] : d \in BOOLEAN} \cup {Core(Pfi(12, Player)), Idling}
  \cup {[Core(i) EXCEPT !.runs = 1] : i \in Broken \cup Whole}

-----------------------------------------------------------------------------
(* The archiver: four commands of one file, two of two files; an image it  *)
(* refuses.                                                                *)

MCProper == {<<8, 3>>, <<1>>, <<2, 1>>}
MCAsked == MCProper \cup {<<9>>, <<1, 4>>}
MCPaths == {[i \in 1 .. n |-> n] : n \in {0, 1, 3, 5}} \cup {NoFile}

Tool(letters, n, files) ==
  [kind |-> "pfar", elf |-> FALSE, image |-> [sig |-> TRUE], gdb |-> FALSE, actions |-> letters,
   calls |-> n, args |-> files, bursts |-> {}]
PfarHosts ==
  {Tool({"A", "d", "e", "l"}, 4, 1), Tool({"a", "d", "e", "l"}, 2, 2),
   [Tool({"l"}, 1, 1) EXCEPT !.image.sig = FALSE]}

MCHostSet == BareHosts \cup PfiHosts \cup GdbHosts \cup HeadlessHosts \cup RetroHosts \cup PfarHosts
=============================================================================
