------------------------------- MODULE Hosts --------------------------------
(***************************************************************************)
(* The single-threaded programs over one image: the bare-metal host with   *)
(* its debug session, the headless runner and the libretro core, each with *)
(* a machine, and the archiver of the image's files.  HostSet says which   *)
(* of them, with which images, options and inputs.                         *)
(***************************************************************************)
EXTENDS BareHost, Headless, Libretro, Pfar

CONSTANTS HostSet

\* An ELF program has a bare host; sizes, offsets and a script's frames are
\* numbers.  The bursts a host ticks in are those its options ask for, and the
\* program of an image that such a host runs is a legal one.  No libretro image claims a flash
\* larger than the parts and is cut so short that it loads all the same.  A
\* debugger's packets have a text, without the # that ends one, and what it sends
\* between them has no $ that would start one.
ASSUME HostsAssumption ==
  \A h \in HostSet :
    /\ h.kind \in {"bare", "headless", "libretro", "pfar"}
    /\ h.elf => h.kind = "bare"
    /\ \A b \in h.bursts : b.least \in Nat \ {0} /\ b.most \in Nat /\ b.least <= b.most
    /\ h.kind \in {"bare", "pfar"} => h.bursts = {}
    /\ h.kind = "headless" =>
         /\ h.burst \in h.bursts
         /\ h.script \in Seq(Range(h.script))
         /\ \A i \in DOMAIN h.script : h.script[i][1] \in {"wait", "frame"} => h.script[i][2] \in Nat
    /\ h.kind = "libretro" =>
         /\ \A o \in h.options : Burst(o.burst, 4 * o.burst) \in h.bursts
         /\ LET part == for_min_bytes(FlashSize(h.image))
            IN pfi_load_blob(Blank(part), h.image).ok => FlashCells(h.image) \subseteq Flash(part)
    /\ h.elf =>
         /\ h.image.segments \in Seq(Range(h.image.segments))
         /\ \A i \in DOMAIN h.image.segments :
              LET s == h.image.segments[i]
              IN s.paddr \in Nat /\ s.offset \in Nat /\ s.filesz \in Nat /\ s.memsz \in Nat
    /\ ~h.elf /\ h.kind # "pfar" =>
         /\ h.image.offset \in Nat /\ h.image.flash_size \in Nat
         /\ h.image.bytes \in Seq(Range(h.image.bytes))
    /\ h.kind \in {"headless", "libretro"} =>
         \A i \in DOMAIN h.image.bytes : Legal(h.image.bytes[i])
    /\ h.gdb =>
         /\ \A p \in h.ask : p \notin {<< >>, <<"#">>}
         /\ \A lead \in h.leads : lead \in Seq(Range(lead)) /\ \A i \in DOMAIN lead : lead[i] # <<"$">>

vars == <<baseVars, gdbVars, bareVars, headlessVars, retroVars, pfarVars>>

Init ==
  /\ host \in HostSet
  /\ BootInit /\ BareInit /\ HeadlessInit /\ RetroInit /\ PfarInit
  /\ at = IF Kind("headless") THEN "script" ELSE IF Kind("pfar") THEN "tool" ELSE "start"

Done == at = "done" /\ UNCHANGED vars

Next ==
  \/ LoadPfi /\ UNCHANGED <<gdbVars, bareVars, headlessVars, retroVars, pfarVars>>
  \/ BareStep /\ UNCHANGED <<headlessVars, retroVars, pfarVars>>
  \/ HeadlessStep /\ UNCHANGED <<gdbVars, bareVars, retroVars, pfarVars>>
  \/ RetroStep /\ UNCHANGED <<gdbVars, bareVars, headlessVars, pfarVars>>
  \/ PfarStep /\ UNCHANGED <<gdbVars, bareVars, headlessVars, retroVars>>
  \/ Done

Spec == Init /\ [][Next]_vars

\* When a host starts the CPU, memory holds the image: of an ELF every
\* segment's bytes and cleared rest, the later segment winning; of a PFI the
\* flash, however it was read and however short the file is.  The CPU starts
\* at the entry point or the reset vector.
ImageIsLoaded ==
  at = "boot" =>
    /\ \A a \in DOMAIN m.mem :
         m.mem[a] = IF host.elf THEN ElfByte(host.image, Parts[1], Len(host.image.segments), a)
                    ELSE PfiByte(host.image, a)
    /\ Pc(m) = IF host.elf THEN host.image.entry ELSE PfiByte(host.image, FLASH_BASE)[2]
=============================================================================
