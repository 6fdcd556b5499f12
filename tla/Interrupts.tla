----------------------------- MODULE Interrupts -----------------------------
(***************************************************************************)
(* Interrupt delivery: the controller that collects requests               *)
(* (src/soc/peripheral_intc.cpp) and the trap entry, deferral and return   *)
(* of the CPU (src/core/cpu_core.cpp), joined by the tick the runner makes *)
(* between bursts of instructions (src/system/cpu_runner.cpp).             *)
(*                                                                         *)
(* An instruction is one step.  Code is the code the emulator runs without *)
(* a report: no EXT before an instruction that takes none, and only        *)
(* register instructions in a delay slot.  Handlers are arbitrary, so      *)
(* every acknowledge, mask and priority write may happen anywhere.         *)
(***************************************************************************)
EXTENDS Integers, Sequences

CONSTANTS NumSources,    \* sources, in the order of src_table_
          Timers,        \* sources raised by t16/t8 ticks, before the WDT
          Keys,          \* sources raised by set_k5/set_k6 and port writes
          Sounds,        \* sources raised by sound.tick, with level override 1
          MaxLevel,      \* the largest priority (7)
          PriorityMaps,  \* contents of the priority registers
          MaxDepth       \* bound on nested traps

Sources == 0 .. NumSources - 1
Levels == 0 .. MaxLevel

ASSUME InterruptsAssumption ==
  /\ NumSources \in Nat /\ MaxLevel \in Nat \ {0} /\ MaxDepth \in Nat
  /\ Timers \subseteq Sources /\ Keys \subseteq Sources /\ Sounds \subseteq Sources
  /\ PriorityMaps \subseteq [Sources -> Levels] /\ PriorityMaps # {}

VARIABLES
  isr,         \* sources whose ISR flag is set
  ien,         \* sources whose IEN flag is set
  pri,         \* priority registers
  overridden,  \* sources whose level_override_ is 1 (the others have -1)
  rstonly,     \* bit 0 of rRESET
  current_il,  \* current_il_
  poll_dirty,  \* poll_dirty_
  cpu,         \* ie, il, halted; atom: what pending_ext_count > 0 or
               \* in_delay_slot make the CPU finish first; deferred: the
               \* deferred trap, if any; frames: what traps have pushed
  tick,        \* how far periph.tick() is: "run" between ticks, "timers", "sound"
  empty        \* history: the last scan of poll found nothing to deliver

regVars == <<isr, ien, pri, overridden, rstonly>>
vars == <<regVars, current_il, poll_dirty, cpu, tick, empty>>

Traps == [kind : {"irq"}, level : Levels] \cup [kind : {"nmi", "exception"}, level : {0}]
Irq(l) == [kind |-> "irq", level |-> l]
Nmi == [kind |-> "nmi", level |-> 0]             \* trap 7, from the watchdog
Exception == [kind |-> "exception", level |-> 0] \* int imm2, division by zero

-----------------------------------------------------------------------------
(* CPU.                                                                    *)

\* do_trap's check for maskable traps (no >= 16).
Accepts(c, t) == t.kind = "irq" => c.ie /\ t.level > c.il

Enter(c, t) ==
  [c EXCEPT !.frames = Append(@, [trap |-> t, ie |-> c.ie, il |-> c.il]),
            !.ie = FALSE,
            !.il = IF t.kind = "irq" THEN t.level ELSE @,
            !.halted = FALSE]

\* do_trap: refuse, keep for the end of the sequence, or enter.
DoTrap(c, t) ==
  IF ~Accepts(c, t) THEN c
  ELSE IF c.atom # "none" THEN [c EXCEPT !.deferred = {t}]
  ELSE Enter(c, t)

\* Mutant: a deferred trap is entered without a second check.
FireDeferred_unchecked(c) ==
  IF c.deferred = {} THEN c
  ELSE Enter([c EXCEPT !.deferred = {}], CHOOSE t \in c.deferred : TRUE)

\* The end of step() once the handler left the CPU in c with no EXT pending
\* and no delay slot open: a deferred trap goes through do_trap again.
FireDeferred(c) ==
  IF c.deferred = {} THEN c
  ELSE DoTrap([c EXCEPT !.deferred = {}], CHOOSE t \in c.deferred : TRUE)

\* An instruction that ends the sequence it belongs to.
Finish(c) == FireDeferred([c EXCEPT !.atom = "none"])

Running == tick = "run" /\ ~cpu.halted
Bounded == Len(cpu'.frames) <= MaxDepth

\* Any instruction with no effect on interrupts.
Plain ==
  /\ Running
  /\ cpu' = Finish(cpu)
  /\ Bounded
  /\ UNCHANGED <<regVars, current_il, poll_dirty, tick, empty>>

\* EXT, alone or after another EXT.
Ext ==
  /\ Running /\ cpu.atom # "slot"
  /\ cpu' = [cpu EXCEPT !.atom = "ext"]
  /\ UNCHANGED <<regVars, current_il, poll_dirty, tick, empty>>

\* A branch with a delay slot; EXT may extend it.
DelayedBranch ==
  /\ Running /\ cpu.atom # "slot"
  /\ cpu' = [cpu EXCEPT !.atom = "slot"]
  /\ UNCHANGED <<regVars, current_il, poll_dirty, tick, empty>>

\* ld.w %psr, %rs, also in a delay slot.
SetPsr ==
  /\ Running /\ cpu.atom # "ext"
  /\ \E ie \in BOOLEAN, il \in Levels :
       cpu' = Finish([cpu EXCEPT !.ie = ie, !.il = il])
  /\ Bounded
  /\ UNCHANGED <<regVars, current_il, poll_dirty, tick, empty>>

\* slp or halt.
Halt ==
  /\ Running /\ cpu.atom = "none"
  /\ cpu' = [cpu EXCEPT !.halted = TRUE]
  /\ UNCHANGED <<regVars, current_il, poll_dirty, tick, empty>>

\* int imm2, or div0s/div0u with a zero divisor.
Trap ==
  /\ Running /\ cpu.atom = "none"
  /\ cpu' = Enter(cpu, Exception)
  /\ Bounded
  /\ UNCHANGED <<regVars, current_il, poll_dirty, tick, empty>>

Reti ==
  /\ Running /\ cpu.atom = "none" /\ cpu.frames # << >>
  /\ LET top == cpu.frames[Len(cpu.frames)]
     IN cpu' = [cpu EXCEPT !.ie = top.ie, !.il = top.il,
                           !.frames = SubSeq(@, 1, Len(@) - 1)]
  /\ UNCHANGED <<regVars, current_il, poll_dirty, tick, empty>>

-----------------------------------------------------------------------------
(* Interrupt controller.                                                   *)

Level(s) == IF s \in overridden THEN 1 ELSE pri[s]

\* A store to a controller register; the store itself takes no delay slot.
Store ==
  /\ Running /\ cpu.atom # "slot"
  /\ cpu' = Finish(cpu)
  /\ Bounded
  /\ UNCHANGED <<current_il, tick, empty>>

\* ISR bytes: with RSTONLY a 1 clears, without it the value replaces.  A flag
\* that goes from 1 to 0 takes the level override of its source with it.
WriteIsr(v) ==
  /\ Store
  /\ isr' = IF rstonly THEN isr \ v ELSE v
  /\ overridden' = overridden \ (isr \ isr')
  /\ poll_dirty' = TRUE
  /\ UNCHANGED <<ien, pri, rstonly>>

WriteIen(v) ==
  /\ Store
  /\ ien' = v
  /\ poll_dirty' = TRUE
  /\ UNCHANGED <<isr, pri, overridden, rstonly>>

WritePri(p) ==
  /\ Store
  /\ pri' = p
  /\ poll_dirty' = TRUE
  /\ UNCHANGED <<isr, ien, overridden, rstonly>>

\* rRESET is outside the ranges that mark poll_dirty_.
WriteReset(b) ==
  /\ Store
  /\ rstonly' = b
  /\ UNCHANGED <<isr, ien, pri, overridden, poll_dirty>>

\* try_deliver: the level of this very call decides, not a stored override.
Deliver(c, s, level) ==
  IF s \in ien /\ level > 0 THEN DoTrap(c, Irq(level)) ELSE c

SetFlag(s) ==
  /\ isr' = isr \cup {s}
  /\ poll_dirty' = TRUE
  /\ UNCHANGED <<ien, pri, rstonly, current_il, empty>>

\* periph.tick(): the timers,
RaiseTimer(s) ==
  /\ tick \in {"run", "timers"}
  /\ SetFlag(s)
  /\ cpu' = Deliver(cpu, s, pri[s])
  /\ Bounded
  /\ tick' = "timers"
  /\ UNCHANGED overridden

\* ... then the watchdog, whose NMI goes to the CPU directly,
AssertNmi ==
  /\ tick \in {"run", "timers"}
  /\ cpu' = DoTrap(cpu, Nmi)
  /\ Bounded
  /\ tick' = "sound"
  /\ UNCHANGED <<regVars, current_il, poll_dirty, empty>>

\* ... then the end of a sound buffer.
RaiseSound(s) ==
  /\ SetFlag(s)
  /\ overridden' = overridden \cup {s}
  /\ cpu' = Deliver(cpu, s, 1)
  /\ Bounded
  /\ tick' = "sound"

\* check_key_irq, when the runner polls the buttons
RaiseKey(s) ==
  /\ tick = "run"
  /\ SetFlag(s)
  /\ cpu' = Deliver(cpu, s, pri[s])
  /\ Bounded
  /\ UNCHANGED <<overridden, tick>>

\* ... or in the middle of a store to the port's registers, when the EXT of
\* the store is consumed but the instruction is not over.
StoreRaisingKey(s) ==
  /\ Running /\ cpu.atom # "slot"
  /\ SetFlag(s)
  /\ cpu' = FireDeferred(Deliver([cpu EXCEPT !.atom = "none"], s, pri[s]))
  /\ Bounded
  /\ UNCHANGED <<overridden, tick>>

\* poll's scan: the highest level above il, the first of the table at it.
Deliverable(il) == {s \in isr \cap ien : Level(s) > il}
IsBest(s, il) ==
  /\ s \in Deliverable(il)
  /\ \A t \in Deliverable(il) : Level(t) < Level(s) \/ (Level(t) = Level(s) /\ s <= t)

\* Mutant: a drop of IL goes unnoticed.
Noticed_noDrop == poll_dirty

\* set_current_il
Noticed == poll_dirty \/ cpu.il < current_il

\* The end of do_tick: set_current_il(psr.il) and poll().
Poll ==
  /\ tick' = "run"
  /\ current_il' = cpu.il
  /\ poll_dirty' = FALSE
  /\ IF Noticed
     THEN \/ /\ Deliverable(cpu.il) = {}
             /\ empty' = TRUE
             /\ UNCHANGED cpu
          \/ \E s \in Sources :
               /\ IsBest(s, cpu.il)
               /\ cpu' = DoTrap(cpu, Irq(Level(s)))
               /\ empty' = FALSE
     ELSE UNCHANGED <<cpu, empty>>
  /\ Bounded
  /\ UNCHANGED regVars

-----------------------------------------------------------------------------
ResetCpu == [ie |-> FALSE, il |-> 0, halted |-> FALSE, atom |-> "none",
             deferred |-> {}, frames |-> << >>]

\* F5: periph.reset() and cpu.reset() between two instructions.
Reset ==
  /\ tick = "run"
  /\ isr' = {} /\ ien' = {} /\ pri' = [s \in Sources |-> 0] /\ overridden' = {}
  /\ rstonly' = TRUE
  /\ current_il' = 0 /\ poll_dirty' = TRUE
  /\ cpu' = ResetCpu
  /\ UNCHANGED <<tick, empty>>

\* Power-on: attach() leaves every register 0, RSTONLY included.
Init ==
  /\ isr = {} /\ ien = {} /\ pri = [s \in Sources |-> 0] /\ overridden = {}
  /\ rstonly = FALSE
  /\ current_il = 0 /\ poll_dirty = TRUE
  /\ cpu = ResetCpu
  /\ tick = "run" /\ empty = TRUE

Instruction ==
  \/ Plain \/ Ext \/ DelayedBranch \/ SetPsr \/ Halt \/ Trap \/ Reti
  \/ \E v \in SUBSET Sources : WriteIsr(v) \/ WriteIen(v)
  \/ \E p \in PriorityMaps : WritePri(p)
  \/ \E b \in BOOLEAN : WriteReset(b)
  \/ \E s \in Keys : StoreRaisingKey(s)

Event ==
  \/ \E s \in Timers : RaiseTimer(s)
  \/ \E s \in Sounds : RaiseSound(s)
  \/ \E s \in Keys : RaiseKey(s)
  \/ AssertNmi \/ Poll

Next == Instruction \/ Event \/ Reset

Spec == Init /\ [][Next]_vars

-----------------------------------------------------------------------------
(* Properties.                                                             *)

Frames == [trap : Traps, ie : BOOLEAN, il : Levels]

CpuStates == [ie : BOOLEAN, il : Levels, halted : BOOLEAN,
              atom : {"none", "ext", "slot"},
              deferred : {{}} \cup {{t} : t \in Traps}, frames : Seq(Frames)]

TypeOK ==
  /\ isr \subseteq Sources /\ ien \subseteq Sources /\ overridden \subseteq Sources
  /\ pri \in [Sources -> Levels]
  /\ rstonly \in BOOLEAN /\ poll_dirty \in BOOLEAN
  /\ current_il \in Levels
  /\ cpu \in CpuStates
  /\ tick \in {"run", "timers", "sound"}
  /\ empty \in BOOLEAN

\* A maskable trap only ever interrupts code that runs with IE set at a lower
\* level, also when do_trap first deferred it and the instruction it waited
\* for (a ld.w to PSR in a delay slot) has changed IE or IL meanwhile.
NestingRises ==
  \A i \in 1 .. Len(cpu.frames) :
    LET f == cpu.frames[i]
    IN f.trap.kind = "irq" => f.ie /\ f.il < f.trap.level

\* The two atomicity guarantees of do_trap's comment: no trap is entered
\* between EXT and its target or between a delayed branch and its slot, from
\* whichever of a tick, a poll or an exception it comes.
AtomicSequences ==
  [][Len(cpu'.frames) > Len(cpu.frames) => cpu'.atom = "none"
       /\ (cpu.atom # "none" => tick = "run" /\ ~cpu.halted)]_vars

\* A level override lives exactly as long as the request it came with: a flag
\* the handler acknowledged never leaves an override for the next request.
OverrideOnlyWhilePending == overridden \subseteq isr

Acceptable(s) == s \in isr \cap ien /\ cpu.ie /\ Level(s) > cpu.il

\* poll's fast path skips the scan when nothing marked it dirty.  If the last
\* scan found nothing to deliver, the skip is right: a source the CPU would
\* accept now was raised, enabled or uncovered by a drop of IL since then.
SkippedPollMissesNothing ==
  (empty /\ ~Noticed) => \A s \in Sources : ~Acceptable(s)

=============================================================================
