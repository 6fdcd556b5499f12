-------------------------- MODULE Interrupts_proofs --------------------------
(***************************************************************************)
(* Proofs about the interrupt controller and about the timers, its sources.*)
(*                                                                         *)
(* Interrupts, for any number of sources, any priorities and any nesting   *)
(* depth: the invariant is the type invariant, the shape of the saved      *)
(* frames, the life time of the level overrides, and what a scan of poll   *)
(* that found nothing leaves true until something marks it dirty.          *)
(*                                                                         *)
(* Timers, for any modulus, any register values, any clocks and ticks any  *)
(* number of periods apart: the closed formulas of tick and refresh_wake   *)
(* agree with counting one by one.  A recursion over the counts is solved  *)
(* by giving its solution and showing, by induction, that it has no other. *)
(***************************************************************************)
EXTENDS Interrupts, Timers, WellFoundedInduction, TLAPS

-----------------------------------------------------------------------------
(* Interrupts: the invariant.                                              *)

Rising(frames) ==
  \A i \in 1 .. Len(frames) :
    frames[i].trap.kind = "irq" => frames[i].ie /\ frames[i].il < frames[i].trap.level

Good(c) == c \in CpuStates /\ Rising(c.frames)

\* An empty scan stays valid while neither a flag, nor an enable, nor a level
\* changes: each of these marks poll_dirty.
ScanHolds ==
  (empty /\ ~poll_dirty) => \A s \in isr \cap ien : Level(s) <= current_il

IndInv == TypeOK /\ NestingRises /\ OverrideOnlyWhilePending /\ ScanHolds

-----------------------------------------------------------------------------
(* The CPU.                                                                *)

LEMMA EnterGood ==
  ASSUME NEW c, NEW t \in Traps, Good(c), Accepts(c, t)
  PROVE  Good(Enter(c, t)) /\ Enter(c, t).atom = c.atom
<1> DEFINE f == [trap |-> t, ie |-> c.ie, il |-> c.il]
           fs == Append(c.frames, f)
<1>1. c \in CpuStates /\ c.frames \in Seq(Frames)
  BY DEF Good, CpuStates
<1>2. f \in Frames
  BY <1>1 DEF Frames, CpuStates
<1>3. f.trap.kind = "irq" => f.ie /\ f.il < f.trap.level
  <2>1. t.kind = "irq" => c.il \in Int /\ t.level \in Int
    BY <1>1, InterruptsAssumption DEF CpuStates, Traps, Levels
  <2>2. t.kind = "irq" => c.ie /\ t.level > c.il
    BY DEF Accepts
  <2>3. t.kind = "irq" => c.il < t.level
    BY <2>1, <2>2
  <2> QED BY <2>2, <2>3
<1>4. fs \in Seq(Frames) /\ Rising(fs)
  <2> HIDE DEF f
  <2>1. fs \in Seq(Frames) /\ Len(fs) = Len(c.frames) + 1
    BY <1>1, <1>2
  <2>2. \A i \in 1 .. Len(fs) : fs[i] = f \/ (i \in 1 .. Len(c.frames) /\ fs[i] = c.frames[i])
    BY <1>1, <1>2, <2>1
  <2>3. Rising(c.frames)
    BY DEF Good
  <2> QED BY <1>3, <2>1, <2>2, <2>3 DEF Rising
<1>5. (IF t.kind = "irq" THEN t.level ELSE c.il) \in Levels
  BY <1>1, InterruptsAssumption DEF CpuStates, Traps, Levels
<1>6. Enter(c, t) = [c EXCEPT !.frames = fs, !.ie = FALSE,
                              !.il = IF t.kind = "irq" THEN t.level ELSE c.il,
                              !.halted = FALSE]
  BY <1>1 DEF Enter, CpuStates
<1> HIDE DEF fs
<1>7. Enter(c, t) \in CpuStates /\ Enter(c, t).frames = fs /\ Enter(c, t).atom = c.atom
  BY <1>1, <1>4, <1>5, <1>6 DEF CpuStates
<1> QED BY <1>4, <1>7 DEF Good

LEMMA DoTrapGood ==
  ASSUME NEW c, NEW t \in Traps, Good(c)
  PROVE  Good(DoTrap(c, t)) /\ DoTrap(c, t).atom = c.atom
<1>1. CASE ~Accepts(c, t)
  BY <1>1 DEF DoTrap
<1>2. CASE Accepts(c, t) /\ c.atom # "none"
  <2>1. DoTrap(c, t) = [c EXCEPT !.deferred = {t}]
    BY <1>2 DEF DoTrap
  <2> QED BY <2>1 DEF Good, CpuStates
<1>3. CASE Accepts(c, t) /\ c.atom = "none"
  BY <1>3, EnterGood DEF DoTrap
<1> QED BY <1>1, <1>2, <1>3

LEMMA FireDeferredGood ==
  ASSUME NEW c, Good(c), c.atom = "none"
  PROVE  Good(FireDeferred(c)) /\ FireDeferred(c).atom = "none"
<1>1. CASE c.deferred = {}
  BY <1>1 DEF FireDeferred
<1>2. CASE c.deferred # {}
  <2> DEFINE d == [c EXCEPT !.deferred = {}]
             t == CHOOSE x \in c.deferred : TRUE
  <2>1. t \in Traps
    BY <1>2 DEF Good, CpuStates
  <2>2. Good(d) /\ d.atom = "none"
    BY DEF Good, CpuStates
  <2>3. FireDeferred(c) = DoTrap(d, t)
    BY <1>2 DEF FireDeferred
  <2> HIDE DEF d, t
  <2> QED BY <2>1, <2>2, <2>3, DoTrapGood
<1> QED BY <1>1, <1>2

LEMMA FinishGood ==
  ASSUME NEW c, Good(c)
  PROVE  Good(Finish(c)) /\ Finish(c).atom = "none"
<1>1. Good([c EXCEPT !.atom = "none"]) /\ [c EXCEPT !.atom = "none"].atom = "none"
  BY DEF Good, CpuStates
<1> QED BY <1>1, FireDeferredGood DEF Finish

LEMMA IrqIsTrap == \A l \in Levels : Irq(l) \in Traps
BY DEF Irq, Traps

LEMMA DeliverGood ==
  ASSUME NEW c, NEW s, NEW l \in Levels, Good(c)
  PROVE  Good(Deliver(c, s, l)) /\ Deliver(c, s, l).atom = c.atom
BY IrqIsTrap, DoTrapGood DEF Deliver

LEMMA LevelType == TypeOK => \A s \in Sources : Level(s) \in Levels /\ pri[s] \in Levels /\ 1 \in Levels
BY InterruptsAssumption DEF TypeOK, Level, Levels

\* What each action makes of the CPU: a good state whose open sequence, if it
\* changes, has ended, unless an instruction opens one.
LEMMA CpuStep ==
  ASSUME TypeOK, Good(cpu), Next
  PROVE  Good(cpu')
<1> USE DEF Instruction, Event
<1>1. CASE Plain
  BY <1>1, FinishGood DEF Plain
<1>2. CASE Ext
  BY <1>2 DEF Ext, Good, CpuStates
<1>3. CASE DelayedBranch
  BY <1>3 DEF DelayedBranch, Good, CpuStates
<1>4. CASE SetPsr
  <2>1. PICK ie \in BOOLEAN, il \in Levels :
          cpu' = Finish([cpu EXCEPT !.ie = ie, !.il = il])
    BY <1>4 DEF SetPsr
  <2>2. Good([cpu EXCEPT !.ie = ie, !.il = il])
    BY DEF Good, CpuStates
  <2> QED BY <2>1, <2>2, FinishGood
<1>5. CASE Halt
  BY <1>5 DEF Halt, Good, CpuStates
<1>6. CASE Trap
  <2>1. Exception \in Traps /\ Accepts(cpu, Exception)
    BY DEF Exception, Traps, Accepts
  <2> QED BY <1>6, <2>1, EnterGood DEF Trap
<1>7. CASE Reti
  <2> DEFINE n == Len(cpu.frames)
             top == cpu.frames[n]
             rest == SubSeq(cpu.frames, 1, n - 1)
  <2>1. cpu.frames \in Seq(Frames) /\ cpu.frames # << >>
    BY <1>7 DEF Reti, Good, CpuStates
  <2>2. top \in Frames
    BY <2>1
  <2>3. /\ rest \in Seq(Frames) /\ Len(rest) = n - 1
        /\ \A i \in 1 .. n - 1 : rest[i] = cpu.frames[i]
    BY <2>1
  <2>4. Rising(rest)
    BY <2>1, <2>3 DEF Good, Rising
  <2>5. cpu' = [cpu EXCEPT !.ie = top.ie, !.il = top.il, !.frames = rest]
    BY <1>7 DEF Reti, Good, CpuStates
  <2>6. top.ie \in BOOLEAN /\ top.il \in Levels
    BY <2>2 DEF Frames
  <2> HIDE DEF n, top, rest
  <2> QED BY <2>3, <2>4, <2>5, <2>6 DEF Good, CpuStates
<1>8. CASE \E v \in SUBSET Sources : WriteIsr(v) \/ WriteIen(v)
  BY <1>8, FinishGood DEF WriteIsr, WriteIen, Store
<1>9. CASE \E p \in PriorityMaps : WritePri(p)
  BY <1>9, FinishGood DEF WritePri, Store
<1>10. CASE \E b \in BOOLEAN : WriteReset(b)
  BY <1>10, FinishGood DEF WriteReset, Store
<1>11. CASE \E s \in Keys : StoreRaisingKey(s)
  <2>1. PICK s \in Keys :
          cpu' = FireDeferred(Deliver([cpu EXCEPT !.atom = "none"], s, pri[s]))
    BY <1>11 DEF StoreRaisingKey
  <2>2. Good([cpu EXCEPT !.atom = "none"]) /\ [cpu EXCEPT !.atom = "none"].atom = "none"
    BY DEF Good, CpuStates
  <2>3. pri[s] \in Levels
    BY LevelType, InterruptsAssumption
  <2> QED BY <2>1, <2>2, <2>3, DeliverGood, FireDeferredGood
<1>12. CASE \E s \in Timers : RaiseTimer(s)
  BY <1>12, LevelType, DeliverGood, InterruptsAssumption DEF RaiseTimer
<1>13. CASE \E s \in Sounds : RaiseSound(s)
  BY <1>13, LevelType, DeliverGood, InterruptsAssumption DEF RaiseSound
<1>14. CASE \E s \in Keys : RaiseKey(s)
  BY <1>14, LevelType, DeliverGood, InterruptsAssumption DEF RaiseKey
<1>15. CASE AssertNmi
  <2>1. Nmi \in Traps
    BY DEF Nmi, Traps
  <2> QED BY <1>15, <2>1, DoTrapGood DEF AssertNmi
<1>16. CASE Poll
  BY <1>16, LevelType, IrqIsTrap, DoTrapGood DEF Poll
<1>17. CASE Reset
  BY <1>17, InterruptsAssumption DEF Reset, ResetCpu, Good, CpuStates, Levels, Rising
<1> QED BY <1>1, <1>2, <1>3, <1>4, <1>5, <1>6, <1>7, <1>8, <1>9, <1>10, <1>11,
           <1>12, <1>13, <1>14, <1>15, <1>16, <1>17 DEF Next

-----------------------------------------------------------------------------
(* The controller.                                                         *)

RegTypeOK ==
  /\ isr \subseteq Sources /\ ien \subseteq Sources /\ overridden \subseteq Sources
  /\ pri \in [Sources -> Levels]
  /\ rstonly \in BOOLEAN /\ poll_dirty \in BOOLEAN
  /\ current_il \in Levels
  /\ tick \in {"run", "timers", "sound"}
  /\ empty \in BOOLEAN

LEMMA SplitType == TypeOK /\ NestingRises <=> RegTypeOK /\ Good(cpu)
BY DEF TypeOK, RegTypeOK, NestingRises, Good, Rising

LEMMA RegStep ==
  ASSUME RegTypeOK, Good(cpu), Next
  PROVE  RegTypeOK'
<1> USE InterruptsAssumption DEF RegTypeOK, regVars
<1>1. CASE Plain \/ Ext \/ DelayedBranch \/ SetPsr \/ Halt \/ Trap \/ Reti
  BY <1>1 DEF Plain, Ext, DelayedBranch, SetPsr, Halt, Trap, Reti
<1>2. CASE \E v \in SUBSET Sources : WriteIsr(v) \/ WriteIen(v)
  BY <1>2 DEF WriteIsr, WriteIen, Store
<1>3. CASE \E p \in PriorityMaps : WritePri(p)
  BY <1>3 DEF WritePri, Store
<1>4. CASE \E b \in BOOLEAN : WriteReset(b)
  BY <1>4 DEF WriteReset, Store
<1>5. CASE \E s \in Keys : StoreRaisingKey(s) \/ RaiseKey(s)
  BY <1>5 DEF StoreRaisingKey, RaiseKey, SetFlag
<1>6. CASE \E s \in Timers : RaiseTimer(s)
  BY <1>6 DEF RaiseTimer, SetFlag
<1>7. CASE \E s \in Sounds : RaiseSound(s)
  BY <1>7 DEF RaiseSound, SetFlag
<1>8. CASE AssertNmi
  BY <1>8 DEF AssertNmi
<1>9. CASE Poll
  BY <1>9 DEF Poll, Good, CpuStates
<1>10. CASE Reset
  BY <1>10 DEF Reset, Levels
<1> QED BY <1>1, <1>2, <1>3, <1>4, <1>5, <1>6, <1>7, <1>8, <1>9, <1>10
        DEF Next, Instruction, Event

\* Every action that changes a flag, an enable or a level either marks
\* poll_dirty or is no such change.
LEMMA ScanStep ==
  ASSUME IndInv, Next
  PROVE  OverrideOnlyWhilePending' /\ ScanHolds'
<1> USE DEF IndInv, OverrideOnlyWhilePending, ScanHolds, regVars
<1>1. CASE Plain \/ Ext \/ DelayedBranch \/ SetPsr \/ Halt \/ Trap \/ Reti
  <2>1. UNCHANGED <<isr, ien, pri, overridden, current_il, poll_dirty, empty>>
    BY <1>1 DEF Plain, Ext, DelayedBranch, SetPsr, Halt, Trap, Reti
  <2>2. \A s : Level(s)' = Level(s)
    BY <2>1 DEF Level
  <2> QED BY <2>1, <2>2
<1>2. CASE \E v \in SUBSET Sources : WriteIsr(v) \/ WriteIen(v)
  BY <1>2 DEF WriteIsr, WriteIen, Store
<1>3. CASE \E p \in PriorityMaps : WritePri(p)
  BY <1>3 DEF WritePri, Store
<1>4. CASE \E b \in BOOLEAN : WriteReset(b)
  BY <1>4 DEF WriteReset, Store, Level
<1>5. CASE \E s \in Keys : StoreRaisingKey(s) \/ RaiseKey(s)
  BY <1>5 DEF StoreRaisingKey, RaiseKey, SetFlag
<1>6. CASE \E s \in Timers : RaiseTimer(s)
  BY <1>6 DEF RaiseTimer, SetFlag
<1>7. CASE \E s \in Sounds : RaiseSound(s)
  BY <1>7 DEF RaiseSound, SetFlag
<1>8. CASE AssertNmi
  BY <1>8 DEF AssertNmi, Level
<1>9. CASE Poll
  <2>1. /\ cpu.il \in Int /\ current_il \in Int
        /\ \A s \in isr \cap ien : s \in Sources /\ Level(s) \in Int
    BY LevelType, InterruptsAssumption DEF TypeOK, CpuStates, Levels
  <2>2. /\ UNCHANGED <<isr, ien, overridden>>
        /\ current_il' = cpu.il /\ \A s : Level(s)' = Level(s)
    BY <1>9 DEF Poll, Level
  <2>3. CASE Noticed /\ empty'
    <3>1. Deliverable(cpu.il) = {} \/ empty' = FALSE
      BY <1>9, <2>3 DEF Poll
    <3>2. \A s \in isr \cap ien : ~(Level(s) > cpu.il)
      BY <2>3, <3>1 DEF Deliverable
    <3> QED BY <2>1, <2>2, <3>2
  <2>4. CASE ~Noticed
    <3>1. empty' = empty /\ ~poll_dirty /\ ~(cpu.il < current_il)
      BY <1>9, <2>4 DEF Poll, Noticed
    <3> QED BY <2>1, <2>2, <3>1
  <2>5. CASE ~empty'
    BY <2>2, <2>5
  <2> QED BY <2>3, <2>4, <2>5
<1>10. CASE Reset
  BY <1>10 DEF Reset
<1> QED BY <1>1, <1>2, <1>3, <1>4, <1>5, <1>6, <1>7, <1>8, <1>9, <1>10
        DEF Next, Instruction, Event

-----------------------------------------------------------------------------
(* The invariant and what follows from it.                                 *)

LEMMA InitInv == Init => IndInv
<1> SUFFICES ASSUME Init PROVE IndInv
  OBVIOUS
<1>1. Good(ResetCpu)
  BY InterruptsAssumption DEF ResetCpu, Good, CpuStates, Levels, Rising
<1>2. RegTypeOK
  <2>1. 0 \in Levels /\ {} \subseteq Sources
    BY InterruptsAssumption DEF Levels
  <2>2. pri \in [Sources -> Levels]
    BY <2>1 DEF Init
  <2>3. rstonly \in BOOLEAN /\ poll_dirty \in BOOLEAN /\ empty \in BOOLEAN
    BY DEF Init
  <2> QED BY <2>1, <2>2, <2>3 DEF Init, RegTypeOK
<1> QED BY <1>1, <1>2, SplitType DEF Init, IndInv, OverrideOnlyWhilePending, ScanHolds

LEMMA NextInv == IndInv /\ [Next]_vars => IndInv'
<1> SUFFICES ASSUME IndInv, [Next]_vars PROVE IndInv'
  OBVIOUS
<1>1. RegTypeOK /\ Good(cpu)
  BY SplitType DEF IndInv
<1>2. CASE Next
  <2>1. RegTypeOK' /\ Good(cpu')
    BY <1>1, <1>2, RegStep, CpuStep DEF IndInv
  <2>2. (TypeOK /\ NestingRises)'
    BY <2>1 DEF TypeOK, RegTypeOK, NestingRises, Good, Rising
  <2> QED BY <1>2, <2>2, ScanStep DEF IndInv
<1>3. CASE UNCHANGED vars
  BY <1>3 DEF vars, regVars, IndInv, TypeOK, NestingRises, OverrideOnlyWhilePending,
     ScanHolds, Level
<1> QED BY <1>2, <1>3

LEMMA InvariantHolds == Spec => []IndInv
BY InitInv, NextInv, PTL DEF Spec

\* The registers, the CPU state and the saved frames keep their types.
THEOREM TypeCorrect == Spec => []TypeOK
<1>1. IndInv => TypeOK
  BY DEF IndInv
<1> QED BY <1>1, InvariantHolds, PTL

\* do_trap checks IE and IL when a trap is entered, not only when it is
\* asserted: a maskable trap never interrupts code at its level or above.
THEOREM TrapsNest == Spec => []NestingRises
<1>1. IndInv => NestingRises
  BY DEF IndInv
<1> QED BY <1>1, InvariantHolds, PTL

\* An acknowledged request leaves no level override behind.
THEOREM OverridesEnd == Spec => []OverrideOnlyWhilePending
<1>1. IndInv => OverrideOnlyWhilePending
  BY DEF IndInv
<1> QED BY <1>1, InvariantHolds, PTL

\* After a scan that found nothing, poll's fast path loses no request.
THEOREM FastPathSound == Spec => []SkippedPollMissesNothing
<1>1. IndInv => SkippedPollMissesNothing
  <2> SUFFICES ASSUME IndInv, empty, ~Noticed, NEW s \in Sources, Acceptable(s)
               PROVE  FALSE
    BY DEF SkippedPollMissesNothing
  <2>1. Level(s) \in Int /\ current_il \in Int /\ cpu.il \in Int
    BY LevelType, InterruptsAssumption DEF IndInv, TypeOK, CpuStates, Levels
  <2>2. Level(s) > cpu.il /\ Level(s) <= current_il /\ ~(cpu.il < current_il)
    BY DEF IndInv, ScanHolds, Noticed, Acceptable
  <2> QED BY <2>1, <2>2
<1> QED BY <1>1, InvariantHolds, PTL

-----------------------------------------------------------------------------
(* Atomicity of EXT and delay-slot sequences.                              *)

LEMMA TrapKeepsSequence ==
  ASSUME NEW c, NEW t, c.atom # "none", c \in CpuStates
  PROVE  DoTrap(c, t).frames = c.frames
BY DEF DoTrap, CpuStates

LEMMA AtomicStep ==
  ASSUME IndInv, Next, Len(cpu'.frames) > Len(cpu.frames)
  PROVE  /\ cpu'.atom = "none"
         /\ cpu.atom # "none" => tick = "run" /\ ~cpu.halted
<1> USE DEF Running
<1>0. Good(cpu) /\ RegTypeOK /\ Len(cpu.frames) \in Nat
  BY SplitType DEF IndInv, Good, CpuStates
<1>1. CASE Plain
  BY <1>0, <1>1, FinishGood DEF Plain
<1>9. CASE SetPsr
  <2>1. PICK ie \in BOOLEAN, il \in Levels :
          Running /\ cpu' = Finish([cpu EXCEPT !.ie = ie, !.il = il])
    BY <1>9 DEF SetPsr
  <2>2. Good([cpu EXCEPT !.ie = ie, !.il = il])
    BY <1>0 DEF Good, CpuStates
  <2> QED BY <2>1, <2>2, FinishGood
<1>2. CASE Ext \/ DelayedBranch \/ Halt
  BY <1>0, <1>2 DEF Ext, DelayedBranch, Halt, Good, CpuStates
<1>3. CASE Trap
  <2>1. Exception \in Traps /\ Accepts(cpu, Exception)
    BY DEF Exception, Traps, Accepts
  <2> QED BY <1>0, <1>3, <2>1, EnterGood DEF Trap
<1>4. CASE Reti
  <2>1. cpu.frames \in Seq(Frames) /\ cpu.frames # << >>
    BY <1>0, <1>4 DEF Reti, Good, CpuStates
  <2>2. cpu'.frames = SubSeq(cpu.frames, 1, Len(cpu.frames) - 1)
    BY <1>0, <1>4 DEF Reti, Good, CpuStates
  <2>3. Len(cpu'.frames) = Len(cpu.frames) - 1
    BY <2>1, <2>2
  <2> QED BY <1>0, <2>3
<1>5. CASE Store
  BY <1>0, <1>5, FinishGood DEF Store
<1>6. CASE \E s \in Keys : StoreRaisingKey(s)
  <2>1. PICK s \in Keys : /\ Running
          /\ cpu' = FireDeferred(Deliver([cpu EXCEPT !.atom = "none"], s, pri[s]))
    BY <1>6 DEF StoreRaisingKey
  <2>2. Good([cpu EXCEPT !.atom = "none"]) /\ [cpu EXCEPT !.atom = "none"].atom = "none"
    BY <1>0 DEF Good, CpuStates
  <2>3. pri[s] \in Levels
    BY LevelType, InterruptsAssumption DEF IndInv
  <2> QED BY <2>1, <2>2, <2>3, DeliverGood, FireDeferredGood
\* An event outside an instruction hands one trap at most to do_trap.
<1>7. CASE Event \/ cpu' = cpu
  <2>1. cpu' = cpu \/ \E t \in Traps : cpu' = DoTrap(cpu, t)
    BY <1>7, LevelType, IrqIsTrap, InterruptsAssumption
       DEF Event, IndInv, RaiseTimer, RaiseSound, RaiseKey, AssertNmi, Poll, Deliver,
           Nmi, Traps
  <2>2. PICK t \in Traps : cpu' = DoTrap(cpu, t)
    BY <1>0, <2>1
  <2>3. cpu.atom = "none"
    BY <1>0, <2>2, TrapKeepsSequence DEF Good
  <2> QED BY <1>0, <2>2, <2>3, DoTrapGood
<1>8. CASE Reset
  BY <1>0, <1>8 DEF Reset, ResetCpu
<1>10. \A v : (WriteIsr(v) \/ WriteIen(v) \/ WritePri(v) \/ WriteReset(v)) => Store
  BY DEF WriteIsr, WriteIen, WritePri, WriteReset
<1> QED BY <1>1, <1>2, <1>3, <1>4, <1>5, <1>6, <1>7, <1>8, <1>9, <1>10
        DEF Next, Instruction

\* No trap is entered between EXT and its target or between a delayed branch
\* and its slot.
THEOREM SequencesAreAtomic == Spec => AtomicSequences
<1>1. IndInv /\ [Next]_vars =>
        [Len(cpu'.frames) > Len(cpu.frames) => cpu'.atom = "none"
           /\ (cpu.atom # "none" => tick = "run" /\ ~cpu.halted)]_vars
  BY AtomicStep
<1> QED BY <1>1, InvariantHolds, PTL DEF Spec, AtomicSequences

-----------------------------------------------------------------------------
(* Timers: counting.                                                       *)


\* Induction over the natural numbers, for a set of them.
LEMMA SetInduction ==
  ASSUME NEW S, 0 \in S, \A n \in Nat : n \in S => n + 1 \in S
  PROVE  Nat \subseteq S
<1> DEFINE R == {p \in Nat \X Nat : p[1] < p[2]}
<1>1. IsWellFoundedOn(R, Nat)
  BY NatLessThanWellFounded DEF OpToRel
<1> SUFFICES ASSUME Nat \ S # {} PROVE FALSE
  OBVIOUS
<1>2. PICK x \in Nat \ S : \A y \in Nat \ S : ~ (<<y, x>> \in R)
  <2> HIDE DEF R
  <2> QED BY <1>1, WFMin
<1>3. x # 0 /\ x - 1 \in Nat
  OBVIOUS
<1>4. x - 1 \notin S
  BY <1>3
<1>5. <<x - 1, x>> \in R
  BY <1>3
<1> QED
  BY <1>2, <1>3, <1>4, <1>5

-----------------------------------------------------------------------------
(* Timers: a recursion over the counts has one solution.                   *)

\* At most one function on 0..n satisfies a recursion over k - 1.
LEMMA RecursionIsUnique ==
  ASSUME NEW n \in Nat, NEW v, NEW g,
         v[0] = g[0],
         \A k \in 0 .. n - 1 : v[k] = g[k] => v[k + 1] = g[k + 1]
  PROVE  \A k \in 0 .. n : v[k] = g[k]
<1> DEFINE S == {k \in Nat : k <= n => v[k] = g[k]}
<1>1. 0 \in S
  OBVIOUS
<1>2. ASSUME NEW k \in Nat, k \in S PROVE k + 1 \in S
  <2>1. CASE k + 1 <= n
    <3>1. v[k] = g[k] /\ k \in 0 .. n - 1
      BY <1>2, <2>1
    <3>2. v[k + 1] = g[k + 1]
      BY <3>1
    <3> QED BY <3>2
  <2>2. CASE ~(k + 1 <= n)
    BY <2>2
  <2> QED BY <2>1, <2>2
<1>3. Nat \subseteq S
  <2> HIDE DEF S
  <2> QED BY <1>1, <1>2, SetInduction
<1> QED
  BY <1>3

\* Counting by one inside a cycle of m, and the closed form.
LEMMA CycleStep ==
  ASSUME NEW m \in Nat \ {0}, NEW x \in Nat
  PROVE  /\ x % m \in 0 .. m - 1
         /\ (x % m = m - 1) => (x + 1) % m = 0
         /\ (x % m # m - 1) => (x + 1) % m = (x % m) + 1
         /\ x < m => x % m = x
OBVIOUS

\* A number is its quotient times the divisor, plus its remainder.
LEMMA DivMod ==
  ASSUME NEW x \in Nat, NEW m \in Nat \ {0}
  PROVE  x \div m \in Nat /\ x = (x \div m) * m + (x % m)
OBVIOUS

\* Reducing before or after counting on makes no difference.
LEMMA ModStep ==
  ASSUME NEW m \in Nat \ {0}, NEW x \in Nat
  PROVE  (x + 1) % m = ((x % m) + 1) % m
<1>1. PICK y : y = x % m
  OBVIOUS
<1>2. /\ y \in 0 .. m - 1
      /\ (y = m - 1) => (x + 1) % m = 0
      /\ (y # m - 1) => (x + 1) % m = y + 1
  BY <1>1, CycleStep
<1>3. CASE y = m - 1
  <2>1. y + 1 = m /\ m % m = 0
    BY <1>3
  <2> QED BY <1>1, <1>2, <1>3, <2>1
<1>4. CASE y # m - 1
  <2>1. (y + 1) % m = y + 1
    BY <1>2, <1>4
  <2> QED BY <1>1, <1>2, <1>4, <2>1
<1> QED
  BY <1>3, <1>4

\* The registers of a channel of Timer16bit as the program may set them.
Regs16(c) == c.cra \in 0 .. Modulus - 1 /\ c.crb \in 0 .. Modulus - 1 /\ c.tc \in 0 .. Modulus - 1

\* The closed form of TC after each of n counts.
LEMMA TcAfterClosed ==
  ASSUME NEW c, Regs16(c), InCycle(c), NEW n \in Nat
  PROVE  \A k \in 0 .. n : TcAfter(c, n)[k] = FinalTc(c, k)
<1> DEFINE g == [k \in 0 .. n |-> FinalTc(c, k)]
           F(v) == [k \in 0 .. n |->
                     IF k = 0 THEN c.tc
                     ELSE IF c.crb # 0 /\ v[k - 1] = c.crb THEN 0
                     ELSE (v[k - 1] + 1) % Modulus]
           w == TcAfter(c, n)
<1>1. FinalTc(c, 0) = c.tc
  BY TimersAssumption DEF FinalTc, Regs16, InCycle
<1>2. \A k \in Nat : FinalTc(c, k + 1) = IF c.crb # 0 /\ FinalTc(c, k) = c.crb THEN 0
                                     ELSE (FinalTc(c, k) + 1) % Modulus
  <2> SUFFICES ASSUME NEW k \in Nat
               PROVE  FinalTc(c, k + 1) = IF c.crb # 0 /\ FinalTc(c, k) = c.crb THEN 0
                                     ELSE (FinalTc(c, k) + 1) % Modulus
    OBVIOUS
  <2> DEFINE x == c.tc + k
  <2>0. x \in Nat /\ c.tc + (k + 1) = x + 1 /\ Modulus \in Nat \ {0} /\ c.crb \in 0 .. Modulus - 1
    BY TimersAssumption DEF Regs16
  <2>1. CASE c.crb # 0
    <3>1. FinalTc(c, k) = x % (c.crb + 1) /\ FinalTc(c, k + 1) = (x + 1) % (c.crb + 1)
      BY <2>0, <2>1 DEF FinalTc
    <3>2. c.crb + 1 \in Nat \ {0} /\ (c.crb + 1) - 1 = c.crb
      BY <2>0
    <3>3. /\ x % (c.crb + 1) \in 0 .. c.crb
          /\ (x % (c.crb + 1) = c.crb) => (x + 1) % (c.crb + 1) = 0
          /\ (x % (c.crb + 1) # c.crb) => (x + 1) % (c.crb + 1) = (x % (c.crb + 1)) + 1
      <4> HIDE DEF x
      <4> QED BY <2>0, <3>2, CycleStep
    <3>4. CASE x % (c.crb + 1) = c.crb
      BY <3>1, <3>3, <3>4, <2>1
    <3>5. CASE x % (c.crb + 1) # c.crb
      <4> DEFINE y == x % (c.crb + 1)
      <4>1. y + 1 \in 0 .. Modulus - 1
        <5>1. y \in 0 .. c.crb /\ y # c.crb
          BY <3>3, <3>5
        <5> HIDE DEF y
        <5> QED BY <5>1, <2>0
      <4>2. (y + 1) % Modulus = y + 1
        <5> HIDE DEF y
        <5> QED BY <4>1, <2>0
      <4> QED BY <4>2, <3>1, <3>3, <3>5
    <3> QED BY <3>4, <3>5
  <2>2. CASE c.crb = 0
    <3>1. FinalTc(c, k) = x % Modulus /\ FinalTc(c, k + 1) = (x + 1) % Modulus
      BY <2>0, <2>2 DEF FinalTc
    <3>2. (x + 1) % Modulus = ((x % Modulus) + 1) % Modulus
      <4> HIDE DEF x
      <4> QED BY <2>0, ModStep
    <3> HIDE DEF x
    <3> QED BY <3>1, <3>2, <2>2
  <2> QED BY <2>1, <2>2
<1>3. g = F(g)
  <2> SUFFICES ASSUME NEW k \in 0 .. n PROVE g[k] = F(g)[k]
    OBVIOUS
  <2>1. CASE k = 0
    BY <1>1, <2>1
  <2>2. CASE k # 0
    <3>1. k - 1 \in Nat /\ (k - 1) + 1 = k /\ k - 1 \in 0 .. n
      BY <2>2
    <3>2. g[k - 1] = FinalTc(c, k - 1)
      BY <3>1
    <3>3. FinalTc(c, k) = IF c.crb # 0 /\ FinalTc(c, k - 1) = c.crb THEN 0
                                     ELSE (FinalTc(c, k - 1) + 1) % Modulus
      BY <1>2, <3>1
    <3> QED BY <3>2, <3>3, <2>2
  <2> QED BY <2>1, <2>2
<1>4. w = F(w)
  <2>1. w = CHOOSE v : v = F(v)
    BY DEF TcAfter
  <2> HIDE DEF F, g, w
  <2> QED BY <1>3, <2>1
<1>5. w[0] = g[0]
  <2>1. w[0] = F(w)[0]
    <3> HIDE DEF F, w
    <3> QED BY <1>4
  <2>2. F(w)[0] = c.tc
    OBVIOUS
  <2> QED BY <2>1, <2>2, <1>1
<1>6. ASSUME NEW k \in 0 .. n - 1, w[k] = g[k] PROVE w[k + 1] = g[k + 1]
  <2>0. k + 1 \in 0 .. n /\ k + 1 # 0 /\ (k + 1) - 1 = k /\ k \in 0 .. n /\ k \in Nat
    OBVIOUS
  <2>1. w[k + 1] = F(w)[k + 1]
    <3> HIDE DEF F, w
    <3> QED BY <1>4
  <2>2. F(w)[k + 1] = IF c.crb # 0 /\ w[k] = c.crb THEN 0 ELSE (w[k] + 1) % Modulus
    BY <2>0
  <2>3. g[k] = FinalTc(c, k) /\ g[k + 1] = FinalTc(c, k + 1)
    BY <2>0
  <2> HIDE DEF F, w, g
  <2> QED BY <1>6, <1>2, <2>0, <2>1, <2>2, <2>3
<1>7. \A k \in 0 .. n : w[k] = g[k]
  <2> HIDE DEF w, g
  <2> QED BY <1>5, <1>6, RecursionIsUnique
<1> SUFFICES ASSUME NEW k \in 0 .. n PROVE TcAfter(c, n)[k] = FinalTc(c, k)
  OBVIOUS
<1>8. g[k] = FinalTc(c, k)
  OBVIOUS
<1>9. w[k] = g[k]
  <2> HIDE DEF w, g
  <2> QED BY <1>7
<1> QED
  BY <1>8, <1>9

\* The counts a tick has to process: at least one, and as many as have begun.
LEMMA CountsAre ==
  ASSUME NEW d \in Nat, NEW p \in Nat \ {0}
  PROVE  /\ Counts(-d, p) \in Nat \ {0}
         /\ \A q \in Nat : Counts(-d, p) > q <=> d >= q * p
<1> DEFINE e == d \div p
<1>1. e \in Nat /\ e * p <= d /\ d < e * p + p
  OBVIOUS
<1>2. Counts(-d, p) = e + 1
  BY DEF Counts
<1>3. ASSUME NEW q \in Nat PROVE e >= q <=> d >= q * p
  <2> HIDE DEF e
  <2>1. CASE e >= q
    <3>1. e * p >= q * p
      BY <1>1, <2>1
    <3> QED BY <1>1, <2>1, <3>1
  <2>2. CASE ~(e >= q)
    <3>1. q >= e + 1
      BY <1>1, <2>2
    <3>2. q * p >= (e + 1) * p
      BY <1>1, <3>1
    <3>3. (e + 1) * p = e * p + p
      BY <1>1
    <3>4. q * p \in Nat /\ e * p \in Nat /\ (e + 1) * p \in Nat
      BY <1>1
    <3> QED BY <1>1, <2>2, <3>2, <3>3, <3>4
  <2> QED BY <2>1, <2>2
<1> HIDE DEF e
<1> QED
  BY <1>1, <1>2, <1>3

\* What a tick may jump over: every number of counts and periods.
LEMMA TickMissesNothing ==
  ASSUME NEW c, Regs16(c), InCycle(c), NEW n \in Nat \ {0}
  PROVE  MissesNothing(c, n)
<1>0. Modulus \in Nat \ {0}
  BY TimersAssumption
<1>1. \A k \in 0 .. n : TcAfter(c, n)[k] = FinalTc(c, k)
  BY TcAfterClosed
<1>2. FinalTc(c, n) = TcAfter(c, n)[n]
  BY <1>1
<1>3. ASSUME NEW k \in 1 .. n, c.crb # 0, FinalTc(c, k) = c.crb
      PROVE  Matches(c, n) > 0
  <2>1. c.tc + k >= c.crb
    <3> DEFINE x == c.tc + k
    <3>1. x \in Nat /\ x % (c.crb + 1) = c.crb /\ c.crb \in Nat
      BY <1>3 DEF FinalTc, Regs16
    <3>2. x >= c.crb
      <4> HIDE DEF x
      <4> QED BY <3>1
    <3> QED BY <3>2
  <2> QED BY <2>1 DEF Matches, Regs16
<1>4. ASSUME NEW k \in 1 .. n, c.cra # 0, FinalTc(c, k) = c.cra, c.crb # 0
      PROVE  /\ c.cra <= c.crb
             /\ \/ c.tc < c.cra /\ c.tc + n >= c.cra
                \/ Matches(c, n) >= 2
                \/ Matches(c, n) = 1 /\ FinalTc(c, n) >= c.cra
  <2> DEFINE a == c.cra
             b == c.crb
             t == c.tc
  <2>1. /\ a \in Nat /\ b \in Nat /\ t \in Nat /\ t <= b /\ b # 0 /\ a # 0
        /\ k \in Nat /\ k >= 1 /\ k <= n
    BY <1>4 DEF InCycle, Regs16
  <2>2. (t + k) % (b + 1) = a /\ FinalTc(c, n) = (t + n) % (b + 1)
    BY <1>4 DEF FinalTc
  <2>3. Matches(c, n) = IF t + n >= b THEN (t + n - b) \div (b + 1) + 1 ELSE 0
    BY DEF Matches
  <2> HIDE DEF a, b, t
  <2>4. a <= b
    BY <2>1, <2>2
  <2>5. CASE t < a
    <3>1. t + k >= a
      BY <2>1, <2>2
    <3> QED BY <2>1, <2>4, <2>5, <3>1 DEF a, b, t
  <2>6. CASE ~(t < a)
    <3>1. t + k >= a + (b + 1)
      <4> DEFINE z == (t + k) \div (b + 1)
      <4>1. z \in Nat /\ t + k = z * (b + 1) + a
        <5>1. t + k \in Nat /\ b + 1 \in Nat \ {0}
          BY <2>1
        <5>2. z \in Nat /\ t + k = z * (b + 1) + ((t + k) % (b + 1))
          BY <5>1, DivMod
        <5> QED BY <5>2, <2>2
      <4>2. z # 0
        <5> HIDE DEF z
        <5> QED BY <2>1, <2>6, <4>1
      <4> HIDE DEF z
      <4>3. z * (b + 1) >= b + 1
        BY <2>1, <4>1, <4>2
      <4> QED BY <2>1, <4>1, <4>3
    <3> DEFINE M == (t + n - b) \div (b + 1)
    <3>2. t + n - b \in Nat /\ t + n >= b
      BY <2>1, <3>1
    <3>3. M \in Nat
      BY <2>1, <3>2
    <3>4. CASE M = 0
      <4>1. t + n - b < b + 1
        BY <2>1, <3>2, <3>4
      <4>2. t + n - (b + 1) \in 0 .. b - 1
        BY <2>1, <2>6, <3>1, <4>1
      <4>3. (t + n) % (b + 1) = t + n - (b + 1)
        BY <2>1, <4>2
      <4>4. Matches(c, n) = 1 /\ FinalTc(c, n) >= a
        BY <2>1, <2>2, <2>3, <3>1, <3>2, <3>4, <4>3
      <4> QED BY <2>4, <4>4 DEF a, b
    <3>5. CASE M # 0
      <4>1. Matches(c, n) >= 2
        <5>1. Matches(c, n) = M + 1
          BY <2>3, <3>2
        <5> HIDE DEF M
        <5> QED BY <5>1, <3>3, <3>5
      <4> QED BY <2>4, <4>1 DEF a, b
    <3> QED BY <3>4, <3>5
  <2> QED BY <2>5, <2>6
<1>5. ASSUME NEW k \in 1 .. n, c.crb = 0, FinalTc(c, k) = c.cra
      PROVE  \E j \in 1 .. n : (c.tc + j) % Modulus = c.cra
  BY <1>5 DEF FinalTc
<1>6. ASSUME NEW irq \in Met(c, n) PROVE irq \in Raised16(c, n)
  <2>1. CASE irq = "CRB"
    <3>1. c.crb # 0 /\ \E k \in 1 .. n : TcAfter(c, n)[k] = c.crb
      BY <1>6, <2>1 DEF Met
    <3>2. PICK k \in 1 .. n : TcAfter(c, n)[k] = c.crb
      BY <3>1
    <3>3. FinalTc(c, k) = c.crb
      BY <1>1, <3>2
    <3>4. Matches(c, n) > 0
      BY <1>3, <3>1, <3>3
    <3> QED BY <2>1, <3>1, <3>4 DEF Raised16
  <2>2. CASE irq = "CRA"
    <3>1. c.cra # 0 /\ \E k \in 1 .. n : TcAfter(c, n)[k] = c.cra
      BY <1>6, <2>2 DEF Met
    <3>2. PICK k \in 1 .. n : TcAfter(c, n)[k] = c.cra
      BY <3>1
    <3>3. FinalTc(c, k) = c.cra
      BY <1>1, <3>2
    <3>4. CASE c.crb # 0
      BY <1>4, <2>2, <3>1, <3>3, <3>4 DEF Raised16
    <3>5. CASE c.crb = 0
      BY <1>5, <2>2, <3>1, <3>3, <3>5 DEF Raised16
    <3> QED BY <3>4, <3>5
  <2> QED BY <1>6, <2>1, <2>2 DEF Met
<1> QED
  BY <1>2, <1>6 DEF MissesNothing

-----------------------------------------------------------------------------
(* Timers: the prediction of the next match.                               *)

\* A least element is the Least.
LEMMA LeastIs ==
  ASSUME NEW S \in SUBSET Int, NEW x \in S, \A y \in S : x <= y
  PROVE  Least(S) = x
<1>1. Least(S) \in S /\ \A y \in S : Least(S) <= y
  BY DEF Least
<1>2. Least(S) <= x /\ x <= Least(S) /\ Least(S) \in Int /\ x \in Int
  BY <1>1
<1> QED
  BY <1>2

\* The distances to CRA and CRB are a set of one or two numbers, or empty.
LEMMA MatchSet ==
  ASSUME NEW c, Regs16(c), CountsToMatch(c) # {}
  PROVE  /\ CountsToMatch(c) \in SUBSET Int
         /\ Least(CountsToMatch(c)) \in CountsToMatch(c)
         /\ Least(CountsToMatch(c)) \in Int
<1> DEFINE a == CountsToCra(c)
           b == CountsToCrb(c)
           S == CountsToMatch(c)
<1>1. a \in Int /\ b \in Int
  BY TimersAssumption DEF CountsToCra, CountsToCrb, Regs16
<1>2. S = {a} \/ S = {b} \/ S = {a, b}
  BY DEF CountsToMatch
<1> HIDE DEF a, b, S
<1>3. S \in SUBSET Int
  BY <1>1, <1>2
<1>4. \E x \in S : \A y \in S : x <= y
  <2>1. CASE S = {a} \/ (S = {a, b} /\ a <= b)
    BY <1>1, <2>1
  <2>2. CASE S = {b} \/ (S = {a, b} /\ b <= a)
    BY <1>1, <2>2
  <2> QED BY <1>1, <1>2, <2>1, <2>2
<1>5. PICK x \in S : \A y \in S : x <= y
  BY <1>4
<1>6. Least(S) = x
  BY <1>3, <1>5, LeastIs
<1> QED
  BY <1>3, <1>5, <1>6 DEF S

\* The next match comes at the predicted count, or one count later.
LEMMA NextMatch ==
  ASSUME NEW c, Regs16(c), InCycle(c), CountsToMatch(c) # {},
         c.tc # c.crb \/ c.cra = 0
  PROVE  \E e \in MatchesAt(c, Modulus) :
           /\ e = Least(CountsToMatch(c)) \/ e = Least(CountsToMatch(c)) + 1
           /\ \A k \in MatchesAt(c, Modulus) : e <= k
<1> DEFINE a == c.cra
           b == c.crb
           t == c.tc
           S == CountsToMatch(c)
           ks == MatchesAt(c, Modulus)
<1>0. /\ Modulus \in Nat \ {0}
      /\ a \in 0 .. Modulus - 1 /\ b \in 0 .. Modulus - 1 /\ t \in 0 .. Modulus - 1
  BY TimersAssumption DEF Regs16
<1>1. \A k \in 1 .. Modulus :
        k \in ks <=> ((a # 0 /\ FinalTc(c, k) = a) \/ (b # 0 /\ FinalTc(c, k) = b))
  <2>1. \A k \in 0 .. Modulus : TcAfter(c, Modulus)[k] = FinalTc(c, k)
    BY <1>0, TcAfterClosed
  <2> QED BY <2>1, <1>0 DEF MatchesAt
<1>2. ks \subseteq 1 .. Modulus
  BY DEF MatchesAt
<1>3. \A k \in Nat : FinalTc(c, k) = IF b # 0 THEN (t + k) % (b + 1) ELSE (t + k) % Modulus
  BY DEF FinalTc
<1>4. /\ CountsToCrb(c) = IF t < b THEN b - t ELSE b
      /\ CountsToCra(c) = IF t < a THEN a - t
                          ELSE IF b # 0 /\ a <= b THEN CountsToCrb(c) + a
                          ELSE Modulus - t + a
  BY DEF CountsToCrb, CountsToCra
<1>5. S = (IF b # 0 THEN {CountsToCrb(c)} ELSE {}) \cup (IF a # 0 THEN {CountsToCra(c)} ELSE {})
  BY DEF CountsToMatch
<1>6. (b # 0 => t <= b) /\ (t # b \/ a = 0) /\ S # {}
  BY DEF InCycle
<1> SUFFICES \E e \in ks : (e = Least(S) \/ e = Least(S) + 1) /\ \A k \in ks : e <= k
  OBVIOUS
<1> HIDE DEF a, b, t, S, ks
<1>7. CASE b # 0 /\ t < b /\ a # 0 /\ t < a /\ a <= b
  <2>1. S \in SUBSET Int /\ a - t \in S /\ \A y \in S : a - t <= y
    BY <1>0, <1>4, <1>5, <1>7
  <2>2. Least(S) = a - t
    BY <2>1, LeastIs
  <2>3. ASSUME NEW k \in 1 .. a - t PROVE FinalTc(c, k) = t + k
    <3>1. t + k \in Nat /\ t + k < b + 1 /\ b + 1 \in Nat \ {0} /\ k \in Nat
      BY <1>0, <1>7
    <3>2. (t + k) % (b + 1) = t + k
      BY <1>0, <3>1, CycleStep
    <3> QED BY <1>3, <1>7, <3>1, <3>2
  <2>4. a - t \in 1 .. Modulus /\ a - t \in 1 .. a - t
    BY <1>0, <1>7
  <2>5. a - t \in ks
    BY <1>0, <1>1, <1>7, <2>3, <2>4
  <2>6. ASSUME NEW k \in ks PROVE a - t <= k
    <3>1. k \in 1 .. Modulus /\ ((a # 0 /\ FinalTc(c, k) = a) \/ (b # 0 /\ FinalTc(c, k) = b))
      BY <1>1, <1>2
    <3>2. CASE k \in 1 .. a - t
      <4>1. FinalTc(c, k) = t + k
        BY <2>3, <3>2
      <4> QED BY <1>0, <1>7, <3>1, <3>2, <4>1
    <3>3. CASE k \notin 1 .. a - t
      BY <1>0, <1>7, <3>1, <3>3
    <3> QED BY <3>2, <3>3
  <2> QED BY <2>2, <2>5, <2>6
<1>8. CASE b # 0 /\ t < b /\ ~(a # 0 /\ t < a /\ a <= b)
  <2>1. S \in SUBSET Int /\ b - t \in S /\ \A y \in S : b - t <= y
    BY <1>0, <1>4, <1>5, <1>8
  <2>2. Least(S) = b - t
    BY <2>1, LeastIs
  <2>3. ASSUME NEW k \in 1 .. b - t PROVE FinalTc(c, k) = t + k
    <3>1. t + k \in Nat /\ t + k < b + 1 /\ b + 1 \in Nat \ {0} /\ k \in Nat
      BY <1>0, <1>8
    <3>2. (t + k) % (b + 1) = t + k
      BY <1>0, <3>1, CycleStep
    <3> QED BY <1>3, <1>8, <3>1, <3>2
  <2>4. b - t \in 1 .. Modulus /\ b - t \in 1 .. b - t
    BY <1>0, <1>8
  <2>5. b - t \in ks
    BY <1>0, <1>1, <1>8, <2>3, <2>4
  <2>6. ASSUME NEW k \in ks PROVE b - t <= k
    <3>1. k \in 1 .. Modulus /\ ((a # 0 /\ FinalTc(c, k) = a) \/ FinalTc(c, k) = b)
      BY <1>1, <1>2, <1>8
    <3>2. CASE k \in 1 .. b - t
      <4>1. FinalTc(c, k) = t + k
        BY <2>3, <3>2
      <4> QED BY <1>0, <1>8, <3>1, <3>2, <4>1
    <3>3. CASE k \notin 1 .. b - t
      BY <1>0, <1>8, <3>1, <3>3
    <3> QED BY <3>2, <3>3
  <2> QED BY <2>2, <2>5, <2>6
<1>9. CASE b # 0 /\ t = b
  <2>1. S \in SUBSET Int /\ b \in S /\ \A y \in S : b <= y
    BY <1>0, <1>4, <1>5, <1>6, <1>9
  <2>2. Least(S) = b
    BY <2>1, LeastIs
  <2>3. ASSUME NEW k \in 1 .. b + 1 PROVE FinalTc(c, k) = k - 1
    <3>1. b + 1 \in Nat \ {0} /\ k \in Nat /\ k - 1 \in 0 .. b /\ t + k = (b + 1) + (k - 1)
      BY <1>0, <1>9
    <3>2. ((b + 1) + (k - 1)) % (b + 1) = k - 1
      BY <3>1
    <3> QED BY <1>3, <1>9, <3>1, <3>2
  <2>4. b + 1 \in 1 .. Modulus /\ b + 1 \in 1 .. b + 1 /\ (b + 1) - 1 = b
    BY <1>0, <1>9
  <2>5. b + 1 \in ks
    BY <1>0, <1>1, <1>9, <2>3, <2>4
  <2>6. \A k \in ks : b + 1 <= k
    BY <1>0, <1>1, <1>2, <1>6, <1>9, <2>3
  <2> QED BY <2>2, <2>5, <2>6
<1>10. CASE b = 0 /\ t < a
  <2>1. S = {a - t} /\ a # 0
    BY <1>0, <1>4, <1>5, <1>6, <1>10
  <2>2. Least(S) = a - t
    BY <1>0, <2>1, LeastIs
  <2>3. ASSUME NEW k \in 1 .. a - t PROVE FinalTc(c, k) = t + k
    <3>1. t + k \in 0 .. Modulus - 1 /\ k \in Nat
      BY <1>0, <1>10
    <3>2. (t + k) % Modulus = t + k
      BY <1>0, <3>1
    <3> QED BY <1>3, <1>10, <3>1, <3>2
  <2>4. a - t \in 1 .. Modulus /\ a - t \in 1 .. a - t
    BY <1>0, <1>10
  <2>5. a - t \in ks
    BY <1>0, <1>1, <1>10, <2>1, <2>3, <2>4
  <2>6. ASSUME NEW k \in ks PROVE a - t <= k
    <3>1. k \in 1 .. Modulus /\ ((a # 0 /\ FinalTc(c, k) = a) \/ (b # 0 /\ FinalTc(c, k) = b))
      BY <1>1, <1>2
    <3>2. CASE k \in 1 .. a - t
      <4>1. FinalTc(c, k) = t + k
        BY <2>3, <3>2
      <4> QED BY <1>0, <1>10, <3>1, <3>2, <4>1
    <3>3. CASE k \notin 1 .. a - t
      BY <1>0, <1>10, <3>1, <3>3
    <3> QED BY <3>2, <3>3
  <2> QED BY <2>2, <2>5, <2>6
<1>11. CASE b = 0 /\ ~(t < a)
  <2> DEFINE L == Modulus - t + a
  <2>1. S = {L} /\ a # 0 /\ L \in 1 .. Modulus
    BY <1>0, <1>4, <1>5, <1>6, <1>11
  <2>2. Least(S) = L
    <3> HIDE DEF L
    <3> QED BY <1>0, <2>1, LeastIs
  <2>3. ASSUME NEW k \in 1 .. L
        PROVE  FinalTc(c, k) = IF k < Modulus - t THEN t + k ELSE t + k - Modulus
    <3>0. k \in Nat /\ t + k \in Nat
      BY <1>0
    <3>1. CASE k < Modulus - t
      <4>1. t + k \in 0 .. Modulus - 1
        BY <1>0, <3>1
      <4>2. (t + k) % Modulus = t + k
        BY <1>0, <4>1
      <4> QED BY <1>3, <1>11, <3>0, <3>1, <4>2
    <3>2. CASE ~(k < Modulus - t)
      <4>1. t + k - Modulus \in 0 .. Modulus - 1
        BY <1>0, <3>2
      <4>2. (t + k) % Modulus = t + k - Modulus
        BY <1>0, <4>1
      <4> QED BY <1>3, <1>11, <3>0, <3>2, <4>2
    <3> QED BY <3>1, <3>2
  <2>4. FinalTc(c, L) = a
    <3>1. L \in 1 .. L /\ ~(L < Modulus - t) /\ t + L - Modulus = a
      BY <1>0, <1>11
    <3> HIDE DEF L
    <3> QED BY <2>3, <3>1
  <2>5. L \in ks
    <3> HIDE DEF L
    <3> QED BY <1>0, <1>1, <2>1, <2>4
  <2>6. ASSUME NEW k \in ks PROVE L <= k
    <3>1. k \in 1 .. Modulus /\ FinalTc(c, k) = a
      BY <1>1, <1>2, <1>11
    <3>2. CASE k \in 1 .. L
      <4>1. FinalTc(c, k) = IF k < Modulus - t THEN t + k ELSE t + k - Modulus
        BY <2>3, <3>2
      <4> QED BY <1>0, <1>11, <3>1, <4>1
    <3>3. CASE k \notin 1 .. L
      BY <1>0, <2>1, <3>1, <3>3
    <3> QED BY <3>2, <3>3
  <2> HIDE DEF L
  <2> QED BY <2>2, <2>5, <2>6
<1> QED
  BY <1>0, <1>6, <1>7, <1>8, <1>9, <1>10, <1>11

-----------------------------------------------------------------------------
(* Timers: the wake point of a channel of Timer16bit follows its registers.*)

Chan16 == [prun : BOOLEAN, clkb : BOOLEAN,
           cra : 0 .. Modulus - 1, crb : 0 .. Modulus - 1, tc : 0 .. Modulus - 1,
           next : Int, armed : BOOLEAN, wake : Int, valid : BOOLEAN, cpc : Nat]

ClockSettings == [a : Nat, b : Nat]

\* cached_wake_ of a running channel whose clock is known and not stopped.
WakeFits(c) ==
  (c.prun /\ c.valid /\ c.cpc # 0) =>
    /\ c.armed <=> CountsToMatch(c) # {}
    /\ c.armed => c.wake = c.next + Least(CountsToMatch(c)) * c.cpc

Inv16 == clocks \in ClockSettings /\ t16 \in Chan16 /\ WakeFits(t16)

\* cycles_per_count fills its cache and touches nothing else.
LEMMA FetchTyped ==
  ASSUME clocks \in ClockSettings, NEW c \in Chan16
  PROVE  /\ Fetch(c) \in Chan16
         /\ Fetch(c).cpc = CyclesPerCount(c) /\ CyclesPerCount(c) \in Nat
         /\ Fetch(c).tc = c.tc /\ Fetch(c).cra = c.cra /\ Fetch(c).crb = c.crb
         /\ Fetch(c).next = c.next /\ Fetch(c).prun = c.prun
<1>1. CyclesPerCount(c) \in Nat
  BY DEF CyclesPerCount, Chan16, ClockSettings
<1> QED
  BY <1>1 DEF Fetch, Chan16

\* The two outcomes of refresh_wake.
Disarmed(f) == [f EXCEPT !.armed = FALSE, !.wake = 0]
Armed(f, w) == [f EXCEPT !.armed = TRUE, !.wake = w]

LEMMA DisarmedIs ==
  ASSUME NEW f \in Chan16
  PROVE  /\ Disarmed(f) \in Chan16
         /\ Disarmed(f).prun = f.prun /\ Disarmed(f).cpc = f.cpc /\ Disarmed(f).next = f.next
         /\ ~Disarmed(f).armed /\ Disarmed(f).wake = 0
         /\ CountsToMatch(Disarmed(f)) = CountsToMatch(f)
<1>1. PICK r : r = Disarmed(f)
  OBVIOUS
<1>2. r \in Chan16
  <2>1. PICK b \in BOOLEAN : b = FALSE
    OBVIOUS
  <2>2. PICK w \in Int : w = 0
    OBVIOUS
  <2>3. r = [f EXCEPT !.armed = b, !.wake = w]
    BY <1>1, <2>1, <2>2, Zenon DEF Disarmed
  <2> QED BY <2>3 DEF Chan16
<1>3. /\ r.prun = f.prun /\ r.cpc = f.cpc /\ r.next = f.next /\ ~r.armed /\ r.wake = 0
      /\ r.tc = f.tc /\ r.cra = f.cra /\ r.crb = f.crb
  BY <1>1 DEF Chan16, Disarmed
<1>4. CountsToMatch(r) = CountsToMatch(f)
  BY <1>3 DEF CountsToMatch, CountsToCra, CountsToCrb
<1> QED
  BY <1>1, <1>2, <1>3, <1>4

LEMMA ArmedIs ==
  ASSUME NEW f \in Chan16, NEW w \in Int
  PROVE  /\ Armed(f, w) \in Chan16
         /\ Armed(f, w).prun = f.prun /\ Armed(f, w).cpc = f.cpc /\ Armed(f, w).next = f.next
         /\ Armed(f, w).armed /\ Armed(f, w).wake = w
         /\ CountsToMatch(Armed(f, w)) = CountsToMatch(f)
<1>1. PICK r : r = Armed(f, w)
  OBVIOUS
<1>2. r \in Chan16
  <2>1. PICK b : b = TRUE
    OBVIOUS
  <2>2. r = [f EXCEPT !.armed = b, !.wake = w] /\ b \in BOOLEAN
    BY <1>1, <2>1 DEF Armed
  <2> QED BY <2>2 DEF Chan16
<1>3. /\ r.prun = f.prun /\ r.cpc = f.cpc /\ r.next = f.next /\ r.armed /\ r.wake = w
      /\ r.tc = f.tc /\ r.cra = f.cra /\ r.crb = f.crb
  BY <1>1 DEF Chan16, Armed
<1>4. CountsToMatch(r) = CountsToMatch(f)
  BY <1>3 DEF CountsToMatch, CountsToCra, CountsToCrb
<1> QED
  BY <1>1, <1>2, <1>3, <1>4

\* refresh_wake establishes WakeFits from any registers.
LEMMA RefreshFits ==
  ASSUME clocks \in ClockSettings, NEW c \in Chan16
  PROVE  Refresh(c) \in Chan16 /\ WakeFits(Refresh(c))
<1> DEFINE f == Fetch(c)
           S == CountsToMatch(f)
<1>1. CASE ~c.prun
  <2>1. Refresh(c) = Disarmed(c)
    BY <1>1 DEF Refresh, Disarmed
  <2>2. Refresh(c) \in Chan16 /\ Refresh(c).prun = c.prun
    BY <2>1, DisarmedIs
  <2> QED BY <1>1, <2>2 DEF WakeFits
<1>2. CASE c.prun
  <2>0. f \in Chan16 /\ Regs16(f)
    BY FetchTyped DEF Chan16, Regs16
  <2>1. Refresh(c) = IF f.cpc = 0 \/ S = {}
                     THEN Disarmed(f)
                     ELSE Armed(f, f.next + Least(S) * f.cpc)
    BY <1>2 DEF Refresh, Disarmed, Armed
  <2> HIDE DEF f
  <2>4. CASE f.cpc = 0 \/ S = {}
    <3>1. Refresh(c) = Disarmed(f)
      BY <2>1, <2>4
    <3>2. /\ Refresh(c) \in Chan16 /\ Refresh(c).cpc = f.cpc /\ ~Refresh(c).armed
          /\ CountsToMatch(Refresh(c)) = S
      BY <3>1, <2>0, DisarmedIs DEF S
    <3> QED BY <3>2, <2>4 DEF WakeFits
  <2>5. CASE ~(f.cpc = 0 \/ S = {})
    <3>0. Least(S) \in Int /\ f.cpc \in Nat /\ f.next \in Int
      BY <2>0, <2>5, MatchSet DEF Chan16
    <3> DEFINE w == f.next + Least(S) * f.cpc
    <3>1. w \in Int
      <4> HIDE DEF S
      <4> QED BY <3>0
    <3>2. Refresh(c) = Armed(f, w)
      BY <2>1, <2>5
    <3> HIDE DEF w
    <3>3. /\ Refresh(c) \in Chan16 /\ Refresh(c).cpc = f.cpc /\ Refresh(c).armed
          /\ Refresh(c).wake = w /\ Refresh(c).next = f.next
          /\ CountsToMatch(Refresh(c)) = S
      <4> HIDE DEF S
      <4>1. CountsToMatch(Armed(f, w)) = S
        BY <3>1, <2>0, ArmedIs DEF S
      <4> QED BY <3>1, <3>2, <2>0, <4>1, ArmedIs
    <3> QED BY <3>3, <2>5 DEF WakeFits, w
  <2> QED BY <2>4, <2>5
<1> QED
  BY <1>1, <1>2

\* Timer16bit::tick leaves the registers in range and the wake point right.
LEMMA Tick16Fits ==
  ASSUME clocks \in ClockSettings, NEW c \in Chan16, WakeFits(c)
  PROVE  Tick16(c) \in Chan16 /\ WakeFits(Tick16(c))
<1> DEFINE f == Fetch(c)
           n == Counts(f.next, f.cpc)
           g == [f EXCEPT !.next = @ + n * f.cpc, !.tc = FinalTc(f, n)]
<1>0. Tick16(c) = IF ~Due16(c) THEN c ELSE IF f.cpc = 0 THEN f ELSE Refresh(g)
  BY DEF Tick16
<1>1. f \in Chan16 /\ f.next = c.next
  BY FetchTyped
<1>2. CASE ~Due16(c)
  BY <1>0, <1>2
<1>3. CASE Due16(c) /\ f.cpc = 0
  <2>1. Tick16(c) = f
    BY <1>0, <1>3
  <2> HIDE DEF f
  <2> QED BY <1>1, <1>3, <2>1 DEF WakeFits
<1>4. CASE Due16(c) /\ f.cpc # 0
  <2>1. Tick16(c) = Refresh(g)
    BY <1>0, <1>4
  <2>2. n \in Nat \ {0}
    <3>1. 0 - f.next \in Nat /\ f.cpc \in Nat \ {0} /\ -(0 - f.next) = f.next
      BY <1>1, <1>4 DEF Due16, Chan16
    <3> HIDE DEF f
    <3> QED BY <3>1, CountsAre
  <2> HIDE DEF f
  <2> HIDE DEF n
  <2>3. FinalTc(f, n) \in 0 .. Modulus - 1
    <3> DEFINE x == f.tc + n
    <3>1. x \in Nat /\ Modulus \in Nat \ {0} /\ f.crb \in 0 .. Modulus - 1
      BY <1>1, <2>2, TimersAssumption DEF Chan16
    <3>2. FinalTc(f, n) = IF f.crb # 0 THEN x % (f.crb + 1) ELSE x % Modulus
      BY DEF FinalTc
    <3> HIDE DEF x
    <3>3. f.crb + 1 \in Nat \ {0} /\ (f.crb + 1) - 1 = f.crb
      BY <3>1
    <3>4. x % (f.crb + 1) \in 0 .. f.crb /\ x % Modulus \in 0 .. Modulus - 1
      BY <3>1, <3>3, CycleStep
    <3> QED BY <3>1, <3>2, <3>4
  <2>4. f.next + n * f.cpc \in Int
    BY <1>1, <2>2 DEF Chan16
  <2>5. g \in Chan16
    <3> DEFINE d == f.next + n * f.cpc
               t == FinalTc(f, n)
    <3>1. g = [f EXCEPT !.next = d, !.tc = t]
      BY <1>1 DEF Chan16
    <3> HIDE DEF d, t, g
    <3>2. d \in Int /\ t \in 0 .. Modulus - 1
      BY <2>3, <2>4 DEF d, t
    <3> QED BY <1>1, <3>1, <3>2 DEF Chan16
  <2> HIDE DEF g
  <2> QED BY <2>1, <2>5, RefreshFits
<1> QED
  BY <1>2, <1>3, <1>4

LEMMA Inv16Init == TimersInit => Inv16
BY TimersAssumption DEF TimersInit, Inv16, Stopped, Reset16, ClockSettings, Chan16, WakeFits

\* Every write, tick and step of time leaves types and wake point right.
LEMMA Inv16Step == Inv16 /\ [TimersNext]_timersVars => Inv16'
<1> SUFFICES ASSUME Inv16, [TimersNext]_timersVars PROVE Inv16'
  OBVIOUS
<1>0. clocks \in ClockSettings /\ t16 \in Chan16 /\ WakeFits(t16)
  BY DEF Inv16
<1>1. CASE Program16
  <2>0. clocks' = clocks
    BY <1>1 DEF Program16
  <2>1. \E c \in Chan16 : t16' = Refresh(c)
    <3>1. CASE \E v \in Compares : t16' = Refresh([t16 EXCEPT !.cra = v])
      <4>1. PICK v \in Compares : t16' = Refresh([t16 EXCEPT !.cra = v])
        BY <3>1
      <4>2. [t16 EXCEPT !.cra = v] \in Chan16
        BY <1>0, TimersAssumption DEF Chan16
      <4> QED BY <4>1, <4>2
    <3>2. CASE \E v \in Compares : t16' = Refresh([t16 EXCEPT !.crb = v])
      <4>1. PICK v \in Compares : t16' = Refresh([t16 EXCEPT !.crb = v])
        BY <3>2
      <4>2. [t16 EXCEPT !.crb = v] \in Chan16
        BY <1>0, TimersAssumption DEF Chan16
      <4> QED BY <4>1, <4>2
    <3>3. CASE \E v \in Starts : t16' = Refresh([t16 EXCEPT !.tc = v])
      <4>1. PICK v \in Starts : t16' = Refresh([t16 EXCEPT !.tc = v])
        BY <3>3
      <4>2. [t16 EXCEPT !.tc = v] \in Chan16
        BY <1>0, TimersAssumption DEF Chan16
      <4> QED BY <4>1, <4>2
    <3>4. CASE \E run, clkb, preset \in BOOLEAN : t16' = WriteCtl(t16, run, clkb, preset)
      <4>1. PICK run, clkb, preset \in BOOLEAN : t16' = WriteCtl(t16, run, clkb, preset)
        BY <3>4
      <4> DEFINE t == IF preset THEN 0 ELSE t16.tc
                 d == IF preset THEN -Past ELSE t16.next
                 c == [t16 EXCEPT !.prun = run, !.clkb = clkb, !.tc = t, !.next = d]
      <4>2. t16' = Refresh(c)
        BY <4>1, <1>0 DEF WriteCtl, Chan16
      <4>3. t \in 0 .. Modulus - 1 /\ d \in Int
        BY <1>0, TimersAssumption DEF Chan16
      <4>4. c \in Chan16
        <5> HIDE DEF t, d
        <5> QED BY <1>0, <4>3 DEF Chan16
      <4> QED BY <4>2, <4>4
    <3> QED BY <1>1, <3>1, <3>2, <3>3, <3>4 DEF Program16
  <2>2. t16' \in Chan16 /\ WakeFits(t16')
    BY <1>0, <2>1, RefreshFits
  <2> QED BY <1>0, <2>0, <2>2 DEF Inv16
<1>2. CASE Program8
  <2>1. clocks' = clocks /\ t16' = t16
    BY <1>2 DEF Program8
  <2> QED BY <1>0, <2>1 DEF Inv16
<1>3. CASE WriteClocks
  <2>1. clocks' \in Clocks /\ t16' = [t16 EXCEPT !.valid = FALSE]
    BY <1>3 DEF WriteClocks
  <2>2. t16' \in Chan16 /\ t16'.valid = FALSE
    BY <1>0, <2>1 DEF Chan16
  <2>3. clocks' \in ClockSettings
    BY <2>1, TimersAssumption DEF ClockSettings
  <2> QED BY <2>2, <2>3 DEF Inv16, WakeFits
<1>4. CASE Tick
  <2>1. clocks' = clocks /\ t16' = Tick16(t16)
    BY <1>4 DEF Tick
  <2>2. t16' \in Chan16 /\ WakeFits(t16')
    BY <1>0, <2>1, Tick16Fits
  <2> QED BY <1>0, <2>1, <2>2 DEF Inv16
<1>5. CASE ResetTimers
  BY <1>5, TimersAssumption
     DEF ResetTimers, Inv16, Stopped, Reset16, ClockSettings, Chan16, WakeFits
<1>6. CASE \E n \in Steps : Elapse(n)
  <2>1. PICK n \in Steps : Elapse(n)
    BY <1>6
  <2> DEFINE l == Later(t16.next, n)
             w == IF t16.armed THEN t16.wake + l - t16.next ELSE 0
  <2>2. clocks' = clocks /\ t16' = [t16 EXCEPT !.next = l, !.wake = w]
    BY <1>0, <2>1 DEF Elapse, Chan16
  <2>3. l \in Int /\ w \in Int
    BY <1>0, TimersAssumption DEF Chan16, Later
  <2>4. /\ t16' \in Chan16 /\ t16'.next = l /\ t16'.wake = w /\ t16'.armed = t16.armed
        /\ t16'.prun = t16.prun /\ t16'.valid = t16.valid /\ t16'.cpc = t16.cpc
        /\ t16'.tc = t16.tc /\ t16'.cra = t16.cra /\ t16'.crb = t16.crb
    <3> HIDE DEF l, w
    <3> QED BY <1>0, <2>2, <2>3 DEF Chan16
  <2>5. CountsToMatch(t16') = CountsToMatch(t16)
    BY <2>4 DEF CountsToMatch, CountsToCra, CountsToCrb
  <2>6. WakeFits(t16')
    <3> SUFFICES ASSUME t16'.prun, t16'.valid, t16'.cpc # 0
                 PROVE  /\ t16'.armed <=> CountsToMatch(t16) # {}
                        /\ t16'.armed =>
                             t16'.wake = t16'.next + Least(CountsToMatch(t16)) * t16'.cpc
      BY <2>5 DEF WakeFits
    <3>1. /\ t16.armed <=> CountsToMatch(t16) # {}
          /\ t16.armed => t16.wake = t16.next + Least(CountsToMatch(t16)) * t16.cpc
      BY <1>0, <2>4 DEF WakeFits
    <3>2. Regs16(t16)
      BY <1>0 DEF Chan16, Regs16
    <3>3. ASSUME t16.armed PROVE t16'.wake = t16'.next + Least(CountsToMatch(t16)) * t16'.cpc
      <4>1. Least(CountsToMatch(t16)) \in Int
        BY <3>1, <3>2, <3>3, MatchSet
      <4>2. w = t16.wake + l - t16.next
        BY <3>3
      <4> DEFINE L == Least(CountsToMatch(t16)) * t16.cpc
      <4>3. L \in Int /\ t16.next \in Int /\ t16.wake = t16.next + L
        BY <1>0, <3>1, <3>3, <4>1 DEF Chan16
      <4> HIDE DEF L, l, w
      <4>4. w = l + L
        BY <2>3, <4>2, <4>3
      <4> QED BY <2>4, <4>4 DEF L
    <3> QED BY <2>4, <3>1, <3>3
  <2> QED BY <1>0, <2>2, <2>4, <2>6 DEF Inv16
<1>7. CASE UNCHANGED timersVars
  BY <1>0, <1>7 DEF timersVars, Inv16
<1> QED
  BY <1>1, <1>2, <1>3, <1>4, <1>5, <1>6, <1>7 DEF TimersNext

\* A channel whose wake point fits ticks and predicts exactly.
LEMMA Inv16Exact == Inv16 => T16IsExact
<1> SUFFICES ASSUME Inv16, InCycle(t16) PROVE T16IsExact
  BY DEF T16IsExact
<1>0. clocks \in ClockSettings /\ t16 \in Chan16 /\ WakeFits(t16) /\ Regs16(t16)
  BY DEF Inv16, Chan16, Regs16
<1>1. ASSUME Ticks16 PROVE MissesNothing(Now16.c, Now16.n)
  <2> DEFINE f == Fetch(t16)
             n == Counts(f.next, f.cpc)
  <2>1. Now16.c = f /\ Now16.n = n
    BY DEF Now16
  <2>2. Regs16(f) /\ InCycle(f)
    BY <1>0, FetchTyped DEF Regs16, InCycle
  <2>3. n \in Nat \ {0}
    <3>1. 0 - f.next \in Nat /\ f.cpc \in Nat \ {0} /\ -(0 - f.next) = f.next
      BY <1>0, <1>1, FetchTyped DEF Ticks16, Due16, Chan16
    <3> HIDE DEF f
    <3> QED BY <3>1, CountsAre
  <2> HIDE DEF f, n
  <2> QED BY <2>1, <2>2, <2>3, TickMissesNothing
<1>2. ASSUME t16.prun, t16.valid, t16.cpc # 0, t16.tc # t16.crb \/ t16.cra = 0
      PROVE  WakesWithinACount(t16)
  <2> DEFINE S == CountsToMatch(t16)
             ks == MatchesAt(t16, Modulus)
  <2>0. /\ t16.armed <=> S # {}
        /\ t16.armed => t16.wake = t16.next + Least(S) * t16.cpc
    BY <1>0, <1>2 DEF WakeFits
  <2>1. CASE t16.armed
    <3>1. PICK e \in ks : (e = Least(S) \/ e = Least(S) + 1) /\ \A k \in ks : e <= k
      BY <1>0, <1>2, <2>0, <2>1, NextMatch
    <3>2. ks \in SUBSET Int
      BY TimersAssumption DEF MatchesAt
    <3>3. Least(ks) = e
      <4> HIDE DEF ks, S
      <4> QED BY <3>1, <3>2, LeastIs
    <3>4. Least(S) \in Int /\ e \in Int /\ t16.cpc \in Nat /\ t16.next \in Int
      BY <1>0, <2>0, <2>1, <3>1, <3>2, MatchSet DEF Chan16
    <3>5. t16.wake - (t16.next + (e - 1) * t16.cpc) \in {0, t16.cpc}
      <4> DEFINE L == Least(S)
                 p == t16.cpc
                 d == t16.next
      <4>1. t16.wake = d + L * p /\ (e = L \/ e = L + 1) /\ L \in Int /\ p \in Nat /\ d \in Int
        BY <2>0, <2>1, <3>1, <3>4
      <4> HIDE DEF L, p, d
      <4>2. CASE e = L
        <5>1. (e - 1) * p = L * p - p /\ L * p \in Int
          BY <4>1, <4>2
        <5>2. (d + L * p) - (d + (L * p - p)) = p
          <6> DEFINE q == L * p
          <6>1. q \in Int
            BY <5>1
          <6> HIDE DEF q
          <6> QED BY <4>1, <6>1
        <5> QED BY <4>1, <5>1, <5>2 DEF p, d
      <4>3. CASE e = L + 1
        <5>1. e - 1 = L /\ L * p \in Int
          BY <4>1, <4>3
        <5>2. (d + L * p) - (d + L * p) = 0
          BY <4>1, <5>1
        <5> QED BY <4>1, <5>1, <5>2 DEF p, d
      <4> QED BY <4>1, <4>2, <4>3
    <3> QED BY <2>1, <3>3, <3>5 DEF WakesWithinACount
  <2>2. CASE ~t16.armed
    <3>1. t16.cra = 0 /\ t16.crb = 0
      BY <2>0, <2>2 DEF CountsToMatch
    <3>2. ks = {}
      BY <3>1 DEF MatchesAt
    <3> QED BY <2>2, <3>2 DEF WakesWithinACount
  <2> QED BY <2>1, <2>2
<1> QED
  BY <1>1, <1>2 DEF T16IsExact

\* Timer16bit: a tick over any number of counts ends on the value TC would
\* have and misses no match; the cached wake point is on the next match or one
\* count late, and set if there is one.
THEOREM T16Exact == TimersSpec => []T16IsExact
<1>1. TimersInit => Inv16
  BY Inv16Init
<1>2. Inv16 /\ [TimersNext]_timersVars => Inv16'
  BY Inv16Step
<1>3. Inv16 => T16IsExact
  BY Inv16Exact
<1> QED
  BY <1>1, <1>2, <1>3, PTL DEF TimersSpec

-----------------------------------------------------------------------------
(* Timers: Timer8bit.                                                      *)

Chan8 == [run : BOOLEAN, rld : Nat, ptd : Nat, next : Int]

\* The closed form of PTD after each of n counts.
LEMMA PtdAfterClosed ==
  ASSUME NEW c \in Chan8, NEW n \in Nat
  PROVE  \A k \in 0 .. n : PtdAfter(c, n)[k] = Ptd(c, k)
<1> DEFINE g == [k \in 0 .. n |-> Ptd(c, k)]
           F(v) == [k \in 0 .. n |->
                     IF k = 0 THEN c.ptd ELSE IF v[k - 1] = 0 THEN c.rld ELSE v[k - 1] - 1]
           w == PtdAfter(c, n)
<1>0. c.ptd \in Nat /\ c.rld \in Nat
  BY DEF Chan8
<1>1. Ptd(c, 0) = c.ptd
  BY <1>0 DEF Ptd
<1>2. \A k \in Nat : Ptd(c, k + 1) = IF Ptd(c, k) = 0 THEN c.rld ELSE Ptd(c, k) - 1
  <2> SUFFICES ASSUME NEW k \in Nat
               PROVE  Ptd(c, k + 1) = IF Ptd(c, k) = 0 THEN c.rld ELSE Ptd(c, k) - 1
    OBVIOUS
  <2>1. CASE k < c.ptd
    BY <1>0, <2>1 DEF Ptd
  <2>2. CASE k = c.ptd
    <3>1. 0 % (c.rld + 1) = 0 /\ (k + 1) - c.ptd - 1 = 0 /\ ~(k + 1 <= c.ptd)
      BY <1>0, <2>2
    <3> QED BY <1>0, <2>2, <3>1 DEF Ptd
  <2>3. CASE k > c.ptd
    <3> DEFINE x == k - c.ptd - 1
               m == c.rld + 1
    <3>1. /\ x \in Nat /\ m \in Nat \ {0} /\ (k + 1) - c.ptd - 1 = x + 1
          /\ ~(k <= c.ptd) /\ ~(k + 1 <= c.ptd)
      BY <1>0, <2>3
    <3>2. Ptd(c, k) = c.rld - (x % m) /\ Ptd(c, k + 1) = c.rld - ((x + 1) % m)
      BY <3>1 DEF Ptd
    <3>3. c.rld = m - 1
      BY <1>0
    <3> HIDE DEF x, m
    <3>4. /\ x % m \in 0 .. m - 1
          /\ (x % m = m - 1) => (x + 1) % m = 0
          /\ (x % m # m - 1) => (x + 1) % m = (x % m) + 1
      BY <3>1, CycleStep
    <3> QED BY <1>0, <3>1, <3>2, <3>3, <3>4
  <2> QED BY <1>0, <2>1, <2>2, <2>3
<1>3. g = F(g)
  <2> SUFFICES ASSUME NEW k \in 0 .. n PROVE g[k] = F(g)[k]
    OBVIOUS
  <2>1. CASE k = 0
    BY <1>1, <2>1
  <2>2. CASE k # 0
    <3>1. k - 1 \in Nat /\ (k - 1) + 1 = k /\ k - 1 \in 0 .. n
      BY <2>2
    <3>2. g[k - 1] = Ptd(c, k - 1)
      BY <3>1
    <3>3. Ptd(c, k) = IF Ptd(c, k - 1) = 0 THEN c.rld ELSE Ptd(c, k - 1) - 1
      BY <1>2, <3>1
    <3> QED BY <3>2, <3>3, <2>2
  <2> QED BY <2>1, <2>2
<1>4. w = F(w)
  <2>1. w = CHOOSE v : v = F(v)
    BY DEF PtdAfter
  <2> HIDE DEF F, g, w
  <2> QED BY <1>3, <2>1
<1>5. w[0] = g[0]
  <2>1. w[0] = F(w)[0]
    <3> HIDE DEF F, w
    <3> QED BY <1>4
  <2>2. F(w)[0] = c.ptd
    OBVIOUS
  <2> QED BY <2>1, <2>2, <1>1
<1>6. ASSUME NEW k \in 0 .. n - 1, w[k] = g[k] PROVE w[k + 1] = g[k + 1]
  <2>0. k + 1 \in 0 .. n /\ k + 1 # 0 /\ (k + 1) - 1 = k /\ k \in 0 .. n /\ k \in Nat
    OBVIOUS
  <2>1. w[k + 1] = F(w)[k + 1]
    <3> HIDE DEF F, w
    <3> QED BY <1>4
  <2>2. F(w)[k + 1] = IF w[k] = 0 THEN c.rld ELSE w[k] - 1
    BY <2>0
  <2>3. g[k] = Ptd(c, k) /\ g[k + 1] = Ptd(c, k + 1)
    BY <2>0
  <2> HIDE DEF F, w, g
  <2> QED BY <1>6, <1>2, <2>0, <2>1, <2>2, <2>3
<1>7. \A k \in 0 .. n : w[k] = g[k]
  <2> HIDE DEF w, g
  <2> QED BY <1>5, <1>6, RecursionIsUnique
<1> SUFFICES ASSUME NEW k \in 0 .. n PROVE PtdAfter(c, n)[k] = Ptd(c, k)
  OBVIOUS
<1>8. g[k] = Ptd(c, k)
  OBVIOUS
<1>9. w[k] = g[k]
  <2> HIDE DEF w, g
  <2> QED BY <1>7
<1> QED
  BY <1>8, <1>9

Inv8 == clocks \in ClockSettings /\ t8 \in Chan8

\* Timer8bit::tick leaves the registers in range.
LEMMA Tick8Typed ==
  ASSUME Inv8
  PROVE  Tick8(t8) \in Chan8
<1> DEFINE n == Counts(t8.next, clocks.a)
<1>1. CASE ~Due8(t8)
  BY <1>1 DEF Tick8, Inv8
<1>2. CASE Due8(t8)
  <2>1. t8.next \in Int /\ clocks.a \in Nat \ {0} /\ 0 - t8.next \in Nat /\ -(0 - t8.next) = t8.next
    BY <1>2 DEF Due8, Inv8, Chan8, ClockSettings
  <2>2. n \in Nat \ {0}
    BY <2>1, CountsAre
  <2> HIDE DEF n
  <2>3. Ptd(t8, n) \in Nat
    <3> DEFINE x == n - t8.ptd - 1
    <3>1. t8.ptd \in Nat /\ t8.rld \in Nat
      BY DEF Inv8, Chan8
    <3>2. CASE n <= t8.ptd
      BY <2>2, <3>1, <3>2 DEF Ptd
    <3>3. CASE ~(n <= t8.ptd)
      <4>1. x \in Nat /\ t8.rld + 1 \in Nat \ {0} /\ (t8.rld + 1) - 1 = t8.rld
        BY <2>2, <3>1, <3>3
      <4>2. Ptd(t8, n) = t8.rld - (x % (t8.rld + 1))
        BY <3>3 DEF Ptd
      <4> HIDE DEF x
      <4>3. x % (t8.rld + 1) \in 0 .. t8.rld
        BY <4>1, CycleStep
      <4> QED BY <3>1, <4>2, <4>3
    <3> QED BY <3>2, <3>3
  <2> DEFINE d == t8.next + n * clocks.a
             p == Ptd(t8, n)
  <2>4. d \in Int
    BY <2>1, <2>2
  <2>5. Tick8(t8) = [t8 EXCEPT !.next = d, !.ptd = p]
    BY <1>2 DEF Tick8, n, Inv8, Chan8
  <2> HIDE DEF d, p
  <2> QED BY <2>3, <2>4, <2>5 DEF Inv8, Chan8, p
<1> QED
  BY <1>1, <1>2

LEMMA Inv8Step == Inv8 /\ [TimersNext]_timersVars => Inv8'
<1> SUFFICES ASSUME Inv8, [TimersNext]_timersVars PROVE Inv8'
  OBVIOUS
<1>0. clocks \in ClockSettings /\ t8 \in Chan8
  BY DEF Inv8
<1>1. CASE Program16
  BY <1>0, <1>1 DEF Program16, Inv8
<1>2. CASE Program8
  <2>0. clocks' = clocks
    BY <1>2 DEF Program8
  <2>1. CASE \E v \in Reloads : t8' = [t8 EXCEPT !.rld = v]
    BY <1>0, <2>0, <2>1, TimersAssumption DEF Inv8, Chan8
  <2>2. CASE \E run, preset \in BOOLEAN : t8' = WriteCtl8(t8, run, preset)
    <3>1. PICK run, preset \in BOOLEAN : t8' = WriteCtl8(t8, run, preset)
      BY <2>2
    <3> DEFINE p == IF preset THEN t8.rld ELSE t8.ptd
    <3>2. t8' = [t8 EXCEPT !.run = run, !.ptd = p]
      BY <1>0, <3>1 DEF WriteCtl8, Chan8
    <3>3. p \in Nat
      BY <1>0 DEF Chan8
    <3>4. t8' \in Chan8
      <4> HIDE DEF p
      <4> QED BY <1>0, <3>2, <3>3 DEF Chan8
    <3> QED BY <1>0, <2>0, <3>4 DEF Inv8
  <2> QED BY <1>2, <2>1, <2>2 DEF Program8
<1>3. CASE WriteClocks
  BY <1>0, <1>3, TimersAssumption DEF WriteClocks, Inv8, ClockSettings
<1>4. CASE Tick
  <2>1. clocks' = clocks /\ t8' = Tick8(t8)
    BY <1>4 DEF Tick
  <2>2. Tick8(t8) \in Chan8
    BY Tick8Typed
  <2> QED BY <1>0, <2>1, <2>2 DEF Inv8
<1>5. CASE ResetTimers
  BY <1>5, TimersAssumption DEF ResetTimers, Inv8, Stopped, Reset8, ClockSettings, Chan8
<1>6. CASE \E n \in Steps : Elapse(n)
  <2>1. PICK n \in Steps : Elapse(n)
    BY <1>6
  <2> DEFINE l == Later(t8.next, n)
  <2>2. clocks' = clocks /\ t8' = [t8 EXCEPT !.next = l]
    BY <1>0, <2>1 DEF Elapse, Chan8
  <2>3. l \in Int
    BY <1>0, TimersAssumption DEF Chan8, Later
  <2> HIDE DEF l
  <2> QED BY <1>0, <2>2, <2>3 DEF Inv8, Chan8
<1>7. CASE UNCHANGED timersVars
  BY <1>0, <1>7 DEF timersVars, Inv8
<1> QED
  BY <1>1, <1>2, <1>3, <1>4, <1>5, <1>6, <1>7 DEF TimersNext

\* A typed channel ticks exactly and wakes at its underflow.
LEMMA Inv8Exact == Inv8 => T8IsExact
<1> SUFFICES ASSUME Inv8, clocks.a # 0, NEW d \in 0 .. Past, t8.next <= d
             PROVE  LET n == Counts(t8.next - d, clocks.a)
                    IN /\ Ptd(t8, n) = PtdAfter(t8, n)[n]
                       /\ Underflows(t8, n) <=> \E k \in 0 .. n - 1 : PtdAfter(t8, n)[k] = 0
                       /\ Underflows(t8, n) <=> d >= Wake8(t8)
  BY DEF T8IsExact
<1> DEFINE n == Counts(t8.next - d, clocks.a)
<1>0. t8 \in Chan8 /\ t8.ptd \in Nat /\ t8.rld \in Nat /\ t8.next \in Int /\ clocks.a \in Nat \ {0}
      /\ d \in Nat /\ d - t8.next \in Nat /\ -(d - t8.next) = t8.next - d
  BY TimersAssumption DEF Inv8, Chan8, ClockSettings
<1>1. n \in Nat \ {0} /\ \A q \in Nat : n > q <=> d - t8.next >= q * clocks.a
  BY <1>0, CountsAre
<1> HIDE DEF n
<1>2. \A k \in 0 .. n : PtdAfter(t8, n)[k] = Ptd(t8, k)
  BY <1>0, <1>1, PtdAfterClosed
<1>3. Ptd(t8, n) = PtdAfter(t8, n)[n]
  BY <1>1, <1>2
<1>4. n > t8.ptd <=> \E k \in 0 .. n - 1 : PtdAfter(t8, n)[k] = 0
  <2>1. ASSUME n > t8.ptd PROVE \E k \in 0 .. n - 1 : PtdAfter(t8, n)[k] = 0
    <3>1. t8.ptd \in 0 .. n - 1 /\ t8.ptd \in 0 .. n /\ Ptd(t8, t8.ptd) = 0
      BY <1>0, <1>1, <2>1 DEF Ptd
    <3> QED BY <1>2, <3>1
  <2>2. ASSUME ~(n > t8.ptd), NEW k \in 0 .. n - 1 PROVE PtdAfter(t8, n)[k] # 0
    <3>1. k \in 0 .. n /\ k < t8.ptd
      BY <1>0, <1>1, <2>2
    <3>2. Ptd(t8, k) = t8.ptd - k
      BY <1>0, <3>1 DEF Ptd
    <3> QED BY <1>0, <1>2, <3>1, <3>2
  <2> QED BY <2>1, <2>2
<1>5. n > t8.ptd <=> d >= Wake8(t8)
  <2> DEFINE q == t8.ptd * clocks.a
  <2>1. n > t8.ptd <=> d - t8.next >= q
    BY <1>0, <1>1
  <2>2. q \in Int /\ Wake8(t8) = t8.next + q
    BY <1>0 DEF Wake8
  <2> HIDE DEF q
  <2> QED BY <1>0, <2>1, <2>2
<1> QED
  BY <1>3, <1>4, <1>5 DEF Underflows, n

\* Timer8bit: a tick over any number of counts ends on the value PTD would
\* have, and underflows exactly from the predicted wake point on.
THEOREM T8Exact == TimersSpec => []T8IsExact
<1>1. TimersInit => Inv8
  BY TimersAssumption DEF TimersInit, Inv8, Stopped, Reset8, ClockSettings, Chan8
<1>2. Inv8 /\ [TimersNext]_timersVars => Inv8'
  BY Inv8Step
<1>3. Inv8 => T8IsExact
  BY Inv8Exact
<1> QED
  BY <1>1, <1>2, <1>3, PTL DEF TimersSpec
=============================================================================
