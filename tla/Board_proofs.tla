---------------------------- MODULE Board_proofs ----------------------------
(***************************************************************************)
(* Proofs about Board for any stores of a guest, any pads and controls,    *)
(* any periods and any lateness of the ticks: what a store may change, that*)
(* no cached clock outlives its registers, that no period is lost, that the*)
(* clock timer keeps the time it was set to or stopped at and that the K   *)
(* ports show what the last event for each line was.                       *)
(***************************************************************************)
EXTENDS Board, FiniteSetTheorems, TLAPS

\* The workload is one of those that stores are given for.
Known == workload \in Workloads

Sizes == {1, 2}

\* A guest's store in any of its workloads.
GuestStore ==
  \E a \in IoArea, size \in Sizes, v \in Halfwords :
    (size = 1 => v < 256) /\ Store(a, size, v)

\* The bytes of a halfword.
LEMMA HalfwordIs ==
  ASSUME NEW v \in Halfwords
  PROVE  v \in Nat /\ v <= 65535
BY DEF Halfwords

LEMMA BytesAre ==
  ASSUME NEW v \in Halfwords
  PROVE  /\ v < 256 => v \in 0 .. 255 /\ v % 256 = v
         /\ v % 256 \in 0 .. 255 /\ v \div 256 \in 0 .. 255
<1>1. v \in Nat /\ v <= 65535
  BY HalfwordIs
<1> QED
  BY <1>1

\* The parts of a store.
LEMMA GuestStoresAre ==
  ASSUME NEW st \in GuestStores
  PROVE  /\ st[1] \in IoArea /\ st[2] \in Sizes /\ st[3] \in Halfwords
         /\ st[2] = 1 => st[3] < 256
<1>1. CASE st \in IoArea \X {1} \X (0 .. 255)
  <2>1. st[1] \in IoArea /\ st[2] \in {1} /\ st[3] \in 0 .. 255
    BY <1>1
  <2> QED
    <3>1. st[3] \in Halfwords
      <4>1. \A n \in 0 .. 255 : n \in Halfwords
        BY DEF Halfwords
      <4> QED
        BY <2>1, <4>1
    <3>2. st[3] < 256
      BY <2>1
    <3> QED
      BY <2>1, <3>1, <3>2 DEF Sizes
<1>2. CASE st \in IoArea \X {2} \X Halfwords
  <2>1. st[1] \in IoArea /\ st[2] \in {2} /\ st[3] \in Halfwords
    BY <1>2
  <2> QED
    BY <2>1 DEF Sizes
<1> QED
  BY <1>1, <1>2 DEF GuestStores

\* Every step of Next, with the stores in that form.
LEMMA Steps ==
  ASSUME Known, Next
  PROVE  \/ GuestStore
         \/ \E cold \in BOOLEAN : Reset(cold)
         \/ \E t \in Timers : Consult(t)
         \/ ReadTime \/ HostSecond \/ Tick \/ Elapse
         \/ HostInput \/ PollButtons
<1>1. ASSUME NEW st \in Stores[workload], Store(st[1], st[2], st[3])
      PROVE  GuestStore
  <2>1. st \in GuestStores
    BY StoresAssumption DEF Known
  <2>2. /\ st[1] \in IoArea /\ st[2] \in Sizes /\ st[3] \in Halfwords
        /\ st[2] = 1 => st[3] < 256
    BY <2>1, GuestStoresAre
  <2> QED
    BY <1>1, <2>2, Zenon DEF GuestStore
<1> QED
  BY <1>1, Zenon DEF Next

\* What the host's events leave alone.
LEMMA InputLeaves ==
  ASSUME HostInput
  PROVE  /\ UNCHANGED <<workload, clockVars, keyVars, rtcVars, cycleVars, stores>>
         /\ stored' = << >>
<1>1. ASSUME NEW c \in Controls, Press(c) \/ Release(c)
      PROVE  /\ UNCHANGED <<workload, clockVars, keyVars, rtcVars, cycleVars, stores>>
             /\ stored' = << >>
  BY <1>1 DEF Press, Release, Event
<1>2. ASSUME NEW axis, NEW x, Move(axis, x)
      PROVE  /\ UNCHANGED <<workload, clockVars, keyVars, rtcVars, cycleVars, stores>>
             /\ stored' = << >>
  BY <1>2 DEF Move
<1>3. ASSUME NEW d, NEW opened,
             \/ AddPad(d, opened) \/ RemovePad(d)
             \/ AddJoystick(d, opened) \/ RemoveJoystick(d)
      PROVE  /\ UNCHANGED <<workload, clockVars, keyVars, rtcVars, cycleVars, stores>>
             /\ stored' = << >>
  BY <1>3 DEF AddPad, RemovePad, AddJoystick, RemoveJoystick, HotPlug
<1> QED
  BY <1>1, <1>2, <1>3, Zenon DEF HostInput

LEMMA WorkloadStays == Known /\ [Next]_vars => Known'
<1> SUFFICES ASSUME Known, [Next]_vars PROVE Known'
  OBVIOUS
<1>1. CASE UNCHANGED vars
  BY <1>1 DEF vars, Known
<1>2. CASE GuestStore
  BY <1>2 DEF GuestStore, Store, Known
<1>3. CASE \E cold \in BOOLEAN : Reset(cold)
  BY <1>3 DEF Reset, Known
<1>4. CASE \E t \in Timers : Consult(t)
  BY <1>4 DEF Consult, Known
<1>5. CASE ReadTime \/ HostSecond \/ Tick \/ Elapse \/ PollButtons
  BY <1>5 DEF ReadTime, HostSecond, Tick, Elapse, PollButtons, Known
<1>6. CASE HostInput
  BY <1>6, InputLeaves DEF Known
<1> QED
  BY <1>1, <1>2, <1>3, <1>4, <1>5, <1>6, Steps, Zenon

LEMMA Workload == Spec => []Known
<1>1. Init => Known
  BY DEF Init, Known
<1> QED
  BY <1>1, WorkloadStays, PTL DEF Spec

-----------------------------------------------------------------------------
(* Stores.                                                                 *)

\* Halfwords with a register are even, and of one kind each.
LEMMA SlotsAre ==
  /\ \A x \in Pairs \cup HighOnly \cup LowOnly : x \in Int /\ x % 2 = 0
  /\ Pairs \cap HighOnly = {} /\ Pairs \cap LowOnly = {} /\ HighOnly \cap LowOnly = {}
<1>1. \A x \in Pairs : x \in Int /\ x % 2 = 0
  BY DEF Pairs
<1>2. \A x \in HighOnly \cup LowOnly : x \in Int /\ x % 2 = 0
  BY DEF HighOnly, LowOnly
<1>3. Pairs \cap HighOnly = {} /\ Pairs \cap LowOnly = {}
  BY DEF Pairs, HighOnly, LowOnly
<1>4. HighOnly \cap LowOnly = {}
  BY DEF HighOnly, LowOnly
<1> QED
  BY <1>1, <1>2, <1>3, <1>4

\* The bytes a register can be at.
LEMMA RegisterIs ==
  ASSUME NEW x \in Registers
  PROVE  /\ x \in Int
         /\ \/ x % 2 = 0 /\ Slot(x) = x /\ x \in Pairs \cup LowOnly
            \/ x % 2 = 1 /\ Slot(x) = x - 1 /\ x - 1 \in Pairs \cup HighOnly
<1>1. CASE x \in Pairs \cup LowOnly
  BY <1>1, SlotsAre DEF Slot
<1>2. CASE \E y \in Pairs \cup HighOnly : x = y + 1
  <2>1. PICK y \in Pairs \cup HighOnly : x = y + 1
    BY <1>2
  <2>2. y \in Int /\ y % 2 = 0
    BY SlotsAre
  <2>3. x \in Int /\ x % 2 = 1
    BY <2>1, <2>2
  <2> QED
    BY <2>1, <2>2, <2>3 DEF Slot
<1> QED
  BY <1>1, <1>2 DEF Registers

\* The lowest bit of an address.
LEMMA AddressIs ==
  ASSUME NEW a \in IoArea
  PROVE  /\ a \in Int /\ Slot(a) \in Int /\ Slot(a) % 2 = 0 /\ Slot(Slot(a)) = Slot(a)
         /\ (a % 2 = 0 /\ a = Slot(a)) \/ (a % 2 = 1 /\ a = Slot(a) + 1)
BY DEF IoArea, Slot

\* Whatever callbacks its halfword has, a register at the addresses of a store is
\* reached by it and others are not.
LEMMA ReachedIsAddressed ==
  ASSUME NEW a \in IoArea, NEW size \in Sizes, NEW x \in Registers
  PROVE  x \in Reached(a, size) <=>
           x \in (IF size = 1 THEN {a} ELSE {Slot(a), Slot(a) + 1})
<1> USE RegisterIs, AddressIs
<1> DEFINE slot == Slot(a)
<1>1. CASE slot \in Pairs
  <2>1. slot \notin HighOnly /\ slot \notin LowOnly
    BY <1>1, SlotsAre
  <2>2. Reached(a, size) = IF size = 1 THEN {a} ELSE {slot, slot + 1}
    BY <1>1, <2>1 DEF Reached, Precise, ByteSlots, WriteByte, Write, Sizes
  <2> QED
    BY <2>2
<1>2. CASE slot \in HighOnly
  <2>1. slot \notin Pairs /\ slot \notin LowOnly
    BY <1>2, SlotsAre
  <2>2. Reached(a, size) = IF size = 1 THEN (IF a % 2 = 0 THEN {} ELSE {a}) ELSE {slot + 1}
    BY <1>2, <2>1 DEF Reached, Precise, ByteSlots, WriteByte, Write, Sizes
  <2>3. x # slot
    BY <2>1
  <2> QED
    BY <2>2, <2>3
<1>3. CASE slot \in LowOnly
  <2>1. slot \notin Pairs /\ slot \notin HighOnly
    BY <1>3, SlotsAre
  <2>2. Reached(a, size) = IF size = 1 THEN (IF a % 2 = 0 THEN {slot} ELSE {}) ELSE {slot}
    BY <1>3, <2>1 DEF Reached, Precise, ByteSlots, WriteByte, Write, Sizes
  <2>3. x # slot + 1
    BY <2>1
  <2> QED
    BY <2>2, <2>3
<1>4. CASE slot \notin Pairs \cup HighOnly \cup LowOnly
  <2>1. Reached(a, size) = {}
    BY <1>4 DEF Reached, Precise, ByteSlots, WriteByte, Write
  <2>2. x # slot /\ x # slot + 1
    BY <1>4
  <2> QED
    BY <2>1, <2>2
<1> QED
  BY <1>1, <1>2, <1>3, <1>4

\* And what it gets is the byte of its address.
LEMMA StoredIs ==
  ASSUME NEW a \in IoArea, NEW size \in Sizes, NEW v \in Halfwords,
         size = 1 => v < 256, NEW x \in Registers
  PROVE  Stored(a, size, v)[x] =
           IF x \in DOMAIN OnBus(a, size, v) THEN OnBus(a, size, v)[x] ELSE regs[x]
<1>1. DOMAIN OnBus(a, size, v) = IF size = 1 THEN {a} ELSE {Slot(a), Slot(a) + 1}
  BY DEF OnBus
<1>2. ASSUME x \in Reached(a, size)
      PROVE  ByteFor(a, size, v, x) = OnBus(a, size, v)[x]
  <2>1. x \in (IF size = 1 THEN {a} ELSE {Slot(a), Slot(a) + 1})
    BY <1>2, ReachedIsAddressed
  <2>2. CASE size = 1
    <3>1. x = a /\ OnBus(a, size, v)[x] = v
      BY <2>1, <2>2 DEF OnBus
    <3>2. CASE Precise(a, size)
      BY <3>1, <3>2 DEF ByteFor
    <3>3. CASE ~Precise(a, size)
      <4>1. x % 2 = 0
        <5>1. Slot(a) \notin Pairs /\ Slot(a) \notin HighOnly
          BY <2>2, <3>3 DEF Precise, ByteSlots
        <5> QED
          BY <5>1, <3>1, RegisterIs
      <4>2. v % 256 = v
        BY <2>2, BytesAre
      <4> QED
        BY <3>1, <3>3, <4>1, <4>2 DEF ByteFor
    <3> QED
      BY <3>2, <3>3
  <2>3. CASE size = 2
    BY <2>1, <2>3, AddressIs DEF ByteFor, Precise, OnBus
  <2> QED
    BY <2>2, <2>3 DEF Sizes
<1> QED
  BY <1>1, <1>2, ReachedIsAddressed DEF Stored

\* RTCSTOP is a register.
LEMMA RtcstopIs == RTCSTOP \in Registers
<1>1. 336 \in Pairs \cup HighOnly /\ RTCSTOP = 336 + 1
  BY DEF HighOnly, RTCSTOP
<1> QED
  BY <1>1 DEF Registers

\* What a store leaves in the registers: its bytes, but for what STOP latches.
LEMMA RegsOfStore ==
  ASSUME NEW a \in IoArea, NEW size \in Sizes, NEW v \in Halfwords,
         size = 1 => v < 256, Store(a, size, v), NEW x \in Registers
  PROVE  \/ regs'[x] = Stored(a, size, v)[x]
         \/ /\ RTCSTOP \in Reached(a, size) /\ x \in SETMI .. SETDAYH
            /\ Bit(Stored(a, size, v)[RTCSTOP], 1) = 1
<1> DEFINE new == Stored(a, size, v)
<1>1. new = [y \in Registers |-> new[y]]
  BY DEF Stored
<1>2. CASE RTCSTOP \notin Reached(a, size)
  BY <1>2 DEF Store
<1>3. CASE RTCSTOP \in Reached(a, size)
  <2>1. \/ regs' = new
        \/ Bit(new[RTCSTOP], 1) = 1 /\ \E s : regs' = Latched(new, s)
    BY <1>3 DEF Store, WriteRtcstop
  <2> HIDE DEF new
  <2>2. x \notin SETMI .. SETDAYH => \A s : Latched(new, s)[x] = new[x]
    BY <1>1 DEF Latched, SETMI, SETHH, SETDAYL, SETDAYH
  <2> QED
    BY <1>3, <2>1, <2>2 DEF new
<1> QED
  BY <1>2, <1>3

\* A register changes to the byte stored at its address, and only then, through
\* whatever callbacks its halfword has; STOP also latches the time it stopped at.
THEOREM StoresKeepTheirLane == Spec => StoresStayInLane
<1>1. ASSUME Known, [Next]_vars, NEW x \in Registers
      PROVE  \/ UNCHANGED vars
             \/ regs'[x] = IF x \in DOMAIN stored' THEN stored'[x] ELSE regs[x]
             \/ /\ RTCSTOP \in DOMAIN stored' /\ Bit(stored'[RTCSTOP], 1) = 1
                /\ x \in SETMI .. SETDAYH
  <2>1. CASE GuestStore
    <3>1. PICK a \in IoArea, size \in Sizes, v \in Halfwords :
            (size = 1 => v < 256) /\ Store(a, size, v)
      BY <2>1 DEF GuestStore
    <3>2. stored' = OnBus(a, size, v)
      BY <3>1 DEF Store
    <3>3. Stored(a, size, v)[x] = IF x \in DOMAIN stored' THEN stored'[x] ELSE regs[x]
      BY <3>1, <3>2, StoredIs
    <3>4. RTCSTOP \in Reached(a, size) =>
            /\ RTCSTOP \in DOMAIN stored'
            /\ Stored(a, size, v)[RTCSTOP] = stored'[RTCSTOP]
      <4>1. RTCSTOP \in Reached(a, size) <=> RTCSTOP \in DOMAIN OnBus(a, size, v)
        BY RtcstopIs, ReachedIsAddressed DEF OnBus
      <4> QED
        BY <3>1, <3>2, <4>1, RtcstopIs, StoredIs
    <3> QED
      BY <3>1, <3>3, <3>4, RegsOfStore
  <2>2. CASE \E cold \in BOOLEAN : Reset(cold)
    BY <2>2 DEF Reset
  <2>3. CASE \E t \in Timers : Consult(t)
    <3>1. PICK t \in Timers : Consult(t)
      BY <2>3
    <3>2. regs' = regs /\ DOMAIN stored' = {}
      BY <3>1 DEF Consult
    <3> QED
      BY <3>2
  <2>4. CASE ReadTime \/ HostSecond \/ Tick \/ Elapse \/ PollButtons
    <3>1. regs' = regs /\ DOMAIN stored' = {}
      BY <2>4 DEF ReadTime, HostSecond, Tick, Elapse, PollButtons, clockVars
    <3> QED
      BY <3>1
  <2>5. CASE HostInput
    <3>1. regs' = regs /\ DOMAIN stored' = {}
      BY <2>5, InputLeaves DEF clockVars
    <3> QED
      BY <3>1
  <2> QED
    BY <1>1, <2>1, <2>2, <2>3, <2>4, <2>5, Steps, Zenon
<1>2. ASSUME Known, [Next]_vars
      PROVE  [\A a \in Registers :
                \/ regs'[a] = IF a \in DOMAIN stored' THEN stored'[a] ELSE regs[a]
                \/ /\ RTCSTOP \in DOMAIN stored' /\ Bit(stored'[RTCSTOP], 1) = 1
                   /\ a \in SETMI .. SETDAYH]_vars
  BY <1>1, <1>2
<1> QED
  BY <1>2, Workload, PTL DEF Spec, StoresStayInLane

-----------------------------------------------------------------------------
(* Clocks.                                                                 *)

\* A clock depends on the registers of its channel and on the oscillator.
LEMMA ClockDependsOn ==
  ASSUME NEW t \in Timers, NEW r1, NEW r2, NEW s,
         r1[CLKSEL] = r2[CLKSEL], r1[CLKT16(0)] = r2[CLKT16(0)], r1[CLKT8(0)] = r2[CLKT8(0)]
  PROVE  ClockOf(t, r1, s) = ClockOf(t, r2, s)
<1>1. T16Clock(r1, s, 0, 0) = T16Clock(r2, s, 0, 0)
  BY DEF T16Clock
<1>2. CLKT8(0 \div 2) = CLKT8(0) /\ CLKT8(1 \div 2) = CLKT8(0)
  <2>1. 0 \div 2 = 0 /\ 1 \div 2 = 0
    OBVIOUS
  <2> QED
    BY <2>1, Zenon
<1>3. T8Clock(r1, s, 0) = T8Clock(r2, s, 0)
  BY <1>2 DEF T8Clock
<1>4. T8Clock(r1, s, 1) = T8Clock(r2, s, 1)
  BY <1>2 DEF T8Clock
<1> QED
  BY <1>1, <1>3, <1>4 DEF ClockOf, Timers

\* The registers that clocks depend on are registers, and STOP latches
\* nothing in them.
LEMMA ClockRegistersAre ==
  /\ {CLKSEL, CLKT16(0), CLKT8(0), PWRCTL} \subseteq ClockRegisters
  /\ {CLKSEL, CLKT16(0), CLKT8(0), PWRCTL, P0D} \subseteq Registers
  /\ {CLKSEL, CLKT16(0), CLKT8(0), PWRCTL, P0D} \cap SETMI .. SETDAYH = {}
<1>1. CLKSEL = 326 /\ CLKT16(0) = 327 /\ CLKT8(0) = 333 /\ PWRCTL = 384 /\ P0D = 721
  BY DEF CLKSEL, CLKT16, CLKT8, PWRCTL, P0D
<1>2. {CLKSEL, CLKT16(0), CLKT8(0), PWRCTL} \subseteq ClockRegisters
  BY DEF ClockRegisters
<1>3. 326 \in Pairs /\ 332 \in Pairs /\ 720 \in Pairs /\ 384 \in LowOnly
  BY DEF Pairs, LowOnly
<1>4. 327 \in Registers /\ 333 \in Registers /\ 721 \in Registers
  BY <1>3 DEF Registers
<1>5. 326 \in Registers /\ 384 \in Registers
  BY <1>3 DEF Registers
<1> QED
  BY <1>1, <1>2, <1>4, <1>5 DEF SETMI, SETDAYH

LEMMA LanesAreFinite ==
  ASSUME NEW a \in IoArea, NEW size \in Sizes
  PROVE  /\ IsFiniteSet(Reached(a, size) \cap ClockRegisters)
         /\ Cardinality(Reached(a, size) \cap ClockRegisters) \in Nat
         /\ Cardinality(Reached(a, size) \cap ClockRegisters) = 0 =>
              Reached(a, size) \cap ClockRegisters = {}
<1>1. Slot(a) \in Int /\ Slot(a) + 1 \in Int
  BY AddressIs
<1>2. IsFiniteSet(Slot(a) .. Slot(a) + 1)
  BY <1>1, FS_Interval
<1>3. Reached(a, size) \cap ClockRegisters \subseteq Slot(a) .. Slot(a) + 1
  BY AddressIs DEF Reached, Precise, WriteByte, Write
<1>4. IsFiniteSet(Reached(a, size) \cap ClockRegisters)
  BY <1>2, <1>3, FS_Subset
<1> QED
  BY <1>4, FS_CardinalityType, FS_EmptySet

\* Caches hold generations of the past.
CacheIsPast ==
  /\ gen \in Nat
  /\ cache = [t \in Timers |-> cache[t]]
  /\ \A t \in Timers : cache[t].gen \in Int /\ cache[t].gen <= gen

ClockInv == Known /\ CacheIsPast /\ ClockIsFollowed

\* A store: the generation moves with every clock register and with the
\* oscillator, what it announces is what it leaves in force.
LEMMA StoreFollowed ==
  ASSUME ClockInv, GuestStore
  PROVE  CacheIsPast' /\ ClockIsFollowed'
<1>1. PICK a \in IoArea, size \in Sizes, v \in Halfwords :
        (size = 1 => v < 256) /\ Store(a, size, v)
  BY DEF GuestStore
<1> DEFINE new == Stored(a, size, v)
           touched == Reached(a, size) \cap ClockRegisters
           p07 == Bit(regs[P0D], 7) # Bit(new[P0D], 7)
           switched == p07 /\ slow # (Bit(new[P0D], 7) = 1)
           called == switched \/ PowerChanges(regs[PWRCTL], new[PWRCTL])
<1>2. /\ cache' = cache
      /\ slow' = IF p07 THEN Bit(new[P0D], 7) = 1 ELSE slow
      /\ gen' = gen + Cardinality(touched) + (IF switched THEN 1 ELSE 0)
      /\ announced' = IF called THEN CpuHz(new, slow') ELSE announced
      /\ afterReset' = afterReset \ ((IF called THEN {"hz"} ELSE {}) \cup (IF p07 THEN {"p07"} ELSE {}))
  BY <1>1 DEF Store, UpdateClock
<1>3. Cardinality(touched) \in Nat /\ (Cardinality(touched) = 0 => touched = {})
  BY LanesAreFinite
<1>4. CacheIsPast'
  <2> HIDE DEF touched, switched
  <2>1. gen \in Nat
    BY DEF ClockInv, CacheIsPast
  <2>2. gen' \in Nat /\ gen <= gen'
    BY <1>2, <1>3, <2>1
  <2>3. cache' = cache
    BY <1>2
  <2>4. \A t \in Timers : cache[t].gen \in Int /\ cache[t].gen <= gen'
    BY <2>1, <2>2 DEF ClockInv, CacheIsPast
  <2>5. cache = [t \in Timers |-> cache[t]]
    BY DEF ClockInv, CacheIsPast
  <2> QED
    BY <2>2, <2>3, <2>4, <2>5 DEF CacheIsPast
<1>5. ASSUME NEW x \in {CLKSEL, CLKT16(0), CLKT8(0), PWRCTL, P0D}
      PROVE  regs'[x] = new[x]
  <2>1. x \in Registers /\ x \notin SETMI .. SETDAYH
    BY ClockRegistersAre
  <2> QED
    BY <1>1, <2>1, RegsOfStore
<1>6. ASSUME "hz" \notin afterReset' PROVE announced' = CpuHz(regs', slow')
  <2>1. CASE called
    BY <1>2, <1>5, <2>1 DEF CpuHz
  <2>2. CASE ~called
    <3>1. announced = CpuHz(regs, slow)
      BY <1>2, <1>6, <2>2 DEF ClockInv, ClockIsFollowed
    <3>2. slow' = slow /\ announced' = announced
      BY <1>2, <2>2 DEF ClockInv
    <3>3. regs[PWRCTL] \div 64 = new[PWRCTL] \div 64
      BY <2>2 DEF PowerChanges
    <3> QED
      BY <1>5, <3>1, <3>2, <3>3 DEF CpuHz
  <2> QED
    BY <2>1, <2>2
<1>7. ASSUME "p07" \notin afterReset' PROVE slow' = (Bit(regs'[P0D], 7) = 1)
  BY <1>2, <1>5, <1>7 DEF ClockInv, ClockIsFollowed
<1>8. ASSUME NEW t \in Timers, cache'[t].gen = gen'
      PROVE  cache'[t].clock = ClockOf(t, regs', slow')
  <2>1. cache[t].gen = gen /\ gen' = gen /\ touched = {} /\ ~switched
    BY <1>2, <1>3, <1>8 DEF ClockInv, CacheIsPast
  <2>2. slow' = slow
    BY <1>2, <2>1
  <2>3. \A x \in {CLKSEL, CLKT16(0), CLKT8(0)} : regs'[x] = regs[x]
    BY <1>5, <2>1, ClockRegistersAre DEF Stored
  <2>4. ClockOf(t, regs', slow) = ClockOf(t, regs, slow)
    BY <2>3, ClockDependsOn
  <2> QED
    BY <1>2, <2>1, <2>2, <2>4 DEF ClockInv, ClockIsFollowed
<1> QED
  BY <1>4, <1>6, <1>7, <1>8 DEF ClockIsFollowed

LEMMA ResetFollowed ==
  ASSUME ClockInv, NEW cold \in BOOLEAN, Reset(cold)
  PROVE  CacheIsPast' /\ ClockIsFollowed'
<1>1. slow' = TRUE /\ gen' = gen + 1 /\ cache' = NoCache
      /\ afterReset' = {"hz"} \cup (IF cold THEN {} ELSE {"p07"})
  BY DEF Reset
<1>2. CacheIsPast' /\ \A t \in Timers : cache'[t].gen # gen'
  BY <1>1 DEF CacheIsPast, NoCache, ClockInv
<1>3. cold => regs'[P0D] = 128
  BY ClockRegistersAre DEF Reset, Cleared, RTCSTOP, P0D
<1>4. Bit(128, 7) = 1
  BY DEF Bit
<1> QED
  BY <1>1, <1>2, <1>3, <1>4 DEF ClockIsFollowed

LEMMA ConsultFollowed ==
  ASSUME ClockInv, NEW t \in Timers, Consult(t)
  PROVE  CacheIsPast' /\ ClockIsFollowed'
<1>1. /\ cache' = [cache EXCEPT ![t] = [gen |-> gen, clock |-> ClockOf(t, regs, slow)]]
      /\ UNCHANGED <<regs, slow, gen, announced, afterReset>>
  BY DEF Consult
<1>2. \A u \in Timers : cache'[u] = IF u = t THEN [gen |-> gen, clock |-> ClockOf(t, regs, slow)] ELSE cache[u]
  BY <1>1 DEF ClockInv, CacheIsPast
<1>3. CacheIsPast'
  BY <1>1, <1>2 DEF ClockInv, CacheIsPast
<1> QED
  BY <1>1, <1>2, <1>3 DEF ClockInv, ClockIsFollowed

\* The other steps leave the clocks alone.
LEMMA ClocksKept ==
  ASSUME \/ UNCHANGED vars
         \/ ReadTime \/ HostSecond \/ Tick \/ Elapse \/ PollButtons \/ HostInput
  PROVE  UNCHANGED clockVars
<1>1. CASE ReadTime \/ HostSecond \/ Tick \/ Elapse \/ PollButtons
  BY <1>1 DEF ReadTime, HostSecond, Tick, Elapse, PollButtons
<1>2. CASE HostInput
  BY <1>2, InputLeaves
<1> QED
  BY <1>1, <1>2 DEF vars

LEMMA ClockStep == ClockInv /\ [Next]_vars => ClockInv'
<1> SUFFICES ASSUME ClockInv, [Next]_vars PROVE ClockInv'
  OBVIOUS
<1>1. Known'
  BY WorkloadStays DEF ClockInv
<1>2. CASE UNCHANGED clockVars
  BY <1>1, <1>2 DEF clockVars, ClockInv, CacheIsPast, ClockIsFollowed
<1>3. CASE GuestStore
  BY <1>1, <1>3, StoreFollowed DEF ClockInv
<1>4. CASE \E cold \in BOOLEAN : Reset(cold)
  BY <1>1, <1>4, ResetFollowed DEF ClockInv
<1>5. CASE \E t \in Timers : Consult(t)
  BY <1>1, <1>5, ConsultFollowed DEF ClockInv
<1> QED
  BY <1>2, <1>3, <1>4, <1>5, Steps, ClocksKept, Zenon DEF ClockInv, Known

\* The runner was told the CPU clock in force, the oscillator is P07's, and no
\* timer's cached clock outlives the registers it was computed from.
THEOREM ClocksAreFollowed == Spec => []ClockIsFollowed
<1>1. Init => ClockInv
  <2> SUFFICES ASSUME Init PROVE ClockInv
    OBVIOUS
  <2>1. Known /\ CacheIsPast
    BY DEF Init, Known, CacheIsPast, NoCache
  <2>2. regs[P0D] = 128
    BY ClockRegistersAre DEF Init, Cleared, RTCSTOP, P0D
  <2>3. Bit(128, 7) = 1
    BY DEF Bit
  <2>4. \A t \in Timers : cache[t].gen # gen
    BY DEF Init, NoCache
  <2> QED
    BY <2>1, <2>2, <2>3, <2>4 DEF Init, ClockInv, ClockIsFollowed
<1>2. ClockInv => ClockIsFollowed
  BY DEF ClockInv
<1> QED
  BY <1>1, <1>2, ClockStep, PTL DEF Spec

-----------------------------------------------------------------------------
(* Buttons.                                                                *)

LEMMA KLinesAre ==
  /\ KLines = {<<6, 0>>, <<6, 1>>, <<6, 2>>, <<6, 3>>, <<6, 4>>, <<6, 5>>,
               <<5, 3>>, <<5, 4>>}
  /\ \A l \in KLines : l = <<l[1], l[2]>> /\ l[1] \in {5, 6} /\ l[2] \in 0 .. 7
<1>1. 0 .. 5 = {0, 1, 2, 3, 4, 5}
  OBVIOUS
<1>2. KLines = {<<6, 0>>, <<6, 1>>, <<6, 2>>, <<6, 3>>, <<6, 4>>, <<6, 5>>,
                <<5, 3>>, <<5, 4>>}
  BY <1>1 DEF KLines
<1> QED
  BY <1>2

\* The kinds of controls.
LEMMA ControlIs ==
  ASSUME NEW c \in Controls
  PROVE  /\ c # << >> /\ c[1] \in {"key", "pad", "joy"}
         /\ c[1] = "joy" => c[2] \in Pads \cup Joysticks /\ c[3] \in Nat
BY ControlsAssumption

\* The handlers move the lines that their controls are for.
LEMMA KeyLineIsFor ==
  ASSUME NEW k, NEW l \in KLines
  PROVE  l \in KeyLine(k) <=> <<"key", k>> \in For(l)
BY KLinesAre DEF KeyLine, For

LEMMA PadLineIsFor ==
  ASSUME NEW b, NEW l \in KLines
  PROVE  l \in PadLine(b) <=> <<"pad", b>> \in For(l)
BY KLinesAre DEF PadLine, For

LEMMA JoyLineIsFor ==
  ASSUME NEW j \in Nat, NEW l \in KLines
  PROVE  l \in JoyLine(j) <=> <<"joy", j>> \in For(l)
BY KLinesAre DEF JoyLine, For

LEMMA LinesAreFor ==
  ASSUME NEW c \in Controls
  PROVE  LinesOf(c) = {l \in KLines : IsFor(c, l)}
<1>1. ASSUME NEW l \in KLines PROVE l \in LinesOf(c) <=> IsFor(c, l)
  BY ControlIs, KeyLineIsFor, PadLineIsFor, JoyLineIsFor DEF LinesOf, IsFor
<1>2. LinesOf(c) \subseteq KLines
  <2>1. \A k : KeyLine(k) \subseteq KLines
    BY KLinesAre DEF KeyLine
  <2>2. \A b : PadLine(b) \subseteq KLines
    BY KLinesAre DEF PadLine
  <2>3. \A j : JoyLine(j) \subseteq KLines
    BY KLinesAre DEF JoyLine
  <2> QED
    BY <2>1, <2>2, <2>3, ControlIs DEF LinesOf
<1> QED
  BY <1>1, <1>2

\* A shared line is 0 exactly if an event pressed it last, by a control for it
\* that is still held; held buttons of a joystick are those of the open one.
ButtonInv ==
  /\ by = [l \in KLines |-> by[l]]
  /\ shared = {l \in KLines : by[l] # << >>}
  /\ \A l \in KLines : by[l] # << >> =>
       /\ IsFor(by[l], l)
       /\ by[l] \in held \/ (by[l][1] = "joy" /\ by[l][2] \in Pads)
  /\ \A c \in held : c \in Controls \/ c[1] = "stick"
  /\ \A c \in held : c[1] = "joy" /\ c[2] \in Joysticks => c[2] = joys.open
  /\ joys.open = "none" \/ UConsole
  /\ pads.open \in Pads \cup {"none"}

\* The K ports as they were driven last.
PortsInv ==
  /\ k5 = {i \in 0 .. 7 : <<5, i>> \in KLines => seen[<<5, i>>] = << >>}
  /\ k6 = {i \in 0 .. 7 : <<6, i>> \in KLines => seen[<<6, i>>] = << >>}

LEMMA PressFollowed ==
  ASSUME ButtonInv, NEW c \in Controls, Press(c)
  PROVE  ButtonInv'
<1>1. /\ Delivered(c) /\ held' = held \cup {c} /\ UNCHANGED <<pads, joys>>
      /\ shared' = IF Handled(c) THEN shared \cup LinesOf(c) ELSE shared
      /\ by' = [l \in KLines |-> IF IsFor(c, l) /\ Handled(c) THEN c ELSE by[l]]
  BY DEF Press, Event
<1>2. by' = [l \in KLines |-> by'[l]]
  BY <1>1
<1>3. \A l \in KLines : by'[l] = IF IsFor(c, l) /\ Handled(c) THEN c ELSE by[l]
  BY <1>1
<1>4. shared' = {l \in KLines : by'[l] # << >>}
  BY <1>1, <1>3, LinesAreFor, ControlIs DEF ButtonInv
<1>5. \A l \in KLines : by'[l] # << >> =>
        /\ IsFor(by'[l], l)
        /\ by'[l] \in held' \/ (by'[l][1] = "joy" /\ by'[l][2] \in Pads)
  BY <1>1, <1>3 DEF ButtonInv
<1>6. c[1] = "joy" /\ c[2] \in Joysticks => c[2] = joys.open
  BY <1>1, ControlsAssumption DEF ButtonInv, Delivered
<1> QED
  BY <1>1, <1>2, <1>4, <1>5, <1>6 DEF ButtonInv

LEMMA ReleaseFollowed ==
  ASSUME ButtonInv, NEW c \in Controls, Release(c)
  PROVE  ButtonInv'
<1>1. /\ c \in held /\ held' = held \ {c} /\ UNCHANGED <<pads, joys>>
      /\ shared' = IF Handled(c) THEN shared \ LinesOf(c) ELSE shared
      /\ by' = [l \in KLines |-> IF IsFor(c, l) /\ Handled(c) THEN << >> ELSE by[l]]
  BY DEF Release, Event
<1>2. by' = [l \in KLines |-> by'[l]]
  BY <1>1
<1>3. \A l \in KLines : by'[l] = IF IsFor(c, l) /\ Handled(c) THEN << >> ELSE by[l]
  BY <1>1
<1>4. shared' = {l \in KLines : by'[l] # << >>}
  BY <1>1, <1>3, LinesAreFor DEF ButtonInv
<1>5. ASSUME ~Handled(c) PROVE c[1] = "joy" /\ c[2] \in Pads
  <2>1. c[1] = "joy" /\ (~UConsole \/ joys.open = "none")
    BY <1>5 DEF Handled
  <2>2. joys.open = "none"
    BY <2>1 DEF ButtonInv
  <2>3. c[2] \notin Joysticks
    BY <1>1, <2>1, <2>2, ControlsAssumption DEF ButtonInv
  <2> QED
    BY <2>1, <2>3, ControlIs
<1>6. ASSUME NEW l \in KLines, by'[l] # << >>
      PROVE  /\ IsFor(by'[l], l)
             /\ by'[l] \in held' \/ (by'[l][1] = "joy" /\ by'[l][2] \in Pads)
  <2>1. by'[l] = by[l] /\ IsFor(by[l], l) /\ ~(IsFor(c, l) /\ Handled(c))
    BY <1>3, <1>6 DEF ButtonInv
  <2>2. CASE by[l] = c
    BY <1>5, <2>1, <2>2
  <2>3. CASE by[l] # c
    BY <1>1, <1>6, <2>1, <2>3 DEF ButtonInv
  <2> QED
    BY <2>2, <2>3
<1> QED
  BY <1>1, <1>2, <1>4, <1>6 DEF ButtonInv

LEMMA AxesAre ==
  ASSUME NEW axis \in {{"left", "right"}, {"up", "down"}}, NEW l \in KLines
  PROVE  /\ l \in AxisLines(axis) <=> \E y \in axis : IsFor(<<"stick", "stick", y>>, l)
         /\ \A y \in axis : l \in KeyLine(y) <=> IsFor(<<"stick", "stick", y>>, l)
         /\ ~IsFor(<<"stick", "stick", "centre">>, l)
<1>1. {"left", "right"} # {"up", "down"}
  OBVIOUS
<1>2. CASE axis = {"left", "right"}
  BY <1>2, KLinesAre DEF AxisLines, IsFor, For, KeyLine
<1>3. CASE axis = {"up", "down"}
  BY <1>1, <1>3, KLinesAre DEF AxisLines, IsFor, For, KeyLine
<1> QED
  BY <1>2, <1>3

\* Both lines of an axis follow the stick.
LEMMA MoveFollowed ==
  ASSUME ButtonInv, NEW axis \in {{"left", "right"}, {"up", "down"}},
         NEW x \in axis \cup {"centre"}, Move(axis, x)
  PROVE  ButtonInv'
<1> DEFINE at == <<"stick", "stick", x>>
           others == {c \in held : ~(c[1] = "stick" /\ c[3] \in axis)}
           moved(l) == \E y \in axis : IsFor(<<"stick", "stick", y>>, l)
<1>1. /\ UNCHANGED <<pads, joys>>
      /\ held' = IF x = "centre" THEN others ELSE others \cup {at}
      /\ shared' = (shared \ AxisLines(axis)) \cup (IF x = "centre" THEN {} ELSE KeyLine(x))
      /\ by' = [l \in KLines |->
                 IF IsFor(at, l) THEN at ELSE IF moved(l) THEN << >> ELSE by[l]]
  BY DEF Move, Tilt
<1>2. by' = [l \in KLines |-> by'[l]]
  BY <1>1
<1>3. \A l \in KLines :
        by'[l] = IF IsFor(at, l) THEN at ELSE IF moved(l) THEN << >> ELSE by[l]
  BY <1>1
<1>4. at # << >> /\ "centre" \notin axis
  OBVIOUS
<1>5. KeyLine(x) \subseteq KLines
  BY KLinesAre DEF KeyLine
<1>6. \A l \in KLines : IsFor(at, l) => x # "centre" /\ moved(l)
  BY AxesAre
<1>7. shared' = {l \in KLines : by'[l] # << >>}
  <2>1. ASSUME NEW l \in KLines PROVE l \in shared' <=> by'[l] # << >>
    <3>1. l \in AxisLines(axis) <=> moved(l)
      BY AxesAre
    <3>2. x # "centre" => (l \in KeyLine(x) <=> IsFor(at, l))
      BY AxesAre
    <3>3. l \in shared <=> by[l] # << >>
      BY DEF ButtonInv
    <3> QED
      BY <1>1, <1>3, <1>4, <1>6, <3>1, <3>2, <3>3
  <2>2. shared' \subseteq KLines
    BY <1>1, <1>5 DEF ButtonInv
  <2> QED
    BY <2>1, <2>2
<1>8. ASSUME NEW l \in KLines, by'[l] # << >>
      PROVE  /\ IsFor(by'[l], l)
             /\ by'[l] \in held' \/ (by'[l][1] = "joy" /\ by'[l][2] \in Pads)
  <2>1. CASE IsFor(at, l)
    BY <1>1, <1>3, <1>6, <2>1
  <2>2. CASE ~IsFor(at, l)
    <3>1. by'[l] = by[l] /\ ~moved(l) /\ IsFor(by[l], l)
      BY <1>3, <1>8, <2>2 DEF ButtonInv
    <3>2. ~(by[l][1] = "stick" /\ by[l][3] \in axis)
      BY <3>1 DEF IsFor
    <3> QED
      BY <1>1, <1>8, <3>1, <3>2 DEF ButtonInv
  <2> QED
    BY <2>1, <2>2
<1>9. \A c \in held' : c \in held \/ c = at
  BY <1>1
<1>10. at[1] = "stick"
  OBVIOUS
<1> HIDE DEF at, others, moved
<1>11. \A c \in held' : c \in Controls \/ c[1] = "stick"
  BY <1>9, <1>10 DEF ButtonInv
<1>12. \A c \in held' : c[1] = "joy" /\ c[2] \in Joysticks => c[2] = joys'.open
  BY <1>1, <1>9, <1>10 DEF ButtonInv
<1> QED
  BY <1>1, <1>2, <1>7, <1>8, <1>11, <1>12 DEF ButtonInv

LEMMA HotPlugFollowed ==
  ASSUME ButtonInv,
         \/ \E p \in Pads : RemovePad(p) \/ \E opened \in {p, pads.open} : AddPad(p, opened)
         \/ \E j \in Joysticks :
              RemoveJoystick(j) \/ \E opened \in {j, joys.open} : AddJoystick(j, opened)
  PROVE  ButtonInv'
<1>1. UNCHANGED <<shared, held, by>>
  BY DEF AddPad, RemovePad, AddJoystick, RemoveJoystick, HotPlug
<1>2. pads'.open \in Pads \cup {"none"}
  BY DEF ButtonInv, AddPad, RemovePad, AddJoystick, RemoveJoystick, Plug, Unplug
<1>3. joys'.open = "none" \/ UConsole
  <2>1. ASSUME NEW j, NEW opened, AddJoystick(j, opened)
        PROVE  joys'.open = "none" \/ UConsole
    BY <2>1 DEF AddJoystick, Plug
  <2>2. ASSUME NEW j, RemoveJoystick(j)
        PROVE  joys'.open = "none" \/ UConsole
    BY <2>2 DEF RemoveJoystick, Unplug, ButtonInv
  <2>3. ASSUME joys' = joys PROVE joys'.open = "none" \/ UConsole
    BY <2>3 DEF ButtonInv
  <2> QED
    BY <2>1, <2>2, <2>3 DEF AddPad, RemovePad
<1>4. ASSUME NEW c \in held, c[1] = "joy", c[2] \in Joysticks PROVE c[2] = joys'.open
  <2>1. c[2] = joys.open /\ joys.open # "none"
    BY <1>4, ControlsAssumption DEF ButtonInv
  <2>2. ASSUME NEW j, NEW opened, AddJoystick(j, opened) PROVE c[2] = joys'.open
    BY <2>1, <2>2 DEF AddJoystick, Added, Plug
  <2>3. ASSUME NEW j, RemoveJoystick(j) PROVE c[2] = joys'.open
    BY <1>4, <2>1, <2>3 DEF RemoveJoystick, Removable, Unplug
  <2>4. ASSUME joys' = joys PROVE c[2] = joys'.open
    BY <2>1, <2>4
  <2> QED
    BY <2>2, <2>3, <2>4 DEF AddPad, RemovePad
<1> QED
  BY <1>1, <1>2, <1>3, <1>4 DEF ButtonInv

LEMMA InputFollowed ==
  ASSUME ButtonInv, HostInput
  PROVE  ButtonInv'
<1>1. ASSUME NEW y \in Positions
      PROVE  y \in AxisOf(y) /\ AxisOf(y) \in {{"left", "right"}, {"up", "down"}}
  BY <1>1 DEF Positions, AxisOf
<1>2. ASSUME NEW y \in Positions, Move(AxisOf(y), y) \/ Move(AxisOf(y), "centre")
      PROVE  ButtonInv'
  BY <1>1, <1>2, MoveFollowed
<1> QED
  BY <1>2, PressFollowed, ReleaseFollowed, HotPlugFollowed DEF HostInput

\* Driving the ports shows what was pressed last.
LEMMA PortIs ==
  ASSUME ButtonInv, NEW n \in {5, 6}
  PROVE  Port(n, shared) = {i \in 0 .. 7 : <<n, i>> \in KLines => by[<<n, i>>] = << >>}
<1>1. ASSUME NEW i \in 0 .. 7
      PROVE  (\E l \in {x \in shared : x[1] = n} : i = l[2]) <=> <<n, i>> \in shared
  <2>1. ASSUME NEW l \in {x \in shared : x[1] = n}, i = l[2] PROVE <<n, i>> \in shared
    BY <2>1, KLinesAre DEF ButtonInv
  <2>2. ASSUME <<n, i>> \in shared PROVE \E l \in {x \in shared : x[1] = n} : i = l[2]
    BY <2>2
  <2> QED
    BY <2>1, <2>2
<1> QED
  BY <1>1 DEF Port, ButtonInv

\* The K ports show for every line what the last event for it was when they were
\* driven, whatever keys, pads, joysticks and sticks come, go and overlap.
THEOREM ButtonsAreFollowed == Spec => []ButtonsFollowEvents
<1>1. Init => ButtonInv /\ PortsInv
  BY DEF Init, ButtonInv, PortsInv, NoDevice
<1>2. ASSUME Known, ButtonInv, PortsInv, [Next]_vars PROVE ButtonInv' /\ PortsInv'
  <2>1. UNCHANGED inputVars => ButtonInv'
    BY <1>2 DEF inputVars, ButtonInv
  <2>2. UNCHANGED keyVars => PortsInv'
    BY <1>2 DEF keyVars, PortsInv
  <2>3. CASE UNCHANGED vars
    BY <2>1, <2>2, <2>3 DEF vars
  <2>4. CASE GuestStore
    BY <2>1, <2>2, <2>4 DEF GuestStore, Store
  <2>5. CASE (\E cold \in BOOLEAN : Reset(cold)) \/ PollButtons
    <3>1. UNCHANGED inputVars
      BY <2>5 DEF Reset, PollButtons
    <3>2. k5' = Port(5, shared) /\ k6' = Port(6, shared) /\ seen' = by
      BY <2>5 DEF Reset, PollButtons
    <3>3. PortsInv'
      BY <1>2, <3>2, PortIs DEF PortsInv
    <3> QED
      BY <2>1, <3>1, <3>3
  <2>6. CASE \E t \in Timers : Consult(t)
    BY <2>1, <2>2, <2>6 DEF Consult
  <2>7. CASE ReadTime \/ HostSecond \/ Tick \/ Elapse
    BY <2>1, <2>2, <2>7 DEF ReadTime, HostSecond, Tick, Elapse
  <2>8. CASE HostInput
    BY <1>2, <2>2, <2>8, InputFollowed, InputLeaves
  <2> QED
    BY <1>2, <2>3, <2>4, <2>5, <2>6, <2>7, <2>8, Steps, Zenon
<1>3. ButtonInv /\ PortsInv => ButtonsFollowEvents
  BY DEF ButtonInv, PortsInv, ButtonsFollowEvents
<1> QED
  BY <1>1, <1>2, <1>3, Workload, PTL DEF Spec

-----------------------------------------------------------------------------
(* Periods.                                                                *)

LEMMA QuotientIs ==
  ASSUME NEW p \in Nat \ {0}, NEW q \in Nat, NEW n \in Nat, q * p <= n, n < q * p + p
  PROVE  n \div p = q
OBVIOUS

LEMMA QuotientBounds ==
  ASSUME NEW p \in Nat \ {0}, NEW n \in Nat
  PROVE  n \div p \in Nat /\ (n \div p) * p <= n /\ n < (n \div p) * p + p
OBVIOUS

\* The oscillators and dividers give the CPU clocks there are periods for.
LEMMA ClockIsKnown ==
  ASSUME NEW r, NEW s \in BOOLEAN, r[PWRCTL] \in 0 .. 255
  PROVE  /\ CpuHz(r, s) \in CpuClocks
         /\ Period[CpuHz(r, s)] \in Nat \ {0} /\ NmiPeriod[CpuHz(r, s)] \in Nat \ {0}
<1> DEFINE k == r[PWRCTL] \div 64
<1>1. k = 0 \/ k = 1 \/ k = 2 \/ k = 3
  OBVIOUS
<1>2. 2 ^ 0 = 1 /\ 2 ^ 1 = 2 /\ 2 ^ 2 = 4 /\ 2 ^ 3 = 8
  OBVIOUS
<1>3. CpuHz(r, s) = Osc3(s) \div 2 ^ k
  BY DEF CpuHz
<1>4. Osc3(s) = 8 \/ Osc3(s) = 16
  BY DEF Osc3
<1> HIDE DEF k
<1>5. CpuHz(r, s) \in CpuClocks
  <2>1. 2 ^ k = 1 \/ 2 ^ k = 2 \/ 2 ^ k = 4 \/ 2 ^ k = 8
    BY <1>1, <1>2
  <2> DEFINE d == 2 ^ k
  <2>2. CpuHz(r, s) = Osc3(s) \div d
    BY <1>3
  <2>3. d = 1 \/ d = 2 \/ d = 4 \/ d = 8
    BY <2>1
  <2> HIDE DEF d
  <2> QED
    BY <1>4, <2>2, <2>3 DEF CpuClocks
<1> QED
  BY <1>5, PeriodsAssumption

RtcShape(c) ==
  c = [offset |-> c.offset, frozen |-> c.frozen, frozenAt |-> c.frozenAt,
       sub |-> c.sub, due |-> c.due]
TickedShape == [at : Int, due : Int, sub : 0 .. 255, nmi : Int, least : Nat,
                gap : Int, allowed : Int]

\* While the clock timer runs, its prescaler is some counts of the present clock
\* past its anchor, none of them before its time, and after a tick none is due;
\* the next NMI lies the shortest period or more behind the last.
PeriodsInv ==
  /\ Known
  /\ regs[PWRCTL] \in 0 .. 255 /\ slow \in BOOLEAN
  /\ cycles \in Nat /\ nmi \in Int
  /\ ticked \in TickedShape
  /\ RtcShape(rtc) /\ rtc.due \in Int /\ rtc.sub \in 0 .. 255
  /\ ticked.at <= cycles
  /\ ticked.at = cycles => cycles < rtc.due
  /\ Bit(regs[RTCSTOP], 1) = 0 =>
       \E k \in Nat :
         /\ rtc.due = ticked.due + k * Period[Hz]
         /\ rtc.sub = (ticked.sub + k) % 256
         /\ k > 0 => ticked.due + (k - 1) * Period[Hz] <= cycles
  /\ ticked.nmi <= cycles
  /\ ticked.least = 0 \/ nmi >= ticked.nmi + ticked.least
  /\ ticked.gap >= ticked.allowed

\* Then a tick's count is the closed form.
LEMMA PeriodsShown == PeriodsInv => PeriodsHold
<1> SUFFICES ASSUME PeriodsInv PROVE PeriodsHold
  OBVIOUS
<1> DEFINE p == Period[Hz]
           counts == IF cycles < ticked.due THEN 0 ELSE (cycles - ticked.due) \div p + 1
<1>1. p \in Nat \ {0}
  BY ClockIsKnown DEF PeriodsInv, Hz
<1>2. cycles \in Nat /\ ticked.due \in Int
  BY DEF PeriodsInv, TickedShape
<1>3. ASSUME ticked.at = cycles, Bit(regs[RTCSTOP], 1) = 0
      PROVE  rtc.sub = (ticked.sub + counts) % 256 /\ rtc.due = ticked.due + counts * p
  <2>1. PICK k \in Nat :
          /\ rtc.due = ticked.due + k * p
          /\ rtc.sub = (ticked.sub + k) % 256
          /\ k > 0 => ticked.due + (k - 1) * p <= cycles
    BY <1>3 DEF PeriodsInv
  <2>2. cycles < ticked.due + k * p
    BY <1>3, <2>1 DEF PeriodsInv
  <2> HIDE DEF p
  <2>3. CASE k = 0
    <3>1. 0 * p = 0
      BY <1>1
    <3>2. counts = 0
      BY <1>1, <1>2, <2>2, <2>3, <3>1
    <3> QED
      BY <2>1, <2>3, <3>2
  <2>4. CASE k > 0
    <3> DEFINE n == cycles - ticked.due
    <3>1. (k - 1) * p >= 0 /\ k * p = (k - 1) * p + p
      BY <1>1, <2>4
    <3>2. n \in Nat /\ (k - 1) * p <= n /\ n < (k - 1) * p + p
      BY <1>1, <1>2, <2>1, <2>2, <2>4, <3>1
    <3>3. k - 1 \in Nat
      BY <2>4
    <3>4. n \div p = k - 1
      <4> HIDE DEF n
      <4> QED
        BY <1>1, <3>2, <3>3, QuotientIs
    <3>5. counts = k
      BY <1>2, <3>2, <3>3, <3>4
    <3> HIDE DEF counts
    <3> QED
      BY <2>1, <3>5
  <2> QED
    BY <2>3, <2>4
<1> QED
  BY <1>3 DEF PeriodsHold, PeriodsInv

LEMMA TickCounts ==
  ASSUME PeriodsInv, Tick
  PROVE  /\ rtc'.due \in Int /\ rtc'.sub \in 0 .. 255 /\ cycles < rtc'.due
         /\ Bit(regs[RTCSTOP], 1) = 0 =>
              \E k \in Nat :
                /\ rtc'.due = ticked.due + k * Period[Hz]
                /\ rtc'.sub = (ticked.sub + k) % 256
                /\ k > 0 => ticked.due + (k - 1) * Period[Hz] <= cycles
<1> DEFINE p == Period[Hz]
<1>1. p \in Nat \ {0}
  BY ClockIsKnown DEF PeriodsInv, Hz
<1>2. /\ cycles \in Nat /\ ticked.due \in Int /\ ticked.sub \in 0 .. 255
      /\ rtc.due \in Int /\ rtc.sub \in 0 .. 255
  BY DEF PeriodsInv, TickedShape
<1>3. rtc' = TickRtc(rtc)
  BY DEF Tick
<1>4. CASE cycles < rtc.due
  <2>1. rtc' = rtc
    BY <1>3, <1>4 DEF TickRtc
  <2> QED
    BY <1>2, <1>4, <2>1 DEF PeriodsInv
<1>5. CASE ~(cycles < rtc.due) /\ Bit(regs[RTCSTOP], 1) = 1
  <2>1. rtc' = [rtc EXCEPT !.due = cycles + 1]
    BY <1>3, <1>5 DEF TickRtc
  <2>2. rtc'.due = cycles + 1 /\ rtc'.sub = rtc.sub
    BY <2>1 DEF PeriodsInv, RtcShape
  <2> QED
    BY <1>2, <1>5, <2>2
<1>6. CASE ~(cycles < rtc.due) /\ Bit(regs[RTCSTOP], 1) # 1
  <2> DEFINE q == (cycles - rtc.due) \div p
  <2>1. RtcCounts(rtc.due) = q + 1
    BY DEF RtcCounts
  <2>2. /\ rtc'.due = rtc.due + (q + 1) * p
        /\ rtc'.sub = (rtc.sub + (q + 1)) % 256
    <3>1. rtc' = [rtc EXCEPT !.due = @ + (q + 1) * p, !.sub = (@ + (q + 1)) % 256]
      BY <1>3, <1>6, <2>1 DEF TickRtc
    <3> HIDE DEF p, q
    <3> QED
      BY <3>1 DEF PeriodsInv, RtcShape
  <2>3. q \in Nat /\ q * p <= cycles - rtc.due /\ cycles - rtc.due < q * p + p
    <3> DEFINE n == cycles - rtc.due
    <3>1. n \in Nat
      BY <1>2, <1>6
    <3> HIDE DEF n, p
    <3> QED
      BY <1>1, <3>1, QuotientBounds DEF n
  <2> HIDE DEF p, q
  <2>4. rtc'.due \in Int /\ rtc'.sub \in 0 .. 255 /\ cycles < rtc'.due
    <3> DEFINE qp == q * p
    <3>1. (q + 1) * p = qp + p /\ qp \in Nat
      BY <1>1, <2>3
    <3>2. rtc'.due = rtc.due + (qp + p) /\ cycles - rtc.due < qp + p
      BY <2>2, <2>3, <3>1
    <3> HIDE DEF qp
    <3>3. rtc'.due \in Int /\ cycles < rtc'.due
      BY <1>1, <1>2, <3>1, <3>2
    <3>4. rtc'.sub \in 0 .. 255
      <4> DEFINE sum == rtc.sub + (q + 1)
      <4>1. sum \in Nat
        BY <1>2, <2>3
      <4>2. sum % 256 \in 0 .. 255
        <5> HIDE DEF sum
        <5> QED
          BY <4>1
      <4> QED
        BY <2>2, <4>2
    <3> QED
      BY <3>3, <3>4
  <2>5. ASSUME Bit(regs[RTCSTOP], 1) = 0
        PROVE  \E k \in Nat :
                 /\ rtc'.due = ticked.due + k * p
                 /\ rtc'.sub = (ticked.sub + k) % 256
                 /\ k > 0 => ticked.due + (k - 1) * p <= cycles
    <3>1. PICK k \in Nat : rtc.due = ticked.due + k * p /\ rtc.sub = (ticked.sub + k) % 256
      BY <2>5 DEF PeriodsInv, p
    <3> DEFINE m == k + q + 1
               kp == k * p
               qp == q * p
    <3>2. /\ m \in Nat /\ m * p = kp + qp + p /\ (m - 1) * p = kp + qp
          /\ (q + 1) * p = qp + p /\ kp \in Nat /\ qp \in Nat
      BY <1>1, <2>3
    <3>3. /\ rtc.due = ticked.due + kp /\ rtc'.due = rtc.due + (qp + p)
          /\ qp <= cycles - rtc.due
      BY <2>2, <2>3, <3>1, <3>2
    <3>4. rtc'.due = ticked.due + m * p /\ ticked.due + (m - 1) * p <= cycles
      <4> DEFINE mp == m * p
                 lp == (m - 1) * p
      <4>1. mp = kp + qp + p /\ lp = kp + qp /\ kp \in Nat /\ qp \in Nat
        BY <3>2
      <4> HIDE DEF m, kp, qp, mp, lp
      <4>2. rtc'.due = ticked.due + mp /\ ticked.due + lp <= cycles
        BY <1>1, <1>2, <3>3, <4>1
      <4> QED
        BY <4>2 DEF mp, lp
    <3>5. rtc'.sub = (ticked.sub + m) % 256
      <4>1. rtc'.sub = (((ticked.sub + k) % 256) + (q + 1)) % 256
        BY <2>2, <3>1
      <4>2. ticked.sub \in Nat
        BY <1>2
      <4>3. (((ticked.sub + k) % 256) + (q + 1)) % 256 = (ticked.sub + k + (q + 1)) % 256
        BY <2>3, <4>2
      <4> QED
        BY <2>3, <4>1, <4>2, <4>3
    <3> HIDE DEF m
    <3> QED
      BY <3>2, <3>4, <3>5
  <2> QED
    BY <2>4, <2>5 DEF p
<1> QED
  BY <1>4, <1>5, <1>6

LEMMA TickPeriods ==
  ASSUME PeriodsInv, Tick
  PROVE  PeriodsInv'
<1> DEFINE p == NmiPeriod[Hz]
           fires == WdtOn /\ cycles >= nmi
<1>1. /\ workload' = workload /\ regs' = regs /\ slow' = slow /\ cycles' = cycles
      /\ rtc' = TickRtc(rtc)
      /\ nmi' = IF ~WdtOn \/ cycles >= nmi THEN cycles + p ELSE nmi
      /\ ticked' = IF fires
                   THEN [ticked EXCEPT !.at = cycles, !.gap = cycles - ticked.nmi,
                                       !.allowed = ticked.least,
                                       !.nmi = cycles, !.least = p]
                   ELSE [ticked EXCEPT !.at = cycles, !.least = Least(@, p)]
  BY DEF Tick, clockVars
<1>2. p \in Nat \ {0}
  BY ClockIsKnown DEF PeriodsInv, Hz
<1>3. /\ cycles \in Nat /\ nmi \in Int /\ ticked \in TickedShape /\ ticked.nmi <= cycles
      /\ ticked.least = 0 \/ nmi >= ticked.nmi + ticked.least
      /\ ticked.gap >= ticked.allowed
  BY DEF PeriodsInv
<1>4. Hz' = Hz
  BY <1>1 DEF Hz, CpuHz
<1>5. RtcShape(rtc')
  BY <1>1 DEF PeriodsInv, RtcShape, TickRtc
<1> HIDE DEF p
<1>6. CASE fires
  <2>1. ticked' = [ticked EXCEPT !.at = cycles, !.gap = cycles - ticked.nmi,
                                 !.allowed = ticked.least, !.nmi = cycles, !.least = p]
    BY <1>1, <1>6
  <2>2. nmi' = cycles + p
    BY <1>1, <1>6
  <2>3. /\ ticked' \in TickedShape /\ ticked'.at = cycles
        /\ ticked'.due = ticked.due /\ ticked'.sub = ticked.sub
        /\ ticked'.gap = cycles - ticked.nmi /\ ticked'.allowed = ticked.least
        /\ ticked'.nmi = cycles /\ ticked'.least = p
    <3> DEFINE gap == cycles - ticked.nmi
               allowed == ticked.least
    <3>1. ticked' = [ticked EXCEPT !.at = cycles, !.gap = gap, !.allowed = allowed,
                                   !.nmi = cycles, !.least = p]
      BY <2>1
    <3>2. gap \in Int /\ allowed \in Int /\ cycles \in Int /\ p \in Nat
      BY <1>2, <1>3 DEF TickedShape
    <3> HIDE DEF gap, allowed
    <3>3. /\ ticked' \in TickedShape /\ ticked'.at = cycles
          /\ ticked'.due = ticked.due /\ ticked'.sub = ticked.sub
          /\ ticked'.gap = gap /\ ticked'.allowed = allowed
          /\ ticked'.nmi = cycles /\ ticked'.least = p
      BY <1>3, <3>1, <3>2 DEF TickedShape
    <3> QED
      BY <3>3 DEF gap, allowed
  <2>4. /\ ticked'.nmi <= cycles'
        /\ ticked'.least = 0 \/ nmi' >= ticked'.nmi + ticked'.least
        /\ ticked'.gap >= ticked'.allowed
    BY <1>1, <1>2, <1>3, <1>6, <2>2, <2>3 DEF TickedShape
  <2> QED
    BY <1>1, <1>2, <1>3, <1>4, <1>5, <2>2, <2>3, <2>4, TickCounts DEF PeriodsInv, Known
<1>7. CASE ~fires
  <2> DEFINE least == Least(ticked.least, p)
  <2>1. ticked' = [ticked EXCEPT !.at = cycles, !.least = least]
    BY <1>1, <1>7
  <2>2. least \in Nat /\ least <= ticked.least /\ least <= p
    BY <1>2, <1>3 DEF Least, TickedShape
  <2> HIDE DEF least
  <2>3. /\ ticked' \in TickedShape /\ ticked'.at = cycles
        /\ ticked'.due = ticked.due /\ ticked'.sub = ticked.sub
        /\ ticked'.gap = ticked.gap /\ ticked'.allowed = ticked.allowed
        /\ ticked'.nmi = ticked.nmi /\ ticked'.least = least
    <3>1. ticked' = [ticked EXCEPT !.at = cycles, !.least = least] /\ cycles \in Int
          /\ least \in Nat /\ ticked \in TickedShape
      BY <1>3, <2>1, <2>2
    <3> QED
      BY <3>1 DEF TickedShape
  <2>4. nmi' = nmi \/ nmi' = cycles + p
    BY <1>1
  <2>5. /\ ticked'.nmi <= cycles'
        /\ ticked'.least = 0 \/ nmi' >= ticked'.nmi + ticked'.least
        /\ ticked'.gap >= ticked'.allowed
    BY <1>1, <1>2, <1>3, <2>2, <2>3, <2>4 DEF TickedShape
  <2>6. nmi' \in Int
    BY <1>2, <1>3, <2>4
  <2> QED
    BY <1>1, <1>3, <1>4, <1>5, <2>3, <2>5, <2>6, TickCounts DEF PeriodsInv, Known
<1> QED
  BY <1>6, <1>7

\* A store: PWRCTL stays a byte, P07 selects an oscillator.
LEMMA StoreKeepsClockBytes ==
  ASSUME PeriodsInv, NEW a \in IoArea, NEW size \in Sizes, NEW v \in Halfwords,
         size = 1 => v < 256, Store(a, size, v)
  PROVE  regs'[PWRCTL] \in 0 .. 255 /\ slow' \in BOOLEAN
<1>1. PWRCTL \in Registers /\ PWRCTL \notin SETMI .. SETDAYH
  BY ClockRegistersAre
<1>2. regs'[PWRCTL] = Stored(a, size, v)[PWRCTL]
  BY <1>1, RegsOfStore
<1>3. PWRCTL \in DOMAIN OnBus(a, size, v) => OnBus(a, size, v)[PWRCTL] \in 0 .. 255
  <2>1. CASE size = 1
    BY <2>1, BytesAre DEF OnBus
  <2>2. CASE size = 2
    <3>1. v % 256 \in 0 .. 255 /\ v \div 256 \in 0 .. 255
      BY BytesAre
    <3> QED
      BY <2>2, <3>1 DEF OnBus
  <2> QED
    BY <2>1, <2>2 DEF Sizes
<1>4. regs'[PWRCTL] \in 0 .. 255
  BY <1>1, <1>2, <1>3, StoredIs DEF PeriodsInv
<1>5. slow' \in BOOLEAN
  BY DEF Store, UpdateClock, PeriodsInv
<1> QED
  BY <1>4, <1>5

\* A store leaves the prescaler alone but for what runs it again, which it is
\* anchored at; so it is where the clock changes.
LEMMA StorePeriods ==
  ASSUME PeriodsInv, GuestStore
  PROVE  PeriodsInv'
<1>1. PICK a \in IoArea, size \in Sizes, v \in Halfwords :
        (size = 1 => v < 256) /\ Store(a, size, v)
  BY DEF GuestStore
<1> DEFINE anchored == RTCSTOP \in Reached(a, size) \/ Hz' # Hz
<1>2. /\ cycles' = cycles /\ nmi' = nmi /\ workload' = workload
      /\ ticked' = IF anchored THEN [ticked EXCEPT !.due = rtc'.due, !.sub = rtc'.sub]
                   ELSE ticked
  BY <1>1 DEF Store, Hz
<1>3. regs'[PWRCTL] \in 0 .. 255 /\ slow' \in BOOLEAN
  BY <1>1, StoreKeepsClockBytes
<1>4. RtcShape(rtc') /\ rtc'.due = rtc.due /\ rtc'.sub \in 0 .. 255
  <2>1. rtc' = rtc \/ WriteRtcstop(Stored(a, size, v))
    BY <1>1 DEF Store
  <2>2. ASSUME NEW c, RtcShape(c), c.due = rtc.due, c.sub \in 0 .. 255, NEW r
        PROVE  RtcShape(Run(c, r)) /\ Run(c, r).due = rtc.due /\ Run(c, r).sub \in 0 .. 255
    <3> DEFINE o == SetTime(r) - host
    <3>1. Run(c, r) = [c EXCEPT !.offset = o, !.sub = 0, !.frozen = FALSE]
      BY DEF Run
    <3>2. c = [offset |-> c.offset, frozen |-> c.frozen, frozenAt |-> c.frozenAt,
               sub |-> c.sub, due |-> c.due]
      BY <2>2 DEF RtcShape
    <3> HIDE DEF o
    <3>3. Run(c, r) = [offset |-> o, frozen |-> FALSE, frozenAt |-> c.frozenAt,
                       sub |-> 0, due |-> c.due]
      BY <3>1, <3>2
    <3> QED
      BY <2>2, <3>3 DEF RtcShape
  <2>3. RtcShape(StopRtc(rtc)) /\ StopRtc(rtc).due = rtc.due /\ StopRtc(rtc).sub \in 0 .. 255
    BY DEF PeriodsInv, RtcShape, StopRtc
  <2>4. RtcShape(rtc) /\ rtc.sub \in 0 .. 255
    BY DEF PeriodsInv
  <2>5. ASSUME WriteRtcstop(Stored(a, size, v))
        PROVE  \E c \in {rtc, StopRtc(rtc)} : rtc' = c \/ \E r : rtc' = Run(c, r)
    BY <2>5, Zenon DEF WriteRtcstop
  <2> QED
    BY <2>1, <2>2, <2>3, <2>4, <2>5
<1>5. CASE anchored
  <2>1. /\ ticked' \in TickedShape /\ ticked'.due = rtc'.due /\ ticked'.sub = rtc'.sub
        /\ ticked'.at = ticked.at /\ ticked'.nmi = ticked.nmi
        /\ ticked'.least = ticked.least /\ ticked'.gap = ticked.gap
        /\ ticked'.allowed = ticked.allowed
    BY <1>2, <1>4, <1>5 DEF PeriodsInv, TickedShape
  <2>2. \E k \in Nat :
          /\ rtc'.due = ticked'.due + k * Period[Hz']
          /\ rtc'.sub = (ticked'.sub + k) % 256
          /\ k > 0 => ticked'.due + (k - 1) * Period[Hz'] <= cycles'
    <3>1. Period[Hz'] \in Nat \ {0}
      BY <1>3, ClockIsKnown DEF Hz
    <3>2. 0 * Period[Hz'] = 0
      BY <3>1
    <3>3. rtc'.due = ticked'.due + 0 * Period[Hz'] /\ rtc'.sub = (ticked'.sub + 0) % 256
      BY <1>4, <2>1, <3>2 DEF PeriodsInv
    <3> QED
      BY <3>3
  <2> QED
    BY <1>2, <1>3, <1>4, <2>1, <2>2 DEF PeriodsInv, Known
<1>6. CASE ~anchored
  <2>1. Hz' = Hz /\ ticked' = ticked /\ RTCSTOP \notin Reached(a, size)
    BY <1>2, <1>6
  <2>2. rtc' = rtc /\ regs' = Stored(a, size, v)
    BY <1>1, <2>1 DEF Store
  <2>3. regs'[RTCSTOP] = regs[RTCSTOP]
    BY <2>1, <2>2, RtcstopIs DEF Stored
  <2> QED
    BY <1>2, <1>3, <2>1, <2>2, <2>3 DEF PeriodsInv, Known
<1> QED
  BY <1>5, <1>6

LEMMA ClearedClock ==
  /\ Cleared[PWRCTL] = 0 /\ Cleared[RTCSTOP] = 1 /\ PWRCTL \notin PortRegisters
  /\ RTCSTOP \notin PortRegisters
  /\ RtcShape(RtcStart) /\ RtcStart.due \in Nat \ {0} /\ RtcStart.sub = 0
<1>1. PWRCTL \in Registers /\ RTCSTOP \in Registers
  BY ClockRegistersAre, RtcstopIs
<1>2. PWRCTL = 384 /\ RTCSTOP = 337 /\ P0D = 721
  BY DEF PWRCTL, RTCSTOP, P0D
<1>3. Cleared[PWRCTL] = 0 /\ Cleared[RTCSTOP] = 1
  BY <1>1, <1>2 DEF Cleared
<1>4. Cleared[PWRCTL] \in 0 .. 255
  BY <1>3
<1>5. Period[CpuHz(Cleared, TRUE)] \in Nat \ {0}
  BY <1>4, ClockIsKnown, Zenon
<1>6. RtcStart.due = Period[CpuHz(Cleared, TRUE)] /\ RtcStart.sub = 0 /\ RtcShape(RtcStart)
  BY DEF RtcShape, RtcStart
<1>7. PWRCTL \notin PortRegisters /\ RTCSTOP \notin PortRegisters
  BY <1>2 DEF PortRegisters
<1> QED
  BY <1>3, <1>5, <1>6, <1>7, Zenon

LEMMA ResetPeriods ==
  ASSUME PeriodsInv, NEW cold \in BOOLEAN, Reset(cold)
  PROVE  PeriodsInv'
<1>1. /\ workload' = workload /\ cycles' = cycles /\ nmi' = 0 /\ rtc' = RtcStart
      /\ slow' = TRUE
      /\ ticked' = [ticked EXCEPT !.at = -1, !.due = RtcStart.due, !.sub = 0, !.least = 0]
  BY DEF Reset
<1>2. regs'[PWRCTL] = 0
  BY ClearedClock, ClockRegistersAre DEF Reset
<1>3. /\ ticked' \in TickedShape /\ ticked'.at = -1 /\ ticked'.due = RtcStart.due
      /\ ticked'.sub = 0 /\ ticked'.least = 0 /\ ticked'.nmi = ticked.nmi
      /\ ticked'.gap = ticked.gap /\ ticked'.allowed = ticked.allowed
  <2> DEFINE d == RtcStart.due
             minus == -1
  <2>1. ticked' = [ticked EXCEPT !.at = minus, !.due = d, !.sub = 0, !.least = 0]
    BY <1>1
  <2>2. d \in Int /\ minus \in Int /\ 0 \in 0 .. 255 /\ 0 \in Nat /\ ticked \in TickedShape
    BY ClearedClock DEF PeriodsInv
  <2> HIDE DEF d, minus
  <2>3. /\ ticked' \in TickedShape /\ ticked'.at = minus /\ ticked'.due = d
        /\ ticked'.sub = 0 /\ ticked'.least = 0 /\ ticked'.nmi = ticked.nmi
        /\ ticked'.gap = ticked.gap /\ ticked'.allowed = ticked.allowed
    BY <2>1, <2>2 DEF TickedShape
  <2> QED
    BY <2>3 DEF d, minus
<1>4. \E k \in Nat :
        /\ rtc'.due = ticked'.due + k * Period[Hz']
        /\ rtc'.sub = (ticked'.sub + k) % 256
        /\ k > 0 => ticked'.due + (k - 1) * Period[Hz'] <= cycles'
  <2>1. Period[Hz'] \in Nat \ {0}
    <3>1. regs'[PWRCTL] \in 0 .. 255 /\ slow' \in BOOLEAN
      BY <1>1, <1>2
    <3> QED
      BY <3>1, ClockIsKnown, Zenon DEF Hz
  <2>2. 0 * Period[Hz'] = 0
    BY <2>1
  <2>3. rtc'.due = ticked'.due + 0 * Period[Hz'] /\ rtc'.sub = (ticked'.sub + 0) % 256
    BY <1>1, <1>3, <2>2, ClearedClock
  <2> QED
    BY <2>3
<1>5. /\ regs'[PWRCTL] \in 0 .. 255 /\ slow' \in BOOLEAN /\ nmi' \in Int
      /\ RtcShape(rtc') /\ rtc'.due \in Int /\ rtc'.sub \in 0 .. 255
  BY <1>1, <1>2, ClearedClock
<1>6. /\ Known' /\ cycles' \in Nat
      /\ ticked'.at <= cycles' /\ ticked'.at # cycles' /\ ticked'.nmi <= cycles'
      /\ ticked'.gap >= ticked'.allowed
  BY <1>1, <1>3 DEF PeriodsInv, Known
<1> QED
  BY <1>3, <1>4, <1>5, <1>6 DEF PeriodsInv

LEMMA PeriodsStep == PeriodsInv /\ [Next]_vars => PeriodsInv'
<1> SUFFICES ASSUME PeriodsInv, [Next]_vars PROVE PeriodsInv'
  OBVIOUS
<1>1. CASE UNCHANGED <<workload, regs, slow, rtc, cycleVars>>
  BY <1>1 DEF cycleVars, PeriodsInv, Known, Hz
<1>2. CASE Elapse
  <2>1. /\ cycles' = cycles + 1
        /\ UNCHANGED <<workload, regs, slow, rtc, nmi, ticked>>
    BY <1>2 DEF Elapse, clockVars, rtcVars
  <2>2. cycles \in Nat /\ ticked.at \in Int /\ ticked.at <= cycles /\ ticked.due \in Int
        /\ ticked.nmi \in Int
    BY DEF PeriodsInv, TickedShape
  <2>3. ticked'.at <= cycles' /\ ticked'.at # cycles' /\ cycles' \in Nat
        /\ ticked'.nmi <= cycles'
    BY <2>1, <2>2 DEF PeriodsInv
  <2>4. Bit(regs'[RTCSTOP], 1) = 0 =>
          \E k \in Nat :
            /\ rtc'.due = ticked'.due + k * Period[Hz']
            /\ rtc'.sub = (ticked'.sub + k) % 256
            /\ k > 0 => ticked'.due + (k - 1) * Period[Hz'] <= cycles'
    <3>1. Hz' = Hz /\ Period[Hz] \in Nat
      BY <2>1, ClockIsKnown DEF Hz, PeriodsInv
    <3> QED
      BY <2>1, <2>2, <3>1 DEF PeriodsInv
  <2> QED
    BY <2>1, <2>3, <2>4 DEF PeriodsInv, Known
<1>3. CASE UNCHANGED vars \/ ReadTime \/ HostSecond \/ PollButtons
  BY <1>1, <1>3 DEF vars, clockVars, rtcVars, ReadTime, HostSecond, PollButtons
<1>4. CASE HostInput
  BY <1>1, <1>4, InputLeaves DEF clockVars, rtcVars
<1>5. CASE \E t \in Timers : Consult(t)
  BY <1>1, <1>5 DEF Consult, rtcVars
<1>6. Known
  BY DEF PeriodsInv
<1> QED
  BY <1>2, <1>3, <1>4, <1>5, <1>6, ResetPeriods, StorePeriods, TickPeriods, Steps, Zenon

\* However late the ticks and however the CPU clock changes, the prescaler has
\* counted every period of the clock since the last change, and two NMIs of the
\* watchdog are at least the shortest of their periods apart.
THEOREM PeriodsAreKept == Spec => []PeriodsHold
<1>1. Init => PeriodsInv
  <2> SUFFICES ASSUME Init PROVE PeriodsInv
    OBVIOUS
  <2>1. /\ regs = Cleared /\ slow = TRUE /\ rtc = RtcStart /\ cycles = 0 /\ nmi = 0
        /\ ticked = [at |-> 0, due |-> RtcStart.due, sub |-> 0,
                     nmi |-> 0, least |-> 0, gap |-> 0, allowed |-> 0]
        /\ Known
    BY DEF Init, Known
  <2>2. ticked \in TickedShape
    <3> DEFINE d == RtcStart.due
    <3>1. ticked = [at |-> 0, due |-> d, sub |-> 0, nmi |-> 0, least |-> 0, gap |-> 0,
                    allowed |-> 0]
      BY <2>1
    <3>2. d \in Int /\ 0 \in 0 .. 255
      BY ClearedClock
    <3> HIDE DEF d
    <3> QED
      BY <3>1, <3>2 DEF TickedShape
  <2>3. Period[Hz] \in Nat \ {0}
    <3>1. regs[PWRCTL] \in 0 .. 255 /\ slow \in BOOLEAN
      BY <2>1, ClearedClock
    <3> QED
      BY <3>1, ClockIsKnown, Zenon DEF Hz
  <2>4. 0 * Period[Hz] = 0
    BY <2>3
  <2>5. rtc.due = ticked.due + 0 * Period[Hz] /\ rtc.sub = (ticked.sub + 0) % 256
    BY <2>1, <2>4, ClearedClock
  <2>6. \E k \in Nat :
          /\ rtc.due = ticked.due + k * Period[Hz]
          /\ rtc.sub = (ticked.sub + k) % 256
          /\ k > 0 => ticked.due + (k - 1) * Period[Hz] <= cycles
    BY <2>5
  <2> QED
    BY <2>1, <2>2, <2>6, ClearedClock DEF PeriodsInv
<1> QED
  BY <1>1, PeriodsShown, PeriodsStep, PTL DEF Spec

-----------------------------------------------------------------------------
(* The clock timer.                                                        *)

\* The registers of the time.
LEMMA TimeRegisters ==
  /\ RTCSTOP = 337 /\ SETMI = 341 /\ SETHH = 342 /\ SETDAYL = 343 /\ SETDAYH = 344
  /\ Day = 86400
  /\ {RTCSTOP, SETMI, SETHH, SETDAYL, SETDAYH} \subseteq Registers
BY DEF RTCSTOP, SETMI, SETHH, SETDAYL, SETDAYH, Day, Registers, Pairs, HighOnly

\* The two bytes of a day's number.
LEMMA DayBytes ==
  ASSUME NEW d \in Nat
  PROVE  ((d \div 256) % 256) * 256 + (d % 256) = d % 65536
OBVIOUS

\* The hours, minutes and seconds of a day.
LEMMA DayParts ==
  ASSUME NEW t \in Nat
  PROVE  ((t % 86400) \div 3600) * 3600 + ((t % 3600) \div 60) * 60 + (t % 60) = t % 86400
<1> DEFINE h == (t % 86400) \div 3600
<1>1. t % 86400 = h * 3600 + ((t % 86400) % 3600)
  OBVIOUS
<1>2. (t % 86400) % 3600 = t % 3600
  OBVIOUS
<1>3. t % 3600 = ((t % 3600) \div 60) * 60 + ((t % 3600) % 60)
  OBVIOUS
<1>4. (t % 3600) % 60 = t % 60
  OBVIOUS
<1>5. h \in Nat /\ t % 86400 \in Nat /\ t % 3600 \in Nat /\ t % 60 \in Nat
      /\ (t % 3600) \div 60 \in Nat
  OBVIOUS
<1> HIDE DEF h
<1> QED
  BY <1>1, <1>2, <1>3, <1>4, <1>5 DEF h

\* What the set registers hold of a time.
Holds(r, t) ==
  /\ r[SETHH] = (t % Day) \div 3600 /\ r[SETMI] = (t % 3600) \div 60
  /\ r[SETDAYL] = (t \div Day) % 256 /\ r[SETDAYH] = ((t \div Day) \div 256) % 256

\* They hold all of it but its seconds.
LEMMA SetTimeOf ==
  ASSUME NEW r, NEW t \in Nat, Holds(r, t)
  PROVE  SetTime(r) = In16Bits(t) - (t % 60)
<1> DEFINE d == t \div 86400
           h == ((t % 86400) \div 3600) * 3600
           mi == ((t % 3600) \div 60) * 60
<1>1. d \in Nat /\ h \in Nat /\ mi \in Nat /\ t % 60 \in Nat /\ t % 86400 \in Nat
      /\ d % 65536 \in Nat
  OBVIOUS
<1>2. SetTime(r) = (((d \div 256) % 256) * 256 + (d % 256)) * 86400 + h + mi
  BY TimeRegisters DEF SetTime, Holds
<1>3. ((d \div 256) % 256) * 256 + (d % 256) = d % 65536
  BY <1>1, DayBytes
<1>4. h + mi + (t % 60) = t % 86400
  BY DayParts
<1>5. In16Bits(t) = (d % 65536) * 86400 + (t % 86400)
  BY TimeRegisters DEF In16Bits
<1>6. SetTime(r) = (d % 65536) * 86400 + h + mi
  BY <1>2, <1>3
<1> HIDE DEF d, h, mi
<1> QED
  BY <1>1, <1>4, <1>5, <1>6

\* STOP latches the time in them, and they are all it latches in.
LEMMA LatchedHolds ==
  ASSUME NEW r \in [Registers -> Nat], NEW t \in Nat
  PROVE  /\ Latched(r, t) \in [Registers -> Nat]
         /\ Holds(Latched(r, t), t)
         /\ Latched(r, t)[RTCSTOP] = r[RTCSTOP]
<1> DEFINE hh == (t % Day) \div 3600
           mm == (t % 3600) \div 60
           dl == (t \div Day) % 256
           dh == ((t \div Day) \div 256) % 256
<1>1. hh \in Nat /\ mm \in Nat /\ dl \in Nat /\ dh \in Nat
  BY TimeRegisters
<1>2. Latched(r, t) = [r EXCEPT ![SETHH] = hh, ![SETMI] = mm, ![SETDAYL] = dl, ![SETDAYH] = dh]
  BY DEF Latched
<1>3. Holds(Latched(r, t), t) <=>
        /\ Latched(r, t)[SETHH] = hh /\ Latched(r, t)[SETMI] = mm
        /\ Latched(r, t)[SETDAYL] = dl /\ Latched(r, t)[SETDAYH] = dh
  BY DEF Holds
<1> HIDE DEF hh, mm, dl, dh
<1> QED
  BY <1>1, <1>2, <1>3, TimeRegisters

\* A reading of the clock, a halfword at a time.
Part(t, i) ==
  IF i = 1 THEN <<t % 60, (t % 3600) \div 60>>
  ELSE IF i = 2 THEN <<(t % Day) \div 3600, (t \div Day) % 256>>
  ELSE <<((t \div Day) \div 256) % 256, 0>>

\* The three halfwords say the time.
LEMMA ReadWhole ==
  ASSUME NEW t \in Nat, read[1] = Part(t, 1), read[2] = Part(t, 2), read[3] = Part(t, 3)
  PROVE  TimeRead = In16Bits(t)
<1> DEFINE d == t \div 86400
           h == ((t % 86400) \div 3600) * 3600
           mi == ((t % 3600) \div 60) * 60
<1>1. d \in Nat /\ h \in Nat /\ mi \in Nat /\ t % 60 \in Nat /\ t % 86400 \in Nat
      /\ d % 65536 \in Nat
  OBVIOUS
<1>2. TimeRead = (((d \div 256) % 256) * 256 + (d % 256)) * 86400 + h + mi + (t % 60)
  BY TimeRegisters DEF TimeRead, Part
<1>3. ((d \div 256) % 256) * 256 + (d % 256) = d % 65536
  BY <1>1, DayBytes
<1>4. h + mi + (t % 60) = t % 86400
  BY DayParts
<1>5. In16Bits(t) = (d % 65536) * 86400 + (t % 86400)
  BY TimeRegisters DEF In16Bits
<1>6. TimeRead = (d % 65536) * 86400 + h + mi + (t % 60)
  BY <1>2, <1>3
<1> HIDE DEF d, h, mi
<1> QED
  BY <1>1, <1>4, <1>5, <1>6

LastShape == [set : Nat, at : Nat, stop : Nat, touched : BOOLEAN, kept : BOOLEAN]
Stopped(r) == Bit(r[RTCSTOP], 1) = 1

\* What the history says of the clock's own state: a running clock is ahead of
\* the host's by what it was set ahead; a stopped one stands at the time of the
\* stop, which the set registers hold until a store touches them and which the
\* halfwords read so far are from.
RtcInv ==
  /\ Known
  /\ regs \in [Registers -> Nat] /\ host \in Nat /\ last \in LastShape
  /\ last.at <= host
  /\ rtc = [offset |-> rtc.offset, frozen |-> rtc.frozen, frozenAt |-> rtc.frozenAt,
            sub |-> rtc.sub, due |-> rtc.due]
  /\ ~Stopped(regs) => ~rtc.frozen /\ rtc.offset = last.set - last.at
  /\ Stopped(regs) =>
       /\ rtc.frozen /\ rtc.frozenAt = last.stop
       /\ ~last.touched => Holds(regs, last.stop)
       /\ \A i \in 1 .. Len(read) : i <= 3 => read[i] = Part(last.stop, i)
  /\ read \in Seq(Int \X Int)
  /\ last.kept => last.set = In16Bits(last.stop) - (last.stop % 60)

\* STOP and RUN in a byte.
LEMMA BitIs ==
  ASSUME NEW v \in Nat
  PROVE  /\ Bit(v, 1) = (v \div 2) % 2 /\ Bit(v, 0) = v % 2
         /\ Bit(v, 1) \in {0, 1} /\ Bit(v, 0) \in {0, 1}
         /\ v % 4 = 1 => Bit(v, 1) = 0 /\ Bit(v, 0) = 1
         /\ v % 4 = 2 => Bit(v, 1) = 1 /\ Bit(v, 0) = 0
<1>1. 2 ^ 1 = 2 /\ 2 ^ 0 = 1
  OBVIOUS
<1> QED
  BY <1>1 DEF Bit

\* Such a clock keeps the time.
LEMMA RtcShown == RtcInv => RtcKeepsTime
<1> SUFFICES ASSUME RtcInv PROVE RtcKeepsTime
  OBVIOUS
<1>1. regs[RTCSTOP] \in Nat
  BY TimeRegisters DEF RtcInv
<1>2. Bit(regs[RTCSTOP], 1) \in {0, 1}
  BY <1>1, BitIs
<1>3. ASSUME Bit(regs[RTCSTOP], 1) = 0 PROVE Current = last.set + (host - last.at)
  BY <1>3 DEF RtcInv, Stopped, Current, LastShape
<1>4. ASSUME Bit(regs[RTCSTOP], 1) = 1
      PROVE  Current = last.stop /\ (Len(read) = 3 => TimeRead = In16Bits(last.stop))
  <2>1. Current = last.stop /\ last.stop \in Nat
    BY <1>4 DEF RtcInv, Stopped, Current, LastShape
  <2>2. ASSUME Len(read) = 3
        PROVE  read[1] = Part(last.stop, 1) /\ read[2] = Part(last.stop, 2)
               /\ read[3] = Part(last.stop, 3)
    BY <1>4, <2>2 DEF RtcInv, Stopped
  <2> QED
    BY <2>1, <2>2, ReadWhole
<1> QED
  BY <1>3, <1>4 DEF RtcInv, RtcKeepsTime

\* A guest's store in one of its workloads, that stops or runs the clock.
RtcStore(a, size, v) ==
  /\ size = 1 => v < 256
  /\ Store(a, size, v)
  /\ RTCSTOP \in Reached(a, size) => Stored(a, size, v)[RTCSTOP] % 4 \in {1, 2}

\* A store of a guest that stops with 2 and runs with 1 is such a store.
LEMMA StoresOfRtcGuests ==
  ASSUME RtcGuests, Known, NEW st \in Stores[workload], Store(st[1], st[2], st[3])
  PROVE  \E a \in IoArea, size \in Sizes, v \in Halfwords : RtcStore(a, size, v)
<1>1. st \in GuestStores
  BY StoresAssumption DEF Known
<1>2. /\ st[1] \in IoArea /\ st[2] \in Sizes /\ st[3] \in Halfwords
      /\ st[2] = 1 => st[3] < 256
  BY <1>1, GuestStoresAre
<1>3. ASSUME RTCSTOP \in Reached(st[1], st[2])
      PROVE  Stored(st[1], st[2], st[3])[RTCSTOP] % 4 \in {1, 2}
  <2> DEFINE bytes == OnBus(st[1], st[2], st[3])
  <2>1. RTCSTOP \in DOMAIN bytes
    BY <1>2, <1>3, ReachedIsAddressed, RtcstopIs DEF OnBus
  <2>2. bytes[RTCSTOP] % 4 \in {1, 2}
    BY <2>1 DEF RtcGuests, Known
  <2>3. Stored(st[1], st[2], st[3])[RTCSTOP] = bytes[RTCSTOP]
    <3> HIDE DEF bytes
    <3> QED
      BY <1>2, <2>1, StoredIs, RtcstopIs DEF bytes
  <2> QED
    BY <2>2, <2>3
<1>4. RtcStore(st[1], st[2], st[3])
  BY <1>2, <1>3 DEF RtcStore
<1> QED
  BY <1>2, <1>4, Zenon

\* What a store leaves in the registers.
LEMMA StoredIsTyped ==
  ASSUME NEW a \in IoArea, NEW size \in Sizes, NEW v \in Halfwords,
         regs \in [Registers -> Nat]
  PROVE  /\ Stored(a, size, v) \in [Registers -> Nat]
         /\ \A x \in Registers :
              Stored(a, size, v)[x] =
                IF x \in Reached(a, size) THEN ByteFor(a, size, v, x) ELSE regs[x]
<1>1. \A x \in Registers : ByteFor(a, size, v, x) \in Nat
  BY DEF ByteFor, Halfwords, Sizes
<1> QED
  BY <1>1 DEF Stored

\* A store beside RTCSTOP: the clock stays; the set registers do, unless touched.
LEMMA StoreBesideRtc ==
  ASSUME RtcInv, NEW a \in IoArea, NEW size \in Sizes, NEW v \in Halfwords,
         Store(a, size, v), RTCSTOP \notin Reached(a, size)
  PROVE  RtcInv'
<1> DEFINE new == Stored(a, size, v)
           touches == Reached(a, size) \cap SETMI .. SETDAYH # {}
<1>1. /\ new \in [Registers -> Nat]
      /\ \A x \in Registers : x \notin Reached(a, size) => new[x] = regs[x]
  BY StoredIsTyped DEF RtcInv
<1>2. /\ workload' = workload /\ host' = host /\ regs' = new /\ rtc' = rtc /\ read' = read
      /\ last' = [last EXCEPT !.touched = @ \/ touches]
  BY DEF Store
<1> HIDE DEF new
<1>3. /\ last' \in LastShape
      /\ last'.set = last.set /\ last'.at = last.at /\ last'.stop = last.stop
      /\ last'.kept = last.kept /\ last'.touched = (last.touched \/ touches)
  <2> HIDE DEF touches
  <2>1. last \in LastShape /\ last.touched \in BOOLEAN /\ touches \in BOOLEAN
    BY DEF RtcInv, LastShape, touches
  <2> QED
    BY <1>2, <2>1 DEF LastShape
<1>4. Stopped(regs') = Stopped(regs)
  BY <1>1, <1>2, TimeRegisters DEF Stopped
<1>5. ASSUME ~last'.touched, Stopped(regs') PROVE Holds(regs', last'.stop)
  <2>1. Holds(regs, last.stop)
    BY <1>3, <1>4, <1>5 DEF RtcInv
  <2>2. \A x \in {SETMI, SETHH, SETDAYL, SETDAYH} : x \in Registers /\ x \notin Reached(a, size)
    <3>1. Reached(a, size) \cap SETMI .. SETDAYH = {}
      BY <1>3, <1>5
    <3>2. {SETMI, SETHH, SETDAYL, SETDAYH} \subseteq SETMI .. SETDAYH
      BY TimeRegisters
    <3>3. {SETMI, SETHH, SETDAYL, SETDAYH} \subseteq Registers
      BY TimeRegisters
    <3> HIDE DEF touches
    <3> QED
      BY <3>1, <3>2, <3>3
  <2>3. \A x \in {SETMI, SETHH, SETDAYL, SETDAYH} : regs'[x] = regs[x]
    BY <1>1, <1>2, <2>2
  <2> QED
    BY <1>3, <2>1, <2>3 DEF Holds
<1>6. Known'
  BY <1>2 DEF RtcInv, Known
<1> QED
  BY <1>1, <1>2, <1>3, <1>4, <1>5, <1>6 DEF RtcInv

\* RTCSTOP is stored to: 2 stops the clock, 1 runs it.
LEMMA StoreOfRtc ==
  ASSUME RtcInv, NEW a \in IoArea, NEW size \in Sizes, NEW v \in Halfwords,
         RtcStore(a, size, v), RTCSTOP \in Reached(a, size)
  PROVE  RtcInv'
<1> DEFINE new == Stored(a, size, v)
<1>1. /\ new \in [Registers -> Nat]
      /\ new[RTCSTOP] % 4 \in {1, 2}
      /\ \A x \in SETMI .. SETDAYH : x \in Registers => new[x] = regs[x]
  <2>1. new \in [Registers -> Nat]
        /\ \A x \in Registers : x \notin Reached(a, size) => new[x] = regs[x]
    BY StoredIsTyped DEF RtcInv
  <2>2. ASSUME NEW x \in SETMI .. SETDAYH, x \in Registers PROVE x \notin Reached(a, size)
    <3>1. RTCSTOP \in (IF size = 1 THEN {a} ELSE {Slot(a), Slot(a) + 1})
      BY RtcstopIs, ReachedIsAddressed
    <3>2. x \notin (IF size = 1 THEN {a} ELSE {Slot(a), Slot(a) + 1})
      BY <3>1, AddressIs, TimeRegisters
    <3> QED
      BY <2>2, <3>2, ReachedIsAddressed
  <2> QED
    BY <2>1, <2>2 DEF RtcStore
<1>2. /\ workload' = workload /\ host' = host /\ WriteRtcstop(new)
  BY DEF Store, RtcStore
<1>3. read' = << >> /\ Known'
  BY <1>2 DEF WriteRtcstop, RtcInv, Known
<1> HIDE DEF new
<1>4. new[RTCSTOP] \in Nat /\ regs[RTCSTOP] \in Nat
  BY <1>1, TimeRegisters DEF RtcInv
<1>5. Stopped(regs) <=> Bit(regs[RTCSTOP], 1) = 1
  BY DEF Stopped
<1>6. CASE new[RTCSTOP] % 4 = 2
  <2>1. Bit(new[RTCSTOP], 1) = 1 /\ Bit(new[RTCSTOP], 0) = 0
    BY <1>4, <1>6, BitIs
  <2> DEFINE stopped == StopRtc(rtc)
             now == IF Stopped(regs) THEN last.stop ELSE last.set + host - last.at
  <2>2. /\ regs' = Latched(new, stopped.frozenAt) /\ rtc' = stopped
        /\ last' = IF Bit(regs[RTCSTOP], 1) = 0
                   THEN [last EXCEPT !.stop = last.set + host - last.at,
                                     !.touched = FALSE, !.kept = FALSE]
                   ELSE last
    BY <1>2, <2>1 DEF WriteRtcstop
  <2>3. /\ stopped.frozen /\ stopped.frozenAt = now
        /\ stopped = [offset |-> stopped.offset, frozen |-> stopped.frozen,
                      frozenAt |-> stopped.frozenAt, sub |-> stopped.sub, due |-> stopped.due]
    <3>1. CASE Stopped(regs)
      <4>1. stopped = rtc
        BY <3>1 DEF StopRtc, Stopped
      <4>2. /\ rtc.frozen /\ rtc.frozenAt = last.stop
            /\ rtc = [offset |-> rtc.offset, frozen |-> rtc.frozen, frozenAt |-> rtc.frozenAt,
                      sub |-> rtc.sub, due |-> rtc.due]
        BY <3>1 DEF RtcInv
      <4>3. now = last.stop
        BY <3>1
      <4> HIDE DEF stopped, now
      <4> QED
        BY <4>1, <4>2, <4>3
    <3>2. CASE ~Stopped(regs)
      <4>1. rtc.offset = last.set - last.at /\ host \in Nat /\ last.set \in Nat /\ last.at \in Nat
        BY <3>2 DEF RtcInv, LastShape
      <4>2. stopped = [rtc EXCEPT !.frozen = TRUE, !.frozenAt = host + rtc.offset]
        BY <3>2 DEF StopRtc, Stopped
      <4>3. rtc = [offset |-> rtc.offset, frozen |-> rtc.frozen, frozenAt |-> rtc.frozenAt,
                   sub |-> rtc.sub, due |-> rtc.due]
        BY DEF RtcInv
      <4>4. now = host + rtc.offset
        BY <3>2, <4>1
      <4> HIDE DEF stopped, now
      <4>5. stopped = [offset |-> rtc.offset, frozen |-> TRUE, frozenAt |-> now,
                       sub |-> rtc.sub, due |-> rtc.due]
        BY <4>2, <4>3, <4>4
      <4> QED
        BY <4>5
    <3> QED
      BY <3>1, <3>2
  <2>4. now \in Nat
    BY DEF RtcInv, LastShape
  <2>5. /\ regs' \in [Registers -> Nat] /\ Holds(regs', now) /\ Stopped(regs')
    <3>1. regs' = Latched(new, now)
      BY <2>2, <2>3
    <3> HIDE DEF now
    <3> QED
      BY <1>1, <2>1, <2>4, <3>1, LatchedHolds DEF Stopped
  <2>6. /\ last' \in LastShape /\ last'.stop = now /\ last'.at = last.at
        /\ last'.kept => last.kept /\ last'.set = last.set /\ last'.stop = last.stop
    <3>1. CASE Stopped(regs)
      <4>1. last' = last
        BY <1>5, <2>2, <3>1
      <4> QED
        BY <3>1, <4>1 DEF RtcInv
    <3>2. CASE ~Stopped(regs)
      <4>1. Bit(regs[RTCSTOP], 1) = 0
        BY <1>4, <1>5, <3>2, BitIs
      <4>2. last' = [last EXCEPT !.stop = now, !.touched = FALSE, !.kept = FALSE]
        BY <2>2, <3>2, <4>1
      <4> HIDE DEF now
      <4>3. last \in LastShape
        BY DEF RtcInv
      <4> QED
        BY <2>4, <4>2, <4>3 DEF LastShape
    <3> QED
      BY <3>1, <3>2
  <2> HIDE DEF now, stopped
  <2>7. rtc'.frozen /\ rtc'.frozenAt = last'.stop
        /\ rtc' = [offset |-> rtc'.offset, frozen |-> rtc'.frozen, frozenAt |-> rtc'.frozenAt,
                   sub |-> rtc'.sub, due |-> rtc'.due]
    BY <2>2, <2>3, <2>6
  <2>8. last'.kept => last'.set = In16Bits(last'.stop) - (last'.stop % 60)
    BY <2>6 DEF RtcInv
  <2>9. host' \in Nat /\ last'.at <= host' /\ read' \in Seq(Int \X Int) /\ Len(read') = 0
    BY <1>2, <1>3, <2>6 DEF RtcInv
  <2> QED
    BY <1>3, <2>5, <2>6, <2>7, <2>8, <2>9 DEF RtcInv
<1>7. CASE new[RTCSTOP] % 4 = 1
  <2>1. Bit(new[RTCSTOP], 1) = 0 /\ Bit(new[RTCSTOP], 0) = 1
    BY <1>4, <1>7, BitIs
  <2>2. regs' = new /\ regs' \in [Registers -> Nat] /\ ~Stopped(regs')
    BY <1>1, <1>2, <2>1 DEF WriteRtcstop, Stopped
  <2>3. CASE ~Stopped(regs)
    <3>1. rtc' = rtc /\ last' = last
      BY <1>2, <1>5, <2>1, <2>3 DEF WriteRtcstop
    <3> QED
      BY <1>2, <1>3, <2>2, <2>3, <3>1 DEF RtcInv
  <2>4. CASE Stopped(regs)
    <3> DEFINE t == SetTime(new)
    <3>1. /\ rtc' = [rtc EXCEPT !.offset = t - host, !.sub = 0, !.frozen = FALSE]
          /\ last' = [last EXCEPT !.set = t, !.at = host, !.kept = ~last.touched]
      <4>1. Bit(regs[RTCSTOP], 1) = 1
        BY <1>5, <2>4
      <4>2. rtc' = Run(rtc, new)
        BY <1>2, <2>1, <4>1 DEF WriteRtcstop
      <4>3. last' = [last EXCEPT !.set = t, !.at = host, !.kept = ~last.touched]
        <5>1. Bit(new[RTCSTOP], 1) # 1
          BY <2>1
        <5> QED
          BY <1>2, <2>1, <4>1, <5>1, Zenon DEF WriteRtcstop
      <4> QED
        BY <4>2, <4>3 DEF Run
    <3>2. t \in Nat
      BY <1>1, TimeRegisters DEF SetTime
    <3>3. ~last.touched => t = In16Bits(last.stop) - (last.stop % 60)
      <4>1. SUFFICES ASSUME ~last.touched PROVE t = In16Bits(last.stop) - (last.stop % 60)
        OBVIOUS
      <4>2. Holds(new, last.stop)
        BY <1>1, <2>4, <4>1, TimeRegisters DEF RtcInv, Holds
      <4> QED
        BY <4>2, SetTimeOf DEF RtcInv, LastShape
    <3> HIDE DEF t
    <3>4. /\ last' \in LastShape /\ last'.set = t /\ last'.at = host /\ last'.stop = last.stop
          /\ last'.kept = ~last.touched
      <4>1. last \in LastShape /\ host \in Nat
        BY DEF RtcInv
      <4> QED
        BY <3>1, <3>2, <4>1 DEF LastShape
    <3>5. /\ rtc'.offset = t - host /\ ~rtc'.frozen
          /\ rtc' = [offset |-> rtc'.offset, frozen |-> rtc'.frozen, frozenAt |-> rtc'.frozenAt,
                     sub |-> rtc'.sub, due |-> rtc'.due]
      BY <3>1 DEF RtcInv
    <3>6. host' \in Nat /\ last'.at <= host' /\ read' \in Seq(Int \X Int)
      BY <1>2, <1>3, <3>4 DEF RtcInv
    <3> QED
      BY <1>3, <2>2, <3>3, <3>4, <3>5, <3>6 DEF RtcInv
  <2> QED
    BY <2>3, <2>4
<1> QED
  BY <1>1, <1>6, <1>7

\* One more halfword of a reading.
LEMMA ReadTimeStep == RtcInv /\ ReadTime => RtcInv'
<1> SUFFICES ASSUME RtcInv, ReadTime PROVE RtcInv'
  OBVIOUS
<1> DEFINE part == Part(Current, Len(read) + 1)
<1>1. /\ workload' = workload /\ regs' = regs /\ rtc' = rtc /\ host' = host /\ last' = last
  BY DEF ReadTime, clockVars
<1>2. Len(read) < 3 /\ read \in Seq(Int \X Int) /\ Len(read) \in Nat
  BY DEF ReadTime, RtcInv
<1>3. read' = Append(read, part)
  <2> DEFINE n == Len(read)
  <2>1. n \in Nat /\ n < 3
    BY <1>2
  <2>2. n = 0 => part = Part(Current, 1)
    OBVIOUS
  <2>3. n = 1 => part = Part(Current, 2)
    OBVIOUS
  <2>4. n = 2 => part = Part(Current, 3)
    OBVIOUS
  <2>5. ASSUME n = 0 PROVE read' = Append(read, Part(Current, 1))
    BY <2>5 DEF ReadTime, Part
  <2>6. ASSUME n = 1 PROVE read' = Append(read, Part(Current, 2))
    BY <2>6 DEF ReadTime, Part
  <2>7. ASSUME n = 2 PROVE read' = Append(read, Part(Current, 3))
    BY <2>7 DEF ReadTime, Part
  <2> HIDE DEF n, part
  <2> QED
    BY <2>1, <2>2, <2>3, <2>4, <2>5, <2>6, <2>7
<1>4. Current \in Int
  BY DEF RtcInv, Current, LastShape, Stopped
<1>5. part \in Int \X Int
  BY <1>4, TimeRegisters DEF Part
<1>6. Stopped(regs) => Current = last.stop
  BY DEF RtcInv, Current
<1>7. ASSUME Stopped(regs), NEW i \in 1 .. Len(read'), i <= 3
      PROVE  read'[i] = Part(last.stop, i)
  <2> HIDE DEF part
  <2>1. CASE i <= Len(read)
    BY <1>2, <1>3, <1>5, <1>7, <2>1 DEF RtcInv
  <2>2. CASE i = Len(read) + 1
    <3>1. read'[i] = part
      BY <1>2, <1>3, <1>5, <2>2
    <3> QED
      BY <1>6, <1>7, <2>2, <3>1 DEF part
  <2> QED
    BY <1>2, <1>3, <1>5, <2>1, <2>2
<1>8. read' \in Seq(Int \X Int)
  <2> HIDE DEF part
  <2> QED BY <1>2, <1>3, <1>5
<1> QED
  BY <1>1, <1>7, <1>8 DEF RtcInv, Known

\* A reset leaves the clock running at the host's time.
LEMMA ResetRtc ==
  ASSUME RtcInv, NEW cold \in BOOLEAN, Reset(cold)
  PROVE  RtcInv'
<1>1. /\ regs' = [a \in Registers |->
                   IF ~cold /\ a \in PortRegisters THEN regs[a] ELSE Cleared[a]]
      /\ rtc' = RtcStart /\ read' = << >> /\ host' = host /\ workload' = workload
      /\ last' = [last EXCEPT !.set = host, !.at = host, !.kept = FALSE]
  BY DEF Reset
<1>2. Cleared \in [Registers -> Nat] /\ Cleared[RTCSTOP] = 1
  BY TimeRegisters DEF Cleared
<1>3. regs' \in [Registers -> Nat] /\ regs'[RTCSTOP] = 1
  BY <1>1, <1>2, TimeRegisters DEF PortRegisters, RtcInv
<1>4. ~Stopped(regs')
  <2>1. Bit(1, 1) = 0
    BY BitIs
  <2> QED
    BY <1>3, <2>1 DEF Stopped
<1>5. /\ last' \in LastShape /\ last'.set = host /\ last'.at = host /\ ~last'.kept
  <2>1. last \in LastShape /\ host \in Nat
    BY DEF RtcInv
  <2> QED
    BY <1>1, <2>1 DEF LastShape
<1>6. ~rtc'.frozen /\ rtc'.offset = last'.set - last'.at
      /\ rtc' = [offset |-> rtc'.offset, frozen |-> rtc'.frozen, frozenAt |-> rtc'.frozenAt,
                 sub |-> rtc'.sub, due |-> rtc'.due]
  <2>1. host \in Nat
    BY DEF RtcInv
  <2> QED
    BY <1>1, <1>5, <2>1 DEF RtcStart
<1>7. Known' /\ host' \in Nat /\ last'.at <= host' /\ read' \in Seq(Int \X Int)
  BY <1>1, <1>5 DEF RtcInv, Known
<1> QED
  BY <1>3, <1>4, <1>5, <1>6, <1>7 DEF RtcInv

\* The steps that leave the clock timer's own state alone, but for its prescaler.
LEMMA RtcKept ==
  ASSUME RtcInv, workload' = workload, regs' = regs, last' = last, read' = read,
         host' \in Nat, host <= host',
         rtc'.offset = rtc.offset, rtc'.frozen = rtc.frozen, rtc'.frozenAt = rtc.frozenAt,
         rtc' = [offset |-> rtc'.offset, frozen |-> rtc'.frozen, frozenAt |-> rtc'.frozenAt,
                 sub |-> rtc'.sub, due |-> rtc'.due]
  PROVE  RtcInv'
<1>1. last'.at <= host'
  BY DEF RtcInv, LastShape
<1> QED
  BY <1>1 DEF RtcInv, Known

\* Every step.
LEMMA RtcStep ==
  ASSUME RtcGuests, RtcInv, [Next]_vars
  PROVE  RtcInv'
<1>0. rtc = [offset |-> rtc.offset, frozen |-> rtc.frozen, frozenAt |-> rtc.frozenAt,
             sub |-> rtc.sub, due |-> rtc.due] /\ host \in Nat
  BY DEF RtcInv
<1>1. CASE UNCHANGED <<workload, regs, rtcVars>>
  BY <1>0, <1>1, RtcKept DEF rtcVars
<1>2. ASSUME NEW st \in Stores[workload], Store(st[1], st[2], st[3]) PROVE RtcInv'
  <2>1. PICK a \in IoArea, size \in Sizes, v \in Halfwords : RtcStore(a, size, v)
    BY <1>2, StoresOfRtcGuests DEF RtcInv
  <2>2. CASE RTCSTOP \in Reached(a, size)
    BY <2>1, <2>2, StoreOfRtc
  <2>3. CASE RTCSTOP \notin Reached(a, size)
    BY <2>1, <2>3, StoreBesideRtc DEF RtcStore
  <2> QED
    BY <2>2, <2>3
<1>3. CASE Tick
  <2>1. rtc' = TickRtc(rtc)
    BY <1>3 DEF Tick
  <2>2. rtc'.offset = rtc.offset /\ rtc'.frozen = rtc.frozen /\ rtc'.frozenAt = rtc.frozenAt
        /\ rtc' = [offset |-> rtc'.offset, frozen |-> rtc'.frozen, frozenAt |-> rtc'.frozenAt,
                   sub |-> rtc'.sub, due |-> rtc'.due]
    BY <1>0, <2>1 DEF TickRtc
  <2>3. workload' = workload /\ regs' = regs /\ last' = last /\ read' = read /\ host' = host
    BY <1>3 DEF Tick, clockVars
  <2> QED
    BY <1>0, <2>2, <2>3, RtcKept
<1>4. CASE HostSecond
  <2>1. workload' = workload /\ regs' = regs /\ last' = last /\ read' = read /\ rtc' = rtc
        /\ host' = host + 1
    BY <1>4 DEF HostSecond, clockVars
  <2> QED
    BY <1>0, <2>1, RtcKept
<1>5. CASE UNCHANGED vars \/ Elapse \/ PollButtons
  BY <1>1, <1>5 DEF vars, clockVars, rtcVars, Elapse, PollButtons
<1>6. CASE HostInput
  BY <1>1, <1>6, InputLeaves DEF clockVars, rtcVars
<1>7. CASE \E t \in Timers : Consult(t)
  BY <1>1, <1>7 DEF Consult, rtcVars
<1>8. CASE \E cold \in BOOLEAN : Reset(cold)
  BY <1>8, ResetRtc
<1>9. CASE ReadTime
  BY <1>9, ReadTimeStep
<1> QED
  BY <1>2, <1>3, <1>4, <1>5, <1>6, <1>7, <1>8, <1>9, Zenon DEF Next

\* Whatever the guest sets the clock to and however its stops, runs and
\* readings fall between the host's seconds: a running clock shows what it was
\* set to plus the host's time since then, a stopped one the time of the stop,
\* in any reading, and only the seconds of a stopped clock are lost.
THEOREM TimeIsKept == ASSUME RtcGuests PROVE Spec => []RtcKeepsTime
<1>1. Init => RtcInv
  <2> SUFFICES ASSUME Init PROVE RtcInv
    OBVIOUS
  <2>1. /\ regs = Cleared /\ rtc = RtcStart /\ host = Start /\ read = << >>
        /\ last = [set |-> Start, at |-> Start, stop |-> 0, touched |-> FALSE, kept |-> FALSE]
        /\ workload \in Workloads
    BY DEF Init
  <2>2. Cleared \in [Registers -> Nat] /\ Cleared[RTCSTOP] = 1
    BY TimeRegisters DEF Cleared
  <2>3. ~Stopped(regs)
    <3>1. Bit(1, 1) = 0
      BY BitIs
    <3> QED
      BY <2>1, <2>2, <3>1 DEF Stopped
  <2> QED
    BY <2>1, <2>2, <2>3, StartAssumption DEF RtcInv, RtcStart, LastShape, Known
<1>2. RtcInv /\ [Next]_vars => RtcInv'
  BY RtcStep
<1> QED
  BY <1>1, <1>2, RtcShown, PTL DEF Spec
=============================================================================
