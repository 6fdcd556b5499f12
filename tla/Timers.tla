------------------------------- MODULE Timers -------------------------------
(***************************************************************************)
(* The programmable timers between two ticks: Timer16bit and Timer8bit     *)
(* (src/soc/peripheral_t16.cpp, peripheral_t8.cpp) process all the counts  *)
(* of an interval in one formula and predict their next interrupt with     *)
(* another; both are compared with counters that count one by one.         *)
(*                                                                         *)
(* Cycle numbers are distances from the current cycle.  A channel is a     *)
(* record of its registers and caches; a handler is an operator from one   *)
(* such record to the next.                                                *)
(***************************************************************************)
EXTENDS Integers, FiniteSets

CONSTANTS Modulus,   \* 65536: TC wraps here
          Compares,  \* values the program writes to CRA and CRB
          Starts,    \* values it writes to TC
          Reloads,   \* values it writes to RLD
          Clocks,    \* settings of CLKCTL: cycles per count of clocks A and B,
                     \* 0 for a stopped clock; T8 is driven by A
          Steps,     \* cycles that may pass between two events
          Used,      \* the channels the program uses: "t16", "t8"
          Past       \* bound: how far next_tick_cycle_ falls behind

ASSUME TimersAssumption ==
  /\ Modulus \in Nat \ {0}
  /\ Compares \subseteq 0 .. Modulus - 1 /\ Starts \subseteq 0 .. Modulus - 1 /\ Reloads \subseteq Nat
  /\ Clocks \subseteq [a : Nat, b : Nat] /\ Clocks # {}
  /\ Steps \subseteq Nat \ {0}
  /\ Used \subseteq {"t16", "t8"}
  /\ Past \in Nat

VARIABLES
  clocks,  \* CLKCTL
  used,    \* the channel the program uses; never changes
  t16,     \* prun, clkb (CKSL), cra, crb, tc; next: next_tick_cycle_;
           \* armed, wake: cached_wake_; valid, cpc: the cycles_per_count cache
  t8       \* run, rld, ptd, next
timersVars == <<clocks, used, t16, t8>>

Least(S) == CHOOSE x \in S : \A y \in S : x <= y

\* tick: how many counts are processed now.
Counts(next, cpc) == (0 - next) \div cpc + 1

-----------------------------------------------------------------------------
(* Timer16bit.                                                             *)

\* cycles_per_count: computed from CLKCTL and CKSL unless cached since the
\* last write to CLKCTL.
CyclesPerCount(c) == IF c.valid THEN c.cpc ELSE IF c.clkb THEN clocks.b ELSE clocks.a

Fetch(c) == [c EXCEPT !.cpc = CyclesPerCount(c), !.valid = TRUE]

CountsToCrb(c) == IF c.tc < c.crb THEN c.crb - c.tc ELSE c.crb
CountsToCra(c) ==
  IF c.tc < c.cra THEN c.cra - c.tc
  ELSE IF c.crb # 0 /\ c.cra <= c.crb THEN CountsToCrb(c) + c.cra
  ELSE Modulus - c.tc + c.cra

CountsToMatch(c) ==
  (IF c.crb # 0 THEN {CountsToCrb(c)} ELSE {}) \cup (IF c.cra # 0 THEN {CountsToCra(c)} ELSE {})

\* Mutant: CRA is not looked at.
Refresh_noCra(c) ==
  IF ~c.prun THEN [c EXCEPT !.armed = FALSE, !.wake = 0]
  ELSE LET f == Fetch(c)
       IN IF f.cpc = 0 \/ f.crb = 0
          THEN [f EXCEPT !.armed = FALSE, !.wake = 0]
          ELSE [f EXCEPT !.armed = TRUE, !.wake = f.next + CountsToCrb(f) * f.cpc]

\* refresh_wake
Refresh(c) ==
  IF ~c.prun THEN [c EXCEPT !.armed = FALSE, !.wake = 0]
  ELSE LET f == Fetch(c)
       IN IF f.cpc = 0 \/ CountsToMatch(f) = {}
          THEN [f EXCEPT !.armed = FALSE, !.wake = 0]
          ELSE [f EXCEPT !.armed = TRUE, !.wake = f.next + Least(CountsToMatch(f)) * f.cpc]

\* How often the formula has TC at CRB in n counts from c.
Matches(c, n) == IF c.tc + n >= c.crb THEN (c.tc + n - c.crb) \div (c.crb + 1) + 1 ELSE 0

\* TC after n counts.
FinalTc(c, n) ==
  IF c.crb # 0 THEN (c.tc + n) % (c.crb + 1) ELSE (c.tc + n) % Modulus

\* Mutant: CRA is only looked for after the start.
Raised16_noWrap(c, n) ==
  {irq \in {"CRA", "CRB"} :
    IF irq = "CRB" THEN c.crb # 0 /\ Matches(c, n) > 0
    ELSE IF c.crb # 0
    THEN c.cra # 0 /\ c.cra <= c.crb /\ c.tc < c.cra /\ c.tc + n >= c.cra
    ELSE c.cra # 0 /\ \E k \in 1 .. n : (c.tc + k) % Modulus = c.cra}

\* The interrupts raised in n counts.
Raised16(c, n) ==
  {irq \in {"CRA", "CRB"} :
    IF irq = "CRB" THEN c.crb # 0 /\ Matches(c, n) > 0
    ELSE IF c.crb # 0
    THEN /\ c.cra # 0 /\ c.cra <= c.crb
         /\ \/ c.tc < c.cra /\ c.tc + n >= c.cra
            \/ Matches(c, n) >= 2
            \/ Matches(c, n) = 1 /\ FinalTc(c, n) >= c.cra
    ELSE c.cra # 0 /\ \E k \in 1 .. n : (c.tc + k) % Modulus = c.cra}

Due16(c) == c.prun /\ c.next <= 0

\* tick
Tick16(c) ==
  IF ~Due16(c) THEN c
  ELSE LET f == Fetch(c)
           n == Counts(f.next, f.cpc)
       IN IF f.cpc = 0 THEN f
          ELSE Refresh([f EXCEPT !.next = @ + n * f.cpc, !.tc = FinalTc(f, n)])

\* rT16CTL: PRESET zeroes TC and next_tick_cycle_, a cycle of long ago.
WriteCtl(c, run, clkb, preset) ==
  Refresh([c EXCEPT !.prun = run, !.clkb = clkb,
                    !.tc = IF preset THEN 0 ELSE @, !.next = IF preset THEN -Past ELSE @])

Reset16 == [prun |-> FALSE, clkb |-> FALSE, cra |-> 0, crb |-> 0, tc |-> 0, next |-> -Past,
            armed |-> FALSE, wake |-> 0, valid |-> FALSE, cpc |-> 0]

-----------------------------------------------------------------------------
(* Timer8bit.                                                              *)

Due8(c) == c.run /\ c.next <= 0 /\ clocks.a # 0

\* PTD after n counts.
Ptd(c, n) ==
  IF n <= c.ptd THEN c.ptd - n ELSE c.rld - ((n - c.ptd - 1) % (c.rld + 1))

Underflows(c, n) == n > c.ptd

Tick8(c) ==
  IF ~Due8(c) THEN c
  ELSE LET n == Counts(c.next, clocks.a)
       IN [c EXCEPT !.next = @ + n * clocks.a, !.ptd = Ptd(c, n)]

\* Mutant: as if PTD = 0 still had a count to go.
Wake8_late(c) == c.next + (c.ptd + 1) * clocks.a

\* next_wake_cycle of a running, clocked channel.
Wake8(c) == c.next + c.ptd * clocks.a

\* rT8CTL and rRLD written as bytes: PSET presets the counter.
WriteCtl8(c, run, preset) == [c EXCEPT !.run = run, !.ptd = IF preset THEN c.rld ELSE @]

Reset8 == [run |-> FALSE, rld |-> 0, ptd |-> 0, next |-> -Past]

-----------------------------------------------------------------------------
(* The program, time and ticks.                                            *)

Program16 ==
  /\ used = "t16"
  /\ \/ \E v \in Compares : t16' = Refresh([t16 EXCEPT !.cra = v])
     \/ \E v \in Compares : t16' = Refresh([t16 EXCEPT !.crb = v])
     \/ \E v \in Starts : t16' = Refresh([t16 EXCEPT !.tc = v])
     \/ \E run, clkb, preset \in BOOLEAN : t16' = WriteCtl(t16, run, clkb, preset)
  /\ UNCHANGED <<clocks, used, t8>>

Program8 ==
  /\ used = "t8"
  /\ \/ \E v \in Reloads : t8' = [t8 EXCEPT !.rld = v]
     \/ \E run, preset \in BOOLEAN : t8' = WriteCtl8(t8, run, preset)
  /\ UNCHANGED <<clocks, used, t16>>

\* A write to CLKCTL bumps config_gen; no wake point is recomputed.
WriteClocks ==
  /\ clocks' \in Clocks
  /\ t16' = [t16 EXCEPT !.valid = FALSE]
  /\ UNCHANGED <<used, t8>>

Tick ==
  /\ t16' = Tick16(t16) /\ t8' = Tick8(t8)
  /\ UNCHANGED <<clocks, used>>

\* CLKCTL after a reset and at power-on: both clocks are stopped.
Stopped == [a |-> 0, b |-> 0]

\* PiecePeripherals::reset
ResetTimers ==
  /\ clocks' = Stopped /\ t16' = Reset16 /\ t8' = Reset8
  /\ UNCHANGED used

Later(d, n) == IF d - n < -Past THEN -Past ELSE d - n

\* n cycles pass.  The wake point keeps its distance from next_tick_cycle_.
Elapse(n) ==
  /\ t16' = [t16 EXCEPT !.next = Later(@, n),
                        !.wake = IF t16.armed THEN @ + Later(t16.next, n) - t16.next ELSE 0]
  /\ t8' = [t8 EXCEPT !.next = Later(@, n)]
  /\ UNCHANGED <<clocks, used>>

\* Power-on; the program gets here once Past cycles have gone by.
TimersInit ==
  /\ clocks = Stopped /\ used \in Used
  /\ t16 = Reset16 /\ t8 = Reset8

TimersNext ==
  Program16 \/ Program8 \/ WriteClocks \/ Tick \/ ResetTimers \/ \E n \in Steps : Elapse(n)

TimersSpec == TimersInit /\ [][TimersNext]_timersVars

-----------------------------------------------------------------------------
(* Counting one by one.                                                    *)

\* TC after each of n counts: 0 .. CRB and again, or freely if CRB is 0.
TcAfter(c, n) ==
  LET v[k \in 0 .. n] ==
        IF k = 0 THEN c.tc
        ELSE IF c.crb # 0 /\ v[k - 1] = c.crb THEN 0
        ELSE (v[k - 1] + 1) % Modulus
  IN v

\* The counts among the first n at which TC becomes CRA or CRB.
MatchesAt(c, n) ==
  {k \in 1 .. n : LET tc == TcAfter(c, n)[k]
                  IN (c.cra # 0 /\ tc = c.cra) \/ (c.crb # 0 /\ tc = c.crb)}

Met(c, n) ==
  {irq \in {"CRA", "CRB"} :
    LET x == IF irq = "CRA" THEN c.cra ELSE c.crb
    IN x # 0 /\ \E k \in 1 .. n : TcAfter(c, n)[k] = x}

\* PTD after each of n counts: down to 0, then the reload value.
PtdAfter(c, n) ==
  LET v[k \in 0 .. n] == IF k = 0 THEN c.ptd ELSE IF v[k - 1] = 0 THEN c.rld ELSE v[k - 1] - 1
  IN v

-----------------------------------------------------------------------------
(* Properties.                                                             *)

\* What a tick of the T16 would process now.
Now16 == LET f == Fetch(t16) IN [c |-> f, n |-> Counts(f.next, f.cpc)]
Ticks16 == Due16(t16) /\ CyclesPerCount(t16) # 0

\* The program has not put TC beyond CRB.
InCycle(c) == c.crb # 0 => c.tc <= c.crb

\* Timer16bit::tick jumps over any number of counts and periods; it ends on
\* the value TC would have, and no match on the way goes without interrupt.
MissesNothing(c, n) ==
  /\ FinalTc(c, n) = TcAfter(c, n)[n]
  /\ Met(c, n) \subseteq Raised16(c, n)

\* refresh_wake predicts the next match while no clock register is written: it
\* is on time or a single count late, and set if there is a match at all.
WakesWithinACount(c) ==
  LET ks == MatchesAt(c, Modulus)
  IN IF c.armed
     THEN c.wake - (c.next + (Least(ks) - 1) * c.cpc) \in {0, c.cpc}
     ELSE ks = {}

\* The two formulas of Timer16bit against counting one by one: the tick, and
\* the prediction of the next match.  (With TC resting on CRB, CRA is predicted
\* a whole period late.)
T16IsExact ==
  InCycle(t16) =>
    /\ Ticks16 => MissesNothing(Now16.c, Now16.n)
    /\ (t16.prun /\ t16.valid /\ t16.cpc # 0 /\ (t16.tc # t16.crb \/ t16.cra = 0)) =>
         WakesWithinACount(t16)

\* Timer8bit::tick likewise, and next_wake_cycle is exact: a tick raises the
\* underflow if and only if it comes at that cycle or later.
T8IsExact ==
  (t8.run /\ clocks.a # 0) =>
    \A d \in 0 .. Past :
      LET n == Counts(t8.next - d, clocks.a)
      IN t8.next <= d =>
           /\ Ptd(t8, n) = PtdAfter(t8, n)[n]
           /\ Underflows(t8, n) <=> \E k \in 0 .. n - 1 : PtdAfter(t8, n)[k] = 0
           /\ Underflows(t8, n) <=> d >= Wake8(t8)

=============================================================================
