------------------------------ MODULE MCTimers ------------------------------
(* A bounded instance of Timers: a 16-bit counter that wraps at 8, clocks   *)
(* of one, two and no cycles per count, ticks up to several periods apart.  *)
EXTENDS Timers

MCClocks == { [a |-> 1, b |-> 2], [a |-> 2, b |-> 1], [a |-> 0, b |-> 2] }
=============================================================================
