---------------------------- MODULE MCInterrupts ----------------------------
(* Bounded instances of Interrupts: source 0 is raised as a timer and as a  *)
(* key input, source 1, if there is one, is the sound buffer with its level *)
(* override; either may have the higher priority.                           *)
EXTENDS Interrupts

MCTimers == {0}
MCKeys == {0}
MCSounds == {1}
MCPriorityMaps == { [s \in Sources |-> s + 1], [s \in Sources |-> 2 - s] }
=============================================================================
