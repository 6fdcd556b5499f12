---------------------------- MODULE MCCpuRunner -----------------------------
(* Bounded instances of CpuRunner: intervals of a few cycles that keep the  *)
(* order of the real ones (2000, 10000, the RTC's 93750 and 187500, frames  *)
(* of 400000 and 800000).                                                   *)
EXTENDS CpuRunner

MCRtcPeriod == [slow |-> 3, fast |-> 4]
MCFrame == [slow |-> 5, fast |-> 7]
=============================================================================
