----------------------------- MODULE MCSst39vf -----------------------------
(* Bounded instance of Sst39vf: 8 halfwords, two per sector, two sectors   *)
(* per block, two blocks.                                                  *)
EXTENDS Sst39vf

\* Each cycle of the command sequences at its own address, the three erase
\* commands and the F0 exit.  Any of them can be the datum of a program.
MCBusWrites ==
  { <<1, 170>>, <<2, 85>>, <<1, 128>>, <<1, 160>>, <<1, 152>>,
    <<1, 16>>, <<5, 48>>, <<2, 80>>, <<3, 240>> }
=============================================================================
