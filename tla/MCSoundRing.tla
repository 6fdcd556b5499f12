---------------------------- MODULE MCSoundRing ----------------------------
(* A bounded instance of SoundRing: a ring of four slots, and callbacks     *)
(* that ask for less and for more than it can hold.                        *)
EXTENDS SoundRing

MCWants == {1, 5}
=============================================================================
