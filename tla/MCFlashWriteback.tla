-------------------------- MODULE MCFlashWriteback --------------------------
(* Bounded instances of FlashWriteback: three sectors, the first two in one *)
(* block, contents that are model values.                                   *)
EXTENDS FlashWriteback

MCEraseSpans == {{0}, {0, 1}}
MCHosts == { [threads |-> TRUE, failing |-> TRUE],
             [threads |-> FALSE, failing |-> TRUE],
             [threads |-> TRUE, failing |-> FALSE] }
=============================================================================
