----------------------------- MODULE SoundFifo -----------------------------
(***************************************************************************)
(* What the sample buffer between the emulated sound hardware and the host *)
(* audio callback promises: a bounded first-in first-out queue.  A sample  *)
(* that finds it full is dropped and counted; the callback takes samples   *)
(* from the front and hears each exactly once.  A clearing may leave it    *)
(* upset: then nothing is promised until it is calm again.                 *)
(***************************************************************************)
EXTENDS Integers, Sequences

CONSTANTS Samples,   \* the samples
          Capacity   \* how many the queue holds

VARIABLES queue,   \* samples waiting
          heard,   \* history: the samples handed to the callback, in order
          dropped, \* samples dropped because the queue was full
          calm     \* the promises hold

Push(s) ==
  /\ Len(queue) < Capacity
  /\ queue' = Append(queue, s)
  /\ UNCHANGED <<heard, dropped>>

Drop ==
  /\ Len(queue) = Capacity
  /\ dropped' = dropped + 1
  /\ UNCHANGED <<queue, heard>>

Take(k) ==
  /\ heard' = heard \o SubSeq(queue, 1, k)
  /\ queue' = SubSeq(queue, k + 1, Len(queue))
  /\ UNCHANGED dropped

\* The machine is reset.
Clear == queue' = << >> /\ dropped' = 0 /\ UNCHANGED heard

Init == queue = << >> /\ heard = << >> /\ dropped = 0 /\ calm = TRUE

Work ==
  \/ \E s \in Samples : Push(s)
  \/ Drop
  \/ \E k \in 0 .. Len(queue) : Take(k)

Next ==
  \/ calm /\ Work /\ UNCHANGED calm
  \/ calm /\ Clear /\ calm' \in BOOLEAN
  \/ ~calm

Spec == Init /\ [][Next]_<<queue, heard, dropped, calm>>
=============================================================================
