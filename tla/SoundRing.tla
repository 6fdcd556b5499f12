----------------------------- MODULE SoundRing -----------------------------
(***************************************************************************)
(* The sample ring of class Sound (src/soc/peripheral_sound.cpp): the CPU  *)
(* thread pushes the samples of a DMA buffer, the SDL audio thread pops,   *)
(* and the CPU thread resets the ring at a hot or cold start, whatever the *)
(* audio thread is doing: nothing in CpuRunner pauses it.  ring_head_ and  *)
(* ring_tail_ are atomics, the slots are plain memory; each shared access  *)
(* is a step.  A sample is its number in the order the program produced    *)
(* them.                                                                   *)
(***************************************************************************)
EXTENDS Integers, Sequences

CONSTANTS Size,        \* RING_SIZE
          Wants,       \* how many samples a callback may ask for
          MaxSamples,  \* bound on the samples produced
          MaxResets    \* bound on the resets

ASSUME RingAssumption ==
  /\ Size \in Nat /\ Size > 1
  /\ Wants \subseteq Nat \ {0}
  /\ MaxSamples \in Nat /\ MaxResets \in Nat

VARIABLES
  ring, head, tail,  \* ring_, ring_head_, ring_tail_
  dropped,           \* drop_count_
  produced,          \* samples produced so far
  push_pc,           \* CPU thread: "idle", "write" or "publish" inside try_push
  pop_pc,            \* audio thread: "idle", "tail" or "copy" inside pop
  want,              \* n
  seen,              \* pop's copy of ring_head_
  next,              \* pop's copy of ring_tail_
  out,               \* dst[0 .. popped - 1]
  heard,             \* history: what pop has returned, in order
  resetAt,           \* history: samples produced before the last reset
  resets,            \* resets so far
  calm               \* history: FALSE from a reset that meets a callback
                     \* until both threads are outside the ring again

pushVars == <<produced, push_pc, dropped>>
popVars == <<pop_pc, want, seen, next, out, heard>>
vars == <<ring, head, tail, pushVars, popVars, resetAt, resets, calm>>

Slots == 0 .. Size - 1

\* (x + 1) & (RING_SIZE - 1)
Succ(x) == IF x = Size - 1 THEN 0 ELSE x + 1

\* (head - tail) & (RING_SIZE - 1)
Between(t, h) == IF h >= t THEN h - t ELSE h - t + Size

\* The i-th slot after t.
At(t, i) == IF t + i < Size THEN t + i ELSE t + i - Size

-----------------------------------------------------------------------------
(* CPU thread: try_push for each sample of the buffer.                     *)

\* Mutant: the ring counts as full only when it has overflowed.
LoadTail_neverFull ==
  /\ push_pc = "idle" /\ produced < MaxSamples
  /\ push_pc' = "write"
  /\ UNCHANGED <<ring, head, tail, produced, dropped, popVars, resetAt, resets>>

\* Loads ring_tail_; a full ring drops the sample.
LoadTail ==
  /\ push_pc = "idle" /\ produced < MaxSamples
  /\ IF Succ(head) = tail
     THEN /\ produced' = produced + 1 /\ dropped' = dropped + 1
          /\ UNCHANGED push_pc
     ELSE /\ push_pc' = "write"
          /\ UNCHANGED <<produced, dropped>>
  /\ UNCHANGED <<ring, head, tail, popVars, resetAt, resets>>

WriteSlot ==
  /\ push_pc = "write"
  /\ ring' = [ring EXCEPT ![head] = produced + 1]
  /\ push_pc' = "publish"
  /\ UNCHANGED <<head, tail, produced, dropped, popVars, resetAt, resets>>

Publish ==
  /\ push_pc = "publish"
  /\ head' = Succ(head)
  /\ produced' = produced + 1
  /\ push_pc' = "idle"
  /\ UNCHANGED <<ring, tail, dropped, popVars, resetAt, resets>>

\* reset(), called between two instructions: tail is set to head.
Reset ==
  /\ push_pc = "idle" /\ resets < MaxResets
  /\ resets' = resets + 1
  /\ tail' = head
  /\ dropped' = 0
  /\ resetAt' = produced
  /\ calm' = (pop_pc = "idle")
  /\ UNCHANGED <<ring, head, produced, push_pc, popVars>>

-----------------------------------------------------------------------------
(* Audio thread: pop.                                                      *)

LoadHead(n) ==
  /\ pop_pc = "idle"
  /\ want' = n /\ seen' = head /\ out' = << >>
  /\ pop_pc' = "tail"
  /\ UNCHANGED <<ring, head, tail, pushVars, next, heard, resetAt, resets>>

LoadOwnTail ==
  /\ pop_pc = "tail"
  /\ next' = tail
  /\ pop_pc' = "copy"
  /\ UNCHANGED <<ring, head, tail, pushVars, want, seen, out, heard, resetAt, resets>>

Copy ==
  /\ pop_pc = "copy" /\ Len(out) < want /\ next # seen
  /\ out' = Append(out, ring[next])
  /\ next' = Succ(next)
  /\ UNCHANGED <<ring, head, tail, pushVars, pop_pc, want, seen, heard, resetAt, resets>>

\* pop returns: its locals are gone.
Return == pop_pc' = "idle" /\ want' = 0 /\ seen' = 0 /\ next' = 0 /\ out' = << >>

\* Mutant: the tail is set to the head that was loaded.
Release_all ==
  /\ pop_pc = "copy" /\ (Len(out) = want \/ next = seen)
  /\ tail' = seen
  /\ heard' = heard \o out
  /\ Return
  /\ UNCHANGED <<ring, head, pushVars, resetAt, resets>>

Release ==
  /\ pop_pc = "copy" /\ (Len(out) = want \/ next = seen)
  /\ tail' = next
  /\ heard' = heard \o out
  /\ Return
  /\ UNCHANGED <<ring, head, pushVars, resetAt, resets>>

Init ==
  /\ ring = [s \in Slots |-> 0] /\ head = 0 /\ tail = 0
  /\ dropped = 0 /\ produced = 0 /\ push_pc = "idle"
  /\ pop_pc = "idle" /\ want = 0 /\ seen = 0 /\ next = 0 /\ out = << >>
  /\ heard = << >> /\ resetAt = 0 /\ resets = 0 /\ calm = TRUE

Settle == calm' = (calm \/ (push_pc' = "idle" /\ pop_pc' = "idle"))

PushStep == (LoadTail \/ WriteSlot \/ Publish) /\ Settle
PopStep == ((\E n \in Wants : LoadHead(n)) \/ LoadOwnTail \/ Copy \/ Release) /\ Settle

Next == PushStep \/ PopStep \/ Reset

\* The audio device keeps calling back; the program need not produce.
Spec == Init /\ [][Next]_vars /\ WF_vars(PopStep)

-----------------------------------------------------------------------------
(* Properties.                                                             *)

TypeOK ==
  /\ ring \in [Slots -> Nat] /\ head \in Slots /\ tail \in Slots
  /\ dropped \in Nat /\ produced \in Nat /\ resetAt \in Nat
  /\ resets \in Nat
  /\ push_pc \in {"idle", "write", "publish"}
  /\ pop_pc \in {"idle", "tail", "copy"}
  /\ want \in Nat /\ seen \in Slots /\ next \in Slots
  /\ out \in Seq(Nat) /\ heard \in Seq(Nat) /\ calm \in BOOLEAN

\* The samples a pop that starts now would find.
Waiting == [i \in 1 .. Between(tail, head) |-> ring[At(tail, i - 1)]]

\* The slots are plain memory: try_push never writes the slot pop is about to
\* read, whatever snapshot of the two indices either thread works with.  Only
\* a reset that meets a callback upsets this, and only until both threads
\* have left the ring.
NoDataRace ==
  calm => ((push_pc = "write" /\ pop_pc = "copy" /\ next # seen) => next # head)

\* Two threads, two indices and no lock implement the bounded queue: samples
\* come out in order, once each, and are dropped only when Size - 1 wait; a
\* reset empties it.  After a reset that meets a callback it is one again,
\* with whatever it then holds, as soon as both threads are outside.
Fifo == INSTANCE SoundFifo
          WITH Samples <- 1 .. MaxSamples, Capacity <- Size - 1, queue <- Waiting
ImplementsFifo == Fifo!Spec

\* What is in the ring reaches the audio device as long as it calls back and
\* no reset comes in between.
EverySampleIsHeard ==
  \A s \in 1 .. MaxSamples :
    (calm /\ \E i \in DOMAIN Waiting : Waiting[i] = s)
      ~> (~calm \/ s <= resetAt \/ \E i \in 1 .. Len(heard) : heard[i] = s)

\* peripheral_sound.cpp:18-22: reset() advances the tail to the head "so
\* consumer sees empty", although "the SDL audio thread is not" paused: no
\* later callback is handed a sample from before the reset.  A callback the reset
\* meets puts its own tail back.
ResetDiscards ==
  pop_pc = "idle" => \A i \in DOMAIN Waiting : Waiting[i] > resetAt
=============================================================================
