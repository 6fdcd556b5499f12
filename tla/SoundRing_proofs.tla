-------------------------- MODULE SoundRing_proofs --------------------------
(***************************************************************************)
(* Proofs about SoundRing, for every ring size, every callback length and  *)
(* resets at any time.  Only a reset that meets a callback upsets the      *)
(* ring, and from the moment both threads have left it, it is a bounded    *)
(* queue again.                                                            *)
(***************************************************************************)
EXTENDS SoundRing, TLAPS

\* The refinement needs: a callback stays behind the head; what it has copied
\* is a prefix of what waits; the slot being written is free, and written
\* before it is published.
StaysBehind == pop_pc # "idle" => Between(tail, seen) <= Between(tail, head)
PrefixCopied ==
  /\ pop_pc = "tail" => out = << >>
  /\ pop_pc = "copy" => /\ Len(out) <= Between(tail, seen)
                        /\ next = At(tail, Len(out))
                        /\ \A i \in 1 .. Len(out) : out[i] = ring[At(tail, i - 1)]
SlotFree == push_pc # "idle" => Between(tail, head) < Size - 1 /\ produced < MaxSamples
SlotWritten == push_pc = "publish" => ring[head] = produced + 1

CalmInv == TypeOK /\ StaysBehind /\ PrefixCopied /\ SlotFree /\ SlotWritten

\* All of it is lost when a reset meets a callback, and nothing is asked of
\* a thread that is outside.
IInv == TypeOK /\ (calm => CalmInv)

USE RingAssumption

LEMMA Indices ==
  ASSUME NEW t \in Slots, NEW h \in Slots
  PROVE  /\ Between(t, h) \in Slots
         /\ At(t, Between(t, h)) = h
         /\ Succ(h) \in Slots
         /\ \A i \in Slots : At(t, i) \in Slots /\ Between(t, At(t, i)) = i
         /\ \A i \in Slots : i # Between(t, h) => At(t, i) # h
         /\ \A i \in 0 .. Size - 2 : At(t, i + 1) = Succ(At(t, i))
         /\ Succ(h) # t => Between(t, h) < Size - 1 /\ Between(t, Succ(h)) = Between(t, h) + 1
         /\ Succ(h) = t => Between(t, h) = Size - 1
         /\ Between(t, h) < Size - 1 => Succ(h) # t
         /\ Between(t, t) = 0 /\ At(t, 0) = t
BY DEF Slots, Between, At, Succ

\* Moving the tail by k slots shortens every distance by k.
LEMMA Moves ==
  ASSUME NEW t \in Slots, NEW h \in Slots, NEW k \in 0 .. Between(t, h)
  PROVE  /\ At(t, k) \in Slots
         /\ Between(At(t, k), h) = Between(t, h) - k
         /\ \A i \in Nat : k + i < Size => At(At(t, k), i) = At(t, k + i)
BY DEF Slots, Between, At

LEMMA InitIInv == Init => IInv
<1> SUFFICES ASSUME Init PROVE IInv
  OBVIOUS
<1>1. head \in Slots /\ tail \in Slots /\ seen \in Slots /\ next \in Slots
  BY DEF Init, Slots
<1>2. ring \in [Slots -> Nat]
  BY DEF Init
<1>3. out \in Seq(Nat) /\ heard \in Seq(Nat)
  BY DEF Init
<1>4. TypeOK
  BY <1>1, <1>2, <1>3 DEF Init, TypeOK
<1> QED
  BY <1>4 DEF Init, IInv, CalmInv, StaysBehind, PrefixCopied, SlotFree, SlotWritten

LEMMA NextType == TypeOK /\ [Next]_vars => TypeOK'
<1> SUFFICES ASSUME TypeOK, [Next]_vars PROVE TypeOK'
  OBVIOUS
<1>0. Succ(head) \in Slots /\ Succ(next) \in Slots
  BY Indices DEF TypeOK
<1>c. calm' \in BOOLEAN
  BY DEF Next, PushStep, PopStep, Settle, Reset, vars, TypeOK
<1> USE <1>c DEF TypeOK, pushVars, popVars
<1>1. CASE LoadTail
  BY <1>1 DEF LoadTail
<1>2. CASE WriteSlot
  BY <1>2 DEF WriteSlot
<1>3. CASE Publish
  BY <1>3, <1>0 DEF Publish
<1>4. CASE Reset
  BY <1>4 DEF Reset
<1>5. ASSUME NEW n \in Wants, LoadHead(n) PROVE TypeOK'
  BY <1>5 DEF LoadHead
<1>6. CASE LoadOwnTail
  BY <1>6 DEF LoadOwnTail
<1>7. CASE Copy
  <2>1. ring[next] \in Nat
    BY DEF TypeOK
  <2> QED
    BY <1>7, <1>0, <2>1 DEF Copy
<1>8. CASE Release
  BY <1>8 DEF Release, Return, Slots
<1>9. CASE UNCHANGED vars
  BY <1>9 DEF vars
<1> QED
  BY <1>1, <1>2, <1>3, <1>4, <1>5, <1>6, <1>7, <1>8, <1>9 DEF Next, PushStep, PopStep

\* A thread that is outside has no view of the ring that could be wrong.
LEMMA OutsideIsCalm == TypeOK' /\ push_pc' = "idle" /\ pop_pc' = "idle" => CalmInv'
BY DEF CalmInv, StaysBehind, PrefixCopied, SlotFree, SlotWritten

\* Every step but a reset that meets a callback keeps the ring in order.
LEMMA CalmStep ==
  ASSUME CalmInv, [Next]_vars, ~Reset \/ pop_pc = "idle"
  PROVE  CalmInv'
<1>t. TypeOK'
  BY NextType DEF CalmInv
<1>h. /\ head \in Slots /\ tail \in Slots /\ seen \in Slots /\ next \in Slots
      /\ out \in Seq(Nat) /\ produced \in Nat
  BY DEF CalmInv, TypeOK
<1>b. /\ Between(tail, head) \in 0 .. Size - 1
      /\ Between(tail, seen) \in 0 .. Size - 1
      /\ Len(out) \in Nat
  <2>1. Between(tail, head) \in Slots /\ Between(tail, seen) \in Slots
    BY <1>h, Indices
  <2> QED
    BY <2>1, <1>h DEF Slots
<1> USE DEF pushVars, popVars
<1>1. CASE LoadTail
  <2>1. push_pc' # "idle" => Between(tail, head) < Size - 1
    BY <1>1, <1>h, Indices DEF LoadTail
  <2> QED
    BY <1>1, <1>t, <2>1 DEF LoadTail, CalmInv, StaysBehind, PrefixCopied, SlotFree, SlotWritten
<1>2. CASE WriteSlot
  <2>1. ring'[head] = produced + 1
    BY <1>2, <1>h DEF WriteSlot, CalmInv, TypeOK
  <2>2. ASSUME pop_pc = "copy", NEW i \in 1 .. Len(out)
        PROVE  ring'[At(tail, i - 1)] = ring[At(tail, i - 1)]
    <3>1. i - 1 < Between(tail, head)
      BY <2>2, <1>b DEF CalmInv, StaysBehind, PrefixCopied
    <3>2. PICK k \in Slots : k = i - 1 /\ k # Between(tail, head)
      BY <2>2, <3>1, <1>b DEF Slots
    <3>3. At(tail, k) # head /\ At(tail, k) \in Slots
      BY <3>2, <1>h, Indices
    <3> QED
      BY <3>2, <3>3, <1>2 DEF WriteSlot, CalmInv, TypeOK
  <2>3. PrefixCopied'
    BY <1>2, <2>2 DEF WriteSlot, CalmInv, PrefixCopied
  <2> QED
    BY <1>2, <1>t, <2>1, <2>3 DEF WriteSlot, CalmInv, StaysBehind, SlotFree, SlotWritten
<1>3. CASE Publish
  <2>1. Succ(head) # tail
    BY <1>3, <1>h, Indices DEF Publish, CalmInv, SlotFree
  <2>2. Between(tail, Succ(head)) = Between(tail, head) + 1
    BY <2>1, <1>h, Indices
  <2>3. StaysBehind'
    BY <1>3, <2>2, <1>b DEF Publish, CalmInv, StaysBehind
  <2> QED
    BY <1>3, <1>t, <2>3 DEF Publish, CalmInv, PrefixCopied, SlotFree, SlotWritten
<1>4. CASE Reset
  BY <1>4, <1>t DEF Reset, CalmInv, StaysBehind, PrefixCopied, SlotFree, SlotWritten
<1>5. ASSUME NEW n \in Wants, LoadHead(n) PROVE CalmInv'
  BY <1>5, <1>t, <1>b DEF LoadHead, CalmInv, StaysBehind, PrefixCopied, SlotFree, SlotWritten
<1>6. CASE LoadOwnTail
  <2>1. out = << >>
    BY <1>6 DEF LoadOwnTail, CalmInv, PrefixCopied
  <2>2. At(tail, 0) = tail
    BY <1>h, Indices
  <2> QED
    BY <1>6, <2>1, <2>2, <1>t, <1>b DEF LoadOwnTail, CalmInv, StaysBehind, PrefixCopied, SlotFree, SlotWritten
<1>7. CASE Copy
  <2>1. Len(out) # Between(tail, seen)
    BY <1>7, <1>h, Indices DEF Copy, CalmInv, PrefixCopied
  <2>2. Len(out) + 1 <= Between(tail, seen) /\ Len(out) \in 0 .. Size - 2
    BY <1>7, <2>1, <1>b DEF Copy, CalmInv, PrefixCopied
  <2>3. At(tail, Len(out) + 1) = Succ(next)
    BY <1>7, <2>2, <1>h, Indices DEF Copy, CalmInv, PrefixCopied
  <2>4. /\ Len(out') = Len(out) + 1 /\ out'[Len(out) + 1] = ring[At(tail, Len(out))]
        /\ \A i \in 1 .. Len(out) : out'[i] = out[i]
    BY <1>7, <1>h, <1>b DEF Copy, CalmInv, PrefixCopied
  <2>5. ASSUME NEW i \in 1 .. Len(out') PROVE out'[i] = ring[At(tail, i - 1)]
    BY <1>7, <2>4, <1>b DEF Copy, CalmInv, PrefixCopied
  <2>6. PrefixCopied'
    BY <1>7, <2>2, <2>3, <2>4, <2>5 DEF Copy, PrefixCopied
  <2> QED
    BY <1>7, <1>t, <2>6 DEF Copy, CalmInv, StaysBehind, SlotFree, SlotWritten
<1>8. CASE Release
  <2>1. pop_pc = "copy" => Between(next, head) <= Between(tail, head)
    <3>1. pop_pc = "copy" => Len(out) \in 0 .. Between(tail, head)
      BY <1>b DEF CalmInv, StaysBehind, PrefixCopied
    <3> QED
      BY <3>1, <1>b, <1>h, Moves DEF CalmInv, PrefixCopied
  <2>2. Between(next, head) \in 0 .. Size - 1
    BY <1>h, Indices DEF Slots
  <2> QED
    BY <1>8, <1>t, <2>1, <2>2, <1>b DEF Release, Return, CalmInv, StaysBehind, PrefixCopied, SlotFree, SlotWritten
<1>9. CASE UNCHANGED vars
  BY <1>9, <1>t DEF vars, CalmInv, StaysBehind, PrefixCopied, SlotFree, SlotWritten
<1> QED
  BY <1>1, <1>2, <1>3, <1>4, <1>5, <1>6, <1>7, <1>8, <1>9 DEF Next, PushStep, PopStep

LEMMA NextIInv == IInv /\ [Next]_vars => IInv'
<1> SUFFICES ASSUME IInv, [Next]_vars PROVE IInv'
  OBVIOUS
<1>t. TypeOK /\ TypeOK'
  BY NextType DEF IInv
<1>1. CASE Reset
  <2>1. calm' => push_pc' = "idle" /\ pop_pc' = "idle"
    BY <1>1 DEF Reset, popVars
  <2>2. CASE ~calm'
    BY <1>t, <2>2 DEF IInv
  <2>3. CASE calm'
    BY <1>t, <2>1, <2>3, OutsideIsCalm DEF IInv
  <2> QED
    BY <2>2, <2>3
<1>2. CASE ~Reset
  <2>1. calm' => calm \/ (push_pc' = "idle" /\ pop_pc' = "idle")
    BY <1>2 DEF Next, PushStep, PopStep, Settle, vars
  <2>2. CASE calm
    <3>1. CalmInv'
      BY <1>2, <2>2, CalmStep DEF IInv
    <3> QED
      BY <1>t, <3>1 DEF IInv
  <2>3. CASE ~calm
    BY <1>t, <2>1, <2>3, OutsideIsCalm DEF IInv
  <2> QED
    BY <2>2, <2>3
<1> QED
  BY <1>1, <1>2

LEMMA Invariant == Spec => []IInv
BY InitIInv, NextIInv, PTL DEF Spec

-----------------------------------------------------------------------------
(* What each step does to the queue the ring stands for.                   *)

LEMMA WaitingIsSeq ==
  ASSUME CalmInv
  PROVE  /\ Waiting \in Seq(Nat) /\ Len(Waiting) = Between(tail, head)
         /\ Between(tail, head) \in 0 .. Size - 1
         /\ \A i \in 1 .. Len(Waiting) : Waiting[i] = ring[At(tail, i - 1)]
<1>1. Between(tail, head) \in 0 .. Size - 1
  BY Indices DEF Slots, CalmInv, TypeOK
<1>2. ASSUME NEW i \in 1 .. Between(tail, head) PROVE ring[At(tail, i - 1)] \in Nat
  <2>1. PICK k \in Slots : k = i - 1
    BY <1>1 DEF Slots
  <2>2. At(tail, k) \in Slots
    BY Indices DEF CalmInv, TypeOK
  <2> QED
    BY <2>1, <2>2 DEF CalmInv, TypeOK
<1> QED
  BY <1>1, <1>2 DEF Waiting

\* A write does not touch what waits.
LEMMA WriteKeeps == CalmInv /\ WriteSlot => Waiting' = Waiting
<1> SUFFICES ASSUME CalmInv, WriteSlot PROVE Waiting' = Waiting
  OBVIOUS
<1>1. head' = head /\ tail' = tail /\ head \in Slots /\ tail \in Slots
  BY DEF WriteSlot, CalmInv, TypeOK
<1>2. ASSUME NEW i \in 1 .. Between(tail, head)
      PROVE  ring'[At(tail, i - 1)] = ring[At(tail, i - 1)]
  <2>1. PICK k \in Slots : k = i - 1 /\ k # Between(tail, head)
    BY WaitingIsSeq DEF Slots
  <2>2. At(tail, k) # head
    BY <1>1, <2>1, Indices
  <2> QED
    BY <2>1, <2>2 DEF WriteSlot, CalmInv, TypeOK
<1> QED
  BY <1>1, <1>2 DEF Waiting

\* Publishing appends the sample.
LEMMA PublishAppends == CalmInv /\ Publish => Waiting' = Append(Waiting, produced + 1)
<1> SUFFICES ASSUME CalmInv, Publish PROVE Waiting' = Append(Waiting, produced + 1)
  OBVIOUS
<1>1. head \in Slots /\ tail \in Slots /\ ring' = ring /\ tail' = tail /\ head' = Succ(head)
  BY DEF Publish, CalmInv, TypeOK, popVars
<1>2. Between(tail, head) < Size - 1 /\ ring[head] = produced + 1
  BY DEF Publish, CalmInv, SlotFree, SlotWritten
<1>3. Between(tail, Succ(head)) = Between(tail, head) + 1 /\ At(tail, Between(tail, head)) = head
  BY <1>1, <1>2, Indices
<1>4. Waiting' = [i \in 1 .. Between(tail, head) + 1 |-> ring[At(tail, i - 1)]]
  BY <1>1, <1>3 DEF Waiting
<1>5. Append(Waiting, produced + 1)
        = [i \in 1 .. Between(tail, head) + 1 |->
             IF i <= Between(tail, head) THEN ring[At(tail, i - 1)] ELSE produced + 1]
  BY WaitingIsSeq
<1>6. ASSUME NEW i \in 1 .. Between(tail, head) + 1, ~ i <= Between(tail, head)
      PROVE  ring[At(tail, i - 1)] = produced + 1
  <2>1. i - 1 = Between(tail, head)
    BY <1>6, WaitingIsSeq
  <2> QED
    BY <2>1, <1>2, <1>3
<1> QED
  BY <1>4, <1>5, <1>6

\* The end of a callback takes what it copied from the front.
LEMMA ReleaseTakes ==
  CalmInv /\ Release => /\ Len(out) \in 0 .. Len(Waiting)
                     /\ out = SubSeq(Waiting, 1, Len(out))
                     /\ Waiting' = SubSeq(Waiting, Len(out) + 1, Len(Waiting))
<1> SUFFICES ASSUME CalmInv, Release
             PROVE  /\ Len(out) \in 0 .. Len(Waiting)
                    /\ out = SubSeq(Waiting, 1, Len(out))
                    /\ Waiting' = SubSeq(Waiting, Len(out) + 1, Len(Waiting))
  OBVIOUS
<1> DEFINE k == Len(out)
<1>1. head \in Slots /\ tail \in Slots /\ out \in Seq(Nat) /\ k \in Nat
  BY DEF CalmInv, TypeOK
<1>2. k \in 0 .. Between(tail, head)
  <2>1. Between(tail, seen) \in 0 .. Size - 1
    BY Indices DEF CalmInv, TypeOK, Slots
  <2> QED
    BY <1>1, <2>1, WaitingIsSeq DEF Release, Return, CalmInv, StaysBehind, PrefixCopied
<1>3. /\ ring' = ring /\ head' = head /\ tail' = At(tail, k)
      /\ \A i \in 1 .. k : out[i] = ring[At(tail, i - 1)]
  BY DEF Release, Return, CalmInv, PrefixCopied
<1>4. out = SubSeq(Waiting, 1, k)
  <2>1. SubSeq(Waiting, 1, k) = [i \in 1 .. k |-> Waiting[i]]
    BY <1>2, WaitingIsSeq
  <2>2. out = [i \in 1 .. k |-> out[i]]
    BY <1>1
  <2>3. \A i \in 1 .. k : Waiting[i] = out[i]
    BY <1>2, <1>3, WaitingIsSeq
  <2> QED
    BY <2>1, <2>2, <2>3
<1>5. Waiting' = SubSeq(Waiting, k + 1, Len(Waiting))
  <2> DEFINE n == Between(tail, head) - k
  <2>1. Between(At(tail, k), head) = n
    BY <1>1, <1>2, Moves
  <2>2. Waiting' = [i \in 1 .. n |-> ring[At(At(tail, k), i - 1)]]
    BY <1>3, <2>1 DEF Waiting
  <2>3. SubSeq(Waiting, k + 1, Len(Waiting)) = [i \in 1 .. n |-> Waiting[k + i]]
    BY <1>2, WaitingIsSeq
  <2>4. ASSUME NEW i \in 1 .. n PROVE ring[At(At(tail, k), i - 1)] = Waiting[k + i]
    <3>1. i - 1 \in Nat /\ k + (i - 1) < Size
      BY <1>2, WaitingIsSeq
    <3>2. At(At(tail, k), i - 1) = At(tail, k + (i - 1))
      BY <3>1, <1>1, <1>2, Moves
    <3>3. Waiting[k + i] = ring[At(tail, (k + i) - 1)]
      BY <1>2, WaitingIsSeq
    <3>4. k + (i - 1) = (k + i) - 1
      BY <1>2
    <3> QED
      BY <3>2, <3>3, <3>4
  <2> QED
    BY <2>2, <2>3, <2>4
<1> QED
  BY <1>2, <1>4, <1>5, WaitingIsSeq

LEMMA ResetEmpties == CalmInv /\ Reset => Waiting' = << >>
<1> SUFFICES ASSUME CalmInv, Reset PROVE Waiting' = << >>
  OBVIOUS
<1>1. tail' = head /\ head' = head /\ Between(head, head) = 0
  BY Indices DEF CalmInv, TypeOK, Reset
<1>2. Waiting' = [i \in 1 .. 0 |-> ring'[At(head, i - 1)]]
  BY <1>1 DEF Waiting
<1> QED
  BY <1>2

-----------------------------------------------------------------------------
(* Theorems.                                                               *)

\* Indices stay in the ring and every value keeps its type, whenever the
\* machine is reset.
THEOREM TypeCorrect == Spec => []TypeOK
<1>1. Init => TypeOK
  BY InitIInv DEF IInv
<1> QED
  BY <1>1, NextType, PTL DEF Spec

\* The unprotected slots: try_push and pop never meet in one, unless a reset
\* has met the callback and one of them has not left the ring since.
THEOREM RaceFree == Spec => []NoDataRace
<1>1. IInv => NoDataRace
  <2> SUFFICES ASSUME CalmInv, pop_pc = "copy", next = head PROVE next = seen
    BY DEF NoDataRace, IInv
  <2>1. head \in Slots /\ tail \in Slots /\ seen \in Slots /\ out \in Seq(Nat)
    BY DEF CalmInv, TypeOK
  <2>2. /\ Between(tail, head) \in Nat /\ Between(tail, seen) \in Nat /\ Len(out) \in Slots
    <3>1. Between(tail, head) \in Slots /\ Between(tail, seen) \in Slots
      BY <2>1, Indices
    <3> QED
      BY <2>1, <3>1 DEF Slots, CalmInv, PrefixCopied
  <2>3. Len(out) = Between(tail, head)
    BY <2>1, <2>2, Indices DEF CalmInv, PrefixCopied
  <2>4. Len(out) = Between(tail, seen)
    BY <2>2, <2>3 DEF CalmInv, PrefixCopied, StaysBehind
  <2> QED
    BY <2>1, <2>4, Indices DEF CalmInv, PrefixCopied
<1> QED
  BY <1>1, Invariant, PTL

\* Every step of either thread is a step of the bounded queue or none, for
\* resets at any time: one that meets a callback empties the queue, and what
\* the ring then holds is a queue again once both threads are outside.
THEOREM RingRefinesFifo == Spec => ImplementsFifo
<1>1. Init => Fifo!Init
  <2> SUFFICES ASSUME Init PROVE Fifo!Init
    OBVIOUS
  <2>1. Between(tail, head) = 0
    BY DEF Init, Between
  <2>2. Waiting = [i \in 1 .. 0 |-> ring[At(tail, i - 1)]]
    BY <2>1 DEF Waiting
  <2> QED
    BY <2>2 DEF Init, Fifo!Init
<1>2. IInv /\ [Next]_vars => [Fifo!Next]_<<Waiting, heard, dropped, calm>>
  <2> SUFFICES ASSUME CalmInv, calm, [Next]_vars
               PROVE  [Fifo!Next]_<<Waiting, heard, dropped, calm>>
    BY DEF Fifo!Next, IInv, TypeOK
  <2> USE DEF pushVars, popVars
  <2>s. Settle => calm' = calm
    BY DEF Settle, CalmInv, TypeOK
  <2>1. CASE LoadTail /\ Settle
    <3>1. Waiting' = Waiting /\ heard' = heard
      BY <2>1 DEF LoadTail, Waiting
    <3>2. calm' = calm
      BY <2>1, <2>s DEF LoadTail
    <3>3. CASE Succ(head) = tail
      <4>1. Len(Waiting) = Size - 1
        BY <3>3, WaitingIsSeq, Indices DEF CalmInv, TypeOK
      <4> QED
        BY <2>1, <3>1, <3>2, <3>3, <4>1 DEF LoadTail, Fifo!Next, Fifo!Work, Fifo!Drop
    <3> QED
      BY <2>1, <3>1, <3>2, <3>3 DEF LoadTail
  <2>2. CASE WriteSlot /\ Settle
    BY <2>2, <2>s, WriteKeeps DEF WriteSlot
  <2>3. CASE Publish /\ Settle
    <3>1. produced + 1 \in 1 .. MaxSamples /\ Len(Waiting) < Size - 1
      BY <2>3, WaitingIsSeq DEF Publish, CalmInv, TypeOK, SlotFree
    <3>2. Fifo!Push(produced + 1)
      BY <2>3, <3>1, PublishAppends DEF Publish, Fifo!Push
    <3>3. calm' = calm
      BY <2>3, <2>s DEF Publish
    <3> QED
      BY <3>1, <3>2, <3>3 DEF Fifo!Next, Fifo!Work
  <2>4. CASE Reset
    BY <2>4, ResetEmpties DEF Reset, Fifo!Next, Fifo!Clear
  <2>5. ASSUME NEW n \in Wants, LoadHead(n), Settle PROVE UNCHANGED <<Waiting, heard, dropped, calm>>
    BY <2>5, <2>s DEF LoadHead, Waiting
  <2>6. CASE LoadOwnTail /\ Settle
    BY <2>6, <2>s DEF LoadOwnTail, Waiting
  <2>7. CASE Copy /\ Settle
    BY <2>7, <2>s DEF Copy, Waiting
  <2>8. CASE Release /\ Settle
    <3>1. Fifo!Take(Len(out))
      BY <2>8, ReleaseTakes DEF Release, Return, Fifo!Take
    <3>2. calm' = calm
      BY <2>8, <2>s DEF Release, Return
    <3> QED
      BY <2>8, <3>1, <3>2, ReleaseTakes DEF Fifo!Next, Fifo!Work
  <2>9. CASE UNCHANGED vars
    BY <2>9 DEF vars, Waiting
  <2> QED
    BY <2>1, <2>2, <2>3, <2>4, <2>5, <2>6, <2>7, <2>8, <2>9 DEF Next, PushStep, PopStep
<1> QED
  BY <1>1, <1>2, Invariant, PTL DEF Spec, ImplementsFifo, Fifo!Spec
=============================================================================
