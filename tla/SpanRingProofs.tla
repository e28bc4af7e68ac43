--------------------------- MODULE SpanRingProofs ---------------------------
(***************************************************************************)
(* Proofs about SpanRing, for every capacity, batch size and number of     *)
(* spans.  RingInv is inductive; exactly-once delivery, accounting and the *)
(* refinement of StagingQueue follow from it.                              *)
(***************************************************************************)
EXTENDS SpanRing, TLAPS

-----------------------------------------------------------------------------
(* Ring arithmetic.                                                        *)

\* A cursor's slot is a slot of the ring.
LEMMA SlotInRange ==
  ASSUME NEW c \in Nat
  PROVE  Slot(c) \in 0..Capacity - 1
  BY RingAssumption DEF Slot

\* Two cursors less than a lap apart never share a slot ("cursor & mask" is
\* injective on a window of capacity cursors).
LEMMA SlotsDistinct ==
  ASSUME NEW c \in Nat, NEW d \in Nat, c < d, d < c + Capacity
  PROVE  Slot(c) # Slot(d)
<1> DEFINE q(x) == x \div Capacity
<1>1. /\ q(c) \in Int /\ q(d) \in Int
      /\ c = Capacity * q(c) + Slot(c)
      /\ d = Capacity * q(d) + Slot(d)
  BY RingAssumption DEF Slot
<1>2. SUFFICES ASSUME Slot(c) = Slot(d) PROVE FALSE
  OBVIOUS
<1> DEFINE k == q(d) - q(c)
<1>3. k \in Int /\ d - c = Capacity * k
  BY <1>1, <1>2, SlotInRange, RingAssumption
<1> HIDE DEF k
<1>4. k >= 1 
  BY <1>3, RingAssumption
<1>5. Capacity * k >= Capacity
  BY <1>3, <1>4, RingAssumption
<1> QED
  BY <1>3, <1>5, RingAssumption

\* Writing the producer's next slot leaves every unreleased slot alone.
LEMMA OtherSlotsKept ==
  ASSUME TypeOK, head < tail + Capacity, NEW v \in Int,
         NEW c \in tail..head - 1
  PROVE  [ring EXCEPT ![Slot(head)] = v][Slot(c)] = ring[Slot(c)]
<1>1. c \in Nat /\ c < head /\ head < c + Capacity
  BY RingAssumption DEF TypeOK
<1>2. Slot(c) # Slot(head)
  BY <1>1, SlotsDistinct DEF TypeOK
<1> QED
  BY <1>1, <1>2, SlotInRange DEF TypeOK

\* What appending one element does to a sequence, in the form used below.
LEMMA AppendFacts ==
  ASSUME NEW S, NEW s \in Seq(S), NEW e \in S
  PROVE  /\ Append(s, e) \in Seq(S)
         /\ Len(Append(s, e)) = Len(s) + 1
         /\ Append(s, e)[Len(s) + 1] = e
         /\ \A i \in 1..Len(s) : Append(s, e)[i] = s[i]
  OBVIOUS

-----------------------------------------------------------------------------
(* Type correctness.                                                       *)

\* Every field of the ring and every local keeps its type.
THEOREM TypeCorrect == Spec => []TypeOK
<1> USE RingAssumption
<1>1. Init => TypeOK
  BY DEF Init, TypeOK, NoSpan
<1>2. TypeOK /\ [Next]_vars => TypeOK'
  <2> SUFFICES ASSUME TypeOK, [Next]_vars PROVE TypeOK'
    OBVIOUS
  <2> USE DEF TypeOK, producerVars, consumerVars
  <2>1. CASE EndLoad
    BY <2>1 DEF EndLoad, RingFull
  <2>2. CASE EndDrop
    BY <2>2 DEF EndDrop
  <2>3. CASE CopyBegin
    <3>1. ring' = [ring EXCEPT ![Slot(head)] = Torn] /\ Torn \in Int
      BY <2>3 DEF CopyBegin, Torn
    <3>2. ring' \in [0..Capacity - 1 -> Int]
      BY <3>1
    <3> QED
      BY <2>3, <3>2 DEF CopyBegin
  <2>4. CASE CopyEnd
    <3>1. ring' = [ring EXCEPT ![Slot(head)] = ended] /\ ended \in Int
      BY <2>4 DEF CopyEnd
    <3>2. ring' \in [0..Capacity - 1 -> Int]
      BY <3>1
    <3> QED
      BY <2>4, <3>2 DEF CopyEnd
  <2>5. CASE Publish
    BY <2>5 DEF Publish
  <2>6. CASE DrainLoad
    BY <2>6 DEF DrainLoad, Available
  <2>7. Packed \in Seq(Int)
    <3>1. \A i \in 1..Len(batch) : ring[Slot(batch[i])] \in Int
      <4> TAKE i \in 1..Len(batch)
      <4>1. batch[i] \in Nat
        OBVIOUS
      <4>2. Slot(batch[i]) \in 0..Capacity - 1
        BY <4>1, SlotInRange
      <4> QED
        BY <4>2
    <3> QED
      BY <3>1 DEF Packed
  <2>8. CASE Emit
    <3>1. ring[Slot(ctail)] \in Int
      BY SlotInRange
    <3>2. sunk' \in Seq(Int) /\ ctail' \in Nat
      BY <2>8, <3>1 DEF Emit
    <3>3. batch' \in Seq(Nat)
      <4>1. batch' = <<ctail>> \/ batch' = Append(batch, ctail)
        BY <2>8 DEF Emit
      <4>2. <<ctail>> \in Seq(Nat)
        OBVIOUS
      <4>3. Append(batch, ctail) \in Seq(Nat)
        OBVIOUS
      <4> QED
        BY <4>1, <4>2, <4>3
    <3>4. sent \o Packed \in Seq(Int)
      BY <2>7
    <3>5. sent' \in Seq(Int)
      BY <2>8, <3>4 DEF Emit
    <3> QED
      BY <2>8, <3>2, <3>3, <3>5 DEF Emit
  <2>9. CASE DrainStore
    BY <2>9 DEF DrainStore
  <2>10. CASE Flush
    BY <2>7, <2>10 DEF Flush
  <2>11. CASE UNCHANGED vars
    BY <2>11 DEF vars
  <2> QED
    BY <2>1, <2>2, <2>3, <2>4, <2>5, <2>6, <2>8, <2>9, <2>10, <2>11
       DEF Next, Producer, Consumer
<1> QED
  BY <1>1, <1>2, PTL DEF Spec

-----------------------------------------------------------------------------
(* The ring invariant.                                                     *)

\* RingInv is inductive: the producer's slot and the consumer's window stay
\* apart whatever the interleaving of otel_span_end_ and otel_drain_ctx.
THEOREM RingCorrect == Spec => []RingInv
<1> USE RingAssumption
<1>1. Init => RingInv
  BY DEF Init, RingInv, CursorsInv, SlotsInv, HistoryInv, InFlight
<1>2. TypeOK /\ RingInv /\ [Next]_vars => RingInv'
  <2> SUFFICES ASSUME TypeOK, RingInv, [Next]_vars PROVE RingInv'
    OBVIOUS
  <2> USE DEF TypeOK, producerVars, consumerVars
  <2>1. CASE EndLoad
    BY <2>1 DEF EndLoad, RingFull, RingInv, CursorsInv, SlotsInv, HistoryInv, InFlight
  <2>2. CASE EndDrop
    BY <2>2, SMTT(30) DEF EndDrop, RingInv, CursorsInv, SlotsInv, HistoryInv, InFlight
  <2>3. CASE CopyBegin
    <3>1. CursorsInv' /\ HistoryInv'
      BY <2>3 DEF CopyBegin, RingInv, CursorsInv, HistoryInv, InFlight
    <3>2. \A c \in tail..head - 1 : ring'[Slot(c)] = ring[Slot(c)]
      BY <2>3, OtherSlotsKept DEF CopyBegin, RingInv, CursorsInv
    <3>3. SlotsInv'
      BY <2>3, <3>2 DEF CopyBegin, RingInv, SlotsInv
    <3> QED
      BY <3>1, <3>3 DEF RingInv
  <2>4. CASE CopyEnd
    <3>1. CursorsInv' /\ HistoryInv'
      BY <2>4 DEF CopyEnd, RingInv, CursorsInv, HistoryInv, InFlight
    <3>2. \A c \in tail..head - 1 : ring'[Slot(c)] = ring[Slot(c)]
      BY <2>4, OtherSlotsKept DEF CopyEnd, RingInv, CursorsInv
    <3>3. ring'[Slot(head)] = ended
      BY <2>4, SlotInRange DEF CopyEnd
    <3>4. SlotsInv'
      BY <2>4, <3>2, <3>3 DEF CopyEnd, RingInv, SlotsInv
    <3> QED
      BY <3>1, <3>4 DEF RingInv
  <2>5. CASE Publish
    <3>1. CursorsInv'
      BY <2>5 DEF Publish, RingInv, CursorsInv
    <3>2. /\ Len(accepted') = head + 1
          /\ accepted'[head + 1] = ended
          /\ \A i \in 1..head : accepted'[i] = accepted[i]
      <4>1. accepted' = Append(accepted, ended) /\ Len(accepted) = head
        BY <2>5 DEF Publish, RingInv, HistoryInv
      <4>2. /\ Len(Append(accepted, ended)) = Len(accepted) + 1
            /\ Append(accepted, ended)[Len(accepted) + 1] = ended
            /\ \A i \in 1..Len(accepted) : Append(accepted, ended)[i] = accepted[i]
        OBVIOUS
      <4> HIDE DEF TypeOK
      <4> QED
        BY <4>1, <4>2
    <3>3. SlotsInv'
      <4>1. ring[Slot(head)] = ended /\ ring' = ring /\ head' = head + 1
            /\ tail' = tail /\ ppc' = "idle"
        BY <2>5 DEF Publish, RingInv, SlotsInv
      <4>2. ASSUME NEW c \in tail..head PROVE ring[Slot(c)] = accepted'[c + 1]
        <5>1. CASE c = head
          BY <3>2, <4>1, <5>1
        <5>2. CASE c # head
          <6>1. c \in tail..head - 1 /\ c + 1 \in 1..head
            BY <5>2
          <6> QED
            BY <3>2, <6>1 DEF RingInv, SlotsInv
        <5> QED
          BY <5>1, <5>2
      <4> QED
        BY <4>1, <4>2 DEF SlotsInv
    <3>4. HistoryInv'
      <4>1. \A i \in 1..head : accepted[i] \in 1..ended - 1
        BY <2>5 DEF Publish, RingInv, HistoryInv, InFlight
      <4>2. \A i \in 1..head + 1 : accepted'[i] \in 1..ended
        BY <3>2, <4>1, <2>5 DEF Publish, RingInv, HistoryInv, InFlight
      <4>3. ASSUME NEW i \in 1..head + 1, NEW j \in 1..head + 1, i < j
            PROVE  accepted'[i] < accepted'[j]
        <5>1. CASE j = head + 1
          <6>1. i \in 1..head /\ accepted'[i] = accepted[i]
            BY <3>2, <4>3, <5>1
          <6>2. accepted[i] \in 1..ended - 1
            BY <4>1, <6>1
          <6> QED
            BY <3>2, <5>1, <6>1, <6>2
        <5>2. CASE j # head + 1
          <6>1. i \in 1..head /\ j \in 1..head
            BY <4>3, <5>2
          <6>2. accepted[i] < accepted[j]
            BY <4>3, <6>1 DEF RingInv, HistoryInv
          <6> QED
            BY <3>2, <6>1, <6>2
        <5> QED
          BY <5>1, <5>2
      <4>4. ASSUME NEW i \in 1..Len(sunk) PROVE sunk[i] = accepted'[i]
        <5>1. i \in 1..head /\ sunk[i] = accepted[i]
          BY DEF RingInv, CursorsInv, HistoryInv
        <5> QED
          BY <3>2, <5>1
      <4>5. /\ sunk' = sunk /\ ctail' = ctail /\ head' = head + 1
            /\ ended' = ended /\ ended' = head' + dropped' + InFlight'
            /\ InFlight' = 0 /\ ended' <= MaxEnds /\ Len(sunk) = ctail
        BY <2>5 DEF Publish, RingInv, HistoryInv, InFlight
      <4>6. \A i \in 1..Len(accepted') : accepted'[i] \in 1..(ended' - InFlight')
        BY <3>2, <4>2, <4>5
      <4>7. \A i, j \in 1..Len(accepted') : i < j => accepted'[i] < accepted'[j]
        BY <3>2, <4>3
      <4> QED
        BY <3>2, <4>4, <4>5, <4>6, <4>7 DEF HistoryInv
    <3> QED
      BY <3>1, <3>3, <3>4 DEF RingInv
  <2>6. CASE DrainLoad
    BY <2>6 DEF DrainLoad, Available, RingInv, CursorsInv, SlotsInv, HistoryInv, InFlight
  <2>7. CASE Emit
    <3>1. CursorsInv' /\ SlotsInv'
      BY <2>7 DEF Emit, RingInv, CursorsInv, SlotsInv
    <3>2. ring[Slot(ctail)] = accepted[ctail + 1]
      BY <2>7 DEF Emit, RingInv, CursorsInv, SlotsInv
    <3>3. /\ Len(sunk') = ctail + 1
          /\ sunk'[ctail + 1] = accepted[ctail + 1]
          /\ \A i \in 1..ctail : sunk'[i] = sunk[i]
      <4>1. sunk' = Append(sunk, accepted[ctail + 1]) /\ Len(sunk) = ctail
        BY <2>7, <3>2 DEF Emit, RingInv, HistoryInv
      <4>2. accepted[ctail + 1] \in Int
        BY <3>2, SlotInRange
      <4> QED
        BY <4>1, <4>2, AppendFacts
    <3>4. HistoryInv'
      <4>1. ASSUME NEW i \in 1..ctail + 1 PROVE sunk'[i] = accepted[i]
        <5>1. CASE i = ctail + 1
          BY <3>3, <5>1
        <5>2. CASE i # ctail + 1
          <6>1. i \in 1..ctail
            BY <5>2
          <6>2. sunk[i] = accepted[i]
            BY <6>1 DEF RingInv, HistoryInv
          <6> QED
            BY <3>3, <6>1, <6>2
        <5> QED
          BY <5>1, <5>2
      <4> QED
        BY <2>7, <3>3, <4>1 DEF Emit, RingInv, HistoryInv, InFlight
    <3> QED
      BY <3>1, <3>4 DEF RingInv
  <2>8. CASE DrainStore
    BY <2>8 DEF DrainStore, RingInv, CursorsInv, SlotsInv, HistoryInv, InFlight
  <2>9. CASE Flush
    BY <2>9 DEF Flush, RingInv, CursorsInv, SlotsInv, HistoryInv, InFlight
  <2>10. CASE UNCHANGED vars
    BY <2>10 DEF vars, RingInv, CursorsInv, SlotsInv, HistoryInv, InFlight
  <2> QED
    BY <2>1, <2>2, <2>3, <2>4, <2>5, <2>6, <2>7, <2>8, <2>9, <2>10
       DEF Next, Producer, Consumer
<1> QED
  BY <1>1, <1>2, TypeCorrect, PTL DEF Spec

\* The sink sees whole spans, at most once each and in order.
THEOREM SinkCorrect == Spec => []SinkExactlyOnceInOrder
<1>1. TypeOK /\ RingInv => SinkExactlyOnceInOrder
  BY SMTT(30) DEF TypeOK, RingInv, CursorsInv, HistoryInv, SinkExactlyOnceInOrder, InFlight
<1> QED
  BY <1>1, TypeCorrect, RingCorrect, PTL

\* Every ended span is sunk, staged, counted as dropped or in flight.
THEOREM AccountingCorrect == Spec => []EveryEndAccounted
<1>1. TypeOK /\ RingInv => EveryEndAccounted
  BY DEF TypeOK, RingInv, HistoryInv, EveryEndAccounted, InFlight
<1> QED
  BY <1>1, TypeCorrect, RingCorrect, PTL

-----------------------------------------------------------------------------
(* Refinement.                                                             *)

\* The ring implements the abstract bounded staging area.
THEOREM Refinement == Spec => ImplementsStagingQueue
<1> USE RingAssumption
<1>1. Init => Queue!Init
  BY DEF Init, Queue!Init
<1>2. TypeOK /\ RingInv /\ RingInv' /\ [Next]_vars => [Queue!Next]_Queue!queueVars
  <2> SUFFICES ASSUME TypeOK, RingInv, [Next]_vars, ~ UNCHANGED Queue!queueVars
               PROVE  Queue!Next
    OBVIOUS
  <2> USE DEF TypeOK, producerVars, consumerVars, Queue!queueVars
  <2>1. CASE EndLoad
    <3>1. Queue!Refuse
      BY <2>1 DEF EndLoad, RingFull, Queue!Refuse, Queue!Backlog, RingInv, HistoryInv
    <3> QED
      BY <3>1 DEF Queue!Next
  <2>2. CASE EndDrop
    BY <2>2 DEF EndDrop
  <2>3. CASE CopyBegin
    BY <2>3 DEF CopyBegin
  <2>4. CASE CopyEnd
    BY <2>4 DEF CopyEnd
  <2>5. CASE Publish
    <3>1. ended \in 1..MaxEnds
      BY <2>5 DEF Publish, RingInv, HistoryInv, InFlight
    <3>2. \A i \in 1..Len(accepted) : accepted[i] # ended
      BY <2>5 DEF Publish, RingInv, HistoryInv, InFlight
    <3>3. Queue!Accept(ended)
      BY <2>5, <3>2 DEF Publish, Queue!Accept, Queue!Backlog, RingInv,
                        CursorsInv, HistoryInv
    <3> QED
      BY <3>1, <3>3 DEF Queue!Next
  <2>6. CASE DrainLoad
    BY <2>6 DEF DrainLoad, Available
  <2>7. CASE Emit
    <3>1. ring[Slot(ctail)] = accepted[Len(sunk) + 1]
      BY <2>7 DEF Emit, RingInv, CursorsInv, SlotsInv, HistoryInv
    <3>2. Queue!Deliver
      BY <2>7, <3>1 DEF Emit, Queue!Deliver, RingInv, CursorsInv, HistoryInv
    <3> QED
      BY <3>2 DEF Queue!Next
  <2>8. CASE DrainStore
    <3>1. Queue!Release
      BY <2>8 DEF DrainStore, Queue!Release, RingInv, HistoryInv
    <3> QED
      BY <3>1 DEF Queue!Next
  <2>9. CASE Flush
    BY <2>9 DEF Flush
  <2>10. CASE UNCHANGED vars
    BY <2>10 DEF vars
  <2> QED
    BY <2>1, <2>2, <2>3, <2>4, <2>5, <2>6, <2>7, <2>8, <2>9, <2>10
       DEF Next, Producer, Consumer
<1> QED
  BY <1>1, <1>2, TypeCorrect, RingCorrect, PTL
     DEF Spec, ImplementsStagingQueue, Queue!Spec
=============================================================================
