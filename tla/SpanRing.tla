------------------------------ MODULE SpanRing ------------------------------
(***************************************************************************)
(* One thread's lock-free single-producer single-consumer ring of finished *)
(* spans (struct otel_thread_ctx), at the granularity of its memory        *)
(* accesses: otel_span_end_ on the home thread interleaves with            *)
(* otel_drain_ctx and otlp_flush on the drain thread.                      *)
(*                                                                         *)
(* A span is the number of the otel_span_end call that staged it.  Both    *)
(* consumers of otel_emit_span are registered: the raw-span sink, which    *)
(* reads the slot while otel_emit_span runs, and the protobuf batch, which *)
(* keeps a pointer into the slot until otlp_flush packs it.                *)
(*                                                                         *)
(* head and tail are 64-bit and never wrap in practice: 2^64 spans.        *)
(***************************************************************************)
EXTENDS Integers, Sequences

CONSTANTS Capacity,    \* ctx->capacity, slots in the ring
          BatchSpans,  \* OTEL_BATCH_SPANS
          MaxEnds      \* bound: otel_span_end calls the home thread makes

ASSUME RingAssumption ==
    /\ Capacity \in Nat \ {0}
    /\ BatchSpans \in Nat \ {0}
    /\ MaxEnds \in Nat

\* otel_set_ring_capacity rounds up to a power of two of at least two, which
\* is what makes "cursor & mask" the same as "cursor % capacity".
ASSUME PowerOfTwoAssumption == \E k \in 1..31 : Capacity = 2^k

VARIABLES
    ring,      \* ctx->ring: the span each slot holds
    head,      \* ctx->head, producer cursor
    tail,      \* ctx->tail, consumer cursor
    dropped,   \* ctx->dropped, and this thread's share of OT.dropped_spans
    ppc,       \* where the home thread is in otel_span_end_
    ended,     \* otel_span_end calls so far; the span being ended
    cpc,       \* where the drain thread is in its pass over this ring
    ctail,     \* otel_drain_ctx's local tail
    chead,     \* otel_drain_ctx's local head
    batch,     \* cursors whose slots OT.otlp.spans points into
    accepted,  \* history: spans published, in order
    sunk,      \* history: what the sink's span() was shown, in order
    sent       \* history: what was packed and handed to the transport, in order

producerVars == <<head, dropped, ppc, ended, accepted>>
consumerVars == <<tail, cpc, ctail, chead, batch, sunk, sent>>
vars == <<ring, producerVars, consumerVars>>

NoSpan == 0     \* a slot as calloc leaves it
Torn   == -1    \* a slot in the middle of a struct copy

Slot(cursor) == cursor % Capacity

Init ==
    /\ ring = [i \in 0..Capacity - 1 |-> NoSpan]
    /\ head = 0 /\ tail = 0 /\ dropped = 0
    /\ ppc = "idle" /\ ended = 0
    /\ cpc = "idle" /\ ctail = 0 /\ chead = 0
    /\ batch = <<>>
    /\ accepted = <<>> /\ sunk = <<>> /\ sent = <<>>

-----------------------------------------------------------------------------
(* otel_span_end_, home thread.                                            *)

RingFullLate  == head - tail > Capacity        \* Mutant: overcommits by one.
RingFullEarly == head - tail >= Capacity - 1   \* Mutant: keeps one slot free.

RingFull == head - tail >= Capacity

\* Load both cursors and compare.  head is only ever written by this thread.
EndLoad ==
    /\ ppc = "idle"
    /\ ended < MaxEnds
    /\ ended' = ended + 1
    /\ ppc' = IF RingFull THEN "drop" ELSE "copy"
    /\ UNCHANGED <<ring, head, dropped, accepted, consumerVars>>

\* Mutant: the early return forgets the counter.
EndDropUncounted ==
    /\ ppc = "drop"
    /\ ppc' = "idle"
    /\ UNCHANGED <<ring, head, dropped, ended, accepted, consumerVars>>

EndDrop ==
    /\ ppc = "drop"
    /\ dropped' = dropped + 1
    /\ ppc' = "idle"
    /\ UNCHANGED <<ring, head, ended, accepted, consumerVars>>

\* "*slot = *s" is a 4 KiB copy: a concurrent reader may see it half done.
CopyBegin ==
    /\ ppc = "copy"
    /\ ring' = [ring EXCEPT ![Slot(head)] = Torn]
    /\ ppc' = "copying"
    /\ UNCHANGED <<head, dropped, ended, accepted, consumerVars>>

CopyEnd ==
    /\ ppc = "copying"
    /\ ring' = [ring EXCEPT ![Slot(head)] = ended]
    /\ ppc' = "publish"
    /\ UNCHANGED <<head, dropped, ended, accepted, consumerVars>>

Publish ==
    /\ ppc = "publish"
    /\ head' = head + 1
    /\ accepted' = Append(accepted, ended)
    /\ ppc' = "idle"
    /\ UNCHANGED <<ring, dropped, ended, consumerVars>>

-----------------------------------------------------------------------------
(* otel_drain_ctx and otlp_flush, drain thread.                            *)

AvailableShort     == IF head > tail THEN head - 1 ELSE head  \* Mutant: one left.
AvailableUnderflow == head - 1                                \* Mutant.

\* How far this pass will go.
Available == head

DrainLoad ==
    /\ cpc = "idle"
    /\ ctail' = tail
    /\ chead' = Available
    /\ cpc' = "emit"
    /\ UNCHANGED <<ring, producerVars, tail, batch, sunk, sent>>

\* What packing the batch reads through its pointers at this moment.
Packed == [i \in 1..Len(batch) |-> ring[Slot(batch[i])]]

\* otel_emit_span on the next slot: otlp_add_span, then the sink's span().  The
\* batch is flushed first if it is full, or if its attribute or event pool has
\* no room for this span: that depends on the spans' contents, so here on a
\* free choice.
Emit ==
    /\ cpc = "emit"
    /\ ctail # chead
    /\ \E poolsFull \in BOOLEAN :
        IF Len(batch) = BatchSpans \/ poolsFull
        THEN /\ sent' = sent \o Packed
             /\ batch' = <<ctail>>
        ELSE /\ sent' = sent
             /\ batch' = Append(batch, ctail)
    /\ sunk' = Append(sunk, ring[Slot(ctail)])
    /\ ctail' = ctail + 1
    /\ UNCHANGED <<ring, producerVars, tail, cpc, chead>>

\* The release store of tail at the end of otel_drain_ctx: from here on the
\* producer may reuse the drained slots.
DrainStore ==
    /\ cpc = "emit"
    /\ ctail = chead
    /\ tail' = ctail
    /\ cpc' = "flush"
    /\ UNCHANGED <<ring, producerVars, ctail, chead, batch, sunk, sent>>

\* otlp_flush at the end of otel_drain.
Flush ==
    /\ cpc = "flush"
    /\ sent' = sent \o Packed
    /\ batch' = <<>>
    /\ cpc' = "idle"
    /\ UNCHANGED <<ring, producerVars, tail, ctail, chead, sunk>>

Producer == EndLoad \/ EndDrop \/ CopyBegin \/ CopyEnd \/ Publish
Consumer == DrainLoad \/ Emit \/ DrainStore \/ Flush
Next == Producer \/ Consumer

Spec == Init /\ [][Next]_vars

\* The embedder keeps calling otel_drain, and every pass runs to its end.  The
\* home thread is asked for nothing: it may stop between any two steps.
FairSpec == Spec /\ WF_vars(Consumer)

-----------------------------------------------------------------------------
(* Properties.                                                             *)

\* Types of the ring's fields and of the two threads' local state.
TypeOK ==
    /\ ring \in [0..Capacity - 1 -> Int]
    /\ head \in Nat /\ tail \in Nat /\ dropped \in Nat /\ ended \in Nat
    /\ ctail \in Nat /\ chead \in Nat
    /\ ppc \in {"idle", "drop", "copy", "copying", "publish"}
    /\ cpc \in {"idle", "emit", "flush"}
    /\ batch \in Seq(Nat)
    /\ accepted \in Seq(Nat) /\ sunk \in Seq(Int) /\ sent \in Seq(Int)

\* The span the home thread is between staging and having staged.
InFlight == IF ppc = "idle" THEN 0 ELSE 1

\* The sink is shown whole spans, each at most once, in the order in which the
\* home thread ended them: otel_span_end_ never overwrites a slot that
\* otel_drain_ctx has yet to emit, and never shows it a half-copied one.
SinkExactlyOnceInOrder ==
    /\ \A i \in 1..Len(sunk) : sunk[i] \in 1..ended
    /\ \A i, j \in 1..Len(sunk) : i < j => sunk[i] < sunk[j]

\* No ended span disappears: it was shown to the sink, waits in the ring, was
\* counted in dropped, or is the one otel_span_end_ is working on.
EveryEndAccounted ==
    ended = Len(sunk) + (head - ctail) + dropped + InFlight

\* Cursor order: the producer is at most one lap ahead of the published tail,
\* and the consumer's private cursor lies between tail and head.
CursorsInv ==
    /\ tail <= ctail /\ ctail <= chead /\ chead <= head
    /\ head <= tail + Capacity
    /\ ppc \in {"copy", "copying", "publish"} => head < tail + Capacity
    /\ cpc # "emit" => ctail = tail

\* Each unreleased slot still holds the span that was published in it.
SlotsInv ==
    /\ \A c \in tail..head - 1 : ring[Slot(c)] = accepted[c + 1]
    /\ ppc = "publish" => ring[Slot(head)] = ended

\* The histories: spans are accepted in the order they are ended, and the sink
\* has been shown exactly the first ctail of them.
HistoryInv ==
    /\ Len(accepted) = head
    /\ Len(sunk) = ctail
    /\ \A i \in 1..Len(accepted) : accepted[i] \in 1..(ended - InFlight)
    /\ \A i, j \in 1..Len(accepted) : i < j => accepted[i] < accepted[j]
    /\ \A i \in 1..Len(sunk) : sunk[i] = accepted[i]
    /\ ended = head + dropped + InFlight
    /\ ended <= MaxEnds

\* The inductive invariant behind the four properties above and below: the
\* window of slots the consumer may still read and the slot the producer is
\* writing never meet, although neither thread reads the other's progress
\* except through head and tail.
RingInv == CursorsInv /\ SlotsInv /\ HistoryInv

\* Refinement mapping.  A refusal is decided by the load of tail in EndLoad; a
\* span is accepted by the release store of head in Publish.
Queue ==
    INSTANCE StagingQueue WITH
        Span <- 1..MaxEnds,
        delivered <- sunk,
        released <- tail,
        refused <- dropped + (IF ppc = "drop" THEN 1 ELSE 0)

\* The ring implements the abstract staging area: a span is refused only when
\* the backlog is at the limit, and accepted spans are delivered in order.
ImplementsStagingQueue == Queue!Spec

\* Every published span is eventually shown to the sink, as long as the
\* embedder keeps draining: a pass that starts late or finds the ring full
\* does not leave a span behind.
PublishedIsEventuallySunk ==
    \A n \in 1..MaxEnds : Len(accepted) >= n ~> Len(sunk) >= n

\* What the header promises of otel_drain (oteltracing.h:284-287): the finished
\* spans it collects are the ones it encodes and pushes to the transport.  The
\* i-th span handed to the transport is the i-th span drained.
TransportSeesDrainedSpans ==
    \A i \in 1..Len(sent) : sent[i] = sunk[i]
=============================================================================
