------------------------------ MODULE OtlpBatch ------------------------------
(***************************************************************************)
(* The pre-allocated protobuf batch (struct otel_otlp): spans carve slices *)
(* from one shared pool of attributes and one of events, the events carve  *)
(* theirs from the same attribute pool, and a flush packs what the slices  *)
(* hold at that moment and starts the pools over.                          *)
(*                                                                         *)
(* Only the holder of drain_lock touches the batch, so each function is a  *)
(* step.  A span is its place in the order of arrival and its shape: how   *)
(* many attributes it has, and how many each of its events has.  An entry  *)
(* of the attribute pool is <<span, event or 0, index>>, standing for the  *)
(* key and value otlp_add_attr puts there.                                 *)
(***************************************************************************)
EXTENDS Integers, Sequences

CONSTANTS
    BatchSpans,   \* OTEL_BATCH_SPANS
    BatchAttrs,   \* OTEL_BATCH_ATTRS
    BatchEvents,  \* OTEL_BATCH_EVENTS
    MaxRecords,   \* attribute and event records that fit into one span's arena
    MaxSpans      \* bound: spans added

\* One span always fits into empty pools: an arena of 4024 bytes has room for
\* at most 167 records of 24 bytes (RecordsBounded of SpanArenaProofs).
ASSUME PoolsAssumption ==
    /\ BatchSpans \in Nat \ {0} /\ MaxSpans \in Nat
    /\ MaxRecords \in Nat
    /\ BatchAttrs \in Nat /\ BatchAttrs >= MaxRecords
    /\ BatchEvents \in Nat /\ BatchEvents >= MaxRecords

VARIABLES
    batch,      \* o->spans: identity and slices of each span in the batch
    usedAttrs,   \* o->num_attrs
    usedEvents,  \* o->num_events
    attrPool,   \* o->attr, by index
    eventPool,  \* o->event, by index: each event's slice of attrPool
    added,      \* history: the shapes of the spans added so far
    sent        \* history: what was packed, span by span

batchVars == <<batch, usedAttrs, usedEvents, attrPool, eventPool, added, sent>>

\* How many attributes the first n events of a span have together.
FirstEventsAttrs(s) ==
    LET sum[n \in 0..Len(s.events)] ==
            IF n = 0 THEN 0 ELSE sum[n - 1] + s.events[n]
    IN sum

EventAttrs(s) == FirstEventsAttrs(s)[Len(s.events)]

Shapes ==
    {s \in [attrs : 0..MaxRecords,
            events : UNION {[1..n -> 0..MaxRecords] : n \in 0..MaxRecords}] :
        s.attrs + Len(s.events) + EventAttrs(s) <= MaxRecords}

BatchInit ==
    /\ batch = <<>> /\ usedAttrs = 0 /\ usedEvents = 0
    /\ attrPool = [i \in 0..BatchAttrs - 1 |-> <<>>]
    /\ eventPool = [i \in 0..BatchEvents - 1 |-> <<>>]
    /\ added = <<>> /\ sent = <<>>

-----------------------------------------------------------------------------

\* The entries of one slice of the attribute pool.
Slice(start, n) == [k \in 1..n |-> attrPool[start + k - 1]]

\* What packing reads for each span of the batch.
Packed ==
    [i \in 1..Len(batch) |->
        LET b == batch[i] IN
        [attrs  |-> Slice(b.attrStart, b.attrs),
         events |-> [j \in 1..b.events |->
                        LET e == eventPool[b.eventStart + j - 1]
                        IN Slice(e.attrStart, e.attrs)]]]

SpanAttrsOnly(s) == s.attrs   \* Mutant: forgets the attributes of events.

\* The room a span needs in the attribute pool.
AttrsNeeded(s) == s.attrs + EventAttrs(s)

\* Whether otlp_add_span flushes first.
Full(s) ==
    \/ Len(batch) = BatchSpans
    \/ usedAttrs + AttrsNeeded(s) > BatchAttrs
    \/ usedEvents + Len(s.events) > BatchEvents

EventsFromFirst(s, a, j) == a + s.attrs   \* Mutant: events share one slice.

\* Index of the first attribute of event j, for a span whose first attribute
\* has index a: the span's own come first, then each event's in turn.
EventAttrStart(s, a, j) ==
    a + s.attrs + FirstEventsAttrs(s)[j - 1]

\* The attribute pool with one span's entries written from index a on.
WithAttrs(pool, s, id, a) ==
    [i \in DOMAIN pool |->
        IF i \in a..a + s.attrs - 1 THEN <<id, 0, i - a + 1>>
        ELSE LET mine == {j \in 1..Len(s.events) :
                            LET f == EventAttrStart(s, a, j)
                            IN i \in f..f + s.events[j] - 1}
             IN IF mine = {} THEN pool[i]
                ELSE LET j == CHOOSE k \in mine : TRUE
                     IN <<id, j, i - EventAttrStart(s, a, j) + 1>>]

\* The event pool with one span's events written from index e on.
WithEvents(pool, s, a, e) ==
    [i \in DOMAIN pool |->
        IF i \in e..e + Len(s.events) - 1
        THEN LET j == i - e + 1
             IN [attrStart |-> EventAttrStart(s, a, j), attrs |-> s.events[j]]
        ELSE pool[i]]

\* otlp_add_span, with the flush it may start with.
AddSpan(s) ==
    /\ Len(added) < MaxSpans
    /\ LET full == Full(s)
           id   == Len(added) + 1
           old  == IF full THEN <<>> ELSE batch
           a    == IF full THEN 0 ELSE usedAttrs
           e    == IF full THEN 0 ELSE usedEvents
       IN /\ sent' = IF full THEN sent \o Packed ELSE sent
          /\ batch' = Append(old, [attrStart |-> a, attrs |-> s.attrs,
                                   eventStart |-> e, events |-> Len(s.events)])
          /\ attrPool' = WithAttrs(attrPool, s, id, a)
          /\ eventPool' = WithEvents(eventPool, s, a, e)
          /\ usedAttrs' = a + s.attrs + EventAttrs(s)
          /\ usedEvents' = e + Len(s.events)
    /\ added' = Append(added, s)

\* otlp_flush at the end of a pass; nothing happens on an empty batch.
Flush ==
    /\ sent' = sent \o Packed
    /\ batch' = <<>> /\ usedAttrs' = 0 /\ usedEvents' = 0
    /\ UNCHANGED <<attrPool, eventPool, added>>

BatchNext == Flush \/ \E s \in Shapes : AddSpan(s)

BatchSpec == BatchInit /\ [][BatchNext]_batchVars

-----------------------------------------------------------------------------
(* Properties.                                                             *)

\* The cursors never pass the end of a pool, so otlp_add_span never writes
\* behind one, whatever shapes follow each other.
PoolsInBounds ==
    /\ Len(batch) <= BatchSpans
    /\ usedAttrs <= BatchAttrs
    /\ usedEvents <= BatchEvents

\* What a span with this identity and shape should look like when packed.
Whole(id, s) ==
    [attrs  |-> [k \in 1..s.attrs |-> <<id, 0, k>>],
     events |-> [j \in 1..Len(s.events) |->
                    [k \in 1..s.events[j] |-> <<id, j, k>>]]]

\* Spans are packed in the order they were drained, each once and with exactly
\* its own attributes and events, although the slices of a batch share pools
\* that were used before and are never cleared.
PackedWhole ==
    LET all == sent \o Packed
    IN all = [i \in 1..Len(added) |-> Whole(i, added[i])]
=============================================================================
