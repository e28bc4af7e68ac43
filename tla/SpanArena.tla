------------------------------ MODULE SpanArena ------------------------------
(***************************************************************************)
(* The arena inside one recording struct otel_span: name, status message,  *)
(* attribute and event records and all their strings are sub-allocated     *)
(* from one byte budget, addressed by offsets and chained into lists.      *)
(*                                                                         *)
(* A string is its length; strings of one length are not told apart.  The  *)
(* contents of the arena are kept per allocation, at its offset.           *)
(***************************************************************************)
EXTENDS Integers, Sequences, FiniteSets

CONSTANTS
    Arena,       \* OTEL_SPAN_ARENA, bytes
    Align,       \* OTEL_ARENA_ALIGN
    AttrSize,    \* sizeof(struct otel_attr)
    EventSize,   \* sizeof(struct otel_event)
    NIL,         \* OTEL_NIL
    U8,          \* 2^8, the modulus of otel_event.num_attrs
    DropMax,     \* 255, where the uint8_t drop counters saturate
    Strings      \* lengths of the strings callers pass

ASSUME ArenaAssumption ==
    /\ Arena \in Nat /\ Align \in Nat \ {0} /\ Arena % Align = 0
    /\ AttrSize \in Nat \ {0} /\ EventSize \in Nat /\ EventSize >= AttrSize + Align
    /\ U8 \in Nat \ {0} /\ DropMax \in Nat
    /\ NIL \in Nat /\ NIL > Arena
    /\ Strings \subseteq Nat

\* Fewer attributes fit behind an event than its counter can count: each takes
\* a key of at least one byte and a record of 24 (of 4024 in the code).
ASSUME CountAssumption == EventSize + U8 * (AttrSize + 1) > Arena

Null == -1       \* a null char pointer; reads back as ""
Num  == -2       \* the value of an i64, u64 or bool attribute: not a string

VARIABLES
    recording,                    \* flags & OTEL_FLAG_RECORDING
    used,                         \* arena_used
    mem,                          \* what was last written at each offset
    name, statusMessage,
    attrHead, attrTail, numAttrs, droppedAttrs,
    eventHead, eventTail, numEvents, droppedEvents,
    \* history
    blocks,                       \* [off, end) of every allocation made
    attrLog,                      \* attributes accepted, in order, and their offsets
    eventLog,                     \* events accepted, each with its attributes
    nameLog, statusLog            \* the name and message that should be read

lists == <<attrHead, attrTail, numAttrs, eventHead, eventTail, numEvents>>
drops == <<droppedAttrs, droppedEvents>>
logs  == <<attrLog, eventLog, nameLog, statusLog>>
arenaVars == <<recording, used, mem, name, statusMessage, lists, drops, blocks, logs>>

\* Where an allocation may start.
Offset == {o \in 0..Arena - 1 : o % Align = 0}

Junk == [kind |-> "junk"]
Str(s) == [kind |-> "str", len |-> s]

-----------------------------------------------------------------------------
(* otel_arena_alloc and otel_arena_putn, as functions of arena_used.       *)

\* Mutant: rounds down.
RoundDown(n) == (n \div Align) * Align

RoundUp(n) == ((n + Align - 1) \div Align) * Align

Fits(u, n) == RoundUp(u) + RoundUp(n) <= Arena

AllocOff(u, n)  == IF Fits(u, n) THEN RoundUp(u) ELSE NIL
AllocUsed(u, n) == IF Fits(u, n) THEN RoundUp(u) + RoundUp(n) ELSE u

PutOff(u, s)  == IF s = Null THEN NIL ELSE AllocOff(u, s + 1)
PutUsed(u, s) == IF s = Null THEN u ELSE AllocUsed(u, s + 1)

\* Stores through an offset that a failed allocation never makes.
Write(m, off, rec) == IF off = NIL THEN m ELSE [m EXCEPT ![off] = rec]

\* The bytes of the allocation at off, if there was one.
Block(off, size) ==
    IF off = NIL THEN {} ELSE {[off |-> off, end |-> off + size]}

\* What a reader of the string finally sees.
Stored(off, s) == IF off = NIL THEN Null ELSE s

Saturate(n) == IF n < DropMax THEN n + 1 ELSE n

-----------------------------------------------------------------------------
(* Operations.  Those that change a span first test that it is recording.  *)

ArenaInit ==
    /\ recording = FALSE
    /\ used = 0 /\ mem = [o \in Offset |-> Junk]
    /\ name = NIL /\ statusMessage = NIL
    /\ attrHead = NIL /\ attrTail = NIL /\ numAttrs = 0 /\ droppedAttrs = 0
    /\ eventHead = NIL /\ eventTail = NIL /\ numEvents = 0 /\ droppedEvents = 0
    /\ blocks = {} /\ attrLog = <<>> /\ eventLog = <<>>
    /\ nameLog = Null /\ statusLog = Null

\* otel_span_init: the span is reset for a new recording.  The bytes an earlier
\* recording left in the arena are junk from here on.
Start(s) ==
    LET off == PutOff(0, s) IN
    /\ recording' = TRUE
    /\ used' = PutUsed(0, s)
    /\ mem' = Write([o \in Offset |-> Junk], off, Str(s))
    /\ name' = off /\ statusMessage' = NIL
    /\ attrHead' = NIL /\ attrTail' = NIL /\ numAttrs' = 0 /\ droppedAttrs' = 0
    /\ eventHead' = NIL /\ eventTail' = NIL /\ numEvents' = 0
    /\ droppedEvents' = 0
    /\ blocks' = Block(off, s + 1)
    /\ attrLog' = <<>> /\ eventLog' = <<>>
    /\ nameLog' = Stored(off, s) /\ statusLog' = Null

SetName(s) ==
    LET off == PutOff(used, s) IN
    /\ recording
    /\ used' = PutUsed(used, s)
    /\ mem' = Write(mem, off, Str(s))
    /\ name' = IF off = NIL THEN name ELSE off
    /\ blocks' = blocks \cup Block(off, s + 1)
    /\ nameLog' = IF off = NIL THEN nameLog ELSE s
    /\ UNCHANGED <<recording, statusMessage, lists, drops, attrLog, eventLog,
                   statusLog>>

SetStatus(s) ==
    LET off == PutOff(used, s) IN
    /\ recording
    /\ used' = PutUsed(used, s)
    /\ mem' = Write(mem, off, Str(s))
    /\ statusMessage' = off
    /\ blocks' = blocks \cup Block(off, s + 1)
    /\ statusLog' = Stored(off, s)
    /\ UNCHANGED <<recording, name, lists, drops, attrLog, eventLog, nameLog>>

\* What otel_span_attr_ and otel_event_attr_ share with the typed setters: room
\* for the key, room for the record, and then room for a string value.
AttrAlloc(key, val) ==
    LET k  == PutOff(used, key)
        u1 == PutUsed(used, key)
        r  == AllocOff(u1, AttrSize)
        u2 == AllocUsed(u1, AttrSize)
        ok == k # NIL /\ r # NIL
        isStr == ok /\ val # Num
        v  == IF isStr THEN PutOff(u2, val) ELSE NIL
    IN [ok    |-> ok, key |-> k, rec |-> r, val |-> v,
        used  |-> IF isStr THEN PutUsed(u2, val) ELSE u2,
        entry |-> [off |-> r, key |-> key,
                   val |-> IF val = Num THEN Num ELSE Stored(v, val)],
        blocks |-> Block(k, key + 1) \cup Block(r, AttrSize) \cup Block(v, val + 1)]

Unhooked(m, tailOff, rec) == m   \* Mutant: the old tail is not linked on.

\* The record appended behind the list's tail, if the list has one.
Hook(m, tailOff, rec) ==
    IF tailOff = NIL THEN m ELSE [m EXCEPT ![tailOff].next = rec]

\* The arena with the strings and the record of an accepted attribute written
\* and the record hooked behind the list's tail.
AttrWrite(a, key, val, tailOff) ==
    LET m1 == Write(Write(mem, a.key, Str(key)), a.val, Str(val))
        m2 == [m1 EXCEPT ![a.rec] = [kind |-> "attr", next |-> NIL, key |-> a.key,
                                     val |-> IF val = Num THEN Num ELSE a.val]]
    IN Hook(m2, tailOff, a.rec)

\* otel_span_attr_str, _strn, _i64, _u64 and _bool.
SpanAttr(key, val) ==
    LET a == AttrAlloc(key, val) IN
    /\ recording
    /\ used' = a.used
    /\ blocks' = blocks \cup a.blocks
    /\ IF ~a.ok
       THEN /\ droppedAttrs' = Saturate(droppedAttrs)
            /\ mem' = Write(mem, a.key, Str(key))
            /\ UNCHANGED <<attrHead, attrTail, numAttrs, attrLog>>
       ELSE /\ mem' = AttrWrite(a, key, val, attrTail)
            /\ attrHead' = IF attrTail = NIL THEN a.rec ELSE attrHead
            /\ attrTail' = a.rec
            /\ numAttrs' = numAttrs + 1
            /\ attrLog' = Append(attrLog, a.entry)
            /\ UNCHANGED droppedAttrs
    /\ UNCHANGED <<recording, name, statusMessage, eventHead, eventTail,
                   numEvents, droppedEvents, eventLog, nameLog, statusLog>>

\* otel_span_event_: the event is kept even if only its name did not fit.
SpanEvent(s) ==
    LET n  == PutOff(used, s)
        u1 == PutUsed(used, s)
        r  == AllocOff(u1, EventSize)
        m1 == Write(mem, n, Str(s))
        m2 == Write(m1, r, [kind |-> "event", next |-> NIL, name |-> n, head |-> NIL,
                            tail |-> NIL, num |-> 0, dropped |-> 0])
    IN
    /\ recording
    /\ used' = AllocUsed(u1, EventSize)
    /\ blocks' = blocks \cup Block(n, s + 1) \cup Block(r, EventSize)
    /\ IF r = NIL
       THEN /\ droppedEvents' = Saturate(droppedEvents)
            /\ mem' = m1
            /\ UNCHANGED <<eventHead, eventTail, numEvents, eventLog>>
       ELSE /\ mem' = Hook(m2, eventTail, r)
            /\ eventHead' = IF eventTail = NIL THEN r ELSE eventHead
            /\ eventTail' = r
            /\ numEvents' = numEvents + 1
            /\ eventLog' = Append(eventLog, [off |-> r, name |-> Stored(n, s), attrs |-> <<>>])
            /\ UNCHANGED droppedEvents
    /\ UNCHANGED <<recording, name, statusMessage, attrHead, attrTail,
                   numAttrs, droppedAttrs, attrLog, nameLog, statusLog>>

Uncounted(n) == n   \* Mutant: the event's count stays.

\* otel_event.num_attrs++, a uint8_t.
CountU8(n) == (n + 1) % U8

\* otel_event_attr_str and its siblings, on the i-th event's handle.
EventAttr(i, key, val) ==
    LET e == eventLog[i].off
        a == AttrAlloc(key, val)
    IN
    /\ used' = a.used
    /\ blocks' = blocks \cup a.blocks
    /\ IF ~a.ok
       THEN /\ mem' = [Write(mem, a.key, Str(key)) EXCEPT ![e].dropped = Saturate(@)]
            /\ UNCHANGED eventLog
       ELSE /\ mem' = [AttrWrite(a, key, val, mem[e].tail) EXCEPT
                          ![e].head = IF mem[e].tail = NIL THEN a.rec ELSE @,
                          ![e].tail = a.rec,
                          ![e].num = CountU8(@)]
            /\ eventLog' = [eventLog EXCEPT ![i].attrs = Append(@, a.entry)]
    /\ UNCHANGED <<recording, name, statusMessage, lists, drops, attrLog,
                   nameLog, statusLog>>

ArenaNext ==
    \/ \E s \in Strings \cup {Null} : Start(s) \/ SetName(s) \/ SetStatus(s) \/ SpanEvent(s)
    \/ \E key \in Strings, val \in Strings \cup {Null, Num} :
        \/ SpanAttr(key, val)
        \/ \E i \in 1..Len(eventLog) : EventAttr(i, key, val)

ArenaSpec == ArenaInit /\ [][ArenaNext]_arenaVars

-----------------------------------------------------------------------------
(* The read accessors a sink or the exporter uses.                         *)

\* otel_span_strv.
StrAt(off) == IF off = NIL THEN Null ELSE mem[off].len

\* otel_attr_first/next or otel_event_first/next: the offset visited after n
\* calls, NIL for the null pointer.
Visits(first) ==
    LET visit[n \in 0..Arena] ==
            IF n = 0 THEN first
            ELSE IF visit[n - 1] = NIL THEN NIL
            ELSE mem[visit[n - 1]].next
    IN visit

\* The offsets visited until the null pointer.  A list has at most one record
\* per byte of the arena.
Chain(first) ==
    LET visit  == Visits(first)
        length == CHOOSE n \in 0..Arena :
                      visit[n] = NIL /\ \A k \in 0..n - 1 : visit[k] # NIL
    IN [n \in 1..length |-> visit[n - 1]]

ReadAttrs(first) ==
    LET c == Chain(first)
    IN [i \in 1..Len(c) |->
           [off |-> c[i], key |-> StrAt(mem[c[i]].key),
            val |-> IF mem[c[i]].val = Num THEN Num ELSE StrAt(mem[c[i]].val)]]

ReadEvents ==
    LET c == Chain(eventHead)
    IN [i \in 1..Len(c) |->
           [off |-> c[i], name |-> StrAt(mem[c[i]].name),
            attrs |-> ReadAttrs(mem[c[i]].head)]]

-----------------------------------------------------------------------------
(* Properties.                                                             *)

\* No two allocations overlap, each is aligned and lies below arena_used, and
\* arena_used stays in the arena: failed and partly failed operations included.
BlocksDisjoint ==
    /\ used \in 0..Arena /\ used % Align = 0
    /\ \A b \in blocks : b.off % Align = 0 /\ b.off < b.end /\ b.end <= used
    /\ \A b, c \in blocks : b # c => b.end <= c.off \/ c.end <= b.off

\* Walking the lists with the read accessors gives back exactly the attributes
\* and events that were accepted, in order, whatever the mixture of operations
\* that succeeded, failed or ran the arena full in between.
ReadsBackWhatWasAdded ==
    /\ ReadAttrs(attrHead) = attrLog
    /\ ReadEvents = eventLog
    /\ StrAt(name) = nameLog
    /\ StrAt(statusMessage) = statusLog

\* The counters otlp_add_span sizes its batch by agree with the lists it then
\* walks: were an event's 8-bit count to wrap, the walk would run past the pool.
CountsMatchLists ==
    /\ numAttrs = Len(Chain(attrHead))
    /\ numEvents = Len(Chain(eventHead))
    /\ \A i \in 1..Len(eventLog) :
           LET e == mem[eventLog[i].off] IN e.num = Len(Chain(e.head))
=============================================================================
