------------------------------- MODULE Tracer -------------------------------
(***************************************************************************)
(* The tracer's threads around the registry of per-thread rings: worker    *)
(* threads register, record spans and unregister; drain threads call       *)
(* otel_drain; the main thread initialises, configures and shuts down.     *)
(*                                                                         *)
(* A ring is the abstract staging area that SpanRing is shown to implement *)
(* (StagingQueue), so ending a span is one step here: either the load of   *)
(* tail that finds the ring full or the release store of head.  Everything *)
(* else takes the steps the locks leave visible.                           *)
(*                                                                         *)
(* A span is <<worker, n>>, the n-th span that worker ended.               *)
(***************************************************************************)
EXTENDS Naturals, FiniteSets, Sequences

CONSTANTS
    Workers,     \* threads that record spans
    Drainers,    \* threads that call otel_drain in a loop
    Main,        \* the thread that initialises, configures and shuts down
    Nobody,      \* no holder of a lock
    NoCtx,       \* a null struct otel_thread_ctx pointer
    Capacity,    \* otel_ring_capacity
    BatchSpans,  \* OTEL_BATCH_SPANS
    LiveCalls,   \* configuration calls made while the other threads run
    MaxCtx,      \* bound: registrations between otel_init and otel_shutdown
    MaxEnds      \* bound: spans each worker ends in that time

ASSUME TracerAssumption ==
    /\ Capacity \in Nat \ {0} /\ BatchSpans \in Nat \ {0}
    /\ MaxCtx \in Nat /\ MaxEnds \in Nat
    /\ LiveCalls \subseteq {"enable", "attach"}
    /\ Workers \cap Drainers = {}
    /\ Main \notin Workers \cup Drainers
    /\ Nobody \notin Workers \cup Drainers \cup {Main}
    /\ NoCtx \notin Workers \cup 1..MaxCtx

Threads == Workers \cup Drainers \cup {Main}
Ctx == 1..MaxCtx

VARIABLES
    \* struct OT and the globals next to it
    initialized, transport, sink, sinkPresent, runtimeOn,
    enabled,     \* otel_enabled_
    threads,     \* OT.threads, the registry list, newest first
    drainLock,   \* holder of OT.drain_lock
    writer,      \* write holder of OT.registry_lock
    readers,     \* read holders of OT.registry_lock
    batch,       \* the contexts whose slots OT.otlp.spans points into
    dropped,     \* each worker's share of OT.dropped_spans
    \* heap
    live,        \* contexts allocated and not freed
    staged,      \* each context's spans from tail to head
    \* threads
    pc, tls,
    recording,   \* whether the worker has a recording span open
    walk,        \* otel_drain's ctx
    pos,         \* otel_drain_ctx's tail, relative to ctx->tail
    lim,         \* otel_drain_ctx's head, relative to ctx->tail
    phase,       \* the embedder: "boot", "run" or "stop"
    \* history
    owner,       \* the worker a context was registered by
    ended,       \* spans each worker has ended
    emitted,     \* each worker's spans given to otel_emit_span, in order
    bracket      \* threads that called the sink's begin() and not yet end()

config  == <<initialized, transport, sink, sinkPresent, runtimeOn, enabled>>
locks   == <<drainLock, writer, readers>>
heap    == <<threads, live, owner>>
cursors == <<walk, pos, lim>>
spans   == <<dropped, recording, ended>>
work    == <<locks, heap, cursors, spans, phase, batch, staged, tls, emitted, bracket>>
vars == <<config, locks, heap, cursors, spans, phase, batch, staged, pc, tls,
          emitted, bracket>>

Goto(p, label) == pc' = [pc EXCEPT ![p] = label]

Init ==
    /\ initialized = FALSE /\ transport = FALSE /\ sink = FALSE
    /\ sinkPresent = FALSE /\ runtimeOn = FALSE /\ enabled = FALSE
    /\ threads = <<>> /\ batch = <<>>
    /\ dropped = [w \in Workers |-> 0]
    /\ ended = [w \in Workers |-> 0]
    /\ emitted = [w \in Workers |-> <<>>]
    /\ drainLock = Nobody /\ writer = Nobody /\ readers = {}
    /\ live = {} /\ staged = [c \in Ctx |-> <<>>]
    /\ pc = [p \in Threads |-> "idle"]
    /\ tls = [w \in Workers |-> NoCtx]
    /\ recording = [w \in Workers |-> FALSE]
    /\ walk = [p \in Threads |-> NoCtx]
    /\ pos = [p \in Threads |-> 0] /\ lim = [p \in Threads |-> 0]
    /\ phase = "boot"
    /\ owner = [c \in Ctx |-> NoCtx]
    /\ bracket = {}

-----------------------------------------------------------------------------
(* Initialisation and configuration, main thread.                          *)

\* otel_init clears OT and turns the runtime switch on.  A new session's
\* history starts here.
OtelInit ==
    /\ phase = "boot" /\ ~initialized
    /\ initialized' = TRUE /\ runtimeOn' = TRUE
    /\ transport' = FALSE /\ sink' = FALSE /\ sinkPresent' = FALSE
    /\ enabled' = FALSE
    /\ threads' = <<>> /\ batch' = <<>>
    /\ dropped' = [w \in Workers |-> 0]
    /\ ended' = [w \in Workers |-> 0]
    /\ emitted' = [w \in Workers |-> <<>>]
    /\ UNCHANGED <<locks, live, owner, cursors, recording, phase, staged, pc,
                   tls, bracket>>

\* Configuration belongs to startup; LiveCalls are the calls this embedder also
\* makes later: "enable" is otel_set_enabled, "attach" is otel_set_span_sink of
\* a sink (never NULL) next to a running drain.
MayCall(call) ==
    /\ initialized /\ pc[Main] = "idle"
    /\ phase = "boot" \/ call \in LiveCalls

SetTransport ==
    /\ MayCall("transport")
    /\ transport' = ~transport
    /\ Goto(Main, "recompute")
    /\ UNCHANGED <<initialized, sink, sinkPresent, runtimeOn, enabled, work>>

SetEnabled ==
    /\ MayCall("enable")
    /\ runtimeOn' = ~runtimeOn
    /\ Goto(Main, "recompute")
    /\ UNCHANGED <<initialized, transport, sink, sinkPresent, enabled, work>>

\* otel_set_span_sink stores the pointer, then the flag the drain tests.
SetSpanSink ==
    /\ MayCall("attach")
    /\ phase # "boot" => ~sink
    /\ sink' = ~sink
    /\ Goto(Main, "sink_present")
    /\ UNCHANGED <<initialized, transport, sinkPresent, runtimeOn, enabled, work>>

SetSinkPresent ==
    /\ pc[Main] = "sink_present"
    /\ sinkPresent' = sink
    /\ Goto(Main, "recompute")
    /\ UNCHANGED <<initialized, transport, sink, runtimeOn, enabled, work>>

RecomputeEnabled ==
    /\ pc[Main] = "recompute"
    /\ enabled' = (initialized /\ (transport \/ sinkPresent) /\ runtimeOn)
    /\ Goto(Main, "idle")
    /\ UNCHANGED <<initialized, transport, sink, sinkPresent, runtimeOn, work>>

\* The embedder starts its threads once the tracer is configured.
StartThreads ==
    /\ phase = "boot" /\ initialized /\ pc[Main] = "idle"
    /\ phase' = "run"
    /\ UNCHANGED <<config, locks, heap, cursors, spans, batch, staged, pc, tls,
                   emitted, bracket>>

\* It joins them before otel_shutdown.  A worker that exits without
\* unregistering leaves its context in the registry, and any open span.
StopThreads ==
    /\ phase = "run"
    /\ \A p \in Threads : pc[p] = "idle"
    /\ phase' = "stop"
    /\ tls' = [w \in Workers |-> NoCtx]
    /\ recording' = [w \in Workers |-> FALSE]
    /\ UNCHANGED <<config, locks, heap, cursors, dropped, ended, batch, staged,
                   pc, emitted, bracket>>

-----------------------------------------------------------------------------
(* Worker threads.                                                         *)

CanCall(w) == phase = "run" /\ pc[w] = "idle"

\* otel_thread_register up to the wait for the registry lock: allocate.
Register(w) ==
    /\ CanCall(w) /\ tls[w] = NoCtx
    /\ \E c \in Ctx :
        /\ owner[c] = NoCtx /\ \A d \in Ctx : d < c => owner[d] # NoCtx
        /\ live' = live \cup {c}
        /\ owner' = [owner EXCEPT ![c] = w]
        /\ walk' = [walk EXCEPT ![w] = c]
    /\ Goto(w, "link")
    /\ UNCHANGED <<config, locks, threads, pos, lim, spans, phase, batch,
                   staged, tls, emitted, bracket>>

\* Under the write lock: push the context; then publish it to the thread.
Link(w) ==
    /\ pc[w] = "link"
    /\ writer = Nobody /\ readers = {}
    /\ threads' = <<walk[w]>> \o threads
    /\ tls' = [tls EXCEPT ![w] = walk[w]]
    /\ walk' = [walk EXCEPT ![w] = NoCtx]
    /\ Goto(w, "idle")
    /\ UNCHANGED <<config, locks, live, owner, pos, lim, spans, phase, batch,
                   staged, emitted, bracket>>

\* otel_span_start: a span records only while tracing is live and the thread
\* is registered.
SpanStart(w) ==
    /\ CanCall(w) /\ ~recording[w] /\ ended[w] < MaxEnds
    /\ enabled /\ tls[w] # NoCtx
    /\ recording' = [recording EXCEPT ![w] = TRUE]
    /\ UNCHANGED <<config, locks, heap, cursors, dropped, ended, phase, batch,
                   staged, pc, tls, emitted, bracket>>

RefusesLate(c) == c = NoCtx \/ Len(staged[c]) > Capacity   \* Mutant.

\* Whether otel_span_end_ must drop: no context, or its ring is full.
Refuses(c) == c = NoCtx \/ Len(staged[c]) >= Capacity

DropsWithCtx(c) == IF c = NoCtx THEN 0 ELSE 1   \* Mutant: the early return.

\* What a drop adds to OT.dropped_spans.
Drops(c) == 1

\* otel_span_end of a recording span: dropped and counted on a thread that is
\* no longer registered or whose ring is full, staged otherwise.
SpanEnd(w) ==
    /\ CanCall(w) /\ recording[w]
    /\ recording' = [recording EXCEPT ![w] = FALSE]
    /\ ended' = [ended EXCEPT ![w] = @ + 1]
    /\ LET c == tls[w] IN
       IF Refuses(c)
       THEN /\ dropped' = [dropped EXCEPT ![w] = @ + Drops(c)]
            /\ UNCHANGED staged
       ELSE /\ staged' = [staged EXCEPT ![c] = Append(@, ended[w] + 1)]
            /\ UNCHANGED dropped
    /\ UNCHANGED <<config, locks, heap, cursors, phase, batch, pc, tls, emitted,
                   bracket>>

Unregister(w) ==
    /\ CanCall(w) /\ tls[w] # NoCtx
    /\ Goto(w, "drain_lock")
    /\ UNCHANGED <<config, work>>

-----------------------------------------------------------------------------
(* One drain pass, by otel_drain (a drain thread, or the main thread from  *)
(* otel_shutdown) over every ring or by otel_thread_unregister over its    *)
(* own ring.                                                               *)

DrainCall(d) ==
    /\ phase = "run" /\ pc[d] = "idle"
    /\ enabled
    /\ Goto(d, "drain_lock")
    /\ UNCHANGED <<config, work>>

Shutdown ==
    /\ phase = "stop" /\ initialized /\ pc[Main] = "idle"
    /\ Goto(Main, IF enabled THEN "drain_lock" ELSE "free_all")
    /\ UNCHANGED <<config, work>>

LockDrain(p) ==
    /\ pc[p] = "drain_lock"
    /\ drainLock = Nobody
    /\ drainLock' = p
    /\ Goto(p, "registry_lock")
    /\ UNCHANGED <<config, writer, readers, heap, cursors, spans, phase, batch,
                   staged, tls, emitted, bracket>>

\* otel_drain only reads the registry.
ReadLock(p) ==
    /\ p \notin Workers /\ pc[p] = "registry_lock"
    /\ writer = Nobody
    /\ readers' = readers \cup {p}
    /\ Goto(p, "begin")
    /\ UNCHANGED <<config, drainLock, writer, heap, cursors, spans, phase,
                   batch, staged, tls, emitted, bracket>>

UnlinksOnlyEnabled == IF enabled THEN "begin" ELSE "free"   \* Mutant.

\* With tracing off otel_thread_unregister skips the pass, not the unlinking.
AfterWriteLock == IF enabled THEN "begin" ELSE "unlink"

WriteLock(w) ==
    /\ w \in Workers /\ pc[w] = "registry_lock"
    /\ writer = Nobody /\ readers = {}
    /\ writer' = w
    /\ Goto(w, AfterWriteLock)
    /\ UNCHANGED <<config, drainLock, readers, heap, cursors, spans, phase,
                   batch, staged, tls, emitted, bracket>>

\* The sink's begin(), and the first ring of the pass.
Begin(p) ==
    /\ pc[p] = "begin"
    /\ bracket' = IF sinkPresent THEN bracket \cup {p} ELSE bracket
    /\ LET first == IF p \in Workers THEN tls[p]
                    ELSE IF threads = <<>> THEN NoCtx ELSE Head(threads)
       IN /\ walk' = [walk EXCEPT ![p] = first]
          /\ Goto(p, IF first = NoCtx THEN "flush" ELSE "load")
    /\ UNCHANGED <<config, locks, heap, pos, lim, spans, phase, batch, staged,
                   tls, emitted>>

\* otel_drain_ctx: load both cursors.
Load(p) ==
    /\ pc[p] = "load"
    /\ lim' = [lim EXCEPT ![p] = Len(staged[walk[p]])]
    /\ Goto(p, "emit")
    /\ UNCHANGED <<config, locks, heap, walk, pos, spans, phase, batch, staged,
                   tls, emitted, bracket>>

\* otel_emit_span of the next slot: add it to the transport's batch, which is
\* flushed first if full or if its pools have no room for the span's attributes
\* and events (a free choice here), and show it to the sink.
Emit(p) ==
    /\ pc[p] = "emit" /\ pos[p] < lim[p]
    /\ LET c == walk[p]
           w == owner[c]
       IN /\ emitted' = [emitted EXCEPT ![w] = Append(@, staged[c][pos[p] + 1])]
          /\ \E poolsFull \in BOOLEAN :
              batch' = IF ~transport THEN batch
                       ELSE IF Len(batch) = BatchSpans \/ poolsFull THEN <<c>>
                       ELSE Append(batch, c)
    /\ pos' = [pos EXCEPT ![p] = @ + 1]
    /\ UNCHANGED <<config, locks, heap, walk, lim, spans, phase, staged, pc, tls,
                   bracket>>

NoNextCtx(c) == NoCtx       \* Mutant: the walk stops at the first ring.
FirstCtx(c) == threads[1]   \* Mutant: the walk starts again.

\* ctx->next, null at the end of the list.
NextCtx(c) ==
    LET later == {i \in 2..Len(threads) : threads[i - 1] = c}
    IN IF later = {} THEN NoCtx ELSE threads[CHOOSE i \in later : TRUE]

KeepsAll(p, spansOf) == spansOf   \* Mutant: the tail stays.

\* What the release store of tail leaves in a ring.
Unreleased(p, spansOf) == SubSeq(spansOf, lim[p] + 1, Len(spansOf))

\* Mutant: unregistering does not flush.
AfterRingUnflushed(p, next) ==
    IF p \in Workers THEN "end" ELSE IF next = NoCtx THEN "flush" ELSE "load"

AfterRing(p, next) == IF next = NoCtx THEN "flush" ELSE "load"

\* The release store of tail, and on to the next ring.
Store(p) ==
    /\ pc[p] = "emit" /\ pos[p] = lim[p]
    /\ LET c    == walk[p]
           next == IF p \in Workers THEN NoCtx ELSE NextCtx(c)
       IN /\ staged' = [staged EXCEPT ![c] = Unreleased(p, @)]
          /\ walk' = [walk EXCEPT ![p] = next]
          /\ Goto(p, AfterRing(p, next))
    /\ pos' = [pos EXCEPT ![p] = 0]
    /\ lim' = [lim EXCEPT ![p] = 0]
    /\ UNCHANGED <<config, locks, heap, spans, phase, batch, tls, emitted,
                   bracket>>

Flush(p) ==
    /\ pc[p] = "flush"
    /\ batch' = <<>>
    /\ Goto(p, "end")
    /\ UNCHANGED <<config, locks, heap, cursors, spans, phase, staged, tls,
                   emitted, bracket>>

ClosesIfDrainer(p) == sinkPresent /\ p \notin Workers   \* Mutant.

\* Whether the pass ends with a call of the sink's end().
Closes(p) == sinkPresent

\* The sink's end().
End(p) ==
    /\ pc[p] = "end"
    /\ bracket' = IF Closes(p) THEN bracket \ {p} ELSE bracket
    /\ Goto(p, IF p \in Workers THEN "unlink" ELSE "unlock")
    /\ UNCHANGED <<config, locks, heap, cursors, spans, phase, batch, staged,
                   tls, emitted>>

\* The end of otel_drain.
Unlock(p) ==
    /\ pc[p] = "unlock"
    /\ readers' = readers \ {p}
    /\ drainLock' = Nobody
    /\ Goto(p, IF p = Main THEN "free_all" ELSE "idle")
    /\ UNCHANGED <<config, writer, heap, cursors, spans, phase, batch, staged,
                   tls, emitted, bracket>>

\* The list after the loop that takes c off: without its first entry for c.
Without(c) ==
    LET at == {i \in 1..Len(threads) : threads[i] = c}
        k  == CHOOSE i \in at : \A j \in at : i <= j
    IN IF at = {} THEN threads
       ELSE SubSeq(threads, 1, k - 1) \o SubSeq(threads, k + 1, Len(threads))

\* otel_thread_unregister takes its context off the list and lets both locks go.
Unlink(w) ==
    /\ pc[w] = "unlink"
    /\ threads' = Without(tls[w])
    /\ writer' = Nobody
    /\ drainLock' = Nobody
    /\ Goto(w, "free")
    /\ UNCHANGED <<config, readers, live, owner, cursors, spans, phase, batch,
                   staged, tls, emitted, bracket>>

Free(w) ==
    /\ pc[w] = "free"
    /\ live' = live \ {tls[w]}
    /\ staged' = [staged EXCEPT ![tls[w]] = <<>>]
    /\ tls' = [tls EXCEPT ![w] = NoCtx]
    /\ Goto(w, "idle")
    /\ UNCHANGED <<config, locks, threads, owner, cursors, spans, phase, batch,
                   emitted, bracket>>

\* The rest of otel_shutdown: free the stragglers and clear the flags.
FreeAll ==
    /\ pc[Main] = "free_all"
    /\ writer = Nobody /\ readers = {}
    /\ threads' = <<>>
    /\ live' = {}
    /\ staged' = [c \in Ctx |-> <<>>]
    /\ owner' = [c \in Ctx |-> NoCtx]
    /\ initialized' = FALSE /\ enabled' = FALSE
    /\ phase' = "boot"
    /\ Goto(Main, "idle")
    /\ UNCHANGED <<transport, sink, sinkPresent, runtimeOn, locks, cursors,
                   spans, batch, tls, emitted, bracket>>

-----------------------------------------------------------------------------

Configure ==
    \/ OtelInit \/ SetTransport \/ SetEnabled \/ SetSpanSink \/ SetSinkPresent
    \/ RecomputeEnabled \/ StartThreads \/ StopThreads

Work(w) == Register(w) \/ SpanStart(w) \/ SpanEnd(w) \/ Unregister(w)

Pass(p) ==
    \/ LockDrain(p) \/ ReadLock(p) \/ WriteLock(p) \/ Begin(p) \/ Load(p)
    \/ Emit(p) \/ Store(p) \/ Flush(p) \/ End(p) \/ Unlock(p)

Continue(w) == Link(w) \/ Unlink(w) \/ Free(w)

Next ==
    \/ Configure
    \/ Shutdown \/ FreeAll
    \/ \E w \in Workers : Work(w) \/ Continue(w)
    \/ \E d \in Drainers : DrainCall(d)
    \/ \E p \in Threads : Pass(p)

Spec == Init /\ [][Next]_vars

\* A call that has begun runs on, drain threads keep calling otel_drain, and an
\* embedder that has joined its threads goes through with otel_shutdown.
\* Nothing makes a worker record or unregister, and a lock is granted with weak
\* fairness only: a thread may lose the race for it forever.
Fairness ==
    /\ \A p \in Threads : WF_vars(Pass(p))
    /\ \A w \in Workers : WF_vars(Continue(w))
    /\ \A d \in Drainers : WF_vars(DrainCall(d))
    /\ WF_vars(SetSinkPresent \/ RecomputeEnabled)
    /\ WF_vars(Shutdown) /\ WF_vars(FreeAll)

FairSpec == Spec /\ Fairness

-----------------------------------------------------------------------------
(* Properties.                                                             *)

Elements(s) == {s[i] : i \in 1..Len(s)}

Labels ==
    {"idle", "sink_present", "recompute", "link", "drain_lock", "registry_lock",
     "begin", "load", "emit", "flush", "end", "unlock", "unlink", "free", "free_all"}

\* Types of the tracer's state and of each thread's locals.
TypeOK ==
    /\ initialized \in BOOLEAN /\ transport \in BOOLEAN /\ sink \in BOOLEAN
    /\ sinkPresent \in BOOLEAN /\ runtimeOn \in BOOLEAN /\ enabled \in BOOLEAN
    /\ drainLock \in Threads \cup {Nobody} /\ writer \in Workers \cup {Nobody}
    /\ readers \subseteq Threads /\ bracket \subseteq Threads
    /\ live \subseteq Ctx /\ threads \in Seq(Ctx)
    /\ batch \in Seq(Ctx) /\ Len(batch) <= BatchSpans
    /\ staged \in [Ctx -> Seq(1..MaxEnds)] /\ \A c \in Ctx : Len(staged[c]) <= Capacity
    /\ pc \in [Threads -> Labels]
    /\ tls \in [Workers -> Ctx \cup {NoCtx}]
    /\ walk \in [Threads -> Ctx \cup {NoCtx}]
    /\ pos \in [Threads -> Nat] /\ lim \in [Threads -> Nat]
    /\ \A p \in Threads : pos[p] <= lim[p] /\ lim[p] <= Capacity
    /\ recording \in [Workers -> BOOLEAN]
    /\ ended \in [Workers -> 0..MaxEnds] /\ dropped \in [Workers -> 0..MaxEnds]
    /\ owner \in [Ctx -> Workers \cup {NoCtx}]
    /\ phase \in {"boot", "run", "stop"}

\* No thread can reach a freed context or ring: not through its thread-local
\* pointer, not through the registry list a drain walks, not through the
\* context it is draining, and not through the batch, whose spans point into
\* ring slots until otlp_flush although otel_drain_ctx is done with the ring.
NoDanglingContext ==
    /\ Elements(threads) \subseteq live
    /\ Elements(batch) \subseteq live
    /\ \A w \in Workers : tls[w] \in live \cup {NoCtx}
    /\ \A p \in Threads : walk[p] \in live \cup {NoCtx}

\* Whatever threads drain and unregister at once, the sink sees one pass at a
\* time: every span() comes between a begin() and an end() of the thread that
\* calls it, and end() comes before the next pass can start.
SinkPassesBracketed ==
    /\ bracket \subseteq {drainLock}
    /\ \A p \in Threads :
           pc[p] = "emit" /\ pos[p] < lim[p] /\ sinkPresent => p \in bracket

\* Spans of one worker reach otel_emit_span at most once and in the order they
\* ended, across drain threads, its own unregister and a later registration.
EmittedOnceInOrder ==
    \A w \in Workers : \A i, j \in 1..Len(emitted[w]) :
        i < j => emitted[w][i] < emitted[w][j]

\* Spans of w that wait in a ring.
Waiting(w) ==
    UNION {Elements(staged[c]) : c \in {d \in live : owner[d] = w}}

\* Every span a worker ended was emitted, waits in a ring or was counted in
\* otel_dropped_spans: neither unregistering nor shutdown loses one silently.
EverySpanAccounted ==
    \A w \in Workers :
        Cardinality((1..ended[w]) \ (Elements(emitted[w]) \cup Waiting(w)))
            = dropped[w]

\* A staged span is eventually emitted, if it is not its own thread's
\* unregister then by a drain thread or by otel_shutdown, unless tracing is
\* switched off meanwhile.  A thread that is already unregistering may have
\* found it switched off earlier.
StagedIsEventuallyEmitted ==
    \A w \in Workers : \A n \in 1..MaxEnds :
        n \in Waiting(w) /\ pc[w] = "idle" ~> n \in Elements(emitted[w]) \/ ~enabled

\* Whoever takes the drain lock gives it back: otel_drain (drain lock, then
\* read lock) and otel_thread_unregister (drain lock, then write lock) cannot
\* wait for each other in a circle, nor with otel_thread_register.
DrainLockIsReleased ==
    drainLock # Nobody ~> drainLock = Nobody
=============================================================================
