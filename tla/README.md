# oteltracing-c: TLA+ models and proofs

oteltracing-c is a small C library: application threads record spans into
lock-free per-thread rings, and a drain thread hands finished spans to an OTLP
transport callback and to an optional raw-span sink. A SQLite sink with its own
flusher thread and a command, `otel-trace`, that reads the database come with it.
This directory models all of these, checks them with TLC, and proves with TLAPS,
for every size, each safety property that the passing runs check. Paths and line
numbers are those of the repository.

## 1. Inventory

| Part | State | Operations | Interacts through |
|---|---|---|---|
| Span ring (`oteltracing.c` `struct otel_thread_ctx`) | slots, `head`, `tail`, `dropped` | `otel_span_end_`, `otel_drain_ctx` | atomics only; one producer, one consumer |
| Tracer (`OT`, `otel_tls`, `otel_enabled_`) | configuration, registry list, `drain_lock`, `registry_lock`, drop counter | init, set transport / sink / enabled, register, unregister, drain, shutdown | both locks; plain stores for configuration |
| OTLP batch (`struct otel_otlp`) | spans, attribute and event pools, buffer | `otlp_add_span`, `otlp_flush` | filled by drain and unregister under `drain_lock`; **points into ring slots** |
| Span builder (`oteltracing.h` inline) | 4024-byte arena, list heads and tails, counters | init, name, status, attributes, events | read by the batch and by sinks through accessors |
| Sampling and context | `sample_always`, `sample_threshold` | set sampler, start root / child / remote | two plain words, written by one thread and read by all |
| Ids (`otel_random.h`) | a two-word state per thread | seed, next | none |
| Ring capacity | `otel_ring_capacity` | `otel_set_ring_capacity` | read by register |
| SQLite sink, tables (`otel_sqlite.c`) | four tables, `in_txn`, `commits`, `max_spans` | begin, span, end, prune, open, close | sink callbacks; the file, shared with readers |
| SQLite sink, threads | db, `running`, `have_thread`, lock, condition variable | open, flusher loop, close | `otel_drain`, `otel_set_span_sink` |
| `otel-trace` (`tools/`) | command line, nodes of a trace | list, show, spans, stats, sql | reads the database |
| Platform shims (`otel_platform.h`) | none | timed wait | used by the flusher |

What is hard here: the ring has no lock; passes over the rings run on the drain
thread, on unregistering workers and inside shutdown; the batch borrows memory
that the ring gives back earlier; configuration is stored without a lock; the
arena must survive any mixture of calls that half succeed; an SQL statement may
fail, or the process die, between any two; the sink is taken down while other
threads may be about to call it. `PROJECT.json` lists
each such hazard at its line with the properties aimed at it.

## 2. Modules

* `StagingQueue` - what a thread's staging area promises: a bounded FIFO that
  refuses (and counts) only when full.
* `SpanRing` - the ring at the granularity of its shared accesses. Producer:
  `EndLoad` (cursor loads and the full test), `EndDrop`, `CopyBegin`/`CopyEnd`
  (the 4 KiB copy is not atomic: in between the slot is `Torn`), `Publish`
  (release store of head). Consumer: `DrainLoad`, `Emit`, `DrainStore` (release
  store of tail), `Flush`. The transport's batch is a sequence of cursors, read
  through the ring when it is packed. Acquire/release pairs make each side's
  earlier accesses visible at the other's load, so interleaving the steps is
  enough. Whether a batch is flushed early because its pools are full depends on
  span contents and is a free choice.
* `Tracer` - the threads around the rings. A ring is the abstract queue, so
  ending a span is one step (this is what the refinement of `SpanRing`
  licenses); locks, list, passes, batch and configuration keep their steps.
  `Begin`/`Load`/`Emit`/`Store`/`Flush`/`End` are one pass, shared by `otel_drain`
  (drain threads, and main from `otel_shutdown`) and `otel_thread_unregister`.
  Code between two lock operations that no other thread can observe (link under
  the write lock; unlink and the two unlocks) is one step. `phase` is the
  embedder: it configures, starts its threads, joins them, shuts down, and may
  begin again.
* `SpanArena` - one span's arena: allocation arithmetic, every builder call with
  its partial failures, and the read accessors. A string is its length.
* `OtlpBatch` - the pre-allocated batch: the fit test and early flush of
  `otlp_add_span`, the slices that spans and events carve from the shared pools,
  and `otlp_flush` packing what the slices hold at that moment. An attribute is
  the place it was read from (span, event, index); `SpanRing` models the other
  half of the hazard, when that place is overwritten.
* `SpanLog` - what the local store promises a reader: a log that grows at the new
  end by whole commits, shrinks at the old end, and keeps its newest span.
* `SqliteStore` - the tables. One step per SQL statement of the sink's callbacks
  and of retention; `disk` is what other connections see, `db` what the sink's
  own sees. A statement may be refused, may make SQLite roll the transaction
  back, and COMMIT may fail with the transaction open (`Faults`). A crash and a
  close can come between any two statements. `otel-trace show` reads a span's row
  and later its attributes and events, from another process. Implements `SpanLog`.
* `SqliteFlusher` - the threads. Main opens (any step may fail, all failures go
  through close) and closes; the flusher waits with lock and condition variable
  and drains; a worker's `otel_thread_unregister` runs the same callbacks. Each
  callback takes time, and `otel_set_span_sink` is its three stores.
* `SpanContext` - root, child and remote starts while another thread stores a new
  ratio (two steps, read in two steps), flips the live flag or the thread
  unregisters.
* `RingCapacity` - the rounding loop on an unsigned word of `Bits` bits.
* `IdGenerator` - `otel_random_next` limb by limb, against the product it stands
  for.
* `TraceTree` - `otel-trace show`: the loading order and `print_subtree`, the
  recursion as an explicit stack. Traces may lack parents and repeat ids.
* `TraceQuery` - the argument loop, the WHERE clause with its placeholders and the
  positional binding, and the `spans` and `list` commands.
* `OtelTrace` - the command as a whole: `main`, its queries and, for `show`, the
  tree.
* `PlatformShims` - the deadline of the timed wait.
* `...Proofs` - TLAPS proofs about the module of that name (section 5).
* `MC...` - the instances that TLC runs. `MCLibraryParts` puts the parts that
  share no state (`SpanArena`, `OtlpBatch`, `SpanContext`, `RingCapacity`,
  `IdGenerator`, `PlatformShims`) into one run; a behaviour picks one of them and
  leaves the others at rest.

Operators marked "Mutant" are plausible bugs of the definition that follows
them; they are used only to confirm that a property can fail.

## 3. Runs

| Run | Result | Shows |
|---|---|---|
| `ring` | pass | whole spans, once, in order; full accounting; inductive invariant; refinement; liveness |
| `ring_transport` | violated | finding 1 |
| `tracer` | pass | memory safety, sink bracket, order, accounting over whole sessions |
| `tracer_live` | pass | memory safety under `otel_set_enabled` at any time; staged spans are emitted; the drain lock is always released |
| `tracer_disable` | violated | finding 2 |
| `tracer_attach` | violated | finding 3 |
| `sqlite` | pass | under refused statements, rollbacks by SQLite, failing COMMITs and crashes: implements `SpanLog`, retention keeps the newest spans; no row without or under the wrong owner, for a reader either, but those of a span that a rollback tore; every pass atomic but one that SQLite rolls back in the middle |
| `sqlite_commit` | violated | finding 4 |
| `flusher` | pass | no callback without a database; close stores what waited and returns; open is all or nothing; a waiting span is stored |
| `flusher_late` | violated | finding 5 |
| `parts` | pass | builder: disjoint blocks, read-back, counters. Batch: pools never overrun, every span packed once with its own attributes and events. Sampling: a decision is that of a ratio in force and reaches the whole trace; one tree per trace. Capacity: never anything but the least power of two, in finitely many steps where there is one. Ids: limbs compute the full product, never zero. Shims: exact, normalised deadline |
| `command` | pass | `spans` answers what was typed, and `list` too but for its duration filter (section 4); `show` prints each row once, under its parent, in order; the command ends |

Bounds. `ring`: capacity 2, batch 2, six spans: three laps, so slots are reused
while a pass is in progress and a batch spans two passes' worth of slots.
`tracer`: two workers, one drain thread, three registrations (one worker
registers twice), three spans each on two-slot rings, so rings overflow; workers
are symmetric. `tracer_live`: two workers without symmetry, two registrations
(by one worker or by both), one span each, and the switch toggled without limit.

`sqlite`: three spans, each with an attribute or with an event that has one, so
that all four tables fill; a cap of one and maintenance at every second commit,
so that retention runs both with something to delete and with nothing, and row
ids are used again. `unsigned long` has four bits. `flusher`: two workers with a
span each, two opens, so that an open can fail after a good one and a span can be
ended behind a pass in progress; no symmetry.

`parts`. Builder: 72 bytes with the real record sizes; strings of 8 and 24 bytes
after rounding, so that a key can fail where a record still fits; `U8 = 3` is the
smallest modulus that an event's attributes cannot reach there, as 256 is not
reached by the at most 167 attributes of a 4024-byte arena. Batch: two spans,
four attributes and four events, spans of up to four records, three spans: each
of the three limits forces a flush on its own, two events of a span can both have
attributes, and a full batch can follow a flush and reuse pools with stale
contents. Its assumption that one span fits into empty pools is the theorem
`RecordsBounded` about the arena: at most 4024 / 24 = 167 records, against 2048 and
1024 pool entries. Sampling: four possible draws and the ratios none, some and all;
three spans are enough for a parent, a child, and a child of the child. Capacity:
every request of an 8-bit word. Ids: limbs of eight values, every odd multiplier and
every state; partial products wrap at the word of 64. Shims: eight
nanoseconds to the second; all carries occur.

`command`: five rows that every pair of filters tells apart; four groups of
arguments give two filters, a repeated option, an unknown one or a missing
value next to the command. `show` prints every trace of four rows and five ids, so
that a parent can be missing, repeated, or shared. Ids are numbered in the order in
which they first appear, which loses nothing because the code only compares them; and
the command line is forgotten when `show` starts, which does not use it.

An upper limit is part of a guard only for the constants named `Max...`.

Deadlock is checked in every run but `command`, which ends. With all threads idle
the embedder can still drain, stop or start again. `SpanRing`'s consumer can
always start a pass.

Fairness. The drain thread keeps calling `otel_drain` and a call that has begun
runs on (weak fairness of `Consumer`; of `Pass`, `Continue`, `DrainCall` and of
the stores of a configuration call). An embedder that joined its threads goes on
to `otel_shutdown`. Workers owe nothing. Locks are granted with weak fairness
only, because the mutex gives no more: that a particular `otel_thread_unregister`
gets the drain lock against an ever-busy drain thread is therefore not claimed.
`SqliteFlusher` assumes more in one place: `otel_sqlite_close` gets the flusher's
lock (strong fairness of `StopFlusher`), because the flusher sleeps with it free
between any two passes. `CloseReturns` assumes nothing of the timeout, so the
wakeup alone is enough. `WaitingIsEventuallyStored` has two hypotheses of its own:
timeouts come, and the flusher is not passed over for the drain lock for ever.
`RingCapacity` and `OtelTrace` assume that a running call takes its next step.

## 4. Findings

1. The batch points into slots that `otel_drain_ctx` has already released
   (`oteltracing.c:862`) when `otlp_flush` packs it (`:887`). A producer on a
   full ring can overwrite them: the transport gets wrong or torn spans. The
   sink is not affected.
2. With tracing switched off, staged spans are freed by unregister and shutdown
   without being emitted or counted, against `oteltracing.h:198` and `:273`.
3. A sink attached during a pass gets `span()` without `begin()`, against
   `oteltracing.h:225-227`.
4. A COMMIT that fails with the transaction open is taken for done
   (`otel_sqlite.c:261`), against `:49`. Every later BEGIN fails, and the spans of
   all later passes are dropped.
5. A thread that unregisters during `otel_sqlite_close` calls through a null sink
   or into a database that is being torn down, against `otel_sqlite.c:401`.

Smaller deviations met while modelling, without a run of their own:

* `otel_thread_unregister` runs sink callbacks on the home thread, against
  `oteltracing.h:227-228` and `otel_sqlite.h:15` (`Begin` and `Emit` of `Tracer` by
  a worker; finding 5 rests on it).
* Strings that overflow the arena are not counted, against `oteltracing.h:65-66`.
* After SQLite has rolled a transaction back by itself, the rest of the pass is
  committed row by row, against `otel_sqlite.h:43-44`. Rows of the span it was
  writing are stored under the id of a span row that is gone. `RowsOwned` and
  `ShowReadsOwnRows` leave out the rows of such spans (`torn`), and `DrainAtomic`
  leaves out that one pass from the rollback on; they hold for everything else,
  passes after the rollback included.
* Retention deletes span by span, not "the oldest traces" (`otel_sqlite.h:49-50`).
* A cap above the signed range turns negative and deletes everything
  (`otel_sqlite.c:236`; `Cap = 15` in `MCSqliteStore.cfg` violates
  `ImplementsSpanLog`).
* A requested capacity above 2^31 makes `otel_set_ring_capacity` loop for ever
  (`oteltracing.c:382`; `RoundsUp` shows only that no capacity is ever stored for
  such a request).
* `list --min-duration-us` filters spans, not traces, against the help text
  (`otel-trace.c:577`): a trace that lasts long enough is left out if none of its
  spans does, and the line of one that is listed sums up only its long spans. Of the
  help text `ListAsAsked` claims the half that holds, that no shorter trace is listed.

## 5. Proofs

Each proof module extends the module it is about. Its theorems hold for all
values of the constants that the module's `ASSUME` allows; the assumptions are the
ones TLC evaluates in the runs. None of the properties is inductive alone. The
inductive invariants, and why each part is there:

**`SpanRingProofs`** (any capacity, batch size, number of spans; from
`RingAssumption`: both sizes positive. That the capacity is a power of two is what
lets `cursor % Capacity` stand for the code's mask). That the sink sees whole spans
depends on where the producer is writing. `RingInv` adds the cursor order with the
producer at most one lap ahead (`CursorsInv`), that each slot between `tail` and
`head` holds the span published there (`SlotsInv`), and what the histories have to do
with the cursors (`HistoryInv`). The one arithmetic fact is `SlotsDistinct`: cursors
less than a lap apart have different slots. `TypeCorrect` and `RingCorrect` are the
invariant, `SinkCorrect` and `AccountingCorrect` follow, and `Refinement` shows every
ring step to be a `StagingQueue` step or a stutter: a refusal takes effect at the
load of `tail`, an acceptance at the store of `head`.

**`TracerProofs`** (any sets of workers, drain threads and contexts). In layers, each
resting on the ones above it:
* `TypeCorrect` - types, with ring and batch bounds;
* `ControlCorrect` - `ControlInv`: which labels lie inside which lock, hence one pass
  at a time and no reader next to a writer;
* `NoDangling` - `HeapInv`: contexts on the list are live and distinct, a worker's
  `otel_tls` is on the list until it frees it, the ring being drained and the batch's
  contexts are on the list, and every live context has one owner. Mutual exclusion is
  what keeps a context on the list while somebody walks it;
* `SinkBracketed` - `BracketInv`, if the sink is not attached while threads run
  (`"attach" \notin LiveCalls`; without this it is false, finding 3);
* `OnceInOrder` - `OrderInv`: what was emitted for a worker, followed by what its ring
  holds, is in order;
* `AllAccounted`, if the live flag is not switched while threads run
  (`"enable" \notin LiveCalls`; without this it is false, finding 2). Needs that the
  flag agrees with the configuration (`EnabledInv`), that with it off nothing is staged
  (`QuietInv`), that a leaving worker's ring stays empty after its pass (`FinalInv`),
  and that shutdown's own pass has emptied every ring it has gone by (`LastPassInv`).

**`SpanArenaProofs`** (any arena, alignment, record and string sizes).
`AllocationsDisjoint` needs only the arithmetic of rounding up. For the lists,
`ListInv` says what the bytes below `arena_used` hold: each string, each attribute
record with its link, each event record with head, tail and count of its own list;
that no record is in two lists (a link stored into one would otherwise change the
other); and that the lists are no longer than the bytes allow. The steps
rest on two facts: a write at or behind `arena_used` disturbs nothing below it
(`Fresh...`), and hooking a record behind a tail changes one link (`Hook...`,
`Other...`). `ReadsBack` and `CountsMatch` follow because the accessors' walk of a
linked list is determined step by step (`VisitsLinked`, `ChainLinked`). That the 8-bit
count cannot wrap uses `CountAssumption`: 256 attributes and an event do not fit into
an arena (each takes a record of 24 bytes and a key of at least one, of 4024).
`RecordsBounded` adds up the lists of the span and of all its events: no call adds more
than one record, and none without `AttrSize` bytes of its own (`FilledByOne`), so that all
records together fit `Arena` (`Filled`). This is what `OtlpBatch` assumes of a span.

**`OtlpBatchProofs`** (any pool sizes that one arena's records fit into, as they do
with at most 167 records against 2048 and 1024 entries). `BatchInv`: every slice of a
span in the batch lies below the cursors and holds that span's own data, and what was
sent is whole. The sums over a span's events are a recursive function; that they add
up (`EventSums`) is shown by a least counterexample. `CursorsInBounds`,
`SpansPackedWhole`.

**`SpanContextProofs`** (any ratios and number of draws; `SpanContext` and
`IdGenerator`). `OneRatio`: the threshold is
that of a ratio in force and the flag that of the newest one, whichever store has
happened. `Inherited` and `Trees`: every recorded span repeats an earlier recorded
one's trace and decision, and ids are never given out twice (that two random ids
differ is the model's assumption, not a result). `DrawCorrect`: for limbs of any size,
a draw is one multiplication of the whole state. That the words are words and the state
not zero is the invariant (`GeneratorInv`); `Schoolbook` is the product in two digits,
`FitsWord` shows that no partial product wraps, `CarryIsUpperHalf` and `WholeProduct` put
the halves together, and `NeverZero` uses the multiplier's inverse, which the code's odd
multiplier has modulo a power of two.

**`SqliteFlusherProofs`** (any set of workers). `AllOrNothing` from `StageInv`: which
parts of the sink are there at each step of open and close. `DatabaseOutlives` and
`ClosePersists` if no thread unregisters during open or close (`~LateUnregister`;
without it both are false, finding 5). The first adds that every pass has a whole sink
under it (`WholeInv`); the second follows the spans that waited when close was called
from ring to transaction to table (`TxnInv`, `DueInv`). The flusher's timed wait is here
too: `DeadlineCorrect` (`PlatformShims`) says that for every clock reading, interval and
unit sizes the deadline is in normal form and lies exactly the interval after now.

**`SqliteStoreProofs`** (any numbers of spans, attributes and events, any `Faults`).
`StoreCorrect`: ids of a table are unique, those of spans consecutive and in writing
order, both in the file and in the writer's view; where flag and transaction can
stand at each statement; for a span that no rollback has torn, that the next insert's
owner exists; and that retention has deleted what refers to its next victims.
`RowsAlwaysOwned` follows, and `DrainsAtomic` because the file holds only rows from before
the running pass until SQLite rolls that pass back (`FreshInv`). `LogCorrect` compares the file with what a
reader listed earlier (`Newer`): what is gone was oldest with a full cap left, what came
is newest. `ShowReadsOwn`, `RetentionKeeps` and `StoreImplementsLog` (each statement is
a `SpanLog` step or a stutter) rest on it. These assume that the cap fits the signed
type (`Signed(Cap) = Cap`); section 4 says what happens otherwise.

**`OtelTraceProofs`** (any finite table, command line and trace). `QueryAssumption` asks
that starts of rows differ, because SQL leaves the order of equal ones open. Until `show`
starts, `CommandInv` is `QueryInv`: unless an option is unknown, lacks its value or asks for
help, main's index is at the end of a group of arguments (`AtGroup`; `FlattenLaysOut` says where each
group lies in `argv`), and the filters are what the last group of each option says
(`Parsed`). That the n-th value bound belongs to the n-th placeholder
(`SelectedFacts`) follows because clause and bindings are concatenations over the same
options in the same order (`MeetsConcat`). `SortedFacts` and `NewestFacts` give the order
and the limit, and `SpansCorrect` and `ListCorrect` follow. `show` has `TreeInv`: each
line's row is marked and no row has two lines (`MarkedInv`); the frames of `print_subtree`
are one per level (`DepthInv`), have passed over no row of their own (`BehindInv`), and
nothing but a frame's subtree follows the line of its parent (`UnderInv`); the children of
a printed row are printed or have a frame (`CoverInv`); and lines are nested and siblings ordered (`OrderInv`,
`NestedInv`, `SiblingInv`). `OutlineCorrect` is read off it. For `RowsPrintedOnce`, the
rows left unprinted at the end would be a set closed under having a parent in it, which a
trace does not contain because a child starts after its parent (`Descends`).

Model-checked only: liveness, which is out of the prover's reach
(`PublishedIsEventuallySunk`, `StagedIsEventuallyEmitted`, `DrainLockIsReleased`,
`CloseReturns`, `WaitingIsEventuallyStored`, `RoundsUp`, `CommandEnds`). The other half of
`RoundsUp`, that the result is a power of two, would take an induction over the exponent.

## 6. Not modelled, and plan

Not modelled, with the reason:

* allocation failure in init and register: the process prints and gives up;
* a thread that outlives `otel_shutdown` (its ring is freed under it) and
  replacing a transport under a running pass: what happens then is undefined
  behaviour of the caller's making, and the header forbids neither nor promises
  anything;
* the values of attributes and of columns, the frame header,
  protobuf-c packing: no property here tells values apart;
* PRAGMAs and WAL checkpoints: they change speed and durability, not contents. A
  crash in the model is a crash of the process; `synchronous=NORMAL` may lose
  commits when the machine loses power;
* `otel-trace stats` and `sql`, and all output formatting: single queries;
* the Windows shims, and the wrappers around locks, threads and clocks, which the
  models use by their contract;
* the compiled-out API and the OTLP protobuf definitions: no state.

No safety property of a passing run is left to prove. The next extensions would be
`otel-trace stats`, and replacing a transport under a running pass once the header
says what is allowed.
