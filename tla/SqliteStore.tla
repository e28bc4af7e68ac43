---------------------------- MODULE SqliteStore -----------------------------
(***************************************************************************)
(* The SQLite sink's database: the callbacks begin, span and end of        *)
(* otel_sqlite.c with the retention they trigger, one step per SQL         *)
(* statement, and otel-trace reading the same file from another process.   *)
(*                                                                         *)
(* SQLite itself is external.  disk is what other connections see, db what *)
(* the sink's own connection sees; they differ while txn, SQLite's open    *)
(* transaction, is TRUE.  A statement outside a transaction commits by     *)
(* itself.  A statement may fail and change nothing ("refuse"), fail and   *)
(* roll the whole transaction back ("rollback", SQLite's answer to a full  *)
(* disk or an I/O error), and COMMIT may fail and leave the transaction    *)
(* open ("busy").  Checkpoints move pages and change no contents.          *)
(*                                                                         *)
(* The n-th span shown to the sink has number n.  Rows carry the number of *)
(* the span they were written for in the field "of", which no code reads.  *)
(***************************************************************************)
EXTENDS Integers, FiniteSets, Sequences, FiniteSetsExt

CONSTANTS
    Shapes,      \* spans: attributes, and attributes of each event
    Faults,      \* ways in which statements may fail
    Cap,         \* argument of otel_sqlite_set_max_spans
    LongBits,    \* width of unsigned long and of sqlite3_int64
    MaintEvery,  \* OTEL_SQLITE_MAINT_EVERY
    MaxShown     \* bound: spans shown to the sink

ASSUME StoreAssumption ==
    /\ Faults \subseteq {"refuse", "rollback", "busy"}
    /\ LongBits \in Nat \ {0}
    /\ Cap \in 1..2^LongBits - 1
    /\ MaintEvery \in Nat \ {0} /\ MaxShown \in Nat
    /\ \A s \in Shapes : s.attrs \in Nat /\ s.events \in Seq(Nat)

VARIABLES
    disk, db, txn,    \* SQLite
    torn,             \* history: the spans between whose rows SQLite rolled back
    open,             \* S.db is not null
    inTxn,            \* S.in_txn
    commits,          \* S.commits, modulo MaintEvery
    maxSpans,         \* S.max_spans
    pc,               \* where the drain pass is
    curSpan,          \* S.cur_span
    curEvent,         \* otel_sqlite_span's event_id
    todo,             \* what otel_sqlite_span has yet to insert
    cutoff,           \* otel_sqlite_prune's cutoff
    shown,            \* history: number of spans shown to the sink
    fresh,            \* history: number of the first span of this pass
    listed            \* rows of spans that otel-trace has read

sqlite == <<disk, db, txn, torn>>
vars == <<sqlite, open, inTxn, commits, maxSpans, pc, curSpan, curEvent, todo,
          cutoff, shown, fresh, listed>>

Empty == [spans |-> {}, attrs |-> {}, events |-> {}, eventAttrs |-> {}]

\* Nothing left to insert: no attributes of the span, none of its j-th event,
\* and no further events.
Done == [attrs |-> 0, eventAttrs |-> 0, j |-> 0, events |-> <<>>]

Init ==
    /\ disk = Empty /\ db = Empty /\ txn = FALSE /\ torn = {}
    /\ open = FALSE /\ inTxn = FALSE /\ commits = 0 /\ maxSpans = 0
    /\ pc = "idle" /\ curSpan = 0 /\ curEvent = 0 /\ todo = Done /\ cutoff = 0
    /\ shown = 0 /\ fresh = 1 /\ listed = {}

-----------------------------------------------------------------------------
(* SQLite.                                                                 *)

\* The greatest rowid of a table, 0 if it is empty.
MaxId(rows) == IF rows = {} THEN 0 ELSE Max({r.id : r \in rows})

\* The rowid of the next row of an INTEGER PRIMARY KEY table.
NextId(rows) == MaxId(rows) + 1

Results == {"ok"} \cup (Faults \ {"busy"})

RollsBack ==
    /\ txn /\ txn' = FALSE
    /\ db' = disk
    /\ torn' = IF pc = "rows" THEN torn \cup {shown} ELSE torn
    /\ UNCHANGED disk

\* A statement that would turn db into new.
Exec(result, new) ==
    \/ /\ result = "ok"
       /\ db' = new
       /\ disk' = IF txn THEN disk ELSE new
       /\ UNCHANGED <<txn, torn>>
    \/ /\ result = "refuse"
       /\ UNCHANGED sqlite
    \/ result = "rollback" /\ RollsBack

ExecCommit ==
    \/ /\ txn
       /\ disk' = db /\ txn' = FALSE
       /\ UNCHANGED <<db, torn>>
    \/ ~txn /\ UNCHANGED sqlite
    \/ txn /\ "busy" \in Faults /\ UNCHANGED sqlite
    \/ "rollback" \in Faults /\ RollsBack

-----------------------------------------------------------------------------
(* Lifecycle.                                                              *)

\* The part of otel_sqlite_open that concerns the database.
Open ==
    /\ ~open
    /\ open' = TRUE
    /\ UNCHANGED <<sqlite, inTxn, commits, maxSpans, pc, curSpan, curEvent,
                   todo, cutoff, shown, fresh, listed>>

SetMaxSpans ==
    /\ pc = "idle"
    /\ maxSpans' = Cap
    /\ UNCHANGED <<sqlite, open, inTxn, commits, pc, curSpan, curEvent, todo,
                   cutoff, shown, fresh, listed>>

\* Closing the connection rolls an open transaction back; S is zeroed.
Reset ==
    /\ open /\ open' = FALSE
    /\ db' = disk /\ txn' = FALSE
    /\ inTxn' = FALSE /\ commits' = 0 /\ maxSpans' = 0
    /\ pc' = "idle" /\ curSpan' = 0 /\ curEvent' = 0 /\ todo' = Done /\ cutoff' = 0
    /\ UNCHANGED <<disk, torn, shown, fresh, listed>>

\* otel_sqlite_close, after the flusher has ended.
Close == pc = "idle" /\ Reset

\* The process dies at any statement and is started again.
Crash == Reset

-----------------------------------------------------------------------------
(* One drain pass.                                                         *)

\* otel_sqlite_begin.  BEGIN fails inside a transaction.
Begin ==
    /\ open /\ pc = "idle"
    /\ \E ok \in IF txn THEN {FALSE} ELSE {TRUE, "refuse" \notin Faults} :
        /\ inTxn' = ok
        /\ txn' = (txn \/ ok)
    /\ pc' = "pass"
    /\ fresh' = shown + 1
    /\ UNCHANGED <<disk, db, torn, open, commits, maxSpans, curSpan, curEvent, todo,
                   cutoff, shown, listed>>

StoresAlways == TRUE   \* Mutant: span() ignores in_txn.

\* Whether otel_sqlite_span goes on.
Stores == inTxn

\* What otel_sqlite_span inserts after the row of spans: the attributes, then
\* each event followed by the event's attributes.
RowsOf(s) == [Done EXCEPT !.attrs = s.attrs, !.events = s.events]

GoOn(rest) ==
    /\ todo' = rest
    /\ pc' = IF rest.attrs = 0 /\ rest.eventAttrs = 0 /\ rest.events = <<>>
             THEN "pass" ELSE "rows"

\* otel_sqlite_span up to the insert into spans.
InsertSpan(s) ==
    /\ pc = "pass" /\ shown < MaxShown
    /\ shown' = shown + 1
    /\ IF ~Stores
       THEN UNCHANGED <<sqlite, pc, curSpan, todo>>
       ELSE \E result \in Results :
              LET id == NextId(db.spans) IN
              /\ Exec(result, [db EXCEPT !.spans =
                                 @ \cup {[id |-> id, of |-> shown + 1]}])
              /\ IF result = "ok"
                 THEN curSpan' = id /\ GoOn(RowsOf(s))
                 ELSE UNCHANGED <<curSpan, todo, pc>>
    /\ UNCHANGED <<open, inTxn, commits, maxSpans, curEvent, cutoff, fresh, listed>>

\* otel_sqlite_insert_attr for an attribute of the span.
InsertAttr ==
    /\ pc = "rows" /\ todo.attrs > 0
    /\ \E result \in Results :
        Exec(result, [db EXCEPT !.attrs =
                        @ \cup {[span |-> curSpan, of |-> shown, k |-> todo.attrs]}])
    /\ GoOn([todo EXCEPT !.attrs = @ - 1])
    /\ UNCHANGED <<open, inTxn, commits, maxSpans, curSpan, curEvent, cutoff,
                   shown, fresh, listed>>

\* otel_sqlite_insert_attr for an attribute of the event just inserted.
InsertEventAttr ==
    /\ pc = "rows" /\ todo.attrs = 0 /\ todo.eventAttrs > 0
    /\ \E result \in Results :
        Exec(result, [db EXCEPT !.eventAttrs =
                        @ \cup {[event |-> curEvent, of |-> <<shown, todo.j>>,
                                 k |-> todo.eventAttrs]}])
    /\ GoOn([todo EXCEPT !.eventAttrs = @ - 1])
    /\ UNCHANGED <<open, inTxn, commits, maxSpans, curSpan, curEvent, cutoff,
                   shown, fresh, listed>>

KeepsAttrs(ok, n) == n   \* Mutant: the attributes go to another event.

\* How many of an event's n attributes are inserted after its own insert.
AttrsAfter(ok, n) == IF ok THEN n ELSE 0

\* One event; if its insert fails its attributes are skipped.
InsertEvent ==
    /\ pc = "rows" /\ todo.attrs = 0 /\ todo.eventAttrs = 0
    /\ LET id == NextId(db.events)
           j  == todo.j + 1
       IN \E result \in Results :
           /\ Exec(result, [db EXCEPT !.events =
                 @ \cup {[id |-> id, span |-> curSpan, of |-> <<shown, j>>]}])
           /\ curEvent' = IF result = "ok" THEN id ELSE curEvent
           /\ GoOn([attrs |-> 0, j |-> j, events |-> Tail(todo.events),
                    eventAttrs |-> AttrsAfter(result = "ok", Head(todo.events))])
    /\ UNCHANGED <<open, inTxn, commits, maxSpans, curSpan, cutoff, shown, fresh,
                   listed>>

CutoffLate(maxId) == maxId - maxSpans + 1   \* Mutant: off by one.

\* The conversion of an unsigned long to sqlite3_int64.
Signed(u) == IF u >= 2^(LongBits - 1) THEN u - 2^LongBits ELSE u

\* The newest span that retention removes.
Cutoff(maxId) == maxId - Signed(maxSpans)

\* Mutant: events go before the attributes that are found through them.
PruneEventsFirst == <<"events", "event_attrs", "attrs", "spans">>

\* The order of otel_sqlite_prune's four DELETEs.
PruneOrder == <<"event_attrs", "attrs", "events", "spans">>

PruneNext(table) ==
    LET i == CHOOSE j \in 1..4 : PruneOrder[j] = table
    IN IF i = 4 THEN "idle" ELSE PruneOrder[i + 1]

\* otel_sqlite_end: commit, and every MaintEvery commits start retention.
End ==
    /\ pc = "pass"
    /\ IF ~inTxn
       THEN pc' = "idle" /\ UNCHANGED <<sqlite, inTxn, commits, cutoff>>
       ELSE /\ ExecCommit
            /\ inTxn' = FALSE
            /\ commits' = (commits + 1) % MaintEvery
            /\ LET c == Cutoff(MaxId(db'.spans)) IN
               IF commits' = 0 /\ maxSpans # 0 /\ c > 0
               THEN pc' = Head(PruneOrder) /\ cutoff' = c
               ELSE pc' = "idle" /\ UNCHANGED cutoff
    /\ UNCHANGED <<open, maxSpans, curSpan, curEvent, todo, shown, fresh, listed>>

\* What the DELETE for a table leaves.
Pruned(table) ==
    LET old == {e.id : e \in {f \in db.events : f.span <= cutoff}} IN
    CASE table = "event_attrs" ->
           [db EXCEPT !.eventAttrs = {a \in @ : a.event \notin old}]
      [] table = "attrs"  -> [db EXCEPT !.attrs = {a \in @ : a.span > cutoff}]
      [] table = "events" -> [db EXCEPT !.events = {e \in @ : e.span > cutoff}]
      [] table = "spans"  -> [db EXCEPT !.spans = {s \in @ : s.id > cutoff}]

\* One DELETE of otel_sqlite_prune; sqlite3_exec stops at the first that fails.
Prune ==
    /\ pc \in {"event_attrs", "attrs", "events", "spans"}
    /\ \E result \in Results :
        /\ Exec(result, Pruned(pc))
        /\ pc' = IF result = "ok" THEN PruneNext(pc) ELSE "idle"
    /\ UNCHANGED <<open, inTxn, commits, maxSpans, curSpan, curEvent, todo,
                   cutoff, shown, fresh, listed>>

-----------------------------------------------------------------------------
(* otel-trace show, in another process.                                    *)

\* cmd_show reads the rows of spans first; what it prints under each it reads
\* afterwards, from whatever the file then holds.
List ==
    /\ listed' = disk.spans
    /\ UNCHANGED <<sqlite, open, inTxn, commits, maxSpans, pc, curSpan,
                   curEvent, todo, cutoff, shown, fresh>>

\* print_attrs_events and print_event_attrs for a row of spans.
ShownAttrs(row) == {a \in disk.attrs : a.span = row.id}
ShownEvents(row) == {e \in disk.events : e.span = row.id}
ShownEventAttrs(event) == {a \in disk.eventAttrs : a.event = event.id}

-----------------------------------------------------------------------------

Pass ==
    \/ Begin \/ End \/ InsertAttr \/ InsertEventAttr \/ InsertEvent \/ Prune
    \/ \E s \in Shapes : InsertSpan(s)

Next == Open \/ SetMaxSpans \/ Close \/ Crash \/ Pass \/ List

Spec == Init /\ [][Next]_vars

-----------------------------------------------------------------------------
(* Properties.                                                             *)

\* No row without the row that owns it, and none under a wrong owner: not when
\* single inserts or deletes fail, not when COMMIT does, not when SQLite rolls
\* back, not when the process dies between the four deletes of retention, not
\* when event ids are given out again.  The exception is the rows of a span
\* between whose rows SQLite rolled back: the sink goes on writing them under the
\* id of a row that is gone.
RowsOwned ==
    /\ \A a \in disk.attrs : a.of \in torn \/
           \E s \in disk.spans : s.id = a.span /\ s.of = a.of
    /\ \A e \in disk.events : e.of[1] \in torn \/
           \E s \in disk.spans : s.id = e.span /\ s.of = e.of[1]
    /\ \A a \in disk.eventAttrs : a.of[1] \in torn \/
           \E e \in disk.events : e.id = a.event /\ e.of = a.of

\* What otel_sqlite.h:43-44 says of a drain, "written as one large
\* transaction": while a pass runs no reader sees any of its rows, so a crash
\* leaves all of a pass or nothing.  The exception is a pass that SQLite rolls
\* back in the middle, which the sink carries on row by row; it does not extend
\* to the passes after it, nor to one that follows a failed COMMIT.
DrainAtomic ==
    (inTxn => txn) /\ pc \in {"pass", "rows"} =>
        /\ \A s \in disk.spans : s.of < fresh
        /\ \A a \in disk.attrs : a.of < fresh
        /\ \A e \in disk.events : e.of[1] < fresh
        /\ \A a \in disk.eventAttrs : a.of[1] < fresh

\* What otel_sqlite.c:49 says of in_txn: a transaction is open, no more and no
\* less.  Were one open without the flag, every later BEGIN would fail.
InTxnIsOpenTransaction == inTxn = txn

\* However late otel-trace reads what belongs to a row of spans it has listed,
\* while the writer commits, prunes and gives ids out again, it prints only
\* attributes and events of that very span, and what RowsOwned excepts.
ShowReadsOwnRows ==
    \A row \in listed :
        /\ \A a \in ShownAttrs(row) : a.of \in torn \cup {row.of}
        /\ \A e \in ShownEvents(row) :
               /\ e.of[1] \in torn \cup {row.of}
               /\ \A a \in ShownEventAttrs(e) : a.of = e.of \/ a.of[1] \in torn

\* Retention removes a span only when max_spans newer ones are stored.
RetentionKeepsNewest ==
    \A row \in listed :
        row \notin disk.spans => Cardinality(disk.spans) >= maxSpans

\* The numbers of the stored spans, oldest row first.
Stored ==
    [i \in 1..Cardinality(disk.spans) |->
        (CHOOSE r \in disk.spans :
             Cardinality({s \in disk.spans : s.id <= r.id}) = i).of]

Log == INSTANCE SpanLog WITH Span <- 1..MaxShown, stored <- Stored

\* Whatever fails and whenever the process dies, a reader finds a log: commits
\* append in order, retention removes from the old end and never everything,
\* nothing else ever appears or vanishes.
ImplementsSpanLog == Log!Spec
=============================================================================
