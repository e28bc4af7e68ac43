--------------------------- MODULE SqliteFlusher ----------------------------
(***************************************************************************)
(* The SQLite sink's threads: the main thread in otel_sqlite_open and      *)
(* otel_sqlite_close, the flusher thread with its lock and condition       *)
(* variable, and worker threads whose otel_thread_unregister also runs the *)
(* sink's callbacks.                                                       *)
(*                                                                         *)
(* A callback takes time: pc is "in_begin", "in_span" or "in_end" while    *)
(* SQLite works.  What the callbacks do to the tables is SqliteStore's     *)
(* subject; here every statement succeeds.  Only the holder of drain_lock  *)
(* is in a pass, so the locals of a pass are single variables.  Rings do   *)
(* not overflow here (Tracer's subject): worker w's ring holds its spans   *)
(* tail[w]+1..head[w].                                                     *)
(***************************************************************************)
EXTENDS Naturals, FiniteSets

CONSTANTS
    Workers, Main, Flusher,
    Nobody,          \* no holder of a lock
    LateUnregister,  \* whether workers unregister while the sink is closing
    MaxOpens,        \* bound: calls of otel_sqlite_open
    MaxSpans         \* bound: spans each worker ends

ASSUME FlusherAssumption ==
    /\ Main \notin Workers /\ Flusher \notin Workers \cup {Main}
    /\ Nobody \notin Workers \cup {Main, Flusher}
    /\ LateUnregister \in BOOLEAN /\ MaxOpens \in Nat /\ MaxSpans \in Nat

VARIABLES
    db,          \* S.db is not null
    running,     \* S.running
    haveThread,  \* S.have_thread
    lock,        \* holder of S.lock
    sink,        \* OT.sink is not null
    sinkPresent, \* OT.sink_present
    enabled,     \* otel_enabled_
    drainLock,   \* holder of OT.drain_lock
    head, tail,  \* the workers' rings
    registered,  \* workers with a context
    recording,   \* workers with a recording span open
    pc,          \* where each thread is
    left, ring, pos, lim,  \* locals of the pass
    txn,         \* spans of the open transaction
    stored,      \* committed spans
    opens,       \* calls of otel_sqlite_open
    due          \* history: spans that waited when otel_sqlite_close began

sinkVars == <<db, running, haveThread, lock>>
config   == <<sink, sinkPresent, enabled>>
rings    == <<head, tail, registered, recording>>
pass     == <<left, ring, pos, lim, txn, stored>>
history  == <<opens, due>>
vars == <<sinkVars, config, drainLock, rings, pc, pass, history>>

Threads == Workers \cup {Main, Flusher}
Span == Workers \X (1..MaxSpans)

Goto(p, label) == pc' = [pc EXCEPT ![p] = label]

Waiting == {s \in Span : tail[s[1]] < s[2] /\ s[2] <= head[s[1]]}

Init ==
    /\ db = FALSE /\ running = FALSE /\ haveThread = FALSE /\ lock = Nobody
    /\ sink = FALSE /\ sinkPresent = FALSE /\ enabled = FALSE
    /\ drainLock = Nobody
    /\ head = [w \in Workers |-> 0] /\ tail = [w \in Workers |-> 0]
    /\ registered = {} /\ recording = {}
    /\ pc = [p \in Threads |-> "idle"]
    /\ left = {} /\ ring = Nobody /\ pos = 0 /\ lim = 0
    /\ txn = {} /\ stored = {} /\ opens = 0 /\ due = {}

-----------------------------------------------------------------------------
(* otel_set_span_sink, in the main thread: pointer, flag, live flag.  A    *)
(* transport is not attached and the runtime switch is on.                 *)

SetSink ==
    /\ pc[Main] \in {"attach", "detach"}
    /\ sink' = (pc[Main] = "attach")
    /\ Goto(Main, IF pc[Main] = "attach" THEN "attach_flag" ELSE "detach_flag")
    /\ UNCHANGED <<sinkVars, sinkPresent, enabled, drainLock, rings, pass, history>>

SetSinkPresent ==
    /\ pc[Main] \in {"attach_flag", "detach_flag"}
    /\ sinkPresent' = sink
    /\ Goto(Main, IF sink THEN "attach_live" ELSE "detach_live")
    /\ UNCHANGED <<sinkVars, sink, enabled, drainLock, rings, pass, history>>

RecomputeEnabled ==
    /\ pc[Main] \in {"attach_live", "detach_live"}
    /\ enabled' = sinkPresent
    /\ Goto(Main, IF sinkPresent THEN "spawn" ELSE "teardown")
    /\ UNCHANGED <<sinkVars, sink, sinkPresent, drainLock, rings, pass, history>>

-----------------------------------------------------------------------------
(* otel_sqlite_open.                                                       *)

\* An embedder opens and closes the sink while no thread is unregistering,
\* unless LateUnregister.
Quiet == LateUnregister \/ \A w \in Workers : pc[w] = "idle"

\* Opening the file, the schema and the statements.  sqlite3_open leaves a
\* handle even when it fails; each failure goes through otel_sqlite_close.
OpenDb ==
    /\ pc[Main] = "idle" /\ ~db /\ opens < MaxOpens /\ Quiet
    /\ opens' = opens + 1
    /\ db' = TRUE /\ due' = {}
    /\ \E label \in {"attach", "drain"} : Goto(Main, label)
    /\ UNCHANGED <<running, haveThread, lock, config, drainLock, rings, pass>>

SpawnFailsBare == "idle"   \* Mutant: returns -1 without cleaning up.

\* Where otel_sqlite_open goes when the thread cannot be created: into
\* otel_sqlite_close, which finds have_thread unset.
SpawnFails == "drain"

SpawnFlusher ==
    /\ pc[Main] = "spawn"
    /\ \E ok \in BOOLEAN :
        /\ running' = ok /\ haveThread' = ok
        /\ pc' = IF ok THEN [pc EXCEPT ![Main] = "idle", ![Flusher] = "lock"]
                 ELSE [pc EXCEPT ![Main] = SpawnFails]
        /\ due' = IF ok THEN due ELSE Waiting
    /\ UNCHANGED <<db, lock, config, drainLock, rings, pass, opens>>

-----------------------------------------------------------------------------
(* otel_sqlite_flusher.                                                    *)

FlusherLock ==
    /\ pc[Flusher] = "lock" /\ lock = Nobody
    /\ lock' = Flusher
    /\ Goto(Flusher, "test")
    /\ UNCHANGED <<db, running, haveThread, config, drainLock, rings, pass, history>>

FlusherTest ==
    /\ pc[Flusher] = "test"
    /\ IF running THEN Goto(Flusher, "wait") /\ UNCHANGED lock
       ELSE Goto(Flusher, "ended") /\ lock' = Nobody
    /\ UNCHANGED <<db, running, haveThread, config, drainLock, rings, pass, history>>

\* otel_cond_wait_ms gives the lock up and sleeps.
CondWait ==
    /\ pc[Flusher] = "wait"
    /\ lock' = Nobody
    /\ Goto(Flusher, "sleep")
    /\ UNCHANGED <<db, running, haveThread, config, drainLock, rings, pass, history>>

\* The interval is over, or the wait ends for no reason.
Timeout ==
    /\ pc[Flusher] = "sleep"
    /\ Goto(Flusher, "woken")
    /\ UNCHANGED <<sinkVars, config, drainLock, rings, pass, history>>

AfterWakeWait == "lock"   \* Mutant: waits again, as after a spurious wakeup.
AfterWake == "drain"

\* otel_cond_wait_ms takes the lock again and the loop gives it back.
Wake ==
    /\ pc[Flusher] = "woken" /\ lock = Nobody
    /\ Goto(Flusher, AfterWake)
    /\ UNCHANGED <<sinkVars, config, drainLock, rings, pass, history>>

-----------------------------------------------------------------------------
(* otel_sqlite_close.                                                      *)

Close ==
    /\ pc[Main] = "idle"
    /\ Quiet
    /\ due' = IF sinkPresent THEN Waiting ELSE {}
    /\ Goto(Main, IF haveThread THEN "stop" ELSE "drain")
    /\ UNCHANGED <<sinkVars, config, drainLock, rings, pass, opens>>

MayStopUnlocked == TRUE   \* Mutant: stops the flusher without S.lock.
MayStop == lock = Nobody

\* Where the signal leaves the flusher: only a sleeping one hears it.
Signalled == IF pc[Flusher] = "sleep" THEN "woken" ELSE pc[Flusher]

\* Under S.lock: clear running and signal.
StopFlusher ==
    /\ pc[Main] = "stop" /\ MayStop
    /\ running' = FALSE
    /\ pc' = [pc EXCEPT ![Main] = "join", ![Flusher] = Signalled]
    /\ UNCHANGED <<db, haveThread, lock, config, drainLock, rings, pass, history>>

AfterJoinDetach == "detach"   \* Mutant: no final drain.
AfterJoin == "drain"

JoinsAtOnce == TRUE   \* Mutant: the thread is not waited for.
MayJoin == pc[Flusher] = "ended"

Join ==
    /\ pc[Main] = "join" /\ MayJoin
    /\ haveThread' = FALSE
    /\ Goto(Main, AfterJoin)
    /\ UNCHANGED <<db, running, lock, config, drainLock, rings, pass, history>>

\* The statements and the connection go; S is zeroed.
Teardown ==
    /\ pc[Main] = "teardown"
    /\ db' = FALSE /\ txn' = {}
    /\ Goto(Main, "idle")
    /\ UNCHANGED <<running, haveThread, lock, config, drainLock, rings, left,
                   ring, pos, lim, stored, history>>

-----------------------------------------------------------------------------
(* Worker threads.                                                         *)

Register(w) ==
    /\ pc[w] = "idle" /\ w \notin registered
    /\ drainLock = Nobody
    /\ registered' = registered \cup {w}
    /\ UNCHANGED <<sinkVars, config, drainLock, head, tail, recording, pc, pass,
                   history>>

SpanStart(w) ==
    /\ pc[w] = "idle" /\ w \in registered \ recording
    /\ enabled /\ head[w] < MaxSpans
    /\ recording' = recording \cup {w}
    /\ UNCHANGED <<sinkVars, config, drainLock, head, tail, registered, pc, pass,
                   history>>

\* otel_span_end on a registered thread.
SpanEnd(w) ==
    /\ pc[w] = "idle" /\ w \in recording
    /\ recording' = recording \ {w}
    /\ head' = [head EXCEPT ![w] = @ + 1]
    /\ UNCHANGED <<sinkVars, config, drainLock, tail, registered, pc, pass, history>>

\* A worker unregisters with no span open, and see Quiet.
Unregister(w) ==
    /\ pc[w] = "idle" /\ w \in registered \ recording
    /\ LateUnregister \/ pc[Main] = "idle"
    /\ Goto(w, "drain_lock")
    /\ UNCHANGED <<sinkVars, config, drainLock, rings, pass, history>>

-----------------------------------------------------------------------------
(* One pass: otel_drain by the flusher and by otel_sqlite_close, over every *)
(* ring; otel_thread_unregister over its own.                              *)

\* Where a thread goes after otel_drain.
Returns(p) == IF p = Flusher THEN "lock" ELSE "detach"

\* otel_drain's test of the live flag.
DrainTest(p) ==
    /\ pc[p] = "drain"
    /\ Goto(p, IF enabled THEN "drain_lock" ELSE Returns(p))
    /\ UNCHANGED <<sinkVars, config, drainLock, rings, pass, history>>

\* The rings of a pass.
Rings(p) == IF p \in Workers THEN {p} ELSE registered

\* Both locks; unregistering tests the live flag only now.
DrainLock(p) ==
    /\ pc[p] = "drain_lock" /\ drainLock = Nobody
    /\ drainLock' = p
    /\ left' = Rings(p)
    /\ Goto(p, IF p \in Workers /\ ~enabled THEN "unlock" ELSE "begin")
    /\ UNCHANGED <<sinkVars, config, rings, ring, pos, lim, txn, stored, history>>

\* A call of a callback: the flag is tested, then the pointer used.  A null
\* pointer is the end of the process.
Call(p, at, inside, past) ==
    /\ pc[p] = at
    /\ Goto(p, IF ~sinkPresent THEN past ELSE IF sink THEN inside ELSE "fault")

CallBegin(p) ==
    /\ Call(p, "begin", "in_begin", "load")
    /\ UNCHANGED <<sinkVars, config, drainLock, rings, pass, history>>

ReturnBegin(p) ==
    /\ pc[p] = "in_begin"
    /\ txn' = {}
    /\ Goto(p, "load")
    /\ UNCHANGED <<sinkVars, config, drainLock, rings, left, ring, pos, lim,
                   stored, history>>

\* otel_drain_ctx: the cursors of the next ring; none left, on to end().
Load(p) ==
    /\ pc[p] = "load"
    /\ \/ /\ left = {} /\ Goto(p, "end")
          /\ UNCHANGED <<left, ring, pos, lim>>
       \/ \E w \in left :
            /\ left' = left \ {w} /\ ring' = w
            /\ pos' = tail[w] /\ lim' = head[w]
            /\ Goto(p, "emit")
    /\ UNCHANGED <<sinkVars, config, drainLock, rings, txn, stored, history>>

CallSpan(p) ==
    /\ pos < lim
    /\ Call(p, "emit", "in_span", "emit")
    /\ pos' = pos + 1
    /\ UNCHANGED <<sinkVars, config, drainLock, rings, left, ring, lim, txn,
                   stored, history>>

ReturnSpan(p) ==
    /\ pc[p] = "in_span"
    /\ txn' = txn \cup {<<ring, pos>>}
    /\ Goto(p, "emit")
    /\ UNCHANGED <<sinkVars, config, drainLock, rings, left, ring, pos, lim,
                   stored, history>>

\* The release store of tail.
Store(p) ==
    /\ pc[p] = "emit" /\ pos = lim
    /\ tail' = [tail EXCEPT ![ring] = lim]
    /\ ring' = Nobody /\ pos' = 0 /\ lim' = 0
    /\ Goto(p, "load")
    /\ UNCHANGED <<sinkVars, config, drainLock, head, registered, recording,
                   left, txn, stored, history>>

CallEnd(p) ==
    /\ Call(p, "end", "in_end", "unlock")
    /\ UNCHANGED <<sinkVars, config, drainLock, rings, pass, history>>

ReturnEnd(p) ==
    /\ pc[p] = "in_end"
    /\ stored' = stored \cup txn /\ txn' = {}
    /\ Goto(p, "unlock")
    /\ UNCHANGED <<sinkVars, config, drainLock, rings, left, ring, pos, lim, history>>

\* The locks go; unregistering frees the ring with whatever is in it.
Unlock(p) ==
    /\ pc[p] = "unlock"
    /\ drainLock' = Nobody /\ left' = {}
    /\ IF p \in Workers
       THEN /\ Goto(p, "idle")
            /\ registered' = registered \ {p}
            /\ tail' = [tail EXCEPT ![p] = head[p]]
       ELSE Goto(p, Returns(p)) /\ UNCHANGED <<registered, tail>>
    /\ UNCHANGED <<sinkVars, config, head, recording, ring, pos, lim, txn,
                   stored, history>>

-----------------------------------------------------------------------------

MainStep ==
    \/ SetSink \/ SetSinkPresent \/ RecomputeEnabled \/ SpawnFlusher
    \/ Join \/ Teardown

FlusherStep == FlusherLock \/ FlusherTest \/ CondWait \/ Wake

Pass(p) ==
    \/ DrainTest(p) \/ DrainLock(p) \/ CallBegin(p) \/ ReturnBegin(p) \/ Load(p)
    \/ CallSpan(p) \/ ReturnSpan(p) \/ Store(p) \/ CallEnd(p) \/ ReturnEnd(p)
    \/ Unlock(p)

Next ==
    \/ OpenDb \/ Close \/ StopFlusher \/ MainStep
    \/ FlusherStep \/ Timeout
    \/ \E w \in Workers : Register(w) \/ SpanStart(w) \/ SpanEnd(w) \/ Unregister(w)
    \/ \E p \in Threads : Pass(p)

Spec == Init /\ [][Next]_vars

\* A call that has begun runs on.  The flusher sleeps with S.lock free between
\* any two passes, so a thread that waits for it gets it (strong fairness);
\* nothing is assumed of the timeout.
FairSpec ==
    /\ Spec
    /\ WF_vars(MainStep) /\ SF_vars(StopFlusher) /\ WF_vars(FlusherStep)
    /\ \A p \in Threads : WF_vars(Pass(p))

-----------------------------------------------------------------------------
(* Properties.                                                             *)

\* What otel_sqlite.c:401 says of otel_sqlite_close, "detach the sink before
\* tearing down the database": no thread calls through a null sink or is inside
\* a callback of a sink whose database is gone.
DatabaseOutlivesCallbacks ==
    \A p \in Threads :
        /\ pc[p] # "fault"
        /\ pc[p] \in {"in_begin", "in_span", "in_end"} => db

\* What otel_sqlite.h:56 says of otel_sqlite_close, "drain and commit any
\* remaining spans": when it has returned, every span that was waiting in a ring
\* when it was called is stored, also the ones that a pass of the flusher had
\* begun to read, and also when it was called by a failing otel_sqlite_open.
ClosedMeansPersisted == pc[Main] = "idle" => due \subseteq stored

\* Between two calls the sink is there as a whole (database, thread, pointer,
\* flag) or not at all, whichever step of otel_sqlite_open failed.
OpenAllOrNothing ==
    pc[Main] = "idle" =>
        /\ haveThread = db /\ running = db
        /\ sink = db /\ sinkPresent = db /\ enabled = db
        /\ db = (pc[Flusher] \notin {"idle", "ended"})

\* otel_sqlite_close ends wherever the flusher is when it is called, without
\* help from the timeout: the wakeup is never lost, and waiting for the thread
\* blocks no lock that the thread needs.
CloseReturns ==
    pc[Main] \in {"stop", "join", "drain", "detach", "teardown"} ~> pc[Main] = "idle"

\* A span that waits while the sink is open is stored, by the flusher, by its
\* thread's unregister or by otel_sqlite_close, provided that timeouts come
\* and that threads which unregister in turn do not keep the flusher from a drain
\* lock that is free again and again.
WaitingIsEventuallyStored ==
    WF_vars(Timeout) /\ SF_vars(DrainLock(Flusher)) => \A s \in Span :
        (s \in Waiting /\ haveThread /\ pc[Main] = "idle") ~> s \in stored
=============================================================================
