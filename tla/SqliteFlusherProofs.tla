------------------------- MODULE SqliteFlusherProofs ------------------------
(***************************************************************************)
(* Proofs about SqliteFlusher, for any number of worker threads, of spans  *)
(* and of calls of otel_sqlite_open; and about PlatformShims, which        *)
(* computes until when its flusher sleeps.                                 *)
(***************************************************************************)
EXTENDS SqliteFlusher, PlatformShims, TLAPS

-----------------------------------------------------------------------------
(* Types and control.                                                      *)

\* The part of a pass between DrainLock and Unlock, and the pass with it.
Busy   == {"begin", "in_begin", "load", "emit", "in_span", "end", "in_end"}
InPass == Busy \cup {"unlock"}
Labels == InPass \cup
    {"idle", "attach", "attach_flag", "attach_live", "spawn", "stop", "join", "drain",
     "drain_lock", "detach", "detach_flag", "detach_live", "teardown", "lock", "test",
     "wait", "sleep", "woken", "ended", "fault"}

\* Types of the state the proofs use.
TypeInv ==
    /\ db \in BOOLEAN /\ running \in BOOLEAN /\ haveThread \in BOOLEAN
    /\ sink \in BOOLEAN /\ sinkPresent \in BOOLEAN /\ enabled \in BOOLEAN
    /\ head \in [Workers -> Nat] /\ tail \in [Workers -> Nat]
    /\ registered \subseteq Workers /\ recording \subseteq Workers
    /\ left \subseteq Workers
    /\ pos \in Nat /\ lim \in Nat /\ due \subseteq Span
    /\ pc \in [Threads -> Labels]

\* Every step keeps the types.
LEMMA TypeStep ==
  ASSUME TypeInv, [Next]_vars
  PROVE  TypeInv'
<1> USE FlusherAssumption
<1> USE DEF sinkVars, config, rings, pass, history, Goto, Threads

<1>l. /\ {"begin", "in_begin", "load", "emit", "in_span", "end", "in_end"} \subseteq Labels
      /\ {"unlock", "idle", "attach", "attach_flag", "attach_live"} \subseteq Labels
      /\ {"spawn", "stop", "join", "drain", "drain_lock", "detach"} \subseteq Labels
      /\ {"detach_flag", "detach_live", "teardown", "lock", "test"} \subseteq Labels
      /\ {"wait", "sleep", "woken", "ended", "fault"} \subseteq Labels
  BY DEF Labels, InPass, Busy
<1>u. ASSUME UNCHANGED vars PROVE TypeInv'
  BY <1>u DEF TypeInv, vars, Span
<1>1. CASE OpenDb
  BY <1>1, <1>l DEF TypeInv, OpenDb, Quiet, Span
<1>2. CASE Close
  <2>1. Waiting \subseteq Span
    BY DEF Waiting
  <2> QED
    BY <1>2, <1>l, <2>1 DEF TypeInv, Close, Quiet
<1>3. CASE StopFlusher
  BY <1>3, <1>l DEF TypeInv, StopFlusher, MayStop, Signalled, Span
<1>4. CASE SetSink
  BY <1>4, <1>l DEF TypeInv, SetSink, Span
<1>5. CASE SetSinkPresent
  BY <1>5, <1>l DEF TypeInv, SetSinkPresent, Span
<1>6. CASE RecomputeEnabled
  BY <1>6, <1>l DEF TypeInv, RecomputeEnabled, Span
<1>7. CASE SpawnFlusher
  <2>1. Waiting \subseteq Span
    BY DEF Waiting
  <2>2. PICK ok \in BOOLEAN :
           /\ running' = ok /\ haveThread' = ok
           /\ pc' = IF ok THEN [pc EXCEPT ![Main] = "idle", ![Flusher] = "lock"]
                    ELSE [pc EXCEPT ![Main] = "drain"]
           /\ due' = IF ok THEN due ELSE Waiting
    BY <1>7 DEF SpawnFlusher, SpawnFails
  <2>3. pc' \in [Threads -> Labels]
    BY <1>l, <2>2 DEF TypeInv
  <2>4. due' \subseteq Span /\ running' \in BOOLEAN /\ haveThread' \in BOOLEAN
    BY <2>1, <2>2 DEF TypeInv
  <2>5. UNCHANGED <<db, lock, config, drainLock, rings, pass, opens>>
    BY <1>7 DEF SpawnFlusher
  <2> QED
    BY <2>3, <2>4, <2>5 DEF TypeInv
<1>8. CASE Join
  BY <1>8, <1>l DEF TypeInv, Join, AfterJoin, MayJoin, Span
<1>9. CASE Teardown
  BY <1>9, <1>l DEF TypeInv, Teardown, Span
<1>10. CASE FlusherLock
  BY <1>10, <1>l DEF TypeInv, FlusherLock, Span
<1>11. CASE FlusherTest
  BY <1>11, <1>l DEF TypeInv, FlusherTest, Span
<1>12. CASE CondWait
  BY <1>12, <1>l DEF TypeInv, CondWait, Span
<1>13. CASE Wake
  BY <1>13, <1>l DEF TypeInv, Wake, AfterWake, Span
<1>14. CASE Timeout
  BY <1>14, <1>l DEF TypeInv, Timeout, Span
<1>15. ASSUME NEW w \in Workers, Register(w) PROVE TypeInv'
  BY <1>15, <1>l DEF TypeInv, Register, Span
<1>16. ASSUME NEW w \in Workers, SpanStart(w) PROVE TypeInv'
  BY <1>16, <1>l DEF TypeInv, SpanStart, Span
<1>17. ASSUME NEW w \in Workers, SpanEnd(w) PROVE TypeInv'
  BY <1>17, <1>l DEF TypeInv, SpanEnd, Span
<1>18. ASSUME NEW w \in Workers, Unregister(w) PROVE TypeInv'
  BY <1>18, <1>l DEF TypeInv, Unregister, Span
<1>19. ASSUME NEW p \in Threads, DrainTest(p) PROVE TypeInv'
  BY <1>19, <1>l DEF TypeInv, DrainTest, Returns, Span
<1>20. ASSUME NEW p \in Threads, DrainLock(p) PROVE TypeInv'
  BY <1>20, <1>l DEF TypeInv, DrainLock, Rings, Span
<1>21. ASSUME NEW p \in Threads, CallBegin(p) PROVE TypeInv'
  BY <1>21, <1>l DEF TypeInv, CallBegin, Call, Span
<1>22. ASSUME NEW p \in Threads, ReturnBegin(p) PROVE TypeInv'
  BY <1>22, <1>l DEF TypeInv, ReturnBegin, Span
<1>23. ASSUME NEW p \in Threads, Load(p) PROVE TypeInv'
  BY <1>23, <1>l DEF TypeInv, Load, Span
<1>24. ASSUME NEW p \in Threads, CallSpan(p) PROVE TypeInv'
  BY <1>24, <1>l DEF TypeInv, CallSpan, Call, Span
<1>25. ASSUME NEW p \in Threads, ReturnSpan(p) PROVE TypeInv'
  BY <1>25, <1>l DEF TypeInv, ReturnSpan, Span
<1>26. ASSUME NEW p \in Threads, Store(p) PROVE TypeInv'
  BY <1>26, <1>l DEF TypeInv, Store, Span
<1>27. ASSUME NEW p \in Threads, CallEnd(p) PROVE TypeInv'
  BY <1>27, <1>l DEF TypeInv, CallEnd, Call, Span
<1>28. ASSUME NEW p \in Threads, ReturnEnd(p) PROVE TypeInv'
  BY <1>28, <1>l DEF TypeInv, ReturnEnd, Span
<1>29. ASSUME NEW p \in Threads, Unlock(p) PROVE TypeInv'
  BY <1>29, <1>l DEF TypeInv, Unlock, Returns, Span
<1>30. CASE UNCHANGED vars
  BY <1>30, <1>u DEF vars
<1> QED
  BY <1>1, <1>2, <1>3, <1>4, <1>5, <1>6, <1>7, <1>8, <1>9, <1>10, <1>11,
     <1>12, <1>13, <1>14, <1>15, <1>16, <1>17, <1>18, <1>19, <1>20, <1>21,
     <1>22, <1>23, <1>24, <1>25, <1>26, <1>27, <1>28, <1>29, <1>30
     DEF Next, MainStep, FlusherStep, Pass

\* Each thread stays in its own part of the code, and the holder of the drain
\* lock is the thread in a pass.
ControlInv ==
    /\ pc[Main] \in InPass \cup
           {"idle", "attach", "attach_flag", "attach_live", "spawn", "stop", "join",
            "drain", "drain_lock", "detach", "detach_flag", "detach_live", "teardown"}
    /\ pc[Flusher] \in InPass \cup
           {"idle", "lock", "test", "wait", "sleep", "woken", "drain", "drain_lock",
            "ended"}
    /\ \A w \in Workers : pc[w] \in InPass \cup {"idle", "drain_lock", "fault"}
    /\ \A p \in Threads : pc[p] \in InPass \cup {"fault"} <=> drainLock = p

Whole == db /\ sink /\ sinkPresent /\ enabled
Off   == pc[Flusher] \in {"idle", "ended"}

\* What of the sink is there at each step of otel_sqlite_open and
\* otel_sqlite_close, whatever the other threads do.
StageInv ==
    /\ pc[Main] = "idle" =>
           /\ haveThread <=> db
           /\ running <=> db
           /\ sink <=> db
           /\ sinkPresent <=> db
           /\ enabled <=> db
    /\ pc[Main] \in {"attach", "attach_flag", "attach_live"} =>
           /\ db /\ ~enabled
           /\ sink <=> pc[Main] # "attach"
           /\ sinkPresent <=> pc[Main] = "attach_live"
    /\ pc[Main] \in InPass \cup {"spawn", "stop", "join", "drain_lock"} => Whole
    /\ pc[Main] \in {"drain", "detach"} =>
           /\ sink <=> sinkPresent
           /\ sinkPresent <=> enabled
           /\ enabled => db
    /\ pc[Main] \in {"detach_flag", "detach_live", "teardown"} => ~sink
    /\ pc[Main] \in {"detach_live", "teardown"} => ~sinkPresent
    /\ pc[Main] = "teardown" => ~enabled
    /\ pc[Main] \in {"stop", "join"} => haveThread
    /\ haveThread => pc[Main] \in {"idle", "stop", "join"}
    /\ pc[Main] = "stop" => running
    /\ pc[Main] = "join" => ~running
    /\ running => ~Off
    /\ ~haveThread => ~running /\ Off

\* Every step keeps ControlInv.
LEMMA ControlStep ==
  ASSUME TypeInv, ControlInv, StageInv, [Next]_vars
  PROVE  ControlInv'
<1> USE FlusherAssumption
<1> USE DEF sinkVars, config, rings, pass, history, Goto, Threads

<1>t. pc \in [Threads -> Labels]
  BY DEF TypeInv
<1>s. \A p \in {Main, Flusher} : pc[p] \in InPass => sink /\ sinkPresent
  BY DEF ControlInv, StageInv, Whole, Off, InPass, Busy, TypeInv
<1>i. pc[Main] = "spawn" => pc[Flusher] \in {"idle", "ended"}
  BY DEF StageInv, Off, InPass, Busy
<1>u. ASSUME UNCHANGED <<pc, drainLock>> PROVE ControlInv'
  BY <1>u DEF ControlInv
<1>1. CASE OpenDb
  BY <1>1, <1>t DEF ControlInv, OpenDb, Quiet, InPass, Busy
<1>2. CASE Close
  BY <1>2, <1>t DEF ControlInv, Close, Quiet, InPass, Busy
<1>3. CASE StopFlusher
  BY <1>3, <1>t DEF ControlInv, StopFlusher, MayStop, Signalled, InPass, Busy
<1>4. CASE SetSink
  BY <1>4, <1>t DEF ControlInv, SetSink, InPass, Busy
<1>5. CASE SetSinkPresent
  BY <1>5, <1>t DEF ControlInv, SetSinkPresent, InPass, Busy
<1>6. CASE RecomputeEnabled
  BY <1>6, <1>t DEF ControlInv, RecomputeEnabled, InPass, Busy
<1>7. CASE SpawnFlusher
  <2>1. pc[Main] = "spawn" /\ UNCHANGED drainLock
    BY <1>7 DEF SpawnFlusher
  <2>2. CASE pc' = [pc EXCEPT ![Main] = "idle", ![Flusher] = "lock"]
    BY <1>t, <1>i, <2>1, <2>2 DEF ControlInv, InPass, Busy
  <2>3. CASE pc' = [pc EXCEPT ![Main] = "drain"]
    BY <1>t, <2>1, <2>3 DEF ControlInv, InPass, Busy
  <2> QED
    BY <1>7, <2>2, <2>3 DEF SpawnFlusher, SpawnFails
<1>8. CASE Join
  BY <1>8, <1>t DEF ControlInv, Join, AfterJoin, MayJoin, InPass, Busy
<1>9. CASE Teardown
  BY <1>9, <1>t DEF ControlInv, Teardown, InPass, Busy
<1>10. CASE FlusherLock
  BY <1>10, <1>t DEF ControlInv, FlusherLock, InPass, Busy
<1>11. CASE FlusherTest
  BY <1>11, <1>t DEF ControlInv, FlusherTest, InPass, Busy
<1>12. CASE CondWait
  BY <1>12, <1>t DEF ControlInv, CondWait, InPass, Busy
<1>13. CASE Wake
  BY <1>13, <1>t DEF ControlInv, Wake, AfterWake, InPass, Busy
<1>14. CASE Timeout
  BY <1>14, <1>t DEF ControlInv, Timeout, InPass, Busy
<1>15. ASSUME NEW w \in Workers, Register(w) PROVE ControlInv'
  BY <1>15, <1>t DEF ControlInv, Register, InPass, Busy
<1>16. ASSUME NEW w \in Workers, SpanStart(w) PROVE ControlInv'
  BY <1>16, <1>t DEF ControlInv, SpanStart, InPass, Busy
<1>17. ASSUME NEW w \in Workers, SpanEnd(w) PROVE ControlInv'
  BY <1>17, <1>t DEF ControlInv, SpanEnd, InPass, Busy
<1>18. ASSUME NEW w \in Workers, Unregister(w) PROVE ControlInv'
  BY <1>18, <1>t DEF ControlInv, Unregister, InPass, Busy
<1>19. ASSUME NEW p \in Threads, DrainTest(p) PROVE ControlInv'
  BY <1>19, <1>t DEF ControlInv, DrainTest, Returns, InPass, Busy
<1>20. ASSUME NEW p \in Threads, DrainLock(p) PROVE ControlInv'
  BY <1>20, <1>t DEF ControlInv, DrainLock, Rings, InPass, Busy
<1>21. ASSUME NEW p \in Threads, CallBegin(p) PROVE ControlInv'
  <2>1. UNCHANGED drainLock /\ pc[p] \in Busy
        /\ \E l \in Busy \cup {"unlock", "fault"} :
               (l = "fault" => sinkPresent /\ ~sink) /\ pc' = [pc EXCEPT ![p] = l]
    BY <1>21 DEF CallBegin, Call, Busy
  <2>2. PICK l \in Busy \cup {"unlock", "fault"} :
            (l = "fault" => sinkPresent /\ ~sink) /\ pc' = [pc EXCEPT ![p] = l]
    BY <2>1
  <2>3. p \in {Main, Flusher} => l \in InPass
    BY <1>s, <2>1, <2>2 DEF InPass
  <2> QED
    BY <1>t, <2>1, <2>2, <2>3 DEF ControlInv, InPass, Busy
<1>22. ASSUME NEW p \in Threads, ReturnBegin(p) PROVE ControlInv'
  BY <1>22, <1>t DEF ControlInv, ReturnBegin, InPass, Busy
<1>23. ASSUME NEW p \in Threads, Load(p) PROVE ControlInv'
  BY <1>23, <1>t DEF ControlInv, Load, InPass, Busy
<1>24. ASSUME NEW p \in Threads, CallSpan(p) PROVE ControlInv'
  <2>1. UNCHANGED drainLock /\ pc[p] \in Busy
        /\ \E l \in Busy \cup {"unlock", "fault"} :
               (l = "fault" => sinkPresent /\ ~sink) /\ pc' = [pc EXCEPT ![p] = l]
    BY <1>24 DEF CallSpan, Call, Busy
  <2>2. PICK l \in Busy \cup {"unlock", "fault"} :
            (l = "fault" => sinkPresent /\ ~sink) /\ pc' = [pc EXCEPT ![p] = l]
    BY <2>1
  <2>3. p \in {Main, Flusher} => l \in InPass
    BY <1>s, <2>1, <2>2 DEF InPass
  <2> QED
    BY <1>t, <2>1, <2>2, <2>3 DEF ControlInv, InPass, Busy
<1>25. ASSUME NEW p \in Threads, ReturnSpan(p) PROVE ControlInv'
  BY <1>25, <1>t DEF ControlInv, ReturnSpan, InPass, Busy
<1>26. ASSUME NEW p \in Threads, Store(p) PROVE ControlInv'
  BY <1>26, <1>t DEF ControlInv, Store, InPass, Busy
<1>27. ASSUME NEW p \in Threads, CallEnd(p) PROVE ControlInv'
  <2>1. UNCHANGED drainLock /\ pc[p] \in Busy
        /\ \E l \in Busy \cup {"unlock", "fault"} :
               (l = "fault" => sinkPresent /\ ~sink) /\ pc' = [pc EXCEPT ![p] = l]
    BY <1>27 DEF CallEnd, Call, Busy
  <2>2. PICK l \in Busy \cup {"unlock", "fault"} :
            (l = "fault" => sinkPresent /\ ~sink) /\ pc' = [pc EXCEPT ![p] = l]
    BY <2>1
  <2>3. p \in {Main, Flusher} => l \in InPass
    BY <1>s, <2>1, <2>2 DEF InPass
  <2> QED
    BY <1>t, <2>1, <2>2, <2>3 DEF ControlInv, InPass, Busy
<1>28. ASSUME NEW p \in Threads, ReturnEnd(p) PROVE ControlInv'
  BY <1>28, <1>t DEF ControlInv, ReturnEnd, InPass, Busy
<1>29. ASSUME NEW p \in Threads, Unlock(p) PROVE ControlInv'
  BY <1>29, <1>t DEF ControlInv, Unlock, Returns, InPass, Busy
<1>30. CASE UNCHANGED vars
  BY <1>30, <1>u DEF vars
<1> QED
  BY <1>1, <1>2, <1>3, <1>4, <1>5, <1>6, <1>7, <1>8, <1>9, <1>10, <1>11,
     <1>12, <1>13, <1>14, <1>15, <1>16, <1>17, <1>18, <1>19, <1>20, <1>21,
     <1>22, <1>23, <1>24, <1>25, <1>26, <1>27, <1>28, <1>29, <1>30
     DEF Next, MainStep, FlusherStep, Pass

\* Every step keeps StageInv.
LEMMA StageStep ==
  ASSUME TypeInv, ControlInv, StageInv, [Next]_vars
  PROVE  StageInv'
<1> USE FlusherAssumption
<1> USE DEF sinkVars, config, rings, pass, history, Goto, Threads

<1>t. /\ pc \in [Threads -> Labels]
      /\ db \in BOOLEAN /\ running \in BOOLEAN /\ haveThread \in BOOLEAN
      /\ sink \in BOOLEAN /\ sinkPresent \in BOOLEAN /\ enabled \in BOOLEAN
  BY DEF TypeInv
<1>u. ASSUME UNCHANGED <<sinkVars, config, pc>> PROVE StageInv'
  BY <1>u DEF StageInv, Whole, Off
<1>1. CASE OpenDb
  BY <1>1, <1>t DEF StageInv, ControlInv, Whole, Off, OpenDb, Quiet, InPass, Busy
<1>2. CASE Close
  BY <1>2, <1>t DEF StageInv, ControlInv, Whole, Off, Close, Quiet, InPass, Busy
<1>3. CASE StopFlusher
  BY <1>3, <1>t DEF StageInv, ControlInv, Whole, Off, StopFlusher, MayStop, Signalled, InPass, Busy
<1>4. CASE SetSink
  BY <1>4, <1>t DEF StageInv, ControlInv, Whole, Off, SetSink, InPass, Busy
<1>5. CASE SetSinkPresent
  BY <1>5, <1>t DEF StageInv, ControlInv, Whole, Off, SetSinkPresent, InPass, Busy
<1>6. CASE RecomputeEnabled
  BY <1>6, <1>t DEF StageInv, ControlInv, Whole, Off, RecomputeEnabled, InPass, Busy
<1>7. CASE SpawnFlusher
  BY <1>7, <1>t DEF StageInv, ControlInv, Whole, Off, SpawnFlusher, SpawnFails, InPass, Busy
<1>8. CASE Join
  BY <1>8, <1>t DEF StageInv, ControlInv, Whole, Off, Join, AfterJoin, MayJoin, InPass, Busy
<1>9. CASE Teardown
  BY <1>9, <1>t DEF StageInv, ControlInv, Whole, Off, Teardown, InPass, Busy
<1>10. CASE FlusherLock
  BY <1>10, <1>t DEF StageInv, ControlInv, Whole, Off, FlusherLock, InPass, Busy
<1>11. CASE FlusherTest
  BY <1>11, <1>t DEF StageInv, ControlInv, Whole, Off, FlusherTest, InPass, Busy
<1>12. CASE CondWait
  BY <1>12, <1>t DEF StageInv, ControlInv, Whole, Off, CondWait, InPass, Busy
<1>13. CASE Wake
  BY <1>13, <1>t DEF StageInv, ControlInv, Whole, Off, Wake, AfterWake, InPass, Busy
<1>14. CASE Timeout
  BY <1>14, <1>t DEF StageInv, ControlInv, Whole, Off, Timeout, InPass, Busy
<1>15. ASSUME NEW w \in Workers, Register(w) PROVE StageInv'
  BY <1>15, <1>t DEF StageInv, ControlInv, Whole, Off, Register, InPass, Busy
<1>16. ASSUME NEW w \in Workers, SpanStart(w) PROVE StageInv'
  BY <1>16, <1>t DEF StageInv, ControlInv, Whole, Off, SpanStart, InPass, Busy
<1>17. ASSUME NEW w \in Workers, SpanEnd(w) PROVE StageInv'
  BY <1>17, <1>t DEF StageInv, ControlInv, Whole, Off, SpanEnd, InPass, Busy
<1>18. ASSUME NEW w \in Workers, Unregister(w) PROVE StageInv'
  BY <1>18, <1>t DEF StageInv, ControlInv, Whole, Off, Unregister, InPass, Busy
<1>19. ASSUME NEW p \in Threads, DrainTest(p) PROVE StageInv'
  BY <1>19, <1>t DEF StageInv, ControlInv, Whole, Off, DrainTest, Returns, InPass, Busy
<1>20. ASSUME NEW p \in Threads, DrainLock(p) PROVE StageInv'
  BY <1>20, <1>t DEF StageInv, ControlInv, Whole, Off, DrainLock, Rings, InPass, Busy
<1>21. ASSUME NEW p \in Threads, CallBegin(p) PROVE StageInv'
  BY <1>21, <1>t DEF StageInv, ControlInv, Whole, Off, CallBegin, Call, InPass, Busy
<1>22. ASSUME NEW p \in Threads, ReturnBegin(p) PROVE StageInv'
  BY <1>22, <1>t DEF StageInv, ControlInv, Whole, Off, ReturnBegin, InPass, Busy
<1>23. ASSUME NEW p \in Threads, Load(p) PROVE StageInv'
  BY <1>23, <1>t DEF StageInv, ControlInv, Whole, Off, Load, InPass, Busy
<1>24. ASSUME NEW p \in Threads, CallSpan(p) PROVE StageInv'
  BY <1>24, <1>t DEF StageInv, ControlInv, Whole, Off, CallSpan, Call, InPass, Busy
<1>25. ASSUME NEW p \in Threads, ReturnSpan(p) PROVE StageInv'
  BY <1>25, <1>t DEF StageInv, ControlInv, Whole, Off, ReturnSpan, InPass, Busy
<1>26. ASSUME NEW p \in Threads, Store(p) PROVE StageInv'
  BY <1>26, <1>t DEF StageInv, ControlInv, Whole, Off, Store, InPass, Busy
<1>27. ASSUME NEW p \in Threads, CallEnd(p) PROVE StageInv'
  BY <1>27, <1>t DEF StageInv, ControlInv, Whole, Off, CallEnd, Call, InPass, Busy
<1>28. ASSUME NEW p \in Threads, ReturnEnd(p) PROVE StageInv'
  BY <1>28, <1>t DEF StageInv, ControlInv, Whole, Off, ReturnEnd, InPass, Busy
<1>29. ASSUME NEW p \in Threads, Unlock(p) PROVE StageInv'
  BY <1>29, <1>t DEF StageInv, ControlInv, Whole, Off, Unlock, Returns, InPass, Busy
<1>30. CASE UNCHANGED vars
  BY <1>30, <1>u DEF vars
<1> QED
  BY <1>1, <1>2, <1>3, <1>4, <1>5, <1>6, <1>7, <1>8, <1>9, <1>10, <1>11,
     <1>12, <1>13, <1>14, <1>15, <1>16, <1>17, <1>18, <1>19, <1>20, <1>21,
     <1>22, <1>23, <1>24, <1>25, <1>26, <1>27, <1>28, <1>29, <1>30
     DEF Next, MainStep, FlusherStep, Pass

\* The state of the sink at each step of opening and closing it.
LEMMA StageCorrect == Spec => [](TypeInv /\ ControlInv /\ StageInv)
<1>1. Init => TypeInv /\ ControlInv /\ StageInv
  <2> SUFFICES ASSUME Init PROVE TypeInv /\ ControlInv /\ StageInv
    OBVIOUS
  <2>1. /\ \A p \in Threads : pc[p] = "idle"
        /\ pc \in [Threads -> Labels]
    BY DEF Init, Labels
  <2>2. Main \in Threads /\ Flusher \in Threads /\ Workers \subseteq Threads /\ Nobody \notin Threads
    BY FlusherAssumption DEF Threads
  <2>3. TypeInv
    BY <2>1 DEF Init, TypeInv
  <2>4. ControlInv
    BY <2>1, <2>2 DEF Init, ControlInv, InPass, Busy
  <2>5. StageInv
    BY <2>1, <2>2 DEF Init, StageInv, Off, InPass, Busy
  <2> QED
    BY <2>3, <2>4, <2>5
<1>2. TypeInv /\ ControlInv /\ StageInv /\ [Next]_vars => TypeInv' /\ ControlInv' /\ StageInv'
  BY TypeStep, ControlStep, StageStep
<1> QED
  BY <1>1, <1>2, PTL DEF Spec

\* Between two calls the sink is there as a whole or not at all, whichever step
\* of otel_sqlite_open failed and whatever unregistering threads do meanwhile.
THEOREM AllOrNothing == Spec => []OpenAllOrNothing
<1>1. TypeInv /\ ControlInv /\ StageInv => OpenAllOrNothing
  BY DEF TypeInv, StageInv, OpenAllOrNothing, Off
<1> QED
  BY <1>1, StageCorrect, PTL

-----------------------------------------------------------------------------
(* The rings, and a sink under every pass.                                 *)

\* The rings: a context is freed only when it is empty or given up, and the
\* cursors of the pass lie between the cursors of the ring it reads.
RingInv ==
    /\ recording \subseteq registered /\ left \subseteq registered
    /\ \A w \in Workers : pc[w] # "idle" => w \in registered \ recording
    /\ \A w \in Workers : tail[w] <= head[w]
    /\ \A w \in Workers \ registered : tail[w] = head[w]
    /\ \A p \in Threads : pc[p] \in {"emit", "in_span"} =>
           /\ ring \in registered
           /\ tail[ring] <= pos /\ pos <= lim /\ lim <= head[ring]
           /\ pc[p] = "in_span" => tail[ring] < pos

\* Every step keeps RingInv.
LEMMA RingStep ==
  ASSUME TypeInv, ControlInv, RingInv, [Next]_vars
  PROVE  RingInv'
<1> USE FlusherAssumption
<1> USE DEF sinkVars, config, rings, pass, history, Goto, Threads

<1>t. /\ pc \in [Threads -> Labels] /\ head \in [Workers -> Nat] /\ tail \in [Workers -> Nat]
      /\ registered \subseteq Workers /\ recording \subseteq Workers
      /\ left \subseteq Workers /\ pos \in Nat /\ lim \in Nat
  BY DEF TypeInv
<1>c. /\ \A w \in Workers : pc[w] \in InPass \cup {"idle", "drain_lock", "fault"}
      /\ \A p \in Threads : pc[p] \in InPass \cup {"fault"} <=> drainLock = p
      /\ \A p \in Threads : pc[p] = "drain" => p \in {Main, Flusher}
  BY DEF ControlInv, InPass, Busy

<1>v. ASSUME UNCHANGED <<rings, left, ring, pos, lim>>,
             \A w \in Workers : pc'[w] # "idle" => pc[w] # "idle",
             \A p \in Threads : pc'[p] \in {"emit", "in_span"} => pc'[p] = pc[p]
      PROVE  RingInv'
  BY <1>v DEF RingInv
<1>u. ASSUME UNCHANGED <<rings, left, ring, pos, lim, pc>> PROVE RingInv'
  BY <1>u, <1>v
<1>1. CASE OpenDb
  <2>1. /\ UNCHANGED <<rings, left, ring, pos, lim>>
        /\ \E l \in {"attach", "drain"} : pc' = [pc EXCEPT ![Main] = l]
    BY <1>1 DEF OpenDb
  <2> QED
    BY <1>t, <1>v, <2>1
<1>2. CASE Close
  BY <1>2, <1>t, <1>v DEF Close, Quiet
<1>3. CASE StopFlusher
  BY <1>3, <1>t, <1>v DEF StopFlusher, MayStop, Signalled
<1>4. CASE SetSink
  BY <1>4, <1>t, <1>v DEF SetSink
<1>5. CASE SetSinkPresent
  BY <1>5, <1>t, <1>v DEF SetSinkPresent
<1>6. CASE RecomputeEnabled
  BY <1>6, <1>t, <1>v DEF RecomputeEnabled
<1>7. CASE SpawnFlusher
  <2>1. /\ UNCHANGED <<rings, left, ring, pos, lim>>
        /\ \/ pc' = [pc EXCEPT ![Main] = "idle", ![Flusher] = "lock"]
           \/ pc' = [pc EXCEPT ![Main] = "drain"]
    BY <1>7 DEF SpawnFlusher, SpawnFails
  <2> QED
    BY <1>t, <1>v, <2>1
<1>8. CASE Join
  BY <1>8, <1>t, <1>v DEF Join, AfterJoin, MayJoin
<1>9. CASE Teardown
  BY <1>9, <1>t, <1>v DEF Teardown
<1>10. CASE FlusherLock
  BY <1>10, <1>t, <1>v DEF FlusherLock
<1>11. CASE FlusherTest
  BY <1>11, <1>t, <1>v DEF FlusherTest
<1>12. CASE CondWait
  BY <1>12, <1>t, <1>v DEF CondWait
<1>13. CASE Wake
  BY <1>13, <1>t, <1>v DEF Wake, AfterWake
<1>14. CASE Timeout
  BY <1>14, <1>t, <1>v DEF Timeout
<1>15. ASSUME NEW w \in Workers, Register(w) PROVE RingInv'
  BY <1>15, <1>t, <1>c DEF RingInv, Register, InPass, Busy
<1>16. ASSUME NEW w \in Workers, SpanStart(w) PROVE RingInv'
  BY <1>16, <1>t, <1>c DEF RingInv, SpanStart, InPass, Busy
<1>17. ASSUME NEW w \in Workers, SpanEnd(w) PROVE RingInv'
  BY <1>17, <1>t, <1>c DEF RingInv, SpanEnd, InPass, Busy
<1>18. ASSUME NEW w \in Workers, Unregister(w) PROVE RingInv'
  BY <1>18, <1>t, <1>c DEF RingInv, Unregister, InPass, Busy
<1>19. ASSUME NEW p \in Threads, DrainTest(p) PROVE RingInv'
  BY <1>19, <1>t, <1>c, <1>v DEF DrainTest, Returns, InPass, Busy
<1>20. ASSUME NEW p \in Threads, DrainLock(p) PROVE RingInv'
  BY <1>20, <1>t, <1>c DEF RingInv, DrainLock, Rings, InPass, Busy
<1>21. ASSUME NEW p \in Threads, CallBegin(p) PROVE RingInv'
  BY <1>21, <1>t, <1>c, <1>v DEF CallBegin, Call, InPass, Busy
<1>22. ASSUME NEW p \in Threads, ReturnBegin(p) PROVE RingInv'
  BY <1>22, <1>t, <1>c, <1>v DEF ReturnBegin, InPass, Busy
<1>23. ASSUME NEW p \in Threads, Load(p) PROVE RingInv'
  BY <1>23, <1>t, <1>c DEF RingInv, Load, InPass, Busy
<1>24. ASSUME NEW p \in Threads, CallSpan(p) PROVE RingInv'
  BY <1>24, <1>t, <1>c DEF RingInv, CallSpan, Call, InPass, Busy
<1>25. ASSUME NEW p \in Threads, ReturnSpan(p) PROVE RingInv'
  BY <1>25, <1>t, <1>c DEF RingInv, ReturnSpan, InPass, Busy
<1>26. ASSUME NEW p \in Threads, Store(p) PROVE RingInv'
  BY <1>26, <1>t, <1>c DEF RingInv, Store, InPass, Busy
<1>27. ASSUME NEW p \in Threads, CallEnd(p) PROVE RingInv'
  BY <1>27, <1>t, <1>c, <1>v DEF CallEnd, Call, InPass, Busy
<1>28. ASSUME NEW p \in Threads, ReturnEnd(p) PROVE RingInv'
  BY <1>28, <1>t, <1>c, <1>v DEF ReturnEnd, InPass, Busy
<1>29. ASSUME NEW p \in Threads, Unlock(p) PROVE RingInv'
  BY <1>29, <1>t, <1>c DEF RingInv, Unlock, Returns, InPass, Busy
<1>30. CASE UNCHANGED vars
  BY <1>30, <1>u DEF vars
<1> QED
  BY <1>1, <1>2, <1>3, <1>4, <1>5, <1>6, <1>7, <1>8, <1>9, <1>10, <1>11,
     <1>12, <1>13, <1>14, <1>15, <1>16, <1>17, <1>18, <1>19, <1>20, <1>21,
     <1>22, <1>23, <1>24, <1>25, <1>26, <1>27, <1>28, <1>29, <1>30
     DEF Next, MainStep, FlusherStep, Pass

\* While workers unregister only between the calls of otel_sqlite_open and
\* otel_sqlite_close, every pass has a whole sink under it from end to end.
WholeInv ==
    /\ \A w \in Workers : pc[w] # "idle" => pc[Main] = "idle"
    /\ \A p \in Threads : pc[p] # "fault"
    /\ \A p \in Threads : pc[p] \in Busy => Whole

\* Every step keeps WholeInv.
LEMMA WholeStep ==
  ASSUME ~LateUnregister, TypeInv, ControlInv, StageInv, WholeInv, [Next]_vars
  PROVE  WholeInv'
<1> USE FlusherAssumption
<1> USE DEF sinkVars, config, rings, pass, history, Goto, Threads

<1>t. /\ pc \in [Threads -> Labels] /\ head \in [Workers -> Nat] /\ tail \in [Workers -> Nat]
      /\ registered \subseteq Workers /\ recording \subseteq Workers
      /\ left \subseteq Workers /\ pos \in Nat /\ lim \in Nat
  BY DEF TypeInv
<1>c. /\ \A w \in Workers : pc[w] \in InPass \cup {"idle", "drain_lock", "fault"}
      /\ \A p \in Threads : pc[p] \in InPass \cup {"fault"} <=> drainLock = p
      /\ \A p \in Threads : pc[p] = "drain" => p \in {Main, Flusher}
  BY DEF ControlInv, InPass, Busy

<1>u. ASSUME UNCHANGED <<db, config, pc>> PROVE WholeInv'
  BY <1>u DEF WholeInv, Whole
<1>1. CASE OpenDb
  <2>1. \A w \in Workers : pc[w] = "idle"
    BY <1>1 DEF OpenDb, Quiet
  <2>2. \E l \in {"attach", "drain"} : pc' = [pc EXCEPT ![Main] = l]
    BY <1>1 DEF OpenDb
  <2>3. pc[Flusher] \notin Busy
    BY <1>1 DEF OpenDb, StageInv, Off, Busy
  <2> QED
    BY <1>t, <2>1, <2>2, <2>3 DEF WholeInv, Busy
<1>2. CASE Close
  <2>1. \A w \in Workers : pc[w] = "idle"
    BY <1>2 DEF Close, Quiet
  <2> QED
    BY <1>2, <1>t, <2>1 DEF Close, WholeInv, Whole, Busy
<1>3. CASE StopFlusher
  BY <1>3, <1>t, <1>c DEF WholeInv, StageInv, Whole, Off, StopFlusher, MayStop, Signalled, InPass, Busy
<1>4. CASE SetSink
  BY <1>4, <1>t, <1>c DEF WholeInv, StageInv, Whole, Off, SetSink, InPass, Busy
<1>5. CASE SetSinkPresent
  BY <1>5, <1>t, <1>c DEF WholeInv, StageInv, Whole, Off, SetSinkPresent, InPass, Busy
<1>6. CASE RecomputeEnabled
  BY <1>6, <1>t, <1>c DEF WholeInv, StageInv, Whole, Off, RecomputeEnabled, InPass, Busy
<1>7. CASE SpawnFlusher
  <2>1. /\ UNCHANGED <<db, config>> /\ pc[Main] = "spawn"
        /\ \/ pc' = [pc EXCEPT ![Main] = "idle", ![Flusher] = "lock"]
           \/ pc' = [pc EXCEPT ![Main] = "drain"]
    BY <1>7 DEF SpawnFlusher, SpawnFails
  <2> QED
    BY <1>t, <2>1 DEF WholeInv, Whole, Busy
<1>8. CASE Join
  BY <1>8, <1>t, <1>c DEF WholeInv, StageInv, Whole, Off, Join, AfterJoin, MayJoin, InPass, Busy
<1>9. CASE Teardown
  BY <1>9, <1>t, <1>c DEF WholeInv, StageInv, Whole, Off, Teardown, InPass, Busy
<1>10. CASE FlusherLock
  BY <1>10, <1>t, <1>c DEF WholeInv, StageInv, Whole, Off, FlusherLock, InPass, Busy
<1>11. CASE FlusherTest
  BY <1>11, <1>t, <1>c DEF WholeInv, StageInv, Whole, Off, FlusherTest, InPass, Busy
<1>12. CASE CondWait
  BY <1>12, <1>t, <1>c DEF WholeInv, StageInv, Whole, Off, CondWait, InPass, Busy
<1>13. CASE Wake
  BY <1>13, <1>t, <1>c DEF WholeInv, StageInv, Whole, Off, Wake, AfterWake, InPass, Busy
<1>14. CASE Timeout
  BY <1>14, <1>t, <1>c DEF WholeInv, StageInv, Whole, Off, Timeout, InPass, Busy
<1>15. ASSUME NEW w \in Workers, Register(w) PROVE WholeInv'
  BY <1>15, <1>t, <1>c DEF WholeInv, StageInv, Whole, Off, Register, InPass, Busy
<1>16. ASSUME NEW w \in Workers, SpanStart(w) PROVE WholeInv'
  BY <1>16, <1>t, <1>c DEF WholeInv, StageInv, Whole, Off, SpanStart, InPass, Busy
<1>17. ASSUME NEW w \in Workers, SpanEnd(w) PROVE WholeInv'
  BY <1>17, <1>t, <1>c DEF WholeInv, StageInv, Whole, Off, SpanEnd, InPass, Busy
<1>18. ASSUME NEW w \in Workers, Unregister(w) PROVE WholeInv'
  BY <1>18, <1>t, <1>c DEF WholeInv, StageInv, Whole, Off, Unregister, InPass, Busy
<1>19. ASSUME NEW p \in Threads, DrainTest(p) PROVE WholeInv'
  BY <1>19, <1>t, <1>c DEF WholeInv, StageInv, Whole, Off, DrainTest, Returns, InPass, Busy
<1>20. ASSUME NEW p \in Threads, DrainLock(p) PROVE WholeInv'
  <2>1. UNCHANGED <<db, config>> /\ pc[p] = "drain_lock"
    BY <1>20 DEF DrainLock
  <2>2. pc' = [pc EXCEPT ![p] = IF p \in Workers /\ ~enabled THEN "unlock" ELSE "begin"]
    BY <1>20 DEF DrainLock
  <2>3. p \in Workers => pc[Main] = "idle"
    BY <2>1 DEF WholeInv
  <2>4. pc'[p] \in Busy => Whole
    <3>1. CASE p \in Workers
      BY <1>t, <2>2, <2>3, <3>1 DEF StageInv, Whole, Busy
    <3>2. CASE p = Main
      BY <2>1, <3>2 DEF StageInv
    <3>3. CASE p = Flusher
      BY <2>1, <3>3 DEF StageInv, Whole, Off
    <3> QED
      BY <3>1, <3>2, <3>3
  <2> QED
    BY <1>t, <2>1, <2>2, <2>3, <2>4 DEF WholeInv, Whole, Busy
<1>21. ASSUME NEW p \in Threads, CallBegin(p) PROVE WholeInv'
  <2>1. pc[p] \in Busy /\ UNCHANGED <<db, config>>
    BY <1>21 DEF CallBegin, Call, Busy
  <2>2. Whole
    BY <2>1 DEF WholeInv
  <2>3. \E l \in Labels \ {"fault", "idle"} : pc' = [pc EXCEPT ![p] = l]
    BY <1>21, <2>2 DEF CallBegin, Call, Whole, Labels, InPass, Busy
  <2> QED
    BY <1>t, <2>1, <2>2, <2>3 DEF WholeInv, Whole, Busy
<1>22. ASSUME NEW p \in Threads, ReturnBegin(p) PROVE WholeInv'
  BY <1>22, <1>t, <1>c DEF WholeInv, StageInv, Whole, Off, ReturnBegin, InPass, Busy
<1>23. ASSUME NEW p \in Threads, Load(p) PROVE WholeInv'
  BY <1>23, <1>t, <1>c DEF WholeInv, StageInv, Whole, Off, Load, InPass, Busy
<1>24. ASSUME NEW p \in Threads, CallSpan(p) PROVE WholeInv'
  <2>1. pc[p] \in Busy /\ UNCHANGED <<db, config>>
    BY <1>24 DEF CallSpan, Call, Busy
  <2>2. Whole
    BY <2>1 DEF WholeInv
  <2>3. \E l \in Labels \ {"fault", "idle"} : pc' = [pc EXCEPT ![p] = l]
    BY <1>24, <2>2 DEF CallSpan, Call, Whole, Labels, InPass, Busy
  <2> QED
    BY <1>t, <2>1, <2>2, <2>3 DEF WholeInv, Whole, Busy
<1>25. ASSUME NEW p \in Threads, ReturnSpan(p) PROVE WholeInv'
  BY <1>25, <1>t, <1>c DEF WholeInv, StageInv, Whole, Off, ReturnSpan, InPass, Busy
<1>26. ASSUME NEW p \in Threads, Store(p) PROVE WholeInv'
  BY <1>26, <1>t, <1>c DEF WholeInv, StageInv, Whole, Off, Store, InPass, Busy
<1>27. ASSUME NEW p \in Threads, CallEnd(p) PROVE WholeInv'
  <2>1. pc[p] \in Busy /\ UNCHANGED <<db, config>>
    BY <1>27 DEF CallEnd, Call, Busy
  <2>2. Whole
    BY <2>1 DEF WholeInv
  <2>3. \E l \in Labels \ {"fault", "idle"} : pc' = [pc EXCEPT ![p] = l]
    BY <1>27, <2>2 DEF CallEnd, Call, Whole, Labels, InPass, Busy
  <2> QED
    BY <1>t, <2>1, <2>2, <2>3 DEF WholeInv, Whole, Busy
<1>28. ASSUME NEW p \in Threads, ReturnEnd(p) PROVE WholeInv'
  BY <1>28, <1>t, <1>c DEF WholeInv, StageInv, Whole, Off, ReturnEnd, InPass, Busy
<1>29. ASSUME NEW p \in Threads, Unlock(p) PROVE WholeInv'
  BY <1>29, <1>t, <1>c DEF WholeInv, StageInv, Whole, Off, Unlock, Returns, InPass, Busy
<1>30. CASE UNCHANGED vars
  BY <1>30, <1>u DEF vars
<1> QED
  BY <1>1, <1>2, <1>3, <1>4, <1>5, <1>6, <1>7, <1>8, <1>9, <1>10, <1>11,
     <1>12, <1>13, <1>14, <1>15, <1>16, <1>17, <1>18, <1>19, <1>20, <1>21,
     <1>22, <1>23, <1>24, <1>25, <1>26, <1>27, <1>28, <1>29, <1>30
     DEF Next, MainStep, FlusherStep, Pass

\* Workers that unregister only while otel_sqlite_open and otel_sqlite_close are
\* not running have a whole sink under each pass.
LEMMA WholeCorrect ==
  ASSUME ~LateUnregister
  PROVE  Spec => [](RingInv /\ WholeInv)
<1>1. Init => RingInv /\ WholeInv
  <2> SUFFICES ASSUME Init PROVE RingInv /\ WholeInv
    OBVIOUS
  <2>1. (\A p \in Threads : pc[p] = "idle") /\ Workers \subseteq Threads
    BY DEF Init, Threads
  <2>2. RingInv
    BY <2>1 DEF Init, RingInv
  <2>3. WholeInv
    BY <2>1 DEF Init, WholeInv, Busy, Threads
  <2> QED
    BY <2>2, <2>3
<1>2. TypeInv /\ ControlInv /\ StageInv /\ RingInv /\ WholeInv /\ [Next]_vars
          => RingInv' /\ WholeInv'
  BY RingStep, WholeStep
<1> QED
  BY <1>1, <1>2, StageCorrect, PTL DEF Spec

\* No thread calls through a null sink or is inside a callback of a sink whose
\* database is gone, provided that no thread unregisters while the sink is being
\* opened or closed: what otel_sqlite_close rests on when it detaches the sink and
\* destroys the database without the drain lock.
THEOREM DatabaseOutlives ==
  ASSUME ~LateUnregister
  PROVE  Spec => []DatabaseOutlivesCallbacks
<1>1. WholeInv => DatabaseOutlivesCallbacks
  BY DEF WholeInv, DatabaseOutlivesCallbacks, Whole, Busy
<1> QED
  BY <1>1, WholeCorrect, PTL

-----------------------------------------------------------------------------
(* What otel_sqlite_close promises.                                        *)

\* The transaction holds every span the pass has read, and only a pass has one.
TxnInv ==
    /\ \A p \in Threads : pc[p] \in {"begin", "in_begin"} => txn = {}
    /\ drainLock = Nobody => txn = {}
    /\ \A p \in Threads : pc[p] = "unlock" => txn = {}
    /\ \A p \in Threads : pc[p] \in {"emit", "in_span"} =>
           \A n \in Nat :
               tail[ring] < n /\ n <= pos /\ (pc[p] = "in_span" => n < pos)
                   => <<ring, n>> \in txn

\* Every step keeps TxnInv.
LEMMA TxnStep ==
  ASSUME TypeInv, ControlInv, StageInv, RingInv, WholeInv, TxnInv, [Next]_vars
  PROVE  TxnInv'
<1> USE FlusherAssumption
<1> USE DEF sinkVars, config, rings, pass, history, Goto, Threads

<1>t. /\ pc \in [Threads -> Labels] /\ head \in [Workers -> Nat] /\ tail \in [Workers -> Nat]
      /\ registered \subseteq Workers /\ recording \subseteq Workers
      /\ left \subseteq Workers /\ pos \in Nat /\ lim \in Nat
  BY DEF TypeInv
<1>c. /\ \A w \in Workers : pc[w] \in InPass \cup {"idle", "drain_lock", "fault"}
      /\ \A p \in Threads : pc[p] \in InPass \cup {"fault"} <=> drainLock = p
      /\ \A p \in Threads : pc[p] = "drain" => p \in {Main, Flusher}
  BY DEF ControlInv, InPass, Busy

<1>e. \A p, q \in Threads : pc[p] \in InPass /\ pc[q] \in InPass => p = q
  BY <1>c
<1>v. ASSUME UNCHANGED <<drainLock, tail, ring, pos, txn>>,
             \A p \in Threads : pc'[p] \in InPass => pc'[p] = pc[p]
      PROVE  TxnInv'
  BY <1>v DEF TxnInv, InPass, Busy
<1>u. ASSUME UNCHANGED <<drainLock, tail, ring, pos, txn, pc>> PROVE TxnInv'
  BY <1>u, <1>v
<1>1. CASE OpenDb
  <2>1. /\ UNCHANGED <<drainLock, tail, ring, pos, txn>>
        /\ \E l \in {"attach", "drain"} : pc' = [pc EXCEPT ![Main] = l]
    BY <1>1 DEF OpenDb
  <2> QED
    BY <1>t, <1>v, <2>1 DEF InPass, Busy
<1>2. CASE Close
  BY <1>2, <1>t, <1>v DEF Close, Quiet, InPass, Busy
<1>3. CASE StopFlusher
  BY <1>3, <1>t, <1>v DEF StopFlusher, MayStop, Signalled, InPass, Busy
<1>4. CASE SetSink
  BY <1>4, <1>t, <1>v DEF SetSink, InPass, Busy
<1>5. CASE SetSinkPresent
  BY <1>5, <1>t, <1>v DEF SetSinkPresent, InPass, Busy
<1>6. CASE RecomputeEnabled
  BY <1>6, <1>t, <1>v DEF RecomputeEnabled, InPass, Busy
<1>7. CASE SpawnFlusher
  <2>1. /\ UNCHANGED <<drainLock, tail, ring, pos, txn>>
        /\ \/ pc' = [pc EXCEPT ![Main] = "idle", ![Flusher] = "lock"]
           \/ pc' = [pc EXCEPT ![Main] = "drain"]
    BY <1>7 DEF SpawnFlusher, SpawnFails
  <2> QED
    BY <1>t, <1>v, <2>1 DEF InPass, Busy
<1>8. CASE Join
  BY <1>8, <1>t, <1>v DEF Join, AfterJoin, MayJoin, InPass, Busy
<1>9. CASE Teardown
  <2>1. UNCHANGED <<drainLock, tail, ring, pos>> /\ txn' = {} /\ pc[Main] = "teardown"
        /\ pc' = [pc EXCEPT ![Main] = "idle"]
    BY <1>9 DEF Teardown
  <2>2. \A p \in Threads : pc[p] \notin Busy
    BY <2>1 DEF WholeInv, StageInv, Off, Busy
  <2> QED
    BY <1>t, <2>1, <2>2 DEF TxnInv, Busy
<1>10. CASE FlusherLock
  BY <1>10, <1>t, <1>v DEF FlusherLock, InPass, Busy
<1>11. CASE FlusherTest
  BY <1>11, <1>t, <1>v DEF FlusherTest, InPass, Busy
<1>12. CASE CondWait
  BY <1>12, <1>t, <1>v DEF CondWait, InPass, Busy
<1>13. CASE Wake
  BY <1>13, <1>t, <1>v DEF Wake, AfterWake, InPass, Busy
<1>14. CASE Timeout
  BY <1>14, <1>t, <1>v DEF Timeout, InPass, Busy
<1>15. ASSUME NEW w \in Workers, Register(w) PROVE TxnInv'
  BY <1>15, <1>t, <1>v DEF Register, InPass, Busy
<1>16. ASSUME NEW w \in Workers, SpanStart(w) PROVE TxnInv'
  BY <1>16, <1>t, <1>v DEF SpanStart, InPass, Busy
<1>17. ASSUME NEW w \in Workers, SpanEnd(w) PROVE TxnInv'
  BY <1>17, <1>t, <1>v DEF SpanEnd, InPass, Busy
<1>18. ASSUME NEW w \in Workers, Unregister(w) PROVE TxnInv'
  BY <1>18, <1>t, <1>v DEF Unregister, InPass, Busy
<1>19. ASSUME NEW p \in Threads, DrainTest(p) PROVE TxnInv'
  BY <1>19, <1>t, <1>v DEF DrainTest, Returns, InPass, Busy
<1>20. ASSUME NEW p \in Threads, DrainLock(p) PROVE TxnInv'
  BY <1>20, <1>t, <1>c, <1>e DEF TxnInv, RingInv, DrainLock, Rings, InPass, Busy
<1>21. ASSUME NEW p \in Threads, CallBegin(p) PROVE TxnInv'
  <2>1. pc[p] = "begin" /\ UNCHANGED <<drainLock, tail, ring, txn>>
    BY <1>21 DEF CallBegin, Call
  <2>2. sink /\ sinkPresent
    BY <2>1 DEF WholeInv, Whole, Busy
  <2>3. pc' = [pc EXCEPT ![p] = "in_begin"]
    BY <1>21, <2>1, <2>2 DEF CallBegin, Call

  <2> QED
    BY <1>21, <1>t, <1>c, <1>e, <2>1, <2>3 DEF TxnInv, CallBegin, InPass, Busy
<1>22. ASSUME NEW p \in Threads, ReturnBegin(p) PROVE TxnInv'
  BY <1>22, <1>t, <1>c, <1>e DEF TxnInv, RingInv, ReturnBegin, InPass, Busy
<1>23. ASSUME NEW p \in Threads, Load(p) PROVE TxnInv'
  <2>1. pc[p] = "load" /\ UNCHANGED <<drainLock, tail, txn>>
    BY <1>23 DEF Load
  <2>2. \A q \in Threads : q # p => pc[q] \notin InPass
    BY <1>t, <1>c, <2>1 DEF InPass, Busy
  <2>3. drainLock # Nobody
    BY <1>c, <2>1 DEF InPass, Busy
  <2>4. CASE pc' = [pc EXCEPT ![p] = "end"]
    BY <1>t, <2>1, <2>2, <2>3, <2>4 DEF TxnInv, InPass, Busy
  <2>5. CASE \E w \in left : ring' = w /\ pos' = tail[w] /\ pc' = [pc EXCEPT ![p] = "emit"]
    <3>1. \A n \in Nat : ~(tail'[ring'] < n /\ n <= pos')
      BY <1>t, <2>1, <2>5
    <3> QED
      BY <1>t, <2>1, <2>2, <2>3, <2>5, <3>1 DEF TxnInv, InPass, Busy
  <2> QED
    BY <1>23, <2>4, <2>5 DEF Load
<1>24. ASSUME NEW p \in Threads, CallSpan(p) PROVE TxnInv'
  <2>1. pc[p] = "emit" /\ UNCHANGED <<drainLock, tail, ring, txn>>
    BY <1>24 DEF CallSpan, Call
  <2>2. sink /\ sinkPresent
    BY <2>1 DEF WholeInv, Whole, Busy
  <2>3. pc' = [pc EXCEPT ![p] = "in_span"]
    BY <1>24, <2>1, <2>2 DEF CallSpan, Call

  <2>4. pos' = pos + 1
    BY <1>24 DEF CallSpan
  <2>5. \A q \in Threads : q # p => pc'[q] = pc[q] /\ pc[q] \notin InPass
    BY <1>t, <1>c, <2>1, <2>3 DEF InPass, Busy
  <2>6. \A n \in Nat : n < pos' <=> n <= pos
    BY <1>t, <2>4
  <2> QED
    BY <1>t, <1>c, <2>1, <2>3, <2>5, <2>6 DEF TxnInv, InPass, Busy
<1>25. ASSUME NEW p \in Threads, ReturnSpan(p) PROVE TxnInv'
  <2>1. pc[p] = "in_span" /\ UNCHANGED <<drainLock, tail, ring, pos>>
        /\ txn' = txn \cup {<<ring, pos>>} /\ pc' = [pc EXCEPT ![p] = "emit"]
    BY <1>25 DEF ReturnSpan
  <2>2. \A q \in Threads : q # p => pc'[q] = pc[q] /\ pc[q] \notin InPass
    BY <1>t, <1>c, <2>1 DEF InPass, Busy
  <2>3. drainLock # Nobody
    BY <1>c, <2>1 DEF InPass, Busy
  <2>4. ASSUME NEW n \in Nat, tail[ring] < n, n <= pos PROVE <<ring, n>> \in txn'
    <3>1. CASE n = pos
      BY <2>1, <3>1
    <3>2. CASE n < pos
      BY <2>1, <2>4, <3>2 DEF TxnInv
    <3> QED
      BY <1>t, <2>4, <3>1, <3>2
  <2> QED
    BY <1>t, <2>1, <2>2, <2>3, <2>4 DEF TxnInv, InPass, Busy
<1>26. ASSUME NEW p \in Threads, Store(p) PROVE TxnInv'
  BY <1>26, <1>t, <1>c, <1>e DEF TxnInv, RingInv, Store, InPass, Busy
<1>27. ASSUME NEW p \in Threads, CallEnd(p) PROVE TxnInv'
  <2>1. pc[p] = "end" /\ UNCHANGED <<drainLock, tail, ring, txn>>
    BY <1>27 DEF CallEnd, Call
  <2>2. sink /\ sinkPresent
    BY <2>1 DEF WholeInv, Whole, Busy
  <2>3. pc' = [pc EXCEPT ![p] = "in_end"]
    BY <1>27, <2>1, <2>2 DEF CallEnd, Call

  <2> QED
    BY <1>27, <1>t, <1>c, <1>e, <2>1, <2>3 DEF TxnInv, CallEnd, InPass, Busy
<1>28. ASSUME NEW p \in Threads, ReturnEnd(p) PROVE TxnInv'
  BY <1>28, <1>t, <1>c, <1>e DEF TxnInv, RingInv, ReturnEnd, InPass, Busy
<1>29. ASSUME NEW p \in Threads, Unlock(p) PROVE TxnInv'
  BY <1>29, <1>t, <1>c, <1>e DEF TxnInv, RingInv, Unlock, Returns, InPass, Busy
<1>30. CASE UNCHANGED vars
  BY <1>30, <1>u DEF vars
<1> QED
  BY <1>1, <1>2, <1>3, <1>4, <1>5, <1>6, <1>7, <1>8, <1>9, <1>10, <1>11,
     <1>12, <1>13, <1>14, <1>15, <1>16, <1>17, <1>18, <1>19, <1>20, <1>21,
     <1>22, <1>23, <1>24, <1>25, <1>26, <1>27, <1>28, <1>29, <1>30
     DEF Next, MainStep, FlusherStep, Pass

\* How far otel_sqlite_close is with the spans that waited when it began.
DueInv ==
    /\ pc[Main] \in {"stop", "join", "drain", "drain_lock"} =>
           due \subseteq stored \cup txn \cup Waiting
    /\ pc[Main] \in {"begin", "in_begin", "load", "emit", "in_span"} =>
           \A s \in due : \/ s \in stored \cup txn
                          \/ s \in Waiting /\ s[1] \in left
                          \/ /\ s \in Waiting /\ s[1] = ring /\ s[2] <= lim
                             /\ pc[Main] \in {"emit", "in_span"}
    /\ pc[Main] \in {"end", "in_end"} => due \subseteq stored \cup txn
    /\ pc[Main] = "drain" /\ ~enabled => due \subseteq stored
    /\ pc[Main] \in {"idle", "attach", "attach_flag", "attach_live", "spawn", "unlock",
                     "detach", "detach_flag", "detach_live", "teardown"} =>
           due \subseteq stored

\* Every step keeps DueInv.
LEMMA DueStep ==
  ASSUME TypeInv, ControlInv, StageInv, RingInv, WholeInv, TxnInv, DueInv, [Next]_vars
  PROVE  DueInv'
<1> USE FlusherAssumption
<1> USE DEF sinkVars, config, rings, pass, history, Goto, Threads

<1>t. /\ pc \in [Threads -> Labels] /\ head \in [Workers -> Nat] /\ tail \in [Workers -> Nat]
      /\ registered \subseteq Workers /\ recording \subseteq Workers
      /\ left \subseteq Workers /\ pos \in Nat /\ lim \in Nat
  BY DEF TypeInv
<1>c. /\ \A w \in Workers : pc[w] \in InPass \cup {"idle", "drain_lock", "fault"}
      /\ \A p \in Threads : pc[p] \in InPass \cup {"fault"} <=> drainLock = p
      /\ \A p \in Threads : pc[p] = "drain" => p \in {Main, Flusher}
  BY DEF ControlInv, InPass, Busy

<1>e. \A p, q \in Threads : pc[p] \in InPass /\ pc[q] \in InPass => p = q
  BY <1>c
<1>d. due \subseteq Span /\ \A s \in Span : s[1] \in Workers /\ s[2] \in Nat /\ s = <<s[1], s[2]>>
  BY DEF TypeInv, Span
<1>g. ASSUME UNCHANGED <<due, txn, stored, left, ring, lim, enabled>>,
             pc'[Main] = pc[Main], Waiting \subseteq Waiting'
      PROVE  DueInv'
  BY <1>g DEF DueInv
<1>h. ASSUME UNCHANGED <<due, enabled>>, pc[Main] \notin InPass,
             pc'[Main] = pc[Main], stored \subseteq stored',
             stored \cup txn \subseteq stored' \cup txn',
             pc[Main] \in {"stop", "join", "drain", "drain_lock"} =>
                 \A s \in due : s \in Waiting => s \in Waiting' \cup stored' \cup txn'
      PROVE  DueInv'
  BY <1>h DEF DueInv, InPass, Busy
<1>r. ASSUME UNCHANGED <<head, tail>> PROVE Waiting' = Waiting
  BY <1>r DEF Waiting
<1>u. ASSUME UNCHANGED <<due, txn, stored, left, ring, lim, enabled, head, tail, pc>>
      PROVE  DueInv'
  BY <1>u, <1>g, <1>r
<1>1. CASE OpenDb
  BY <1>1 DEF OpenDb, DueInv
<1>2. CASE Close
  <2>1. /\ due' = (IF sinkPresent THEN Waiting ELSE {}) /\ pc[Main] = "idle"
        /\ pc' = [pc EXCEPT ![Main] = IF haveThread THEN "stop" ELSE "drain"]
        /\ UNCHANGED <<txn, stored, head, tail>>
    BY <1>2 DEF Close
  <2>2. ~haveThread => ~sinkPresent
    BY <2>1 DEF StageInv
  <2>3. pc'[Main] = IF haveThread THEN "stop" ELSE "drain"
    BY <1>t, <2>1
  <2>4. Waiting' = Waiting
    BY <1>r, <2>1
  <2> QED
    BY <2>1, <2>2, <2>3, <2>4 DEF DueInv
<1>3. CASE StopFlusher
  <2>1. Waiting' = Waiting
    BY <1>3, <1>r DEF StopFlusher
  <2> QED
    BY <1>3, <1>t, <2>1 DEF DueInv, StageInv, Whole, StopFlusher, MayStop, Signalled
<1>4. CASE SetSink
  <2>1. Waiting' = Waiting
    BY <1>4, <1>r DEF SetSink
  <2> QED
    BY <1>4, <1>t, <2>1 DEF DueInv, StageInv, Whole, SetSink
<1>5. CASE SetSinkPresent
  <2>1. Waiting' = Waiting
    BY <1>5, <1>r DEF SetSinkPresent
  <2> QED
    BY <1>5, <1>t, <2>1 DEF DueInv, StageInv, Whole, SetSinkPresent
<1>6. CASE RecomputeEnabled
  <2>1. Waiting' = Waiting
    BY <1>6, <1>r DEF RecomputeEnabled
  <2> QED
    BY <1>6, <1>t, <2>1 DEF DueInv, StageInv, Whole, RecomputeEnabled
<1>7. CASE SpawnFlusher
  <2>1. pc[Main] = "spawn" /\ UNCHANGED <<txn, stored, head, tail, enabled>> /\ enabled
    BY <1>7 DEF SpawnFlusher, StageInv, Whole
  <2>2. \/ pc'[Main] = "idle" /\ due' = due
        \/ pc'[Main] = "drain" /\ due' = Waiting
    BY <1>7, <1>t DEF SpawnFlusher, SpawnFails
  <2>3. Waiting' = Waiting
    BY <1>r, <2>1
  <2> QED
    BY <2>1, <2>2, <2>3 DEF DueInv
<1>8. CASE Join
  <2>1. Waiting' = Waiting
    BY <1>8, <1>r DEF Join
  <2> QED
    BY <1>8, <1>t, <2>1 DEF DueInv, StageInv, Whole, Join, AfterJoin, MayJoin
<1>9. CASE Teardown
  <2>1. due \subseteq stored /\ UNCHANGED <<due, stored>>
    BY <1>9 DEF Teardown, DueInv
  <2>2. pc'[Main] = "idle"
    BY <1>9, <1>t DEF Teardown
  <2> QED
    BY <2>1, <2>2 DEF DueInv
<1>10. CASE FlusherLock
  <2>1. Waiting' = Waiting /\ pc'[Main] = pc[Main]
    BY <1>10, <1>r, <1>t DEF FlusherLock
  <2> QED
    BY <1>10, <1>g, <2>1 DEF FlusherLock
<1>11. CASE FlusherTest
  <2>1. Waiting' = Waiting /\ pc'[Main] = pc[Main]
    BY <1>11, <1>r, <1>t DEF FlusherTest
  <2> QED
    BY <1>11, <1>g, <2>1 DEF FlusherTest
<1>12. CASE CondWait
  <2>1. Waiting' = Waiting /\ pc'[Main] = pc[Main]
    BY <1>12, <1>r, <1>t DEF CondWait
  <2> QED
    BY <1>12, <1>g, <2>1 DEF CondWait
<1>13. CASE Wake
  <2>1. Waiting' = Waiting /\ pc'[Main] = pc[Main]
    BY <1>13, <1>r, <1>t DEF Wake, AfterWake
  <2> QED
    BY <1>13, <1>g, <2>1 DEF Wake
<1>14. CASE Timeout
  <2>1. Waiting' = Waiting /\ pc'[Main] = pc[Main]
    BY <1>14, <1>r, <1>t DEF Timeout
  <2> QED
    BY <1>14, <1>g, <2>1 DEF Timeout
<1>15. ASSUME NEW w \in Workers, Register(w) PROVE DueInv'
  <2>1. Waiting' = Waiting /\ pc'[Main] = pc[Main]
    BY <1>15, <1>r, <1>t DEF Register
  <2> QED
    BY <1>15, <1>g, <2>1 DEF Register
<1>16. ASSUME NEW w \in Workers, SpanStart(w) PROVE DueInv'
  <2>1. Waiting' = Waiting /\ pc'[Main] = pc[Main]
    BY <1>16, <1>r, <1>t DEF SpanStart
  <2> QED
    BY <1>16, <1>g, <2>1 DEF SpanStart
<1>17. ASSUME NEW w \in Workers, SpanEnd(w) PROVE DueInv'
  <2>1. head' = [head EXCEPT ![w] = @ + 1] /\ UNCHANGED <<tail, pc>>
    BY <1>17 DEF SpanEnd
  <2>2. \A v \in Workers : head[v] <= head'[v] /\ head[v] \in Nat /\ head'[v] \in Nat
    BY <1>t, <2>1
  <2>3. Waiting \subseteq Waiting'
    BY <1>d, <2>1, <2>2 DEF Waiting
  <2> QED
    BY <1>17, <1>g, <2>1, <2>3 DEF SpanEnd
<1>18. ASSUME NEW w \in Workers, Unregister(w) PROVE DueInv'
  <2>1. Waiting' = Waiting /\ pc'[Main] = pc[Main]
    BY <1>18, <1>r, <1>t DEF Unregister
  <2> QED
    BY <1>18, <1>g, <2>1 DEF Unregister
<1>19. ASSUME NEW p \in Threads, DrainTest(p) PROVE DueInv'
  <2>1. CASE p # Main
    <3>1. Waiting' = Waiting /\ pc'[Main] = pc[Main]
      BY <1>19, <1>r, <1>t, <2>1 DEF DrainTest, Returns
    <3> QED
      BY <1>19, <1>g, <3>1 DEF DrainTest
  <2>2. CASE p = Main
    <3>1. pc[Main] = "drain" /\ UNCHANGED <<due, txn, stored, head, tail, enabled>>
      BY <1>19, <2>2 DEF DrainTest
    <3>2. pc'[Main] = IF enabled THEN "drain_lock" ELSE "detach"
      BY <1>19, <1>t, <2>2 DEF DrainTest, Returns
    <3>3. Waiting' = Waiting
      BY <1>r, <3>1
    <3> QED
      BY <3>1, <3>2, <3>3 DEF DueInv
  <2> QED
    BY <2>1, <2>2
<1>20. ASSUME NEW p \in Threads, DrainLock(p) PROVE DueInv'
  <2>1. CASE p # Main
    <3>1. pc'[Main] = pc[Main] /\ pc[Main] \notin InPass
      BY <1>20, <1>c, <1>t, <2>1 DEF DrainLock, Rings
    <3>2. Waiting' = Waiting
      BY <1>20, <1>r DEF DrainLock
    <3> QED
      BY <1>20, <1>h, <3>1, <3>2 DEF DrainLock
  <2>2. CASE p = Main
    <3>1. pc[Main] = "drain_lock" /\ UNCHANGED <<due, txn, stored, head, tail>> /\ left' = registered
      BY <1>20, <2>2 DEF DrainLock, Rings
    <3>2. pc'[Main] = "begin"
      BY <1>20, <1>t, <2>2 DEF DrainLock
    <3>3. Waiting' = Waiting
      BY <1>r, <3>1
    <3>4. \A s \in Waiting : s[1] \in registered
      <4> SUFFICES ASSUME NEW s \in Waiting, s[1] \notin registered PROVE FALSE
        OBVIOUS
      <4>1. s \in Span /\ tail[s[1]] < s[2] /\ s[2] <= head[s[1]]
        BY DEF Waiting
      <4>2. s[1] \in Workers /\ s[2] \in Nat
        BY <1>d, <4>1
      <4>3. tail[s[1]] = head[s[1]]
        BY <4>2 DEF RingInv
      <4> QED
        BY <1>t, <4>1, <4>2, <4>3
    <3> QED
      BY <3>1, <3>2, <3>3, <3>4 DEF DueInv
  <2> QED
    BY <2>1, <2>2
<1>21. ASSUME NEW p \in Threads, CallBegin(p) PROVE DueInv'
  <2>1. CASE p # Main
    <3>1. Waiting' = Waiting /\ pc'[Main] = pc[Main]
      BY <1>21, <1>r, <1>t, <2>1 DEF CallBegin, Call
    <3> QED
      BY <1>21, <1>g, <3>1 DEF CallBegin
  <2>2. CASE p = Main
    <3>1. pc[Main] = "begin" /\ UNCHANGED <<due, txn, stored, head, tail, left, ring, lim>>
      BY <1>21, <2>2 DEF CallBegin, Call
    <3>2. sink /\ sinkPresent
      BY <3>1 DEF StageInv, Whole, InPass, Busy
    <3>3. pc'[Main] = "in_begin"
      BY <1>21, <1>t, <2>2, <3>2 DEF CallBegin, Call
    <3>4. Waiting' = Waiting
      BY <1>r, <3>1
    <3> QED
      BY <3>1, <3>3, <3>4 DEF DueInv
  <2> QED
    BY <2>1, <2>2
<1>22. ASSUME NEW p \in Threads, ReturnBegin(p) PROVE DueInv'
  <2>1. CASE p # Main
    <3>1. pc[Main] \notin InPass /\ pc'[Main] = pc[Main]
      BY <1>22, <1>t, <1>e, <2>1 DEF ReturnBegin, InPass, Busy
    <3>2. Waiting' = Waiting /\ txn = {}
      BY <1>22, <1>r DEF ReturnBegin, TxnInv
    <3> QED
      BY <1>22, <1>h, <3>1, <3>2 DEF ReturnBegin
  <2>2. CASE p = Main
    <3>1. pc[Main] = "in_begin" /\ txn' = {} /\ UNCHANGED <<due, stored, head, tail, left, ring, lim>>
      BY <1>22, <2>2 DEF ReturnBegin
    <3>2. pc'[Main] = "load"
      BY <1>22, <1>t, <2>2 DEF ReturnBegin
    <3>3. Waiting' = Waiting /\ txn = {}
      BY <1>r, <3>1 DEF TxnInv
    <3> QED
      BY <3>1, <3>2, <3>3 DEF DueInv
  <2> QED
    BY <2>1, <2>2
<1>23. ASSUME NEW p \in Threads, Load(p) PROVE DueInv'
  <2>1. CASE p # Main
    <3>1. pc[Main] \notin InPass /\ pc'[Main] = pc[Main]
      BY <1>23, <1>t, <1>e, <2>1 DEF Load, InPass, Busy
    <3>2. Waiting' = Waiting
      BY <1>23, <1>r DEF Load
    <3> QED
      BY <1>23, <1>h, <3>1, <3>2 DEF Load, TxnInv
  <2>2. CASE p = Main
    <3>1. pc[Main] = "load" /\ UNCHANGED <<due, txn, stored, head, tail>>
      BY <1>23, <2>2 DEF Load
    <3>2. Waiting' = Waiting
      BY <1>r, <3>1
    <3>3. CASE left = {} /\ pc'[Main] = "end"
      BY <3>1, <3>3 DEF DueInv
    <3>4. CASE \E w \in left : /\ left' = left \ {w} /\ ring' = w
                              /\ lim' = head[w] /\ pc'[Main] = "emit"
      <4>1. PICK w \in left : /\ left' = left \ {w} /\ ring' = w
                              /\ lim' = head[w] /\ pc'[Main] = "emit"
        BY <3>4
      <4>2. \A s \in Waiting : s[1] = w => s[2] <= lim'
        BY <4>1 DEF Waiting
      <4> QED
        BY <3>1, <3>2, <4>1, <4>2 DEF DueInv
    <3>5. \/ left = {} /\ pc' = [pc EXCEPT ![Main] = "end"]
          \/ \E w \in left : /\ left' = left \ {w} /\ ring' = w
                            /\ lim' = head[w] /\ pc' = [pc EXCEPT ![Main] = "emit"]
      BY <1>23, <2>2 DEF Load
    <3> QED
      BY <1>t, <3>3, <3>4, <3>5
  <2> QED
    BY <2>1, <2>2
<1>24. ASSUME NEW p \in Threads, CallSpan(p) PROVE DueInv'
  <2>1. CASE p # Main
    <3>1. Waiting' = Waiting /\ pc'[Main] = pc[Main]
      BY <1>24, <1>r, <1>t, <2>1 DEF CallSpan, Call
    <3> QED
      BY <1>24, <1>g, <3>1 DEF CallSpan
  <2>2. CASE p = Main
    <3>1. pc[Main] = "emit" /\ UNCHANGED <<due, txn, stored, head, tail, left, ring, lim>>
      BY <1>24, <2>2 DEF CallSpan, Call
    <3>2. sink /\ sinkPresent
      BY <3>1 DEF StageInv, Whole, InPass, Busy
    <3>3. pc'[Main] = "in_span"
      BY <1>24, <1>t, <2>2, <3>2 DEF CallSpan, Call
    <3>4. Waiting' = Waiting
      BY <1>r, <3>1
    <3> QED
      BY <3>1, <3>3, <3>4 DEF DueInv
  <2> QED
    BY <2>1, <2>2
<1>25. ASSUME NEW p \in Threads, ReturnSpan(p) PROVE DueInv'
  <2>1. CASE p # Main
    <3>1. pc[Main] \notin InPass /\ pc'[Main] = pc[Main]
      BY <1>25, <1>t, <1>e, <2>1 DEF ReturnSpan, InPass, Busy
    <3>2. Waiting' = Waiting
      BY <1>25, <1>r DEF ReturnSpan
    <3> QED
      BY <1>25, <1>h, <3>1, <3>2 DEF ReturnSpan, TxnInv
  <2>2. CASE p = Main
    <3>1. /\ pc[Main] = "in_span" /\ UNCHANGED <<due, stored, head, tail, left, ring, lim>>
          /\ txn \subseteq txn'
      BY <1>25, <2>2 DEF ReturnSpan
    <3>2. pc'[Main] = "emit"
      BY <1>25, <1>t, <2>2 DEF ReturnSpan
    <3>3. Waiting' = Waiting
      BY <1>r, <3>1
    <3> QED
      BY <3>1, <3>2, <3>3 DEF DueInv
  <2> QED
    BY <2>1, <2>2
<1>26. ASSUME NEW p \in Threads, Store(p) PROVE DueInv'
  <2>1. /\ pc[p] = "emit" /\ pos = lim /\ tail' = [tail EXCEPT ![ring] = lim]
        /\ UNCHANGED <<due, txn, stored, head, left, enabled>>
        /\ pc' = [pc EXCEPT ![p] = "load"]
    BY <1>26 DEF Store
  <2>2. ring \in Workers /\ tail'[ring] = lim /\ \A v \in Workers : v # ring => tail'[v] = tail[v]
    BY <1>t, <2>1 DEF RingInv
  <2>3. ASSUME NEW s \in Waiting PROVE s \in Waiting' \/ (s \in txn /\ s[1] = ring)
    <3>1. s \in Span /\ tail[s[1]] < s[2] /\ s[2] <= head[s[1]]
      BY DEF Waiting
    <3>2. s[1] \in Workers /\ s[2] \in Nat /\ s = <<s[1], s[2]>>
      BY <1>d, <3>1
    <3>3. CASE s[1] = ring /\ s[2] <= lim
      <4>1. <<ring, s[2]>> \in txn
        BY <2>1, <3>1, <3>2, <3>3 DEF TxnInv
      <4> QED
        BY <3>2, <3>3, <4>1
    <3>4. CASE ~(s[1] = ring /\ s[2] <= lim)
      <4>1. tail'[s[1]] < s[2]
        BY <1>t, <2>2, <3>1, <3>2, <3>4
      <4> QED
        BY <2>1, <3>1, <4>1 DEF Waiting
    <3> QED
      BY <3>3, <3>4
  <2>4. ASSUME NEW s \in Waiting, s[1] = ring, s[2] <= lim PROVE s \in txn
    <3>1. s \in Span /\ tail[s[1]] < s[2]
      BY DEF Waiting
    <3>2. s[1] \in Workers /\ s[2] \in Nat /\ s = <<s[1], s[2]>>
      BY <1>d, <3>1
    <3> QED
      BY <2>1, <2>4, <3>1, <3>2 DEF TxnInv
  <2>5. CASE p # Main
    <3>1. pc[Main] \notin InPass /\ pc'[Main] = pc[Main]
      BY <1>t, <1>e, <2>1, <2>5 DEF InPass, Busy
    <3> QED
      BY <1>h, <2>1, <2>3, <3>1
  <2>6. CASE p = Main
    <3>1. pc[Main] = "emit" /\ pc'[Main] = "load"
      BY <1>t, <2>1, <2>6
    <3> QED
      BY <2>1, <2>3, <2>4, <3>1 DEF DueInv
  <2> QED
    BY <2>5, <2>6
<1>27. ASSUME NEW p \in Threads, CallEnd(p) PROVE DueInv'
  <2>1. CASE p # Main
    <3>1. Waiting' = Waiting /\ pc'[Main] = pc[Main]
      BY <1>27, <1>r, <1>t, <2>1 DEF CallEnd, Call
    <3> QED
      BY <1>27, <1>g, <3>1 DEF CallEnd
  <2>2. CASE p = Main
    <3>1. pc[Main] = "end" /\ UNCHANGED <<due, txn, stored, head, tail, left, ring, lim>>
      BY <1>27, <2>2 DEF CallEnd, Call
    <3>2. sink /\ sinkPresent
      BY <3>1 DEF StageInv, Whole, InPass, Busy
    <3>3. pc'[Main] = "in_end"
      BY <1>27, <1>t, <2>2, <3>2 DEF CallEnd, Call
    <3>4. Waiting' = Waiting
      BY <1>r, <3>1
    <3> QED
      BY <3>1, <3>3, <3>4 DEF DueInv
  <2> QED
    BY <2>1, <2>2
<1>28. ASSUME NEW p \in Threads, ReturnEnd(p) PROVE DueInv'
  <2>1. CASE p # Main
    <3>1. pc[Main] \notin InPass /\ pc'[Main] = pc[Main]
      BY <1>28, <1>t, <1>e, <2>1 DEF ReturnEnd, InPass, Busy
    <3>2. Waiting' = Waiting
      BY <1>28, <1>r DEF ReturnEnd
    <3> QED
      BY <1>28, <1>h, <3>1, <3>2 DEF ReturnEnd, TxnInv
  <2>2. CASE p = Main
    <3>1. pc[Main] = "in_end" /\ UNCHANGED due /\ stored' = stored \cup txn
      BY <1>28, <2>2 DEF ReturnEnd
    <3>2. pc'[Main] = "unlock"
      BY <1>28, <1>t, <2>2 DEF ReturnEnd
    <3> QED
      BY <3>1, <3>2 DEF DueInv
  <2> QED
    BY <2>1, <2>2
<1>29. ASSUME NEW p \in Threads, Unlock(p) PROVE DueInv'
  <2>1. CASE p # Main
    <3>1. pc[Main] \notin InPass /\ pc'[Main] = pc[Main]
      BY <1>29, <1>t, <1>e, <2>1 DEF Unlock, Returns, InPass, Busy
    <3>2. pc[Main] # "idle" => UNCHANGED tail
      BY <1>29 DEF Unlock, WholeInv
    <3>3. pc[Main] # "idle" => Waiting' = Waiting
      BY <1>29, <1>r, <3>2 DEF Unlock
    <3> QED
      BY <1>29, <1>h, <3>1, <3>3 DEF Unlock
  <2>2. CASE p = Main
    <3>1. pc[Main] = "unlock" /\ UNCHANGED <<due, stored>>
      BY <1>29, <2>2 DEF Unlock, Returns
    <3>2. pc'[Main] = "detach"
      BY <1>29, <1>t, <2>2 DEF Unlock, Returns
    <3> QED
      BY <3>1, <3>2 DEF DueInv
  <2> QED
    BY <2>1, <2>2
<1>30. CASE UNCHANGED vars
  BY <1>30, <1>u DEF vars
<1> QED
  BY <1>1, <1>2, <1>3, <1>4, <1>5, <1>6, <1>7, <1>8, <1>9, <1>10, <1>11,
     <1>12, <1>13, <1>14, <1>15, <1>16, <1>17, <1>18, <1>19, <1>20, <1>21,
     <1>22, <1>23, <1>24, <1>25, <1>26, <1>27, <1>28, <1>29, <1>30
     DEF Next, MainStep, FlusherStep, Pass

\* When otel_sqlite_close has returned, every span that was waiting in a ring when
\* it was called is stored, also the ones a pass of the flusher had begun to read
\* and also when it was called by a failing otel_sqlite_open.
THEOREM ClosePersists ==
  ASSUME ~LateUnregister
  PROVE  Spec => []ClosedMeansPersisted
<1>1. Init => TxnInv /\ DueInv
  <2> SUFFICES ASSUME Init PROVE TxnInv /\ DueInv
    OBVIOUS
  <2>1. \A p \in Threads : pc[p] = "idle"
    BY DEF Init
  <2>2. TxnInv
    BY <2>1 DEF Init, TxnInv
  <2>3. DueInv
    BY DEF Init, DueInv
  <2> QED
    BY <2>2, <2>3
<1>2. TypeInv /\ ControlInv /\ StageInv /\ RingInv /\ WholeInv /\ TxnInv /\ DueInv /\ [Next]_vars
          => TxnInv' /\ DueInv'
  BY TxnStep, DueStep
<1>3. DueInv => ClosedMeansPersisted
  BY DEF DueInv, ClosedMeansPersisted
<1> QED
  BY <1>1, <1>2, <1>3, StageCorrect, WholeCorrect, PTL DEF Spec

-----------------------------------------------------------------------------
(* How long the flusher sleeps.                                            *)

LEMMA DivMod ==
  ASSUME NEW n \in Nat, NEW a \in Nat \ {0}
  PROVE  /\ n \div a \in Nat /\ n % a \in Nat /\ n % a < a
         /\ n = ((n \div a) * a) + (n % a)
  OBVIOUS

\* The carries of otel_cond_wait_ms, in whole numbers.
LEMMA CarriesAddUp ==
  ASSUME NEW m \in Nat \ {0}, NEW n \in Nat \ {0}, NEW s \in Nat, s = m * n,
         NEW sec \in Nat, NEW nsec \in Nat, NEW wait \in Nat,
         NEW q \in Nat, NEW r \in Nat, wait = q * m + r,
         NEW c \in Nat, NEW x \in Nat, nsec + r * n = c * s + x
  PROVE  (sec + q + c) * s + x = sec * s + nsec + wait * n
<1>1. PICK a, b, d, e : a = sec * s /\ b = q * s /\ d = c * s /\ e = r * n
  OBVIOUS
<1>2. a \in Nat /\ b \in Nat /\ d \in Nat /\ e \in Nat
  BY <1>1
<1>3. (sec + q + c) * s = a + b + d
  BY <1>1
<1>4. wait * n = b + e
  <2>1. (q * m) * n = q * (m * n)
    OBVIOUS
  <2>2. wait * n = (q * m) * n + r * n
    OBVIOUS
  <2> QED
    BY <1>1, <2>1, <2>2
<1>5. nsec + e = d + x
  BY <1>1
<1>6. a + b + d + x = a + nsec + (b + e)
  BY <1>2, <1>5
<1> QED
  BY <1>1, <1>3, <1>4, <1>6

\* Whatever the clock says and however long the interval, the deadline that
\* otel_cond_wait_ms passes to the timed wait is in normal form and lies exactly
\* the interval after now.
THEOREM DeadlineCorrect == ShimSpec => []DeadlineIsLater
<1>0. NsPerSec \in Nat \ {0} /\ MsPerSec \in Nat \ {0} /\ NsPerMs \in Nat \ {0}
  BY ShimAssumption DEF NsPerSec
<1>1. ShimInit => DeadlineIsLater
  <2> SUFFICES ASSUME ShimInit PROVE DeadlineIsLater
    OBVIOUS
  <2>1. now.sec = 0 /\ now.nsec = 0 /\ deadline.sec = 0 /\ deadline.nsec = 0 /\ ms = 0
    BY DEF ShimInit
  <2> QED
    BY <1>0, <2>1 DEF DeadlineIsLater
<1>2. ASSUME NEW clock \in Clocks, NEW wait \in Waits, CondWaitMs(clock, wait)
      PROVE  DeadlineIsLater'
  <2>1. clock.sec \in Nat /\ clock.nsec \in Nat /\ wait \in Nat
    <3>1. clock.sec \in Seconds /\ clock.nsec \in 0..NsPerSec - 1
      BY DEF Clocks
    <3>2. clock.sec \in Nat /\ wait \in Nat
      BY <3>1, ShimAssumption
    <3> QED
      BY <1>0, <3>1, <3>2
  <2>2. PICK q, r, s, n :
          /\ q = wait \div MsPerSec /\ r = wait % MsPerSec /\ s = NsPerSec
          /\ n = clock.nsec + r * NsPerMs
    OBVIOUS
  <2>3. q \in Nat /\ r \in Nat /\ wait = q * MsPerSec + r
    BY <1>0, <2>1, <2>2, DivMod
  <2>4. n \in Nat /\ s \in Nat \ {0}
    BY <1>0, <2>1, <2>2, <2>3
  <2>5. PICK c, x : c = n \div s /\ x = n % s
    OBVIOUS
  <2>6. c \in Nat /\ x \in Nat /\ x < s /\ n = c * s + x
    BY <2>4, <2>5, DivMod
  <2>7. /\ deadline'.sec = clock.sec + q + c /\ deadline'.nsec = x
        /\ now' = clock /\ ms' = wait
    BY <1>2, <2>2, <2>5 DEF CondWaitMs, DeadlineOf
  <2>8. (clock.sec + q + c) * s + x = clock.sec * s + clock.nsec + wait * NsPerMs
    <3>1. s = MsPerSec * NsPerMs /\ s \in Nat /\ clock.nsec + r * NsPerMs = c * s + x
      BY <2>2, <2>4, <2>6 DEF NsPerSec
    <3> QED
      BY <1>0, <2>1, <2>3, <2>6, <3>1, CarriesAddUp
  <2>9. s = NsPerSec
    BY <2>2
  <2> QED
    BY <2>6, <2>7, <2>8, <2>9, Zenon DEF DeadlineIsLater
<1>3. DeadlineIsLater /\ UNCHANGED shimVars => DeadlineIsLater'
  BY DEF shimVars, DeadlineIsLater
<1>4. DeadlineIsLater /\ [ShimNext]_shimVars => DeadlineIsLater'
  BY <1>2, <1>3 DEF ShimNext
<1> QED
  BY <1>1, <1>4, PTL DEF ShimSpec
=============================================================================
