---------------------------- MODULE SpanContext -----------------------------
(***************************************************************************)
(* Head sampling and span context: a thread starts root, child and remote  *)
(* spans while another thread changes the sampling ratio and the runtime   *)
(* switch.  A ratio r stands for r / Draws.  otel_set_sampler stores two   *)
(* words without a lock and a root start reads them one by one, so both    *)
(* take two steps.                                                         *)
(*                                                                         *)
(* Span ids and trace ids are fresh numbers (IdGenerator is the generator).*)
(* A span is kept in "seen" as it was started; its place there is what the *)
(* application holds, whether or not it records.                           *)
(***************************************************************************)
EXTENDS Naturals, Sequences

CONSTANTS
    Draws,     \* number of values otel_rand can return, 2^64 in the code
    Ratios,    \* ratios passed to otel_set_sampler
    MaxSeen    \* bound: spans started

ASSUME ContextAssumption ==
    Draws \in Nat \ {0} /\ Ratios \subseteq 0..Draws /\ MaxSeen \in Nat

VARIABLES
    always,      \* OT.sample_always
    threshold,   \* OT.sample_threshold
    enabled,     \* otel_enabled_
    registered,  \* otel_tls is not null
    setting,     \* ratio that otel_set_sampler is half-way through storing
    ratio,       \* history: ratio of the last completed call
    drawing,     \* a root start has seen sample_always unset
    window,      \* history: ratios in force since that root start began
    seen,        \* spans started, in order
    nextId
sampler == <<always, threshold, setting, ratio>>
contextVars == <<sampler, enabled, registered, drawing, window, seen, nextId>>

Idle == Draws + 1   \* no call of otel_set_sampler is under way

\* otel_init samples everything.
ContextInit ==
    /\ always = TRUE /\ threshold = Draws - 1
    /\ setting = Idle /\ ratio = Draws
    /\ enabled = TRUE /\ registered = TRUE
    /\ drawing = FALSE /\ window = {}
    /\ seen = <<>> /\ nextId = 1

-----------------------------------------------------------------------------
(* Configuration.                                                          *)

StoresAlwaysOnly(r) == IF r >= Draws THEN threshold ELSE r   \* Mutant.

\* The threshold that goes with a ratio.
ThresholdOf(r) == IF r >= Draws THEN Draws - 1 ELSE r

\* otel_set_sampler's first store.
SetAlways(r) ==
    /\ setting = Idle
    /\ setting' = r
    /\ always' = (r >= Draws)
    /\ window' = IF drawing THEN window \cup {r} ELSE window
    /\ UNCHANGED <<threshold, ratio, enabled, registered, drawing, seen, nextId>>

\* Its second store.
SetThreshold ==
    /\ setting # Idle
    /\ threshold' = ThresholdOf(setting)
    /\ ratio' = setting
    /\ setting' = Idle
    /\ UNCHANGED <<always, enabled, registered, drawing, window, seen, nextId>>

\* otel_set_enabled, with a destination attached.
SetEnabled ==
    /\ enabled' = ~enabled
    /\ UNCHANGED <<sampler, registered, drawing, window, seen, nextId>>

\* otel_thread_register and otel_thread_unregister.
SetRegistered ==
    /\ ~drawing
    /\ registered' = ~registered
    /\ UNCHANGED <<sampler, enabled, drawing, window, seen, nextId>>

-----------------------------------------------------------------------------
(* Starting spans.                                                         *)

\* The ratios in force now: the last one, and one that is being stored.
InForce == {ratio} \cup ({setting} \ {Idle})

MayStart == ~drawing /\ Len(seen) < MaxSeen

\* The context that otel_span_init's callers give a span.
Recorded(trace, parent, from, left) ==
    [flag |-> TRUE, id |-> nextId, trace |-> trace, parent |-> parent,
     from |-> from, left |-> left]

\* flags = 0: nothing else is stored.
Unrecorded(from, left) ==
    [flag |-> FALSE, id |-> 0, trace |-> 0, parent |-> 0, from |-> from, left |-> left]

NewRoot == Recorded(nextId, 0, 0, FALSE)

\* otel_span_start up to the sampling decision.
StartRoot ==
    /\ MayStart
    /\ \/ /\ ~enabled \/ ~registered
          /\ seen' = Append(seen, Unrecorded(0, TRUE))
          /\ UNCHANGED <<drawing, window, nextId>>
       \/ /\ enabled /\ registered /\ always
          /\ seen' = Append(seen, NewRoot)
          /\ nextId' = nextId + 1
          /\ UNCHANGED <<drawing, window>>
       \/ /\ enabled /\ registered /\ ~always
          /\ drawing' = TRUE /\ window' = InForce
          /\ UNCHANGED <<seen, nextId>>
    /\ UNCHANGED <<sampler, enabled, registered>>

\* Whether a draw is recorded.
Sampled(d) == d < threshold

\* otel_span_start_root_'s draw and comparison with the threshold.
DrawRoot(d) ==
    /\ drawing
    /\ seen' = Append(seen, IF Sampled(d) THEN NewRoot ELSE Unrecorded(0, FALSE))
    /\ nextId' = IF Sampled(d) THEN nextId + 1 ELSE nextId
    /\ drawing' = FALSE
    /\ window' = {}
    /\ UNCHANGED <<sampler, enabled, registered>>

\* Mutant: children ask the live flag instead of their parent.
ChildIfEnabled(p) == enabled

\* Whether the parent has otel_span_start_child go on.
ChildOf(p) == p.flag

\* otel_span_start_child, of any span the application still holds.
StartChild(i) ==
    /\ MayStart
    /\ LET p == seen[i] IN
       IF ChildOf(p) /\ registered
       THEN /\ seen' = Append(seen, Recorded(p.trace, p.id, i, FALSE))
            /\ nextId' = nextId + 1
       ELSE /\ seen' = Append(seen, Unrecorded(i, ~registered))
            /\ UNCHANGED nextId
    /\ UNCHANGED <<sampler, enabled, registered, drawing, window>>

\* otel_span_start_remote with the context of a span of another service, which
\* sends its flag as "sampled"; the other service is played by seen[i].
StartRemote(i) ==
    /\ MayStart
    /\ LET p == seen[i] IN
       IF enabled /\ p.flag /\ registered
       THEN /\ seen' = Append(seen, Recorded(p.trace, p.id, i, FALSE))
            /\ nextId' = nextId + 1
       ELSE /\ seen' = Append(seen, Unrecorded(i, ~enabled \/ ~registered))
            /\ UNCHANGED nextId
    /\ UNCHANGED <<sampler, enabled, registered, drawing, window>>

-----------------------------------------------------------------------------

ContextNext ==
    \/ \E r \in Ratios : SetAlways(r)
    \/ SetThreshold \/ SetEnabled \/ SetRegistered \/ StartRoot
    \/ \E d \in 0..Draws - 1 : DrawRoot(d)
    \/ \E i \in 1..Len(seen) : StartChild(i) \/ StartRemote(i)

ContextSpec == ContextInit /\ [][ContextNext]_contextVars

-----------------------------------------------------------------------------
(* Properties.                                                             *)

\* However a change of ratio falls between the loads of a root start, the root
\* is recorded or not as one of the ratios in force meanwhile would have it for
\* this very draw; no mixture of two settings samples more or less than both.
DecisionFromOneRatio ==
    drawing => \A d \in 0..Draws - 1 : \E r \in window : Sampled(d) = (d < r)

\* The decision made at the root reaches the entire trace (oteltracing.h:262):
\* whatever is switched while the trace is open, a span with a parent records
\* if and only if its parent does, unless this thread or process had left
\* tracing when it started.
DecisionInherited ==
    \A i \in 1..Len(seen) :
        seen[i].from # 0 /\ ~seen[i].left => (seen[i].flag = seen[seen[i].from].flag)

\* Recorded spans form one tree per trace: ids are never shared, and following
\* parents from any span of a trace stays inside the trace and ends at its root.
TracesAreTrees ==
    /\ \A i, j \in 1..Len(seen) :
         seen[i].flag /\ seen[j].flag /\ seen[i].id = seen[j].id => i = j
    /\ \A i \in 1..Len(seen) :
         seen[i].flag =>
             \/ seen[i].parent = 0 /\ seen[i].trace = seen[i].id
             \/ \E j \in 1..i - 1 :
                    /\ seen[j].flag /\ seen[j].id = seen[i].parent
                    /\ seen[j].trace = seen[i].trace
=============================================================================
