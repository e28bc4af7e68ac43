---------------------------- MODULE RingCapacity ----------------------------
(***************************************************************************)
(* otel_set_ring_capacity: the loop that rounds the requested number of    *)
(* spans up to a power of two, on an unsigned int of Bits bits.  SpanRing  *)
(* takes the result (RingAssumption) as the ring's capacity.               *)
(***************************************************************************)
EXTENDS Naturals

CONSTANTS
    Bits,      \* width of unsigned int
    Default,   \* OTEL_RING_SIZE
    Requests   \* arguments

ASSUME CapacityAssumption ==
    Bits \in Nat \ {0} /\ Default \in Nat /\ Requests \subseteq 0..2^Bits - 1

VARIABLES
    request,   \* the argument as passed
    spans,     \* the parameter
    cap,
    capacity,  \* otel_ring_capacity
    pc
capacityVars == <<request, spans, cap, capacity, pc>>

CapacityInit ==
    /\ request = 0 /\ spans = 0 /\ cap = 1
    /\ capacity = Default /\ pc = "idle"

Call ==
    /\ pc \in {"idle", "done"}
    /\ request' \in Requests /\ spans' = request'
    /\ cap' = 1 /\ pc' = "clamp"
    /\ UNCHANGED capacity

\* A ring of one slot is not worth having.
Clamp ==
    /\ pc = "clamp"
    /\ spans' = IF spans < 2 THEN 2 ELSE spans
    /\ pc' = "loop"
    /\ UNCHANGED <<request, cap, capacity>>

StopsLate == cap <= spans   \* Mutant.
GoesOn == cap < spans

Shifted(c) == (c * 2) % 2^Bits

Double ==
    /\ pc = "loop" /\ GoesOn
    /\ cap' = Shifted(cap)
    /\ UNCHANGED <<request, spans, capacity, pc>>

Assign ==
    /\ pc = "loop" /\ ~GoesOn
    /\ capacity' = cap
    /\ pc' = "done"
    /\ UNCHANGED <<request, spans, cap>>

CapacityNext == Call \/ Clamp \/ Double \/ Assign

CapacitySpec == CapacityInit /\ [][CapacityNext]_capacityVars

\* A call runs on.
CapacityFairSpec == CapacitySpec /\ WF_capacityVars(Clamp \/ Double \/ Assign)

-----------------------------------------------------------------------------

\* The capacity is the least power of two that holds the requested spans and is
\* at least two: mask arithmetic would mix slots up otherwise, and a smaller one
\* would drop spans that the caller made room for.
LeastPowerOfTwo ==
    \E k \in 1..Bits - 1 :
        /\ capacity = 2^k /\ capacity >= request
        /\ \A j \in 1..k - 1 : 2^j < request

\* What oteltracing.c:375 says the function does, "round up to a power of two":
\* a call that returns has done so, and a call returns if there is a power of two
\* to round up to.  No request above 2^(Bits - 1) has one: cap would wrap to
\* zero, and the first part says that no capacity is ever stored for it.
RoundsUp ==
    /\ [](pc = "done" => LeastPowerOfTwo)
    /\ pc = "clamp" /\ request <= 2^(Bits - 1) ~> pc = "done"
=============================================================================
