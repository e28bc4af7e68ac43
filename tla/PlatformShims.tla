--------------------------- MODULE PlatformShims ----------------------------
(***************************************************************************)
(* The arithmetic of otel_platform.h: the absolute deadline that           *)
(* otel_cond_wait_ms computes for the flusher's wait.  Units are scaled    *)
(* down: MsPerSec for 1000, NsPerMs for 10^6.                              *)
(***************************************************************************)
EXTENDS Naturals

CONSTANTS
    MsPerSec, NsPerMs,
    Seconds, Waits   \* values of tv_sec and of ms

ASSUME ShimAssumption ==
    /\ MsPerSec \in Nat \ {0} /\ NsPerMs \in Nat \ {0}
    /\ Seconds \subseteq Nat /\ Waits \subseteq Nat

NsPerSec == MsPerSec * NsPerMs
Clocks == [sec : Seconds, nsec : 0..NsPerSec - 1]

VARIABLES
    now,       \* what otel_realtime returned
    ms,        \* the interval
    deadline   \* ts as passed to pthread_cond_timedwait
shimVars == <<now, ms, deadline>>

ShimInit ==
    /\ now = [sec |-> 0, nsec |-> 0] /\ deadline = now /\ ms = 0

\* Mutant: the carry into seconds is forgotten.
DeadlineUncarried(clock, wait) ==
    [sec  |-> clock.sec + (wait \div MsPerSec),
     nsec |-> (clock.nsec + (wait % MsPerSec) * NsPerMs) % NsPerSec]

DeadlineOf(clock, wait) ==
    LET nsec == clock.nsec + (wait % MsPerSec) * NsPerMs
    IN [sec  |-> clock.sec + (wait \div MsPerSec) + (nsec \div NsPerSec),
        nsec |-> nsec % NsPerSec]

\* otel_cond_wait_ms before it sleeps.
CondWaitMs(clock, wait) ==
    /\ now' = clock /\ ms' = wait
    /\ deadline' = DeadlineOf(clock, wait)

ShimNext == \E clock \in Clocks, wait \in Waits : CondWaitMs(clock, wait)

ShimSpec == ShimInit /\ [][ShimNext]_shimVars

-----------------------------------------------------------------------------

\* The deadline is the interval after now, in the normal form that
\* pthread_cond_timedwait insists on: otherwise it returns at once and the
\* flusher spins.
DeadlineIsLater ==
    /\ deadline.nsec < NsPerSec
    /\ deadline.sec * NsPerSec + deadline.nsec
         = now.sec * NsPerSec + now.nsec + ms * NsPerMs
=============================================================================
