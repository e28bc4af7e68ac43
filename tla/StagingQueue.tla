---------------------------- MODULE StagingQueue ----------------------------
(***************************************************************************)
(* What the per-thread staging area promises, said without slots, cursors  *)
(* or memory ordering.  Finished spans are either accepted into a bounded  *)
(* backlog or refused and counted; accepted spans are delivered to the     *)
(* consumer once each, in acceptance order; the space of delivered spans   *)
(* is given back in one step at the end of a drain pass.                   *)
(*                                                                         *)
(* SpanRing, the lock-free ring of oteltracing.c, implements this.         *)
(***************************************************************************)
EXTENDS Naturals, Sequences

CONSTANTS Span,      \* identities of the spans that may be ended
          Capacity   \* backlog limit, in spans

VARIABLES accepted,  \* every span accepted so far, in order
          delivered, \* every span handed to the consumer so far, in order
          released,  \* how many delivered spans have had their space freed
          refused    \* how many spans were dropped because of a full backlog

queueVars == <<accepted, delivered, released, refused>>

Init ==
    /\ accepted = <<>>
    /\ delivered = <<>>
    /\ released = 0
    /\ refused = 0

Backlog == Len(accepted) - released

\* A finished span that fits is staged; no span is ever staged twice.
Accept(s) ==
    /\ Backlog < Capacity
    /\ \A i \in 1..Len(accepted) : accepted[i] # s
    /\ accepted' = Append(accepted, s)
    /\ UNCHANGED <<delivered, released, refused>>

\* A span is refused only when the backlog really is at its limit.
Refuse ==
    /\ Backlog >= Capacity
    /\ refused' = refused + 1
    /\ UNCHANGED <<accepted, delivered, released>>

Deliver ==
    /\ Len(delivered) < Len(accepted)
    /\ delivered' = Append(delivered, accepted[Len(delivered) + 1])
    /\ UNCHANGED <<accepted, released, refused>>

Release ==
    /\ released' = Len(delivered)
    /\ UNCHANGED <<accepted, delivered, refused>>

Next ==
    \/ \E s \in Span : Accept(s)
    \/ Refuse
    \/ Deliver
    \/ Release

Spec == Init /\ [][Next]_queueVars
=============================================================================
