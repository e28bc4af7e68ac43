------------------------------ MODULE SpanLog -------------------------------
(***************************************************************************)
(* What the local span store promises a reader, said without tables,       *)
(* statements or transactions: a log of spans that grows at the new end by *)
(* whole commits and shrinks at the old end by retention, which always     *)
(* leaves the newest span.  A crash is not an action: it changes nothing.  *)
(*                                                                         *)
(* SqliteStore, the sink of otel_sqlite.c, implements this.                *)
(***************************************************************************)
EXTENDS Naturals, Sequences

CONSTANT Span    \* numbers of the spans, in the order the sink is shown them

VARIABLE stored  \* the spans a reader finds, oldest first

Init == stored = <<>>

\* New spans go behind the old ones, in the order they were shown.
Commit ==
    /\ Len(stored) < Len(stored')
    /\ SubSeq(stored', 1, Len(stored)) = stored
    /\ \A i \in 1..Len(stored') : stored'[i] \in Span
    /\ \A i \in 2..Len(stored') : stored'[i - 1] < stored'[i]

Forget ==
    \E k \in 1..Len(stored) - 1 : stored' = SubSeq(stored, k + 1, Len(stored))

Next == Commit \/ Forget

Spec == Init /\ [][Next]_stored
=============================================================================
