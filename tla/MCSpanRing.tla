----------------------------- MODULE MCSpanRing -----------------------------
(* SpanRing on small instances: the ring wraps several times. *)
EXTENDS SpanRing
=============================================================================
