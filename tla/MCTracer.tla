------------------------------ MODULE MCTracer ------------------------------
(***************************************************************************)
(* Small instances of Tracer.  Workers are interchangeable: nothing in the *)
(* specification or in the invariants singles one out.                     *)
(***************************************************************************)
EXTENDS Tracer, TLC

WorkerSymmetry == Permutations(Workers)
=============================================================================
