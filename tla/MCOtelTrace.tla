----------------------------- MODULE MCOtelTrace ----------------------------
(***************************************************************************)
(* A table of five spans in three traces, told apart by every pair of the  *)
(* filters, command lines of up to four groups of arguments, and for show  *)
(* every trace of four rows.                                               *)
(***************************************************************************)
EXTENDS OtelTrace

Row(t, service, name, error, start, dur) ==
    [trace |-> t, service |-> service, name |-> name, error |-> error,
     start |-> start, dur |-> dur]

\* Trace t2 is longer than each of its spans.
Table ==
    {Row("t1", "a", "x", FALSE, 1, 6), Row("t2", "a", "y", TRUE, 3, 2),
     Row("t2", "b", "x", FALSE, 5, 2), Row("t3", "b", "y", TRUE, 6, 5),
     Row("t3", "a", "x", FALSE, 8, 1)}

TypedGroups ==
    {<<"--db", "t1">>, <<"--service", "a">>, <<"--name", "x">>,
     <<"--status", "error">>, <<"--status", "ok">>, <<"--since", "1">>,
     <<"--min-duration-us", "2">>, <<"--limit", "1">>, <<"--limit">>, <<"--help">>,
     <<"--trace">>, <<"spans">>, <<"list">>, <<"show">>, <<"t1">>}

\* main knows no --trace.
DashedWords == Valued \cup Help \cup {"--trace"}

WordNumbers == [w \in {"1", "2"} |-> IF w = "1" THEN 1 ELSE 2]
=============================================================================
