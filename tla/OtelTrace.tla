----------------------------- MODULE OtelTrace ------------------------------
(***************************************************************************)
(* The otel-trace command as a whole: TraceQuery's main and queries        *)
(* composed with TraceTree, which cmd_show runs.  stats and sql print one  *)
(* query each and are left out.                                            *)
(***************************************************************************)
EXTENDS TraceQuery, TraceTree

VARIABLE show   \* where cmd_show is: "no", "load" or "print"

vars == <<show, queryVars, treeVars>>

Init == show = "no" /\ QueryInit /\ TreeInit

Query == show = "no" /\ QueryNext /\ UNCHANGED <<show, treeVars>>

\* main calls cmd_show.  Nothing of main's state is needed from here on but rc;
\* the rest is forgotten.
Show ==
    /\ show = "no" /\ Ready("show") /\ arg # Null
    /\ show' = "load"
    /\ typed' = <<>> /\ argv' = <<>> /\ i' = 1 /\ f' = NoFilters
    /\ cmd' = Null /\ arg' = Null
    /\ UNCHANGED <<rc, out, treeVars>>

\* No spans for the trace, or a query that SQLite refuses.
ShowFails ==
    /\ show = "load" /\ rc = Running
    /\ rc' = 1
    /\ UNCHANGED <<show, typed, argv, i, f, cmd, arg, out, treeVars>>

Load ==
    /\ show = "load" /\ rc = Running
    /\ LoadTrace
    /\ show' = "print"
    /\ UNCHANGED queryVars

ShowPrints == show = "print" /\ PrintSubtree /\ UNCHANGED <<show, queryVars>>

ShowReturns ==
    /\ show = "print" /\ Printed /\ rc = Running
    /\ rc' = 0
    /\ UNCHANGED <<show, typed, argv, i, f, cmd, arg, out, treeVars>>

Next == Query \/ Show \/ ShowFails \/ Load \/ ShowPrints \/ ShowReturns

\* A command runs on until it ends.
Spec == Init /\ [][Next]_vars /\ WF_vars(Next)

\* Every command line and every trace brings main to its return: the argument
\* loop ends and so does print_subtree, though ids repeat and parents are missing.
CommandEnds == <>(rc # Running)
=============================================================================
