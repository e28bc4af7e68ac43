----------------------------- MODULE TraceTree ------------------------------
(***************************************************************************)
(* otel-trace show: cmd_show loads the spans of a trace in the order they  *)
(* started and print_subtree prints them as an indented tree.  The         *)
(* recursion is a stack of frames, one loop iteration per step.            *)
(*                                                                         *)
(* A trace may be incomplete (retention, drops, another service's spans)   *)
(* and may hold a span twice (one that was ended twice), so a parent can   *)
(* be missing and a span id can occur more than once.                      *)
(***************************************************************************)
EXTENDS Naturals, Sequences, SequencesExt

CONSTANTS
    N,      \* number of rows of the trace
    MaxId   \* span ids are 1..MaxId

ASSUME TreeAssumption == N \in Nat \ {0} /\ MaxId \in Nat \ {0}

TreeRows == 1..N
Ids == 1..MaxId
NoParent == 0   \* an empty parent_id

VARIABLES
    spanId, parentId,  \* nodes[], in the order of start_unix_ns
    printed,           \* the rows marked as printed
    stack,             \* frames of print_subtree, innermost last
    lines              \* output: row and depth of each line
treeVars == <<spanId, parentId, printed, stack, lines>>

\* What threads can produce: a child starts after its parent, so no set of
\* spans is closed under having a parent in it.
Descends(ids, parents) ==
    ~ \E S \in SUBSET Ids \ {{}} :
        \A id \in S : \E k \in TreeRows : ids[k] = id /\ parents[k] \in S

Frame(parent, depth) == [parent |-> parent, depth |-> depth, i |-> 1]

TreeInit ==
    /\ spanId = <<>> /\ parentId = <<>>
    /\ printed = {} /\ lines = <<>> /\ stack = <<>>

\* cmd_show up to its call of print_subtree.  Which ids the rows have does not
\* matter, so ids are numbered in the order in which rows first use them.
LoadTrace ==
    /\ spanId = <<>>
    /\ spanId' \in {ids \in [TreeRows -> Ids] :
           \A k \in TreeRows : 1..ids[k] - 1 \subseteq {ids[j] : j \in 1..k - 1}}
    /\ parentId' \in [TreeRows -> Ids \cup {NoParent}]
    /\ Descends(spanId', parentId')
    /\ stack' = <<Frame(NoParent, 0)>>
    /\ UNCHANGED <<printed, lines>>

Top == Last(stack)

\* A parent that no row has makes a root.
RootsOnly(i) == parentId[i] = NoParent   \* Mutant: it makes an invisible span.
IsRoot(i) == parentId[i] \notin {spanId[j] : j \in TreeRows}

Done(i) == i \in printed

\* Whether a frame prints row i.
Takes(f, i) ==
    /\ ~Done(i)
    /\ IF f.parent = NoParent THEN IsRoot(i) ELSE parentId[i] = f.parent

FlatDepth(f) == f.depth   \* Mutant: children are not indented.
ChildDepth(f) == f.depth + 1

StaysAtRow == stack   \* Mutant: the loop does not advance.
Advanced == [stack EXCEPT ![Len(stack)].i = @ + 1]

\* One iteration that prints its row and then its subtree.
PrintRow ==
    /\ stack # <<>> /\ Top.i <= N /\ Takes(Top, Top.i)
    /\ printed' = printed \cup {Top.i}
    /\ lines' = Append(lines, [row |-> Top.i, depth |-> Top.depth])
    /\ stack' = Append(Advanced, Frame(spanId[Top.i], ChildDepth(Top)))
    /\ UNCHANGED <<spanId, parentId>>

Skip ==
    /\ stack # <<>> /\ Top.i <= N /\ ~Takes(Top, Top.i)
    /\ stack' = Advanced
    /\ UNCHANGED <<spanId, parentId, printed, lines>>

Return ==
    /\ stack # <<>> /\ Top.i > N
    /\ stack' = Front(stack)
    /\ UNCHANGED <<spanId, parentId, printed, lines>>

PrintSubtree == PrintRow \/ Skip \/ Return

TreeNext == LoadTrace \/ PrintSubtree

TreeSpec == TreeInit /\ [][TreeNext]_treeVars

Printed == spanId # <<>> /\ stack = <<>>

-----------------------------------------------------------------------------
(* Properties.                                                             *)

\* When show is done every row has been printed exactly once, also rows whose
\* parent is missing and rows under an id that occurs twice.
EveryRowOnce ==
    Printed => Len(lines) = N /\ {lines[k].row : k \in 1..Len(lines)} = TreeRows

\* The lines can be read as the tree: the nearest line above with less
\* indentation is one level up and is the row's parent, roots are not indented,
\* and children of one parent come in the order they started.
OutlineIsTree ==
    /\ \A k \in 1..Len(lines) :
         LET up == {j \in 1..k - 1 : lines[j].depth < lines[k].depth} IN
         IF IsRoot(lines[k].row) THEN lines[k].depth = 0
         ELSE /\ up # {}
              /\ LET p == lines[Max(up)] IN
                 /\ p.depth = lines[k].depth - 1
                 /\ spanId[p.row] = parentId[lines[k].row]
    /\ \A j, k \in 1..Len(lines) :
         j < k /\ parentId[lines[j].row] = parentId[lines[k].row]
             => lines[j].row < lines[k].row
=============================================================================
