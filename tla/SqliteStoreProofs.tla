------------------------- MODULE SqliteStoreProofs --------------------------
(***************************************************************************)
(* Proofs about SqliteStore: no row without its owner, a drain pass is all *)
(* or nothing, a late reader reads the rows of the span it listed, and     *)
(* retention leaves the newest spans, for every shape of span, any number  *)
(* of spans, and whatever statements fail and whenever the process dies.   *)
(***************************************************************************)
EXTENDS SqliteStore, TLAPS, WellFoundedInduction, FiniteSetTheorems

-----------------------------------------------------------------------------
(* The inductive invariant.                                                *)

SpanRows      == [id : Nat \ {0}, of : Nat \ {0}]
AttrRows      == [span : Nat, of : Nat, k : Nat]
EventRows     == [id : Nat \ {0}, span : Nat, of : Nat \X Nat]
EventAttrRows == [event : Nat, of : Nat \X Nat, k : Nat]
Databases     == [spans : SUBSET SpanRows, attrs : SUBSET AttrRows,
                  events : SUBSET EventRows, eventAttrs : SUBSET EventAttrRows]

PruneLabels == {"event_attrs", "attrs", "events", "spans"}
Todos       == [attrs : Nat, eventAttrs : Nat, j : Nat, events : Seq(Nat)]

\* Some number bounds the rowids of a table.
Bounded(rows) == \E b \in Nat : \A r \in rows : r.id <= b

Unique(rows) == \A r, s \in rows : r.id = s.id => r = s

\* The rows of spans carry consecutive ids, and were written in id order.
Consecutive(rows) ==
    /\ IsFiniteSet(rows) /\ Bounded(rows) /\ Unique(rows)
    /\ \A r, s \in rows : \A i \in r.id..s.id : \E t \in rows : t.id = i
    /\ \A r, s \in rows : r.id < s.id => r.of < s.of

\* No row is for a span that has not been shown yet.
Past(d, n) ==
    /\ \A r \in d.spans : r.of <= n
    /\ \A r \in d.attrs : r.of <= n
    /\ \A r \in d.events : r.of[1] <= n
    /\ \A r \in d.eventAttrs : r.of[1] <= n

WellFormed(d, n) ==
    /\ d \in Databases
    /\ Consecutive(d.spans)
    /\ Bounded(d.events) /\ Unique(d.events)
    /\ Past(d, n)

TypeInv ==
    /\ {txn, open, inTxn} \subseteq BOOLEAN /\ torn \subseteq Nat
    /\ commits \in Nat /\ maxSpans \in {0, Cap}
    /\ pc \in {"idle", "pass", "rows"} \cup PruneLabels
    /\ curSpan \in Nat /\ curEvent \in Nat /\ todo \in Todos
    /\ cutoff \in Nat /\ shown \in 0..MaxShown /\ fresh \in Nat
    /\ listed \subseteq SpanRows

StoreInv == WellFormed(disk, shown) /\ WellFormed(db, shown)

\* Where the flag and SQLite's transaction can stand at each point of a pass.
TxnInv ==
    /\ ~txn => db = disk
    /\ pc \in {"idle"} \cup PruneLabels => ~inTxn
    /\ pc = "rows" =>
          inTxn /\ (todo.attrs = 0 /\ todo.eventAttrs = 0 => todo.events # <<>>)
    /\ pc \in PruneLabels => maxSpans = Cap /\ cutoff = Cutoff(MaxId(db.spans))
    /\ inTxn => disk.spans \subseteq db.spans

\* lost: the spans between whose rows SQLite rolled back.
Owned(d, lost) ==
    /\ \A a \in d.attrs : a.of \in lost \/ \E s \in d.spans : s.id = a.span /\ s.of = a.of
    /\ \A e \in d.events : e.of[1] \in lost \/
           \E s \in d.spans : s.id = e.span /\ s.of = e.of[1]
    /\ \A a \in d.eventAttrs : a.of[1] \in lost \/
           \E e \in d.events : e.id = a.event /\ e.of = a.of

\* The rows the next insert refers to exist, and what retention has deleted so
\* far is all that refers to what it deletes next.
StageInv ==
    /\ pc = "rows" /\ shown \notin torn => [id |-> curSpan, of |-> shown] \in db.spans
    /\ pc = "rows" /\ shown \notin torn /\ todo.eventAttrs > 0 =>
          \E e \in db.events : e.id = curEvent /\ e.of = <<shown, todo.j>>
    /\ pc \in {"attrs", "events", "spans"} =>
          \A a \in db.eventAttrs : \A e \in db.events :
              e.id = a.event => e.span > cutoff
    /\ pc \in {"events", "spans"} => \A a \in db.attrs : a.span > cutoff
    /\ pc = "spans" => \A e \in db.events : e.span > cutoff

OwnInv == Owned(disk, torn) /\ Owned(db, torn) /\ StageInv

\* Of a pass whose transaction is still open, or that has none and writes
\* nothing, the file holds no row.
FreshInv ==
    (inTxn => txn) /\ pc \in {"pass", "rows"} =>
        fresh <= shown + 1 /\ Past(disk, fresh - 1)

\* A table of spans that holds Cap rows or more.
Full(rows) == \E r, s \in rows : s.id - r.id >= Cap - 1

\* old is what new was at an earlier time: what is gone was the oldest, with
\* Cap rows left, and what has come is the newest.
Newer(old, new) ==
    /\ \A r \in old : r \in new \/ (Full(new) /\ \A s \in new : r.id < s.id)
    /\ \A s \in new : s \in old \/ \A r \in old : r.id < s.id

LogInv == Newer(listed, disk.spans) /\ Newer(disk.spans, db.spans)

-----------------------------------------------------------------------------
(* Tables.                                                                 *)

\* Every nonempty set of naturals has a least element.
LEMMA LeastNatural ==
  ASSUME NEW T, T \subseteq Nat, T # {}
  PROVE  \E x \in T : \A y \in T : x <= y
<1> DEFINE R == OpToRel(<, Nat)
<1>1. IsWellFoundedOn(R, Nat)
  BY NatLessThanWellFounded
<1>2. \A x, y \in Nat : x < y => <<x, y>> \in R
  BY DEF OpToRel
<1> HIDE DEF R
<1>3. PICK x \in T : \A y \in T : ~ (<<y, x>> \in R)
  BY <1>1, WFMin
<1>4. \A y \in T : ~ (y < x)
  <2> TAKE y \in T
  <2>1. y \in Nat /\ x \in Nat
    OBVIOUS
  <2> QED
    BY <1>2, <1>3, <2>1, Zenon
<1> QED
  BY <1>4

\* SELECT MAX(id) finds the newest row, if there is one.
LEMMA MaxIdFacts ==
  ASSUME NEW rows, \A r \in rows : r.id \in Nat \ {0}, Bounded(rows)
  PROVE  /\ MaxId(rows) \in Nat
         /\ \A r \in rows : r.id <= MaxId(rows)
         /\ rows # {} => MaxId(rows) > 0 /\ \E r \in rows : r.id = MaxId(rows)
<1>1. CASE rows = {}
  BY <1>1 DEF MaxId
<1>2. CASE rows # {}
  <2> DEFINE ids == {r.id : r \in rows}
             bounds == {b \in Nat : \A i \in ids : i <= b}
  <2>1. ids # {} /\ ids \subseteq Nat \ {0}
    BY <1>2
  <2>2. bounds \subseteq Nat /\ bounds # {}
    BY DEF Bounded
  <2>3. PICK m \in bounds : \A b \in bounds : m <= b
    BY <2>2, LeastNatural
  <2>4. m \in ids
    <3> SUFFICES ASSUME m \notin ids PROVE FALSE
      OBVIOUS
    <3>1. m \in Nat /\ \A i \in ids : i <= m /\ i \in Nat \ {0} /\ i # m
      BY <2>1, <2>3
    <3>2. PICK i \in ids : TRUE
      BY <2>1
    <3>3. m - 1 \in Nat /\ \A k \in ids : k <= m - 1
      BY <3>1, <3>2
    <3>4. m - 1 \in bounds
      BY <3>3
    <3> QED
      BY <2>3, <3>4, <3>1
  <2>5. \A i \in ids : m >= i
    BY <2>1, <2>3
  <2>6. MaxId(rows) = Max(ids)
    BY <1>2 DEF MaxId
  <2> HIDE DEF ids
  <2>7. Max(ids) \in ids /\ \A i \in ids : Max(ids) >= i
    BY <2>4, <2>5 DEF Max
  <2>8. \A r \in rows : r.id \in ids
    BY DEF ids
  <2>9. \A i \in ids : \E r \in rows : r.id = i
    BY DEF ids
  <2>10. PICK x : x = MaxId(rows)
    OBVIOUS
  <2>11. x \in ids /\ \A i \in ids : x >= i
    BY <2>6, <2>7, <2>10
  <2>12. x \in Nat /\ x > 0 /\ \A r \in rows : r.id <= x
    BY <2>1, <2>8, <2>11
  <2> QED
    BY <2>9, <2>10, <2>11, <2>12
<1> QED
  BY <1>1, <1>2

\* An insert adds the next id at the new end.
LEMMA AddedRow ==
  ASSUME NEW rows \in SUBSET SpanRows, Consecutive(rows),
         NEW n \in Nat, \A r \in rows : r.of <= n,
         NEW row, row = [id |-> NextId(rows), of |-> n + 1]
  PROVE  /\ row \in SpanRows
         /\ Consecutive(rows \cup {row})
         /\ Newer(rows, rows \cup {row})
<1>1. \A r \in rows : r.id \in Nat \ {0} /\ r.of \in Nat \ {0}
  BY DEF SpanRows
<1>2. Bounded(rows)
  BY DEF Consecutive
<1> PICK m : m = MaxId(rows)
  OBVIOUS
<1>3. /\ m \in Nat /\ \A r \in rows : r.id <= m
      /\ rows # {} => \E r \in rows : r.id = m
  BY <1>1, <1>2, MaxIdFacts
<1>4. row.id = m + 1 /\ row.of = n + 1 /\ row \in SpanRows
  BY <1>3 DEF SpanRows, NextId
<1> DEFINE all == rows \cup {row}
<1>5. \A r \in all : r \in rows \/ r = row
  OBVIOUS
<1>6. \A r \in rows : r.id < row.id /\ r.of < row.of
  BY <1>1, <1>3, <1>4
<1>7. IsFiniteSet(all)
  BY FS_AddElement DEF Consecutive
<1>8. Bounded(all)
  <2>1. \A r \in all : r.id <= m + 1
    BY <1>1, <1>3, <1>4, <1>5
  <2> QED
    BY <2>1, <1>3 DEF Bounded
<1>9. Unique(all)
  BY <1>1, <1>4, <1>5, <1>6 DEF Unique, Consecutive
<1>10. \A r, s \in all : r.id < s.id => r.of < s.of
  BY <1>1, <1>4, <1>5, <1>6, <1>3 DEF Consecutive
<1>11. ASSUME NEW r \in all, NEW s \in all, NEW i \in r.id..s.id
       PROVE  \E t \in all : t.id = i
  <2>1. CASE i = m + 1
    BY <2>1, <1>4
  <2>2. CASE i # m + 1
    <3>1. r.id \in Int /\ s.id \in Int /\ s.id <= m + 1
      BY <1>1, <1>3, <1>4, <1>5
    <3>2. i \in Int /\ r.id <= i /\ i <= m
      BY <2>2, <3>1, <1>3
    <3>3. r \in rows
      BY <3>2, <1>4, <1>5, <1>3
    <3>4. PICK t \in rows : t.id = m
      BY <1>3, <3>3
    <3>5. i \in r.id..t.id
      BY <3>2, <3>4
    <3> QED
      BY <3>3, <3>4, <3>5 DEF Consecutive
  <2> QED
    BY <2>1, <2>2
<1>12. Consecutive(all)
  BY <1>7, <1>8, <1>9, <1>10, <1>11 DEF Consecutive
<1>13. Newer(rows, all)
  BY <1>5, <1>6 DEF Newer
<1> QED
  BY <1>4, <1>12, <1>13

\* Deleting up to an id leaves the newer rows.
LEMMA KeptRows ==
  ASSUME NEW rows \in SUBSET SpanRows, Consecutive(rows), NEW c \in Nat
  PROVE  Consecutive({s \in rows : s.id > c})
<1> DEFINE new == {s \in rows : s.id > c}
<1>1. \A r \in rows : r.id \in Nat \ {0} /\ r.of \in Nat \ {0}
  BY DEF SpanRows
<1>2. new \subseteq rows /\ \A r \in new : r.id > c
  OBVIOUS
<1>3. IsFiniteSet(new)
  BY <1>2, FS_Subset DEF Consecutive
<1>4. Bounded(new) /\ Unique(new)
  BY <1>2 DEF Consecutive, Bounded, Unique
<1>5. \A r, s \in new : r.id < s.id => r.of < s.of
  BY <1>2 DEF Consecutive
<1>6. ASSUME NEW r \in new, NEW s \in new, NEW i \in r.id..s.id
      PROVE  \E t \in new : t.id = i
  <2>1. PICK t \in rows : t.id = i
    BY <1>2 DEF Consecutive
  <2>2. t.id > c
    BY <2>1, <1>1, <1>2
  <2> QED
    BY <2>1, <2>2
<1> QED
  BY <1>3, <1>4, <1>5, <1>6 DEF Consecutive

\* Retention leaves Cap rows, the newest.
LEMMA RetainedRows ==
  ASSUME NEW rows \in SUBSET SpanRows, Consecutive(rows), Cap \in Nat \ {0},
         NEW c \in Nat, c = MaxId(rows) - Cap
  PROVE  Newer(rows, {s \in rows : s.id > c})
<1> DEFINE new == {s \in rows : s.id > c}
<1> PICK m : m = MaxId(rows)
  OBVIOUS
<1>1. \A r \in rows : r.id \in Nat \ {0}
  BY DEF SpanRows
<1>2. Bounded(rows)
  BY DEF Consecutive
<1>3. /\ m \in Nat /\ \A r \in rows : r.id <= m
      /\ rows # {} => \E r \in rows : r.id = m
  BY <1>1, <1>2, MaxIdFacts
<1>4. ASSUME NEW r \in rows, r \notin new
      PROVE  Full(new) /\ \A s \in new : r.id < s.id
  <2>1. r.id <= c /\ r.id \in Nat
    BY <1>4, <1>1
  <2>2. PICK s \in rows : s.id = m
    BY <1>3, <1>4
  <2>3. c + 1 \in r.id..s.id
    BY <2>1, <2>2, <1>3
  <2>4. PICK t \in rows : t.id = c + 1
    BY <2>2, <2>3 DEF Consecutive
  <2>5. s \in new /\ t \in new
    BY <2>2, <2>4, <1>3
  <2>6. s.id - t.id >= Cap - 1
    BY <2>2, <2>4, <1>3
  <2>7. Full(new)
    BY <2>5, <2>6 DEF Full
  <2>8. \A q \in new : r.id < q.id
    BY <2>1, <1>1
  <2> QED
    BY <2>7, <2>8
<1>5. \A s \in new : s \in rows
  OBVIOUS
<1> QED
  BY <1>4, <1>5 DEF Newer

LEMMA FullGrows ==
  ASSUME NEW A, NEW B, A \subseteq B, Full(A)
  PROVE  Full(B)
  BY DEF Full

\* An earlier state of an earlier state is an earlier state.
LEMMA NewerTransitive ==
  ASSUME NEW A \in SUBSET SpanRows, NEW B \in SUBSET SpanRows,
         NEW C \in SUBSET SpanRows, Newer(A, B), Newer(B, C)
  PROVE  Newer(A, C)
<1>1. /\ \A r \in A : r.id \in Nat
      /\ \A r \in B : r.id \in Nat
      /\ \A r \in C : r.id \in Nat
  BY DEF SpanRows
<1>2. /\ \A r \in A : r \in B \/ (Full(B) /\ \A s \in B : r.id < s.id)
      /\ \A s \in B : s \in A \/ \A r \in A : r.id < s.id
  BY DEF Newer
<1>3. /\ \A r \in B : r \in C \/ (Full(C) /\ \A s \in C : r.id < s.id)
      /\ \A s \in C : s \in B \/ \A r \in B : r.id < s.id
  BY DEF Newer
<1>4. Full(B) => \E b \in B : TRUE
  BY DEF Full
<1>5. Full(B) => Full(C)
  <2>1. CASE B \subseteq C
    BY <2>1, FullGrows
  <2>2. CASE ~ (B \subseteq C)
    BY <2>2, <1>3
  <2> QED
    BY <2>1, <2>2
<1>6. ASSUME NEW r \in A, r \notin B, NEW s \in C
      PROVE  r.id < s.id
  <2>1. Full(B) /\ \A b \in B : r.id < b.id
    BY <1>2, <1>6
  <2>2. PICK b \in B : TRUE
    BY <2>1, <1>4
  <2>3. s \in B \/ b.id < s.id
    BY <1>3
  <2> QED
    BY <2>1, <2>3, <1>1
<1>7. ASSUME NEW r \in A, r \notin C
      PROVE  Full(C) /\ \A s \in C : r.id < s.id
  <2>1. CASE r \in B
    BY <2>1, <1>3, <1>7
  <2>2. CASE r \notin B
    BY <2>2, <1>2, <1>5, <1>6
  <2> QED
    BY <2>1, <2>2
<1>8. ASSUME NEW s \in C, s \notin A, NEW r \in A
      PROVE  r.id < s.id
  <2>1. CASE r \notin B
    BY <2>1, <1>6
  <2>2. CASE r \in B /\ s \in B
    BY <2>2, <1>2, <1>8
  <2>3. CASE r \in B /\ s \notin B
    BY <2>3, <1>3
  <2> QED
    BY <2>1, <2>2, <2>3
<1> QED
  BY <1>7, <1>8 DEF Newer

LEMMA NewerReflexive ==
  ASSUME NEW A
  PROVE  Newer(A, A)
  BY DEF Newer

-----------------------------------------------------------------------------
(* What statements do to a database.                                       *)

LEMMA CapFacts == Cap \in Nat \ {0} /\ Signed(Cap) \in Int /\ Signed(0) \in Int
<1>1. LongBits \in Nat \ {0} /\ Cap \in 1..2^LongBits - 1
  BY StoreAssumption
<1>2. 2^(LongBits - 1) \in Int /\ 2^LongBits \in Int
  BY <1>1
<1> QED
  BY <1>1, <1>2 DEF Signed

LEMMA DatabaseFields ==
  ASSUME NEW d \in Databases
  PROVE  /\ d.spans \in SUBSET SpanRows /\ d.attrs \in SUBSET AttrRows
         /\ d.events \in SUBSET EventRows /\ d.eventAttrs \in SUBSET EventAttrRows
  BY DEF Databases

\* A later span number makes no row a row of the future.
LEMMA WellFormedLater ==
  ASSUME NEW d, NEW n \in Nat, WellFormed(d, n)
  PROVE  WellFormed(d, n + 1)
<1>1. /\ \A r \in d.spans : r.of \in Nat
      /\ \A r \in d.attrs : r.of \in Nat
      /\ \A r \in d.events : r.of[1] \in Nat
      /\ \A r \in d.eventAttrs : r.of[1] \in Nat
  BY DatabaseFields DEF WellFormed, SpanRows, AttrRows, EventRows, EventAttrRows
<1>2. Past(d, n + 1)
  BY <1>1 DEF WellFormed, Past
<1> QED
  BY <1>2 DEF WellFormed

LEMMA SpanAdded ==
  ASSUME NEW d, NEW n \in Nat, WellFormed(d, n),
         NEW new, new = [d EXCEPT !.spans = @ \cup {[id |-> NextId(d.spans), of |-> n + 1]}]
  PROVE  /\ WellFormed(new, n + 1)
         /\ Newer(d.spans, new.spans)
         /\ [id |-> NextId(d.spans), of |-> n + 1] \in new.spans
         /\ d.spans \subseteq new.spans
         /\ new.attrs = d.attrs /\ new.events = d.events
         /\ new.eventAttrs = d.eventAttrs
<1> PICK row : row = [id |-> NextId(d.spans), of |-> n + 1]
  OBVIOUS
<1>1. d \in Databases /\ WellFormed(d, n + 1)
  BY WellFormedLater DEF WellFormed
<1>2. d.spans \in SUBSET SpanRows /\ Consecutive(d.spans) /\ \A r \in d.spans : r.of <= n
  BY <1>1 DEF WellFormed, Past, Databases
<1>3. /\ row \in SpanRows /\ Consecutive(d.spans \cup {row})
      /\ Newer(d.spans, d.spans \cup {row})
  BY <1>2, AddedRow
<1>4. /\ new.spans = d.spans \cup {row} /\ new.attrs = d.attrs
      /\ new.events = d.events /\ new.eventAttrs = d.eventAttrs
  BY <1>1 DEF Databases
<1>5. new \in Databases
  BY <1>1, <1>3, <1>4 DEF Databases
<1>6. Past(new, n + 1)
  BY <1>1, <1>4 DEF WellFormed, Past
<1> QED
  BY <1>1, <1>3, <1>4, <1>5, <1>6 DEF WellFormed

LEMMA AttrAdded ==
  ASSUME NEW d, NEW n \in Nat, WellFormed(d, n), NEW span \in Nat, NEW k \in Nat,
         NEW new, new = [d EXCEPT !.attrs = @ \cup {[span |-> span, of |-> n, k |-> k]}]
  PROVE  /\ WellFormed(new, n)
         /\ new.spans = d.spans /\ new.events = d.events
         /\ new.eventAttrs = d.eventAttrs
         /\ new.attrs = d.attrs \cup {[span |-> span, of |-> n, k |-> k]}
<1>1. d \in Databases
  BY DEF WellFormed
<1>2. /\ new.spans = d.spans /\ new.events = d.events
      /\ new.eventAttrs = d.eventAttrs
      /\ new.attrs = d.attrs \cup {[span |-> span, of |-> n, k |-> k]}
  BY <1>1 DEF Databases
<1>3. [span |-> span, of |-> n, k |-> k] \in AttrRows
  BY DEF AttrRows
<1>4. new \in Databases
  BY <1>1, <1>2, <1>3 DEF Databases
<1>5. Past(new, n)
  BY <1>2 DEF WellFormed, Past
<1> QED
  BY <1>2, <1>4, <1>5 DEF WellFormed

LEMMA EventAttrAdded ==
  ASSUME NEW d, NEW n \in Nat, WellFormed(d, n), NEW event \in Nat, NEW j \in Nat,
         NEW k \in Nat, NEW new,
         new = [d EXCEPT !.eventAttrs = @ \cup {[event |-> event, of |-> <<n, j>>, k |-> k]}]
  PROVE  /\ WellFormed(new, n)
         /\ new.spans = d.spans /\ new.events = d.events /\ new.attrs = d.attrs
         /\ new.eventAttrs = d.eventAttrs \cup {[event |-> event, of |-> <<n, j>>, k |-> k]}
<1>1. d \in Databases
  BY DEF WellFormed
<1>2. /\ new.spans = d.spans /\ new.events = d.events /\ new.attrs = d.attrs
      /\ new.eventAttrs = d.eventAttrs \cup {[event |-> event, of |-> <<n, j>>, k |-> k]}
  BY <1>1 DEF Databases
<1>3. [event |-> event, of |-> <<n, j>>, k |-> k] \in EventAttrRows
  BY DEF EventAttrRows
<1>4. new \in Databases
  BY <1>1, <1>2, <1>3 DEF Databases
<1>5. Past(new, n)
  BY <1>2 DEF WellFormed, Past
<1> QED
  BY <1>2, <1>4, <1>5 DEF WellFormed

LEMMA EventAdded ==
  ASSUME NEW d, NEW n \in Nat, WellFormed(d, n), NEW span \in Nat, NEW j \in Nat,
         NEW row, row = [id |-> NextId(d.events), span |-> span, of |-> <<n, j>>],
         NEW new, new = [d EXCEPT !.events = @ \cup {row}]
  PROVE  /\ WellFormed(new, n) /\ row \in EventRows
         /\ new.spans = d.spans /\ new.attrs = d.attrs
         /\ new.eventAttrs = d.eventAttrs /\ new.events = d.events \cup {row}
<1>1. d \in Databases /\ Bounded(d.events) /\ Unique(d.events)
  BY DEF WellFormed
<1>2. /\ new.spans = d.spans /\ new.attrs = d.attrs
      /\ new.eventAttrs = d.eventAttrs /\ new.events = d.events \cup {row}
  BY <1>1 DEF Databases
<1>3. \A r \in d.events : r.id \in Nat \ {0}
  BY <1>1, DatabaseFields DEF EventRows
<1> PICK m : m = MaxId(d.events)
  OBVIOUS
<1>4. m \in Nat /\ \A r \in d.events : r.id <= m
  BY <1>1, <1>3, MaxIdFacts
<1>5. row.id = m + 1 /\ row.of[1] = n /\ row \in EventRows
  BY <1>4 DEF EventRows, NextId
<1>6. \A r \in new.events : r \in d.events \/ r = row
  BY <1>2
<1>7. Bounded(new.events)
  <2>1. \A r \in new.events : r.id <= m + 1
    BY <1>3, <1>4, <1>5, <1>6
  <2> QED
    BY <2>1, <1>4 DEF Bounded
<1>8. \A r \in d.events : r.id # row.id
  BY <1>3, <1>4, <1>5
<1>9. Unique(new.events)
  BY <1>1, <1>6, <1>8 DEF Unique
<1>10. new \in Databases
  BY <1>1, <1>2, <1>5 DEF Databases
<1>11. Past(new, n)
  BY <1>2, <1>5, <1>6 DEF WellFormed, Past
<1> QED
  BY <1>2, <1>5, <1>7, <1>9, <1>10, <1>11 DEF WellFormed

\* What each of retention's four DELETEs leaves in the four tables.
LEMMA PrunedFields ==
  ASSUME db \in Databases
  PROVE  /\ Pruned("event_attrs") =
              [db EXCEPT !.eventAttrs =
                 {a \in db.eventAttrs : a.event \notin
                     {e.id : e \in {f \in db.events : f.span <= cutoff}}}]
         /\ Pruned("attrs") =
              [db EXCEPT !.attrs = {a \in db.attrs : a.span > cutoff}]
         /\ Pruned("events") =
              [db EXCEPT !.events = {e \in db.events : e.span > cutoff}]
         /\ Pruned("spans") =
              [db EXCEPT !.spans = {s \in db.spans : s.id > cutoff}]
  BY DEF Pruned, Databases

LEMMA PrunedWellFormed ==
  ASSUME TypeInv, StoreInv, NEW table \in PruneLabels, NEW new, new = Pruned(table)
  PROVE  /\ WellFormed(new, shown)
         /\ new.spans \subseteq db.spans /\ new.attrs \subseteq db.attrs
         /\ new.events \subseteq db.events /\ new.eventAttrs \subseteq db.eventAttrs
         /\ table # "spans" => new.spans = db.spans
         /\ table = "spans" => new.spans = {s \in db.spans : s.id > cutoff}
<1>1. db \in Databases /\ WellFormed(db, shown) /\ cutoff \in Nat
  BY DEF StoreInv, WellFormed, TypeInv
<1>2. /\ new.spans \subseteq db.spans /\ new.attrs \subseteq db.attrs
      /\ new.events \subseteq db.events /\ new.eventAttrs \subseteq db.eventAttrs
      /\ table # "spans" => new.spans = db.spans
      /\ table = "spans" => new.spans = {s \in db.spans : s.id > cutoff}
      /\ new \in Databases
  <2>1. CASE table = "event_attrs"
    BY <2>1, <1>1, PrunedFields DEF Databases
  <2>2. CASE table = "attrs"
    BY <2>2, <1>1, PrunedFields DEF Databases
  <2>3. CASE table = "events"
    BY <2>3, <1>1, PrunedFields DEF Databases
  <2>4. CASE table = "spans"
    BY <2>4, <1>1, PrunedFields DEF Databases
  <2> QED
    BY <2>1, <2>2, <2>3, <2>4 DEF PruneLabels
<1>3. Consecutive(new.spans)
  <2>1. CASE table = "spans"
    BY <2>1, <1>1, <1>2, KeptRows, DatabaseFields DEF WellFormed
  <2>2. CASE table # "spans"
    BY <2>2, <1>1, <1>2 DEF WellFormed
  <2> QED
    BY <2>1, <2>2
<1>4. Bounded(new.events) /\ Unique(new.events)
  BY <1>1, <1>2 DEF WellFormed, Bounded, Unique
<1>5. Past(new, shown)
  BY <1>1, <1>2 DEF WellFormed, Past
<1> QED
  BY <1>2, <1>3, <1>4, <1>5 DEF WellFormed

\* What a statement can do to the connection's and to the others' view.
LEMMA ExecFacts ==
  ASSUME TypeInv, NEW result \in Results, NEW new, Exec(result, new)
  PROVE  /\ txn' \in BOOLEAN /\ torn' \subseteq Nat /\ torn \subseteq torn'
         /\ txn' => txn
         /\ result = "ok" => /\ db' = new /\ disk' = IF txn THEN disk ELSE new
                             /\ txn' = txn /\ torn' = torn
         /\ result # "ok" => /\ db' \in {db, disk} /\ disk' = disk
                             /\ (txn' => txn /\ db' = db) /\ (~txn' /\ txn => db' = disk)
                             /\ (~txn => db' = db)
                             /\ (pc = "rows" /\ shown \notin torn' => db' = db)
<1>1. result \in {"ok", "refuse", "rollback"}
  BY StoreAssumption DEF Results
<1>2. txn \in BOOLEAN /\ torn \subseteq Nat /\ shown \in Nat
  BY StoreAssumption DEF TypeInv
<1>3. CASE result = "ok"
  <2>1. /\ db' = new /\ disk' = IF txn THEN disk ELSE new
        /\ txn' = txn /\ torn' = torn
    BY <1>3 DEF Exec
  <2> QED
    BY <1>2, <1>3, <2>1
<1>4. CASE result = "refuse"
  <2>1. UNCHANGED <<disk, db, txn, torn>>
    BY <1>4 DEF Exec, sqlite
  <2> QED
    BY <1>2, <1>4, <2>1
<1>5. CASE result = "rollback"
  <2>1. /\ txn /\ txn' = FALSE /\ db' = disk /\ disk' = disk
        /\ torn' = IF pc = "rows" THEN torn \cup {shown} ELSE torn
    BY <1>5 DEF Exec, RollsBack
  <2>2. torn' \subseteq Nat /\ torn \subseteq torn' /\ (pc = "rows" => shown \in torn')
    BY <1>2, <2>1
  <2> QED
    BY <1>2, <1>5, <2>1, <2>2
<1> QED
  BY <1>1, <1>3, <1>4, <1>5

LEMMA CommitFacts ==
  ASSUME TypeInv, ExecCommit
  PROVE  /\ txn' \in BOOLEAN /\ torn' \subseteq Nat /\ torn \subseteq torn'
         /\ db' \in {db, disk} /\ disk' \in {db, disk}
         /\ disk' = db => db' = db
         /\ txn' => db' = db /\ disk' = disk
         /\ ~txn' => db' = disk' \/ (~txn /\ db' = db /\ disk' = disk)
<1>2. txn \in BOOLEAN /\ torn \subseteq Nat /\ shown \in Nat
  BY StoreAssumption DEF TypeInv
<1>3. CASE txn /\ disk' = db /\ txn' = FALSE /\ db' = db /\ torn' = torn
  BY <1>2, <1>3
<1>4. CASE ~txn /\ UNCHANGED sqlite
  BY <1>2, <1>4 DEF sqlite
<1>5. CASE txn /\ UNCHANGED sqlite
  BY <1>2, <1>5 DEF sqlite
<1>6. CASE RollsBack
  BY <1>2, <1>6 DEF RollsBack
<1> QED
  BY <1>3, <1>4, <1>5, <1>6 DEF ExecCommit

\* Where otel_sqlite_span stands after a statement.
LEMMA GoOnFacts ==
  ASSUME NEW rest \in Todos, GoOn(rest)
  PROVE  /\ todo' \in Todos /\ pc' \in {"pass", "rows"} /\ todo' = rest
         /\ pc' = "rows" => (rest.attrs = 0 /\ rest.eventAttrs = 0 => rest.events # <<>>)
  BY DEF GoOn

LEMMA RestTyped ==
  ASSUME TypeInv
  PROVE  /\ Done \in Todos
         /\ \A s \in Shapes : RowsOf(s) \in Todos
         /\ todo.attrs > 0 => [todo EXCEPT !.attrs = @ - 1] \in Todos
         /\ todo.eventAttrs > 0 => [todo EXCEPT !.eventAttrs = @ - 1] \in Todos
         /\ todo.events # <<>> =>
               \A b \in BOOLEAN :
                   [attrs |-> 0, j |-> todo.j + 1, events |-> Tail(todo.events),
                    eventAttrs |-> AttrsAfter(b, Head(todo.events))] \in Todos
<1>1. todo \in Todos
  BY DEF TypeInv
<1>2. Done \in Todos
  BY DEF Done, Todos
<1>3. \A s \in Shapes : RowsOf(s) \in Todos
  BY StoreAssumption DEF Done, Todos, RowsOf
<1>4. todo.attrs > 0 => [todo EXCEPT !.attrs = @ - 1] \in Todos
  BY <1>1, SMTT(30) DEF Todos
<1>5. todo.eventAttrs > 0 => [todo EXCEPT !.eventAttrs = @ - 1] \in Todos
  BY <1>1 DEF Todos
<1>6. ASSUME todo.events # <<>>, NEW b \in BOOLEAN
      PROVE  [attrs |-> 0, j |-> todo.j + 1, events |-> Tail(todo.events),
              eventAttrs |-> AttrsAfter(b, Head(todo.events))] \in Todos
  <2>1. todo.events \in Seq(Nat) /\ todo.j \in Nat
    BY <1>1 DEF Todos
  <2>2. Tail(todo.events) \in Seq(Nat) /\ Head(todo.events) \in Nat
    BY <2>1, <1>6
  <2> QED
    BY <2>1, <2>2 DEF AttrsAfter, Todos
<1> QED
  BY <1>2, <1>3, <1>4, <1>5, <1>6

-----------------------------------------------------------------------------
(* Types and tables.                                                       *)

\* What the inserts and deletes would turn the database into.
WithSpan == [db EXCEPT !.spans = @ \cup {[id |-> NextId(db.spans), of |-> shown + 1]}]
WithAttr ==
    [db EXCEPT !.attrs = @ \cup {[span |-> curSpan, of |-> shown, k |-> todo.attrs]}]
WithEventAttr ==
    [db EXCEPT !.eventAttrs =
       @ \cup {[event |-> curEvent, of |-> <<shown, todo.j>>, k |-> todo.eventAttrs]}]
EventRow == [id |-> NextId(db.events), span |-> curSpan, of |-> <<shown, todo.j + 1>>]
WithEvent == [db EXCEPT !.events = @ \cup {EventRow}]

AfterEvent(ok) ==
    [attrs |-> 0, j |-> todo.j + 1, events |-> Tail(todo.events),
     eventAttrs |-> AttrsAfter(ok, Head(todo.events))]

\* What the proofs take from the types.
LEMMA Types ==
  ASSUME TypeInv
  PROVE  /\ txn \in BOOLEAN /\ torn \subseteq Nat /\ open \in BOOLEAN /\ inTxn \in BOOLEAN
         /\ shown \in Nat /\ curSpan \in Nat /\ curEvent \in Nat /\ fresh \in Nat
         /\ cutoff \in Nat /\ MaxShown \in Nat
         /\ todo.attrs \in Nat /\ todo.eventAttrs \in Nat /\ todo.j \in Nat
  BY StoreAssumption DEF TypeInv, Todos

\* The statements of a pass, each with what it would turn the database into.
LEMMA InsertSpanFacts ==
  ASSUME TypeInv, NEW s \in Shapes, InsertSpan(s)
  PROVE  /\ pc = "pass" /\ shown < MaxShown /\ shown' = shown + 1
         /\ UNCHANGED <<open, inTxn, commits, maxSpans, curEvent, cutoff, fresh, listed>>
         /\ ~inTxn => UNCHANGED <<sqlite, pc, curSpan, todo>>
         /\ inTxn => \E result \in Results :
               /\ Exec(result, WithSpan)
               /\ result = "ok" => curSpan' = NextId(db.spans) /\ GoOn(RowsOf(s))
               /\ result # "ok" => UNCHANGED <<curSpan, todo, pc>>
  BY DEF InsertSpan, Stores, WithSpan

LEMMA InsertAttrFacts ==
  ASSUME TypeInv, InsertAttr
  PROVE  /\ pc = "rows" /\ todo.attrs > 0
         /\ UNCHANGED <<open, inTxn, commits, maxSpans, curSpan, curEvent, cutoff,
                        shown, fresh, listed>>
         /\ GoOn([todo EXCEPT !.attrs = @ - 1])
         /\ \E result \in Results : Exec(result, WithAttr)
  BY DEF InsertAttr, WithAttr

LEMMA InsertEventAttrFacts ==
  ASSUME TypeInv, InsertEventAttr
  PROVE  /\ pc = "rows" /\ todo.attrs = 0 /\ todo.eventAttrs > 0
         /\ UNCHANGED <<open, inTxn, commits, maxSpans, curSpan, curEvent, cutoff,
                        shown, fresh, listed>>
         /\ GoOn([todo EXCEPT !.eventAttrs = @ - 1])
         /\ \E result \in Results : Exec(result, WithEventAttr)
  BY DEF InsertEventAttr, WithEventAttr

LEMMA InsertEventFacts ==
  ASSUME TypeInv, TxnInv, InsertEvent
  PROVE  /\ pc = "rows" /\ todo.attrs = 0 /\ todo.eventAttrs = 0 /\ todo.events # <<>>
         /\ UNCHANGED <<open, inTxn, commits, maxSpans, curSpan, cutoff, shown, fresh,
                        listed>>
         /\ \E result \in Results :
               /\ Exec(result, WithEvent)
               /\ curEvent' = IF result = "ok" THEN NextId(db.events) ELSE curEvent
               /\ GoOn(AfterEvent(result = "ok"))
<1>1. pc = "rows" /\ todo.attrs = 0 /\ todo.eventAttrs = 0 /\ todo.events # <<>>
  BY DEF InsertEvent, TxnInv
<1> QED
  BY <1>1 DEF InsertEvent, WithEvent, EventRow, AfterEvent

LEMMA PruneFacts ==
  ASSUME TypeInv, Prune
  PROVE  /\ pc \in PruneLabels
         /\ UNCHANGED <<open, inTxn, commits, maxSpans, curSpan, curEvent, todo,
                        cutoff, shown, fresh, listed>>
         /\ \E result \in Results :
               /\ Exec(result, Pruned(pc))
               /\ result # "ok" => pc' = "idle"
               /\ result = "ok" => pc' = PruneNext(pc)
  BY DEF Prune, PruneLabels

LEMMA PruneNextIs ==
  /\ PruneNext("event_attrs") = "attrs" /\ PruneNext("attrs") = "events"
  /\ PruneNext("events") = "spans" /\ PruneNext("spans") = "idle"
<1>1. PruneNext("event_attrs") = "attrs"
  BY DEF PruneNext, PruneOrder
<1>2. PruneNext("attrs") = "events"
  BY DEF PruneNext, PruneOrder
<1>3. PruneNext("events") = "spans"
  BY DEF PruneNext, PruneOrder
<1>4. PruneNext("spans") = "idle"
  BY DEF PruneNext, PruneOrder
<1> QED
  BY <1>1, <1>2, <1>3, <1>4

\* What each insert leaves is well-formed.
LEMMA InsertsWellFormed ==
  ASSUME TypeInv, StoreInv
  PROVE  /\ WellFormed(WithSpan, shown + 1) /\ WellFormed(WithAttr, shown)
         /\ WellFormed(WithEventAttr, shown) /\ WellFormed(WithEvent, shown)
<1>1. WellFormed(db, shown)
  BY DEF StoreInv
<1>2. WellFormed(WithSpan, shown + 1)
  BY <1>1, Types, SpanAdded DEF WithSpan
<1>3. WellFormed(WithAttr, shown)
  BY <1>1, Types, AttrAdded DEF WithAttr
<1>4. WellFormed(WithEventAttr, shown)
  BY <1>1, Types, EventAttrAdded DEF WithEventAttr
<1>5. WellFormed(WithEvent, shown)
  <2>1. todo.j + 1 \in Nat
    BY Types
  <2> QED
    BY <1>1, <2>1, Types, EventAdded DEF WithEvent, EventRow
<1> QED
  BY <1>2, <1>3, <1>4, <1>5

\* A statement keeps both views well-formed.
LEMMA ExecWellFormed ==
  ASSUME TypeInv, NEW n \in Nat, WellFormed(disk, n), WellFormed(db, n),
         NEW new, WellFormed(new, n), NEW result \in Results, Exec(result, new)
  PROVE  WellFormed(disk', n) /\ WellFormed(db', n)
<1>1. CASE result = "ok"
  <2>1. db' = new /\ disk' \in {disk, new}
    BY <1>1, ExecFacts
  <2> QED
    BY <2>1
<1>2. CASE result # "ok"
  <2>1. db' \in {db, disk} /\ disk' = disk
    BY <1>2, ExecFacts
  <2> QED
    BY <2>1
<1> QED
  BY <1>1, <1>2

LEMMA StoreStep ==
  ASSUME TypeInv, StoreInv, TxnInv, [Next]_vars
  PROVE  StoreInv' /\ shown' \in 0..MaxShown
<1>t. shown \in 0..MaxShown /\ shown \in Nat /\ MaxShown \in Nat
  BY StoreAssumption DEF TypeInv
<1>w. WellFormed(disk, shown) /\ WellFormed(db, shown)
  BY DEF StoreInv
<1>g. ASSUME NEW n \in Nat, n = shown', WellFormed(disk', n), WellFormed(db', n)
      PROVE  StoreInv'
  BY <1>g DEF StoreInv
<1>s. ASSUME shown' = shown, db' \in {db, disk}, disk' \in {db, disk}
      PROVE  StoreInv' /\ shown' \in 0..MaxShown
  <2>1. WellFormed(disk', shown) /\ WellFormed(db', shown)
    BY <1>s, <1>w
  <2> QED
    BY <2>1, <1>s, <1>t, <1>g
<1>x. ASSUME shown' = shown, NEW new, WellFormed(new, shown), NEW result \in Results,
             Exec(result, new)
      PROVE  StoreInv' /\ shown' \in 0..MaxShown
  <2>1. WellFormed(disk', shown) /\ WellFormed(db', shown)
    BY <1>t, <1>w, <1>x, ExecWellFormed
  <2> QED
    BY <2>1, <1>x, <1>t, <1>g
<1>1. CASE Open \/ SetMaxSpans \/ List \/ UNCHANGED vars
  BY <1>1, <1>s DEF Open, SetMaxSpans, List, vars, sqlite
<1>2. CASE Close \/ Crash
  BY <1>2, <1>s DEF Close, Crash, Reset
<1>3. CASE Begin
  BY <1>3, <1>s DEF Begin
<1>4. CASE End
  <2>1. shown' = shown
    BY <1>4 DEF End
  <2>2. CASE inTxn
    BY <1>4, <2>1, <2>2, <1>s, CommitFacts DEF End
  <2>3. CASE ~inTxn
    BY <1>4, <2>1, <2>3, <1>s DEF End, sqlite
  <2> QED
    BY <2>2, <2>3
<1>5. ASSUME NEW s \in Shapes, InsertSpan(s)
      PROVE  StoreInv' /\ shown' \in 0..MaxShown
  <2>1. shown' = shown + 1 /\ shown < MaxShown
    BY <1>5, InsertSpanFacts
  <2>2. WellFormed(disk, shown + 1) /\ WellFormed(db, shown + 1)
    BY <1>t, <1>w, WellFormedLater
  <2>3. shown + 1 \in Nat /\ shown' \in 0..MaxShown
    BY <1>t, <2>1
  <2>4. WellFormed(disk', shown + 1) /\ WellFormed(db', shown + 1)
    <3>1. CASE ~inTxn
      BY <1>5, <3>1, <2>2, InsertSpanFacts DEF sqlite
    <3>2. CASE inTxn
      <4>1. PICK result \in Results : Exec(result, WithSpan)
        BY <1>5, <3>2, InsertSpanFacts
      <4>2. WellFormed(WithSpan, shown + 1)
        BY InsertsWellFormed
      <4> QED
        BY <4>1, <4>2, <2>2, <2>3, ExecWellFormed
    <3> QED
      BY <3>1, <3>2
  <2> QED
    BY <2>1, <2>3, <2>4, <1>g
<1>6. CASE InsertAttr
  BY <1>6, <1>x, InsertAttrFacts, InsertsWellFormed
<1>7. CASE InsertEventAttr
  BY <1>7, <1>x, InsertEventAttrFacts, InsertsWellFormed
<1>8. CASE InsertEvent
  <2>1. shown' = shown
    BY <1>8, InsertEventFacts
  <2>2. PICK result \in Results : Exec(result, WithEvent)
    BY <1>8, InsertEventFacts
  <2> QED
    BY <2>1, <2>2, <1>x, InsertsWellFormed
<1>9. CASE Prune
  <2>1. shown' = shown /\ pc \in PruneLabels
    BY <1>9, PruneFacts
  <2>2. PICK result \in Results : Exec(result, Pruned(pc))
    BY <1>9, PruneFacts
  <2>3. WellFormed(Pruned(pc), shown)
    BY <2>1, PrunedWellFormed
  <2> QED
    BY <2>1, <2>2, <2>3, <1>x
<1> QED
  BY <1>1, <1>2, <1>3, <1>4, <1>5, <1>6, <1>7, <1>8, <1>9 DEF Next, Pass

\* The new cutoff is an id; where retention starts it is the cap below the
\* newest row.
LEMMA EndFacts ==
  ASSUME TypeInv, StoreInv, StoreInv', End
  PROVE  /\ pc = "pass"
         /\ UNCHANGED <<open, maxSpans, curSpan, curEvent, todo, shown, fresh, listed>>
         /\ inTxn' = FALSE /\ commits' \in Nat /\ cutoff' \in Nat
         /\ pc' \in {"idle", "event_attrs"}
         /\ ~inTxn => pc' = "idle" /\ UNCHANGED sqlite
         /\ inTxn => ExecCommit
         /\ pc' = "event_attrs" => maxSpans = Cap /\ cutoff' = Cutoff(MaxId(db'.spans))
<1>1. pc = "pass" /\ UNCHANGED <<open, maxSpans, curSpan, curEvent, todo, shown, fresh, listed>>
  BY DEF End
<1>t. /\ inTxn \in BOOLEAN /\ commits \in Nat /\ cutoff \in Nat /\ maxSpans \in {0, Cap}
      /\ Cap \in Nat /\ Signed(maxSpans) \in Int
  BY CapFacts DEF TypeInv
<1>2. CASE ~inTxn
  BY <1>1, <1>2, <1>t DEF End
<1>3. CASE inTxn
  <2> PICK c : c = Cutoff(MaxId(db'.spans))
    OBVIOUS
  <2>1. /\ ExecCommit /\ inTxn' = FALSE /\ commits' = (commits + 1) % MaintEvery
        /\ IF commits' = 0 /\ maxSpans # 0 /\ c > 0
           THEN pc' = "event_attrs" /\ cutoff' = c
           ELSE pc' = "idle" /\ UNCHANGED cutoff
    BY <1>3 DEF End, PruneOrder
  <2>2. commits' \in Nat
    BY <2>1, <1>t, StoreAssumption
  <2>3. c \in Int
    <3> PICK rows : rows = db'.spans
      OBVIOUS
    <3>1. rows \in SUBSET SpanRows /\ Bounded(rows)
      BY DEF StoreInv, WellFormed, Consecutive, Databases
    <3>2. MaxId(rows) \in Nat
      BY <3>1, MaxIdFacts DEF SpanRows
    <3> QED
      BY <3>2, <1>t DEF Cutoff
  <2>4. cutoff' \in Nat
    BY <2>1, <2>3, <1>t
  <2> QED
    BY <1>1, <1>3, <2>1, <2>2, <2>4, <1>t
<1> QED
  BY <1>2, <1>3, <1>t

LEMMA TypeStep ==
  ASSUME TypeInv, StoreInv, TxnInv, [Next]_vars
  PROVE  TypeInv'
<1>n. shown' \in 0..MaxShown /\ StoreInv'
  BY StoreStep
<1>t. /\ txn \in BOOLEAN /\ torn \subseteq Nat /\ open \in BOOLEAN /\ inTxn \in BOOLEAN
      /\ commits \in Nat /\ maxSpans \in {0, Cap}
      /\ pc \in {"idle", "pass", "rows"} \cup PruneLabels
      /\ curSpan \in Nat /\ curEvent \in Nat /\ todo \in Todos
      /\ cutoff \in Nat /\ shown \in 0..MaxShown /\ shown \in Nat /\ fresh \in Nat
      /\ listed \subseteq SpanRows
  BY StoreAssumption DEF TypeInv
<1>r. Done \in Todos /\ \A s \in Shapes : RowsOf(s) \in Todos
  BY RestTyped
<1>d. disk.spans \subseteq SpanRows
  BY DEF StoreInv, WellFormed, Databases
<1>1. CASE Open \/ SetMaxSpans \/ List \/ UNCHANGED vars
  BY <1>1, <1>n, <1>t, <1>d DEF Open, SetMaxSpans, List, vars, sqlite, TypeInv
<1>2. CASE Close \/ Crash
  <2>1. Reset
    BY <1>2 DEF Close, Crash
  <2>2. /\ open' = FALSE /\ txn' = FALSE /\ inTxn' = FALSE /\ torn' = torn
        /\ commits' = 0 /\ maxSpans' = 0 /\ pc' = "idle" /\ curSpan' = 0
        /\ curEvent' = 0 /\ todo' = Done /\ cutoff' = 0
        /\ fresh' = fresh /\ listed' = listed
    BY <2>1 DEF Reset
  <2> QED
    BY <2>2, <1>n, <1>t, <1>r DEF TypeInv
<1>3. CASE Begin
  <2>1. inTxn' \in BOOLEAN /\ txn' \in BOOLEAN /\ torn' = torn
    BY <1>3, <1>t DEF Begin
  <2> QED
    BY <1>3, <1>n, <1>t, <2>1 DEF Begin, TypeInv
<1>4. CASE End
  <2>1. txn' \in BOOLEAN /\ torn' \subseteq Nat
    <3>1. CASE inTxn
      BY <1>4, <3>1, <1>n, EndFacts, CommitFacts
    <3>2. CASE ~inTxn
      BY <1>4, <3>2, <1>n, <1>t, EndFacts DEF sqlite
    <3> QED
      BY <3>1, <3>2
  <2> QED
    BY <1>4, <1>n, <1>t, <2>1, EndFacts DEF TypeInv, PruneLabels
<1>5. ASSUME NEW s \in Shapes, InsertSpan(s)
      PROVE  TypeInv'
  <2>1. UNCHANGED <<open, inTxn, commits, maxSpans, curEvent, cutoff, fresh, listed>>
    BY <1>5, InsertSpanFacts
  <2>2. CASE ~inTxn
    BY <1>5, <2>1, <2>2, <1>n, <1>t, InsertSpanFacts DEF sqlite, TypeInv
  <2>3. CASE inTxn
    <3>1. PICK result \in Results :
               /\ Exec(result, WithSpan)
               /\ result = "ok" => curSpan' = NextId(db.spans) /\ GoOn(RowsOf(s))
               /\ result # "ok" => UNCHANGED <<curSpan, todo, pc>>
      BY <1>5, <2>3, InsertSpanFacts
    <3>2. txn' \in BOOLEAN /\ torn' \subseteq Nat
      BY <3>1, ExecFacts
    <3>3. NextId(db.spans) \in Nat
      <4>1. db.spans \in SUBSET SpanRows /\ Bounded(db.spans)
        BY DEF StoreInv, WellFormed, Consecutive, Databases
      <4>2. MaxId(db.spans) \in Nat
        BY <4>1, MaxIdFacts DEF SpanRows
      <4> QED
        BY <4>2 DEF NextId
    <3>4. curSpan' \in Nat /\ todo' \in Todos
          /\ pc' \in {"idle", "pass", "rows"} \cup PruneLabels
      BY <3>1, <3>3, <1>r, <1>t, GoOnFacts
    <3> QED
      BY <2>1, <3>2, <3>4, <1>n, <1>t DEF TypeInv
  <2> QED
    BY <2>2, <2>3
<1>6. CASE InsertAttr
  <2>1. PICK result \in Results : Exec(result, WithAttr)
    BY <1>6, InsertAttrFacts
  <2>2. txn' \in BOOLEAN /\ torn' \subseteq Nat
    BY <2>1, ExecFacts
  <2>3. todo' \in Todos /\ pc' \in {"pass", "rows"}
    BY <1>6, RestTyped, InsertAttrFacts, GoOnFacts
  <2> QED
    BY <1>6, <2>2, <2>3, <1>n, <1>t, InsertAttrFacts DEF TypeInv
<1>7. CASE InsertEventAttr
  <2>1. PICK result \in Results : Exec(result, WithEventAttr)
    BY <1>7, InsertEventAttrFacts
  <2>2. txn' \in BOOLEAN /\ torn' \subseteq Nat
    BY <2>1, ExecFacts
  <2>3. todo' \in Todos /\ pc' \in {"pass", "rows"}
    BY <1>7, RestTyped, InsertEventAttrFacts, GoOnFacts
  <2> QED
    BY <1>7, <2>2, <2>3, <1>n, <1>t, InsertEventAttrFacts DEF TypeInv
<1>8. CASE InsertEvent
  <2>1. PICK result \in Results :
               /\ Exec(result, WithEvent)
               /\ curEvent' = IF result = "ok" THEN NextId(db.events) ELSE curEvent
               /\ GoOn(AfterEvent(result = "ok"))
    BY <1>8, InsertEventFacts
  <2>2. txn' \in BOOLEAN /\ torn' \subseteq Nat
    BY <2>1, ExecFacts
  <2>3. NextId(db.events) \in Nat
    <3>1. db.events \in SUBSET EventRows /\ Bounded(db.events)
      BY DEF StoreInv, WellFormed, Databases
    <3>2. MaxId(db.events) \in Nat
      BY <3>1, MaxIdFacts DEF EventRows
    <3> QED
      BY <3>2 DEF NextId
  <2>4. AfterEvent(result = "ok") \in Todos
    <3>1. todo.events # <<>>
      BY <1>8, InsertEventFacts
    <3>2. (result = "ok") \in BOOLEAN
      BY Zenon
    <3> QED
      BY <3>1, <3>2, RestTyped, Zenon DEF AfterEvent
  <2>5. todo' \in Todos /\ pc' \in {"pass", "rows"}
    BY <2>1, <2>4, GoOnFacts
  <2> QED
    BY <1>8, <2>1, <2>2, <2>3, <2>5, <1>n, <1>t, InsertEventFacts DEF TypeInv
<1>9. CASE Prune
  <2>1. PICK result \in Results :
               /\ Exec(result, Pruned(pc))
               /\ result # "ok" => pc' = "idle"
               /\ result = "ok" => pc' = PruneNext(pc)
    BY <1>9, PruneFacts
  <2>2. txn' \in BOOLEAN /\ torn' \subseteq Nat
    BY <2>1, ExecFacts
  <2>3. pc' \in {"idle"} \cup PruneLabels
    BY <1>9, <2>1, PruneFacts, PruneNextIs DEF PruneLabels
  <2> QED
    BY <1>9, <2>2, <2>3, <1>n, <1>t, PruneFacts DEF TypeInv
<1> QED
  BY <1>1, <1>2, <1>3, <1>4, <1>5, <1>6, <1>7, <1>8, <1>9 DEF Next, Pass

LEMMA TxnStep ==
  ASSUME TypeInv, StoreInv, TxnInv, [Next]_vars
  PROVE  TxnInv'
<1>n. StoreInv' /\ TypeInv'
  BY StoreStep, TypeStep
<1>t. /\ txn \in BOOLEAN /\ inTxn \in BOOLEAN
      /\ db \in Databases /\ disk \in Databases
  BY DEF TypeInv, StoreInv, WellFormed
<1>i. /\ ~txn => db = disk
      /\ pc \in {"idle"} \cup PruneLabels => ~inTxn
      /\ pc = "rows" =>
            inTxn /\ (todo.attrs = 0 /\ todo.eventAttrs = 0 => todo.events # <<>>)
      /\ pc \in PruneLabels => maxSpans = Cap /\ cutoff = Cutoff(MaxId(db.spans))
      /\ inTxn => disk.spans \subseteq db.spans
  BY DEF TxnInv
<1>p. "idle" \notin PruneLabels /\ "pass" \notin PruneLabels /\ "rows" \notin PruneLabels
  BY DEF PruneLabels
\* The inserts.
<1>x. ASSUME inTxn, UNCHANGED <<inTxn, maxSpans, cutoff>>, NEW new, db.spans \subseteq new.spans,
             NEW result \in Results, Exec(result, new),
             pc' \in {"pass", "rows"},
             pc' = "rows" => (todo'.attrs = 0 /\ todo'.eventAttrs = 0 => todo'.events # <<>>)
      PROVE  TxnInv'
  <2>1. CASE result = "ok"
    <3>1. /\ db' = new /\ disk' = IF txn THEN disk ELSE new
          /\ txn' = txn
      BY <2>1, <1>x, ExecFacts
    <3>2. disk'.spans \subseteq db'.spans
      BY <3>1, <1>i, <1>x
    <3> QED
      BY <3>1, <3>2, <1>i, <1>x, <1>p DEF TxnInv
  <2>2. CASE result # "ok"
    <3>1. /\ db' \in {db, disk} /\ disk' = disk
          /\ (txn' => txn /\ db' = db) /\ (~txn' /\ txn => db' = disk)
          /\ (~txn => db' = db)
      BY <2>2, <1>x, ExecFacts
    <3>2. disk'.spans \subseteq db'.spans
      BY <3>1, <1>i, <1>x
    <3>3. ~txn' => db' = disk'
      BY <3>1, <1>i
    <3> QED
      BY <3>2, <3>3, <1>i, <1>x, <1>p DEF TxnInv
  <2> QED
    BY <2>1, <2>2
<1>1. CASE Open \/ List \/ UNCHANGED vars
  BY <1>1, <1>i DEF Open, List, vars, sqlite, TxnInv, Cutoff
<1>1a. CASE SetMaxSpans
  BY <1>1a, <1>i, <1>p DEF SetMaxSpans, sqlite, TxnInv
<1>2. CASE Close \/ Crash
  BY <1>2, <1>i, <1>p DEF Close, Crash, Reset, TxnInv
<1>3. CASE Begin
  <2>0. pc = "idle" /\ pc' = "pass" /\ ~inTxn
    BY <1>3, <1>i DEF Begin
  <2>1. /\ txn => ~inTxn' /\ txn'
        /\ ~txn => inTxn' = txn'
        /\ UNCHANGED <<disk, db>>
    BY <1>3, <1>t DEF Begin
  <2>4. ~txn' => db' = disk'
    BY <2>1, <1>i
  <2>5. inTxn' => disk'.spans \subseteq db'.spans
    BY <2>1, <1>i
  <2> QED
    BY <2>0, <2>4, <2>5, <1>p DEF TxnInv
<1>4. CASE End
  <2>0. /\ inTxn' = FALSE /\ pc' \in {"idle", "event_attrs"}
        /\ maxSpans' = maxSpans
        /\ pc' = "event_attrs" => maxSpans = Cap /\ cutoff' = Cutoff(MaxId(db'.spans))
    BY <1>4, <1>n, EndFacts
  <2>1. CASE ~inTxn
    <3>1. pc' = "idle" /\ UNCHANGED <<disk, db, txn>>
      BY <1>4, <1>n, <2>1, EndFacts DEF sqlite
    <3> QED
      BY <2>0, <3>1, <1>i, <1>p DEF TxnInv
  <2>2. CASE inTxn
    <3>1. ExecCommit
      BY <1>4, <1>n, <2>2, EndFacts
    <3>2. ~txn' => db' = disk'
      BY <3>1, <1>i, CommitFacts
    <3>4. pc' \in PruneLabels => maxSpans' = Cap /\ cutoff' = Cutoff(MaxId(db.spans))'
      BY <2>0, <1>p DEF Cutoff
    <3> QED
      BY <2>0, <3>2, <3>4, <1>p DEF TxnInv
  <2> QED
    BY <2>1, <2>2
<1>5. ASSUME NEW s \in Shapes, InsertSpan(s)
      PROVE  TxnInv'
  <2>1. pc = "pass" /\ UNCHANGED <<inTxn, maxSpans, cutoff>>
    BY <1>5, InsertSpanFacts
  <2>2. CASE ~inTxn
    BY <1>5, <2>1, <2>2, <1>i, <1>p, InsertSpanFacts DEF sqlite, TxnInv
  <2>3. CASE inTxn
    <3>1. PICK result \in Results :
               /\ Exec(result, WithSpan)
               /\ result = "ok" => curSpan' = NextId(db.spans) /\ GoOn(RowsOf(s))
               /\ result # "ok" => UNCHANGED <<curSpan, todo, pc>>
      BY <1>5, <2>3, InsertSpanFacts
    <3>2. db.spans \subseteq WithSpan.spans
      BY <1>t DEF WithSpan, Databases
    <3>3. /\ pc' \in {"pass", "rows"}
          /\ pc' = "rows" => (todo'.attrs = 0 /\ todo'.eventAttrs = 0 => todo'.events # <<>>)
      BY <3>1, <2>1, RestTyped, GoOnFacts
    <3> QED
      BY <2>1, <2>3, <3>1, <3>2, <3>3, <1>x
  <2> QED
    BY <2>2, <2>3
<1>6. CASE InsertAttr
  <2>1. PICK result \in Results : Exec(result, WithAttr)
    BY <1>6, InsertAttrFacts
  <2>2. inTxn /\ UNCHANGED <<inTxn, maxSpans, cutoff>>
    BY <1>6, <1>i, InsertAttrFacts
  <2>3. /\ pc' \in {"pass", "rows"}
        /\ pc' = "rows" => (todo'.attrs = 0 /\ todo'.eventAttrs = 0 => todo'.events # <<>>)
    BY <1>6, RestTyped, InsertAttrFacts, GoOnFacts
  <2>4. db.spans \subseteq WithAttr.spans
    BY <1>t DEF WithAttr, Databases
  <2> QED
    BY <2>1, <2>2, <2>3, <2>4, <1>x
<1>7. CASE InsertEventAttr
  <2>1. PICK result \in Results : Exec(result, WithEventAttr)
    BY <1>7, InsertEventAttrFacts
  <2>2. inTxn /\ UNCHANGED <<inTxn, maxSpans, cutoff>>
    BY <1>7, <1>i, InsertEventAttrFacts
  <2>3. /\ pc' \in {"pass", "rows"}
        /\ pc' = "rows" => (todo'.attrs = 0 /\ todo'.eventAttrs = 0 => todo'.events # <<>>)
    BY <1>7, RestTyped, InsertEventAttrFacts, GoOnFacts
  <2>4. db.spans \subseteq WithEventAttr.spans
    BY <1>t DEF WithEventAttr, Databases
  <2> QED
    BY <2>1, <2>2, <2>3, <2>4, <1>x
<1>8. CASE InsertEvent
  <2>1. PICK result \in Results : Exec(result, WithEvent) /\ GoOn(AfterEvent(result = "ok"))
    BY <1>8, InsertEventFacts
  <2>2. inTxn /\ UNCHANGED <<inTxn, maxSpans, cutoff>>
    BY <1>8, <1>i, InsertEventFacts
  <2>3. AfterEvent(result = "ok") \in Todos
    <3>1. todo.events # <<>>
      BY <1>8, InsertEventFacts
    <3>2. (result = "ok") \in BOOLEAN
      BY Zenon
    <3> QED
      BY <3>1, <3>2, RestTyped, Zenon DEF AfterEvent
  <2>4. /\ pc' \in {"pass", "rows"}
        /\ pc' = "rows" => (todo'.attrs = 0 /\ todo'.eventAttrs = 0 => todo'.events # <<>>)
    BY <2>1, <2>3, GoOnFacts
  <2>5. db.spans \subseteq WithEvent.spans
    BY <1>t DEF WithEvent, Databases
  <2> QED
    BY <2>1, <2>2, <2>4, <2>5, <1>x
<1>9. CASE Prune
  <2>0. pc \in PruneLabels /\ UNCHANGED <<inTxn, maxSpans, cutoff, todo>> /\ ~inTxn
    BY <1>9, <1>i, PruneFacts
  <2>1. PICK result \in Results :
               /\ Exec(result, Pruned(pc))
               /\ result # "ok" => pc' = "idle"
               /\ result = "ok" => pc' = PruneNext(pc)
    BY <1>9, PruneFacts
  <2>2. CASE result # "ok"
    <3>1. /\ db' \in {db, disk} /\ disk' = disk
          /\ (txn' => txn /\ db' = db) /\ (~txn' /\ txn => db' = disk)
          /\ (~txn => db' = db)
      BY <2>1, <2>2, ExecFacts
    <3>2. ~txn' => db' = disk'
      BY <3>1, <1>i
    <3> QED
      BY <2>0, <2>1, <2>2, <3>2, <1>p DEF TxnInv
  <2>3. CASE result = "ok"
    <3>1. /\ db' = Pruned(pc) /\ disk' = IF txn THEN disk ELSE Pruned(pc)
          /\ txn' = txn
      BY <2>1, <2>3, ExecFacts
    <3>2. ~txn' => db' = disk'
      BY <3>1
    <3>3. pc' \in PruneLabels => db'.spans = db.spans
      <4>1. pc = "spans" => pc' \notin PruneLabels
        BY <2>1, <2>3, <1>p, PruneNextIs
      <4>2. pc # "spans" => Pruned(pc).spans = db.spans
        BY <2>0, PrunedWellFormed
      <4> QED
        BY <3>1, <4>1, <4>2
    <3>4. pc' \in {"idle"} \cup PruneLabels
      BY <2>0, <2>1, <2>3, PruneNextIs DEF PruneLabels
    <3>5. pc' \in PruneLabels => maxSpans' = Cap /\ cutoff' = Cutoff(MaxId(db.spans))'
      BY <3>3, <1>i, <2>0 DEF Cutoff
    <3> QED
      BY <2>0, <3>1, <3>2, <3>4, <3>5, <1>i, <1>p DEF TxnInv
  <2> QED
    BY <2>2, <2>3
<1> QED
  BY <1>1, <1>1a, <1>2, <1>3, <1>4, <1>5, <1>6, <1>7, <1>8, <1>9 DEF Next, Pass

-----------------------------------------------------------------------------
(* Owners.                                                                 *)

LEMMA OwnedMoreLost ==
  ASSUME NEW d, NEW lost, Owned(d, lost), NEW more, lost \subseteq more
  PROVE  Owned(d, more)
  BY DEF Owned

LEMMA OwnedMoreSpans ==
  ASSUME NEW lost, NEW d, Owned(d, lost), NEW e, d.spans \subseteq e.spans, e.attrs = d.attrs,
         e.events = d.events, e.eventAttrs = d.eventAttrs
  PROVE  Owned(e, lost)
  BY DEF Owned

LEMMA OwnedMoreAttrs ==
  ASSUME NEW lost, NEW d, Owned(d, lost), NEW e, e.spans = d.spans, e.events = d.events,
         e.eventAttrs = d.eventAttrs, NEW row, e.attrs = d.attrs \cup {row},
         row.of \in lost \/ \E s \in d.spans : s.id = row.span /\ s.of = row.of
  PROVE  Owned(e, lost)
  BY DEF Owned

LEMMA OwnedMoreEvents ==
  ASSUME NEW lost, NEW d, Owned(d, lost), NEW e, e.spans = d.spans, e.attrs = d.attrs,
         e.eventAttrs = d.eventAttrs, NEW row, e.events = d.events \cup {row},
         row.of[1] \in lost \/ \E s \in d.spans : s.id = row.span /\ s.of = row.of[1]
  PROVE  Owned(e, lost)
  BY DEF Owned

LEMMA OwnedMoreEventAttrs ==
  ASSUME NEW lost, NEW d, Owned(d, lost), NEW e, e.spans = d.spans, e.attrs = d.attrs,
         e.events = d.events, NEW row, e.eventAttrs = d.eventAttrs \cup {row},
         row.of[1] \in lost \/ \E f \in d.events : f.id = row.event /\ f.of = row.of
  PROVE  Owned(e, lost)
  BY DEF Owned

\* Each of retention's deletes takes only rows that nothing refers to, because
\* of the ones before it.
LEMMA PrunedOwned ==
  ASSUME TypeInv, StoreInv, Owned(db, torn), StageInv, pc \in PruneLabels,
         NEW new, new = Pruned(pc)
  PROVE  /\ Owned(new, torn)
         /\ pc = "event_attrs" =>
               \A a \in new.eventAttrs : \A e \in new.events :
                   e.id = a.event => e.span > cutoff
         /\ pc = "attrs" =>
               /\ new.eventAttrs = db.eventAttrs /\ new.events = db.events
               /\ \A a \in new.attrs : a.span > cutoff
         /\ pc = "events" =>
               /\ new.eventAttrs = db.eventAttrs /\ new.attrs = db.attrs
               /\ new.events \subseteq db.events
               /\ \A e \in new.events : e.span > cutoff
<1>1. db \in Databases
  BY DEF StoreInv, WellFormed
<1>2. /\ \A a \in db.attrs : a.of \in torn \/ \E s \in db.spans : s.id = a.span /\ s.of = a.of
      /\ \A e \in db.events : e.of[1] \in torn \/
                \E s \in db.spans : s.id = e.span /\ s.of = e.of[1]
      /\ \A a \in db.eventAttrs : a.of[1] \in torn \/
                \E e \in db.events : e.id = a.event /\ e.of = a.of
  BY DEF Owned
<1>3. cutoff \in Nat /\ \A e \in db.events : e.span \in Nat
  BY <1>1, DatabaseFields DEF TypeInv, EventRows
<1>4. CASE pc = "event_attrs"
  <2>1. /\ new.spans = db.spans /\ new.attrs = db.attrs /\ new.events = db.events
        /\ new.eventAttrs = {a \in db.eventAttrs : a.event \notin
                 {e.id : e \in {f \in db.events : f.span <= cutoff}}}
    BY <1>1, <1>4, PrunedFields DEF Databases
  <2>2. Owned(new, torn)
    BY <1>2, <2>1 DEF Owned
  <2>3. \A a \in new.eventAttrs : \A e \in new.events : e.id = a.event => e.span > cutoff
    BY <1>3, <2>1
  <2> QED
    BY <1>4, <2>2, <2>3
<1>5. CASE pc = "attrs"
  <2>1. /\ new.spans = db.spans /\ new.eventAttrs = db.eventAttrs
        /\ new.events = db.events
        /\ new.attrs = {a \in db.attrs : a.span > cutoff}
    BY <1>1, <1>5, PrunedFields DEF Databases
  <2>2. Owned(new, torn)
    BY <1>2, <2>1 DEF Owned
  <2> QED
    BY <1>5, <2>1, <2>2
<1>6. CASE pc = "events"
  <2>1. /\ new.spans = db.spans /\ new.eventAttrs = db.eventAttrs
        /\ new.attrs = db.attrs
        /\ new.events = {e \in db.events : e.span > cutoff}
    BY <1>1, <1>6, PrunedFields DEF Databases
  <2>2. \A a \in db.eventAttrs : \A e \in db.events : e.id = a.event => e.span > cutoff
    BY <1>6 DEF StageInv
  <2>3. \A a \in new.eventAttrs : a.of[1] \in torn \/
                \E e \in new.events : e.id = a.event /\ e.of = a.of
    BY <1>2, <2>1, <2>2
  <2>4. Owned(new, torn)
    BY <1>2, <2>1, <2>3 DEF Owned
  <2> QED
    BY <1>6, <2>1, <2>4
<1>7. CASE pc = "spans"
  <2>1. /\ new.attrs = db.attrs /\ new.eventAttrs = db.eventAttrs
        /\ new.events = db.events
        /\ new.spans = {s \in db.spans : s.id > cutoff}
    BY <1>1, <1>7, PrunedFields DEF Databases
  <2>2. /\ \A a \in db.attrs : a.span > cutoff
        /\ \A e \in db.events : e.span > cutoff
    BY <1>7 DEF StageInv
  <2>3. /\ \A a \in new.attrs : a.of \in torn \/ \E s \in new.spans : s.id = a.span /\ s.of = a.of
        /\ \A e \in new.events : e.of[1] \in torn \/
                \E s \in new.spans : s.id = e.span /\ s.of = e.of[1]
    BY <1>2, <2>1, <2>2
  <2>4. Owned(new, torn)
    BY <1>2, <2>1, <2>3 DEF Owned
  <2> QED
    BY <1>7, <2>4
<1> QED
  BY <1>4, <1>5, <1>6, <1>7 DEF PruneLabels

\* A statement keeps both views owned.
LEMMA ExecOwned ==
  ASSUME TypeInv, Owned(disk, torn), Owned(db, torn), NEW new, Owned(new, torn),
         NEW result \in Results, Exec(result, new)
  PROVE  Owned(disk, torn)' /\ Owned(db, torn)'
<1>1. db' \in {db, disk, new} /\ disk' \in {disk, new} /\ torn \subseteq torn'
  <2>1. CASE result = "ok"
    BY <2>1, ExecFacts
  <2>2. CASE result # "ok"
    BY <2>2, ExecFacts
  <2> QED
    BY <2>1, <2>2
<1> QED
  BY <1>1, OwnedMoreLost

LEMMA OwnStep ==
  ASSUME TypeInv, StoreInv, TxnInv, OwnInv, [Next]_vars
  PROVE  OwnInv'
<1> SUFFICES Owned(disk, torn)' /\ Owned(db, torn)' /\ StageInv'
  BY DEF OwnInv
<1>n. TypeInv' /\ StoreInv' /\ TxnInv'
  BY StoreStep, TypeStep, TxnStep
<1>t. db \in Databases /\ disk \in Databases /\ WellFormed(db, shown)
  BY DEF StoreInv, WellFormed
<1>p. "idle" \notin PruneLabels /\ "pass" \notin PruneLabels /\ "rows" \notin PruneLabels
  BY DEF PruneLabels
<1>i. Owned(disk, torn) /\ Owned(db, torn) /\ StageInv
  BY DEF OwnInv
<1>q. ASSUME pc' \in {"idle", "pass", "event_attrs"}
      PROVE  StageInv'
  BY <1>q DEF StageInv
<1>r. ASSUME pc' \in {"pass", "rows"},
             shown' \notin torn' =>
                 /\ [id |-> curSpan', of |-> shown'] \in db'.spans
                 /\ todo'.eventAttrs > 0 =>
                       \E e \in db'.events : e.id = curEvent' /\ e.of = <<shown', todo'.j>>
      PROVE  StageInv'
  BY <1>r DEF StageInv
<1>1. CASE Open \/ List \/ SetMaxSpans \/ UNCHANGED vars
  BY <1>1, <1>i DEF Open, List, SetMaxSpans, vars, sqlite, StageInv, Owned
<1>2. CASE Close \/ Crash
  <2>1. db' = disk /\ disk' = disk /\ torn' = torn /\ pc' = "idle"
    BY <1>2 DEF Close, Crash, Reset
  <2> QED
    BY <2>1, <1>i, <1>q DEF Owned
<1>3. CASE Begin
  <2>1. db' = db /\ disk' = disk /\ torn' = torn /\ pc' = "pass"
    BY <1>3 DEF Begin
  <2> QED
    BY <2>1, <1>i, <1>q DEF Owned
<1>4. CASE End
  <2>1. pc' \in {"idle", "event_attrs"}
    BY <1>4, <1>n, EndFacts
  <2>2. CASE ~inTxn
    <3>1. db' = db /\ disk' = disk /\ torn' = torn
      BY <1>4, <1>n, <2>2, EndFacts DEF sqlite
    <3> QED
      BY <3>1, <2>1, <1>i, <1>q DEF Owned
  <2>3. CASE inTxn
    <3>1. ExecCommit
      BY <1>4, <1>n, <2>3, EndFacts
    <3>2. db' \in {db, disk} /\ disk' \in {db, disk} /\ torn \subseteq torn'
      BY <3>1, CommitFacts
    <3>3. Owned(disk, torn)' /\ Owned(db, torn)'
      BY <3>2, <1>i, OwnedMoreLost
    <3> QED
      BY <3>3, <2>1, <1>q
  <2> QED
    BY <2>2, <2>3
<1>5. ASSUME NEW s \in Shapes, InsertSpan(s)
      PROVE  Owned(disk, torn)' /\ Owned(db, torn)' /\ StageInv'
  <2>1. pc = "pass" /\ shown' = shown + 1
    BY <1>5, InsertSpanFacts
  <2>2. CASE ~inTxn
    <3>1. db' = db /\ disk' = disk /\ torn' = torn /\ pc' = "pass"
      BY <1>5, <2>1, <2>2, InsertSpanFacts DEF sqlite
    <3> QED
      BY <3>1, <1>i, <1>q DEF Owned
  <2>3. CASE inTxn
    <3>1. PICK result \in Results :
               /\ Exec(result, WithSpan)
               /\ result = "ok" => curSpan' = NextId(db.spans) /\ GoOn(RowsOf(s))
               /\ result # "ok" => UNCHANGED <<curSpan, todo, pc>>
      BY <1>5, <2>3, InsertSpanFacts
    <3>3. /\ [id |-> NextId(db.spans), of |-> shown + 1] \in WithSpan.spans
          /\ db.spans \subseteq WithSpan.spans
          /\ WithSpan.attrs = db.attrs /\ WithSpan.events = db.events
          /\ WithSpan.eventAttrs = db.eventAttrs
      BY <1>t, SpanAdded, Types DEF WithSpan
    <3>4. Owned(WithSpan, torn)
      BY <3>3, <1>i, OwnedMoreSpans
    <3>5. Owned(disk, torn)' /\ Owned(db, torn)'
      BY <3>1, <3>4, <1>i, ExecOwned
    <3>6. CASE result = "ok"
      <4>1. db' = WithSpan /\ curSpan' = NextId(db.spans)
        BY <3>1, <3>6, ExecFacts
      <4>2. todo' = RowsOf(s) /\ pc' \in {"pass", "rows"}
        BY <3>1, <3>6, RestTyped, GoOnFacts
      <4>3. ~ (todo'.eventAttrs > 0)
        BY <4>2 DEF RowsOf, Done
      <4> QED
        BY <2>1, <3>3, <3>5, <4>1, <4>2, <4>3, <1>r
    <3>7. CASE result # "ok"
      BY <2>1, <3>1, <3>5, <3>7, <1>q
    <3> QED
      BY <3>6, <3>7
  <2> QED
    BY <2>2, <2>3
<1>6. CASE InsertAttr
  <2>1. PICK result \in Results : Exec(result, WithAttr)
    BY <1>6, InsertAttrFacts
  <2>2. pc = "rows"
    BY <1>6, InsertAttrFacts
  <2>3. shown \notin torn =>
           /\ [id |-> curSpan, of |-> shown] \in db.spans
           /\ todo.eventAttrs > 0 =>
                 \E e \in db.events : e.id = curEvent /\ e.of = <<shown, todo.j>>
    BY <2>2, <1>i DEF StageInv
  <2>4. /\ WithAttr.spans = db.spans /\ WithAttr.events = db.events
        /\ WithAttr.eventAttrs = db.eventAttrs
        /\ WithAttr.attrs = db.attrs \cup {[span |-> curSpan, of |-> shown, k |-> todo.attrs]}
    BY <1>t, AttrAdded, Types DEF WithAttr
  <2>5. Owned(WithAttr, torn)
    <3> PICK row : row = [span |-> curSpan, of |-> shown, k |-> todo.attrs]
      OBVIOUS
    <3>1. row.of \in torn \/ \E s \in db.spans : s.id = row.span /\ s.of = row.of
      BY <2>3
    <3> QED
      BY <3>1, <2>4, <1>i, OwnedMoreAttrs
  <2>6. Owned(disk, torn)' /\ Owned(db, torn)'
    BY <2>1, <2>5, <1>i, ExecOwned
  <2>7. /\ torn \subseteq torn'
        /\ shown \notin torn' => db'.spans = db.spans /\ db'.events = db.events
    BY <2>1, <2>2, <2>4, ExecFacts
  <2>8. todo' = [todo EXCEPT !.attrs = @ - 1] /\ pc' \in {"pass", "rows"}
    BY <1>6, RestTyped, InsertAttrFacts, GoOnFacts
  <2>9. todo'.eventAttrs = todo.eventAttrs /\ todo'.j = todo.j
    BY <2>8, <1>n DEF TypeInv, Todos
  <2>10. UNCHANGED <<curSpan, curEvent, shown>>
    BY <1>6, InsertAttrFacts
  <2> QED
    BY <2>3, <2>6, <2>7, <2>8, <2>9, <2>10, <1>r
<1>7. CASE InsertEventAttr
  <2>1. PICK result \in Results : Exec(result, WithEventAttr)
    BY <1>7, InsertEventAttrFacts
  <2>2. pc = "rows" /\ todo.eventAttrs > 0
    BY <1>7, InsertEventAttrFacts
  <2>3. shown \notin torn =>
           /\ [id |-> curSpan, of |-> shown] \in db.spans
           /\ \E e \in db.events : e.id = curEvent /\ e.of = <<shown, todo.j>>
    BY <2>2, <1>i DEF StageInv
  <2> PICK row : row = [event |-> curEvent, of |-> <<shown, todo.j>>, k |-> todo.eventAttrs]
    OBVIOUS
  <2>4. /\ WithEventAttr.spans = db.spans /\ WithEventAttr.events = db.events
        /\ WithEventAttr.attrs = db.attrs
        /\ WithEventAttr.eventAttrs = db.eventAttrs \cup {row}
    BY <1>t, EventAttrAdded, Types DEF WithEventAttr
  <2>5. Owned(WithEventAttr, torn)
    <3>1. row.of[1] \in torn \/ \E e \in db.events : e.id = row.event /\ e.of = row.of
      BY <2>3
    <3> QED
      BY <3>1, <2>4, <1>i, OwnedMoreEventAttrs
  <2>6. Owned(disk, torn)' /\ Owned(db, torn)'
    BY <2>1, <2>5, <1>i, ExecOwned
  <2>7. /\ torn \subseteq torn'
        /\ shown \notin torn' => db'.spans = db.spans /\ db'.events = db.events
    BY <2>1, <2>2, <2>4, ExecFacts
  <2>8. todo' = [todo EXCEPT !.eventAttrs = @ - 1] /\ pc' \in {"pass", "rows"}
    BY <1>7, RestTyped, InsertEventAttrFacts, GoOnFacts
  <2>9. todo'.j = todo.j
    BY <2>8, <1>n DEF TypeInv, Todos
  <2>10. UNCHANGED <<curSpan, curEvent, shown>>
    BY <1>7, InsertEventAttrFacts
  <2> QED
    BY <2>3, <2>6, <2>7, <2>8, <2>9, <2>10, <1>r
<1>8. CASE InsertEvent
  <2>1. PICK result \in Results :
               /\ Exec(result, WithEvent)
               /\ curEvent' = IF result = "ok" THEN NextId(db.events) ELSE curEvent
               /\ GoOn(AfterEvent(result = "ok"))
    BY <1>8, InsertEventFacts
  <2>2. pc = "rows" /\ todo.events # <<>> /\ UNCHANGED <<curSpan, shown>>
    BY <1>8, InsertEventFacts
  <2>3. shown \notin torn => [id |-> curSpan, of |-> shown] \in db.spans
    BY <2>2, <1>i DEF StageInv
  <2>4. /\ WithEvent.spans = db.spans /\ WithEvent.attrs = db.attrs
        /\ WithEvent.eventAttrs = db.eventAttrs
        /\ WithEvent.events = db.events \cup {EventRow}
    BY <1>t, EventAdded, Types DEF WithEvent, EventRow
  <2>5. Owned(WithEvent, torn)
    <3>1. EventRow.of[1] \in torn \/
             \E s \in db.spans : s.id = EventRow.span /\ s.of = EventRow.of[1]
      BY <2>3 DEF EventRow
    <3> QED
      BY <3>1, <2>4, <1>i, OwnedMoreEvents
  <2>6. Owned(disk, torn)' /\ Owned(db, torn)'
    BY <2>1, <2>5, <1>i, ExecOwned
  <2>7. todo' = AfterEvent(result = "ok") /\ pc' \in {"pass", "rows"}
    <3>1. (result = "ok") \in BOOLEAN
      BY Zenon
    <3>2. AfterEvent(result = "ok") \in Todos
      BY <3>1, <2>2, RestTyped, Zenon DEF AfterEvent
    <3> QED
      BY <3>2, <2>1, GoOnFacts
  <2>8. torn \subseteq torn' /\ (shown \notin torn' => db'.spans = db.spans)
    BY <2>1, <2>2, <2>4, ExecFacts
  <2>9. CASE result = "ok"
    <3>1. db'.events = db.events \cup {EventRow} /\ curEvent' = NextId(db.events)
      BY <2>1, <2>4, <2>9, ExecFacts
    <3>2. todo'.j = todo.j + 1
      BY <2>7 DEF AfterEvent
    <3>3. EventRow.id = curEvent' /\ EventRow.of = <<shown', todo'.j>>
      BY <3>1, <3>2, <2>2 DEF EventRow
    <3> QED
      BY <2>2, <2>3, <2>6, <2>7, <2>8, <3>1, <3>3, <1>r
  <2>10. CASE result # "ok"
    <3>1. todo'.eventAttrs = 0
      BY <2>7, <2>10 DEF AfterEvent, AttrsAfter
    <3> QED
      BY <2>2, <2>3, <2>6, <2>7, <2>8, <3>1, <1>r
  <2> QED
    BY <2>9, <2>10
<1>9. CASE Prune
  <2>0. pc \in PruneLabels /\ cutoff' = cutoff
    BY <1>9, PruneFacts
  <2>1. PICK result \in Results :
               /\ Exec(result, Pruned(pc))
               /\ result # "ok" => pc' = "idle"
               /\ result = "ok" => pc' = PruneNext(pc)
    BY <1>9, PruneFacts
  <2> PICK new : new = Pruned(pc)
    OBVIOUS
  <2>3. /\ Owned(new, torn)
        /\ pc = "event_attrs" =>
               \A a \in new.eventAttrs : \A e \in new.events :
                   e.id = a.event => e.span > cutoff
        /\ pc = "attrs" =>
               /\ new.eventAttrs = db.eventAttrs /\ new.events = db.events
               /\ \A a \in new.attrs : a.span > cutoff
        /\ pc = "events" =>
               /\ new.eventAttrs = db.eventAttrs /\ new.attrs = db.attrs
               /\ new.events \subseteq db.events
               /\ \A e \in new.events : e.span > cutoff
    BY <2>0, <1>i, PrunedOwned
  <2>4. Owned(disk, torn)' /\ Owned(db, torn)'
    BY <2>1, <2>3, <1>i, ExecOwned
  <2>5. CASE result # "ok"
    BY <2>1, <2>4, <2>5, <1>q
  <2>6. CASE result = "ok"
    <3>1. db' = new /\ pc' = PruneNext(pc)
      BY <2>1, <2>6, ExecFacts
    <3>2. StageInv
      BY <1>i
    <3>3. CASE pc = "event_attrs"
      <4>1. pc' = "attrs"
        BY <3>1, <3>3, PruneNextIs
      <4> QED
        BY <4>1, <3>1, <3>3, <2>0, <2>3, <2>4 DEF StageInv
    <3>4. CASE pc = "attrs"
      <4>1. pc' = "events"
        BY <3>1, <3>4, PruneNextIs
      <4> QED
        BY <4>1, <3>1, <3>2, <3>4, <2>0, <2>3, <2>4 DEF StageInv
    <3>5. CASE pc = "events"
      <4>1. pc' = "spans"
        BY <3>1, <3>5, PruneNextIs
      <4> QED
        BY <4>1, <3>1, <3>2, <3>5, <2>0, <2>3, <2>4 DEF StageInv
    <3>6. CASE pc = "spans"
      BY <3>1, <3>6, <2>4, <1>q, PruneNextIs
    <3> QED
      BY <2>0, <3>3, <3>4, <3>5, <3>6 DEF PruneLabels
  <2> QED
    BY <2>5, <2>6
<1> QED
  BY <1>1, <1>2, <1>3, <1>4, <1>5, <1>6, <1>7, <1>8, <1>9 DEF Next, Pass

LEMMA InitInv == Init => TypeInv /\ StoreInv /\ TxnInv /\ OwnInv
<1> SUFFICES ASSUME Init PROVE TypeInv /\ StoreInv /\ TxnInv /\ OwnInv
  OBVIOUS
<1>1. /\ disk = Empty /\ db = Empty /\ txn = FALSE /\ torn = {}
      /\ open = FALSE /\ inTxn = FALSE /\ commits = 0 /\ maxSpans = 0
      /\ pc = "idle" /\ curSpan = 0 /\ curEvent = 0 /\ todo = Done /\ cutoff = 0
      /\ shown = 0 /\ fresh = 1 /\ listed = {}
  BY DEF Init
<1>2. TypeInv
  <2>1. Done \in Todos
    BY DEF Done, Todos
  <2>2. MaxShown \in Nat
    BY StoreAssumption
  <2>3. 0 \in 0..MaxShown /\ {} \subseteq SpanRows
    BY <2>2
  <2>4. {txn, open, inTxn} \subseteq BOOLEAN /\ torn \subseteq Nat
    BY <1>1
  <2> QED
    BY <1>1, <2>1, <2>3, <2>4 DEF TypeInv
<1>3. WellFormed(Empty, 0)
  <2>1. Empty \in Databases
    BY DEF Empty, Databases
  <2>2. Empty.spans = {} /\ Empty.attrs = {} /\ Empty.events = {} /\ Empty.eventAttrs = {}
    BY DEF Empty
  <2>3. Consecutive({}) /\ Bounded({}) /\ Unique({})
    BY FS_EmptySet DEF Consecutive, Bounded, Unique
  <2> QED
    BY <2>1, <2>2, <2>3 DEF WellFormed, Past
<1>4. StoreInv
  BY <1>1, <1>3 DEF StoreInv
<1>5. TxnInv
  BY <1>1 DEF TxnInv, PruneLabels
<1>6. OwnInv
  BY <1>1 DEF OwnInv, Owned, StageInv, Empty
<1> QED
  BY <1>2, <1>4, <1>5, <1>6

\* Both views of the database keep their tables in form, and the flag, the
\* transaction and the point of the pass fit together, whatever fails.
THEOREM StoreCorrect == Spec => [](TypeInv /\ StoreInv /\ TxnInv /\ OwnInv)
<1>1. Init => TypeInv /\ StoreInv /\ TxnInv /\ OwnInv
  BY InitInv
<1>2. TypeInv /\ StoreInv /\ TxnInv /\ OwnInv /\ [Next]_vars
      => TypeInv' /\ StoreInv' /\ TxnInv' /\ OwnInv'
  BY TypeStep, StoreStep, TxnStep, OwnStep
<1> QED
  BY <1>1, <1>2, PTL DEF Spec

\* A row of attributes or events always has its owner in the file, the span or
\* event it was written for, or is a row of a span between whose rows SQLite rolled
\* back: whatever statements fail or roll back and whenever otel_sqlite.c dies, and
\* for every cap, one that wraps included.
THEOREM RowsAlwaysOwned == Spec => []RowsOwned
<1>1. OwnInv => RowsOwned
  BY DEF OwnInv, Owned, RowsOwned
<1> QED
  BY <1>1, StoreCorrect, PTL

-----------------------------------------------------------------------------
(* One pass is one transaction.                                            *)

LEMMA FreshStep ==
  ASSUME TypeInv, StoreInv, TxnInv, FreshInv, [Next]_vars
  PROVE  FreshInv'
<1> SUFFICES ASSUME inTxn' => txn', pc' \in {"pass", "rows"}
             PROVE  fresh' <= shown' + 1 /\ Past(disk, fresh - 1)'
  BY DEF FreshInv
<1>t. shown \in Nat /\ fresh \in Nat /\ txn \in BOOLEAN /\ inTxn \in BOOLEAN
  BY Types
<1>p. "idle" \notin {"pass", "rows"} /\ \A x \in PruneLabels : x \notin {"pass", "rows"}
  BY DEF PruneLabels
<1>u. ASSUME disk' = disk, fresh' = fresh, shown' \in {shown, shown + 1}, inTxn => txn,
             pc \in {"pass", "rows"}
      PROVE  fresh' <= shown' + 1 /\ Past(disk, fresh - 1)'
  <2>1. fresh <= shown + 1 /\ Past(disk, fresh - 1)
    BY <1>u DEF FreshInv
  <2>2. Past(disk, fresh - 1)'
    BY <2>1, <1>u DEF Past
  <2>3. fresh' <= shown' + 1
    <3>1. fresh <= shown + 1 /\ fresh <= (shown + 1) + 1
      BY <2>1, <1>t
    <3> QED
      BY <3>1, <1>u
  <2> QED
    BY <2>2, <2>3
\* An insert inside a transaction that SQLite keeps open leaves the file alone.
<1>x. ASSUME inTxn, inTxn' = inTxn, NEW result \in Results, NEW new, Exec(result, new)
      PROVE  disk' = disk /\ txn
  <2>1. txn
    BY <1>x, ExecFacts
  <2> QED
    BY <2>1, <1>x, ExecFacts
<1>1. CASE Open \/ List \/ SetMaxSpans \/ UNCHANGED vars
  BY <1>1, <1>u DEF Open, List, SetMaxSpans, vars, sqlite
<1>2. CASE Close \/ Crash
  BY <1>2, <1>p DEF Close, Crash, Reset
<1>3. CASE Begin
  <2>1. fresh' = shown + 1 /\ shown' = shown /\ disk' = disk
    BY <1>3 DEF Begin
  <2>2. Past(disk, shown)
    BY DEF StoreInv, WellFormed
  <2>3. fresh' - 1 = shown
    BY <2>1, <1>t
  <2>4. Past(disk, fresh - 1)'
    BY <2>1, <2>2, <2>3 DEF Past
  <2> QED
    BY <2>1, <2>4, <1>t
<1>4. CASE End
  <2>1. StoreInv'
    BY StoreStep
  <2> QED
    BY <1>4, <2>1, <1>p, EndFacts
<1>5. ASSUME NEW s \in Shapes, InsertSpan(s)
      PROVE  fresh' <= shown' + 1 /\ Past(disk, fresh - 1)'
  <2>1. pc = "pass" /\ shown' = shown + 1 /\ fresh' = fresh /\ inTxn' = inTxn
    BY <1>5, InsertSpanFacts
  <2>2. disk' = disk /\ (inTxn => txn)
    <3>1. CASE ~inTxn
      BY <1>5, <3>1, InsertSpanFacts DEF sqlite
    <3>2. CASE inTxn
      <4>1. PICK result \in Results : Exec(result, WithSpan)
        BY <1>5, <3>2, InsertSpanFacts
      <4> QED
        BY <4>1, <3>2, <2>1, <1>x
    <3> QED
      BY <3>1, <3>2
  <2> QED
    BY <2>1, <2>2, <1>u
<1>6. CASE InsertAttr
  <2>1. PICK result \in Results : Exec(result, WithAttr)
    BY <1>6, InsertAttrFacts
  <2>2. pc = "rows" /\ UNCHANGED <<shown, fresh, inTxn>>
    BY <1>6, InsertAttrFacts
  <2> QED
    BY <2>1, <2>2, <1>x, <1>u DEF TxnInv
<1>7. CASE InsertEventAttr
  <2>1. PICK result \in Results : Exec(result, WithEventAttr)
    BY <1>7, InsertEventAttrFacts
  <2>2. pc = "rows" /\ UNCHANGED <<shown, fresh, inTxn>>
    BY <1>7, InsertEventAttrFacts
  <2> QED
    BY <2>1, <2>2, <1>x, <1>u DEF TxnInv
<1>8. CASE InsertEvent
  <2>1. PICK result \in Results : Exec(result, WithEvent)
    BY <1>8, InsertEventFacts
  <2>2. pc = "rows" /\ UNCHANGED <<shown, fresh, inTxn>>
    BY <1>8, InsertEventFacts
  <2> QED
    BY <2>1, <2>2, <1>x, <1>u DEF TxnInv
<1>9. CASE Prune
  <2>1. pc' \in {"idle"} \cup PruneLabels
    BY <1>9, PruneFacts, PruneNextIs DEF PruneLabels
  <2> QED
    BY <2>1, <1>p
<1> QED
  BY <1>1, <1>2, <1>3, <1>4, <1>5, <1>6, <1>7, <1>8, <1>9 DEF Next, Pass

\* While a pass runs the file holds none of its rows: what otel_sqlite_begin
\* opens and otel_sqlite_end commits is one transaction, for every number and
\* shape of spans, whichever statements are refused, whatever happened to the
\* passes before, and up to the statement, if any, at which SQLite rolls this
\* pass back.
THEOREM DrainsAtomic == Spec => []DrainAtomic
<1>1. Init => FreshInv
  BY DEF Init, FreshInv
<1>2. TypeInv /\ StoreInv /\ TxnInv /\ FreshInv /\ [Next]_vars => FreshInv'
  BY FreshStep
<1>3. TypeInv /\ StoreInv /\ FreshInv => DrainAtomic
  <2> SUFFICES ASSUME TypeInv, StoreInv, FreshInv, inTxn => txn, pc \in {"pass", "rows"}
               PROVE  /\ \A s \in disk.spans : s.of < fresh
                      /\ \A a \in disk.attrs : a.of < fresh
                      /\ \A e \in disk.events : e.of[1] < fresh
                      /\ \A a \in disk.eventAttrs : a.of[1] < fresh
    BY DEF DrainAtomic
  <2>1. Past(disk, fresh - 1) /\ fresh \in Nat /\ disk \in Databases
    BY DEF FreshInv, TypeInv, StoreInv, WellFormed
  <2>2. /\ \A r \in disk.spans : r.of \in Nat
        /\ \A r \in disk.attrs : r.of \in Nat
        /\ \A r \in disk.events : r.of[1] \in Nat
        /\ \A r \in disk.eventAttrs : r.of[1] \in Nat
    BY <2>1, DatabaseFields DEF SpanRows, AttrRows, EventRows, EventAttrRows
  <2> QED
    BY <2>1, <2>2 DEF Past
<1>4. Spec => []FreshInv
  BY <1>1, <1>2, StoreCorrect, PTL DEF Spec
<1> QED
  BY <1>3, <1>4, StoreCorrect, PTL

-----------------------------------------------------------------------------
(* The log of spans.  From here on the cap survives its conversion to      *)
(* sqlite3_int64; one that does not makes otel_sqlite_prune's cutoff exceed *)
(* every id, and retention empties the store.                              *)

\* A statement on the table of spans makes the file no older.
LEMMA ExecLog ==
  ASSUME TypeInv, StoreInv, TxnInv, LogInv, listed' = listed,
         NEW new, new.spans \in SUBSET SpanRows, Newer(db.spans, new.spans),
         NEW result \in Results, Exec(result, new)
  PROVE  LogInv'
<1>t. /\ listed \in SUBSET SpanRows /\ db.spans \in SUBSET SpanRows
      /\ disk.spans \in SUBSET SpanRows
  BY DEF TypeInv, StoreInv, WellFormed, Databases
<1>i. Newer(listed, disk.spans) /\ Newer(disk.spans, db.spans)
  BY DEF LogInv
<1>g. ASSUME NEW A, NEW B, A = disk'.spans, B = db'.spans, Newer(listed, A), Newer(A, B)
      PROVE  LogInv'
  BY <1>g DEF LogInv
<1>1. CASE result = "ok"
  <2>1. db' = new /\ disk' = IF txn THEN disk ELSE new
    BY <1>1, ExecFacts
  <2>2. Newer(disk.spans, new.spans)
    BY <1>i, <1>t, NewerTransitive
  <2>3. Newer(listed, new.spans)
    BY <2>2, <1>i, <1>t, NewerTransitive
  <2>4. Newer(new.spans, new.spans)
    BY NewerReflexive
  <2> QED
    BY <2>1, <2>2, <2>3, <2>4, <1>i, <1>g
<1>2. CASE result # "ok"
  <2>1. db' \in {db, disk} /\ disk' = disk
    BY <1>2, ExecFacts
  <2>2. Newer(disk.spans, disk.spans)
    BY NewerReflexive
  <2> QED
    BY <2>1, <2>2, <1>i, <1>g
<1> QED
  BY <1>1, <1>2

\* What otel_sqlite_prune's last DELETE leaves, and when there is anything.
LEMMA PruneSpans ==
  ASSUME Signed(Cap) = Cap, TypeInv, StoreInv, TxnInv, pc = "spans"
  PROVE  /\ cutoff \in Nat /\ cutoff = MaxId(db.spans) - Cap
         /\ Pruned(pc).spans = {s \in db.spans : s.id > cutoff}
         /\ Newer(db.spans, Pruned(pc).spans)
         /\ Pruned(pc).spans # {}
<1>1. cutoff \in Nat /\ cutoff = MaxId(db.spans) - Cap
  BY DEF TypeInv, TxnInv, PruneLabels, Cutoff
<1>2. db.spans \in SUBSET SpanRows /\ Consecutive(db.spans)
  BY DEF StoreInv, WellFormed, Databases
<1>3. Pruned(pc).spans = {s \in db.spans : s.id > cutoff}
  BY PrunedWellFormed DEF PruneLabels
<1>4. Newer(db.spans, {s \in db.spans : s.id > cutoff})
  BY <1>1, <1>2, RetainedRows, CapFacts
<1> PICK m : m = MaxId(db.spans)
  OBVIOUS
<1>5. m \in Nat /\ (db.spans # {} => \E r \in db.spans : r.id = m)
  BY <1>2, MaxIdFacts DEF SpanRows, Consecutive
<1>6. db.spans # {}
  BY <1>1, <1>5, CapFacts DEF MaxId
<1>7. PICK r \in db.spans : r.id = m
  BY <1>5, <1>6
<1>8. r.id > cutoff
  BY <1>1, <1>5, <1>7, CapFacts
<1> QED
  BY <1>1, <1>3, <1>4, <1>7, <1>8

LEMMA LogStep ==
  ASSUME Signed(Cap) = Cap, TypeInv, StoreInv, TxnInv, LogInv, [Next]_vars
  PROVE  LogInv'
<1>t. /\ listed \in SUBSET SpanRows /\ db.spans \in SUBSET SpanRows
      /\ disk.spans \in SUBSET SpanRows /\ WellFormed(db, shown) /\ db \in Databases
  BY DEF TypeInv, StoreInv, WellFormed, Databases
<1>i. Newer(listed, disk.spans) /\ Newer(disk.spans, db.spans)
  BY DEF LogInv
<1>r. \A A : Newer(A, A)
  BY NewerReflexive
<1>g. ASSUME NEW L, NEW A, NEW B, L = listed', A = disk'.spans, B = db'.spans,
             Newer(L, A), Newer(A, B)
      PROVE  LogInv'
  BY <1>g DEF LogInv
\* A statement that does not concern the table of spans.
<1>x. ASSUME listed' = listed, NEW new, new.spans = db.spans,
             NEW result \in Results, Exec(result, new)
      PROVE  LogInv'
  BY <1>x, <1>t, <1>r, ExecLog
<1>1. CASE Open \/ SetMaxSpans \/ UNCHANGED vars
  BY <1>1, <1>i, <1>g DEF Open, SetMaxSpans, vars, sqlite
<1>2. CASE List
  BY <1>2, <1>i, <1>r, <1>g DEF List, sqlite
<1>3. CASE Close \/ Crash
  <2>1. listed' = listed /\ disk' = disk /\ db' = disk
    BY <1>3 DEF Close, Crash, Reset
  <2> QED
    BY <2>1, <1>i, <1>r, <1>g
<1>4. CASE Begin
  BY <1>4, <1>i, <1>g DEF Begin
<1>5. CASE End
  <2>0. listed' = listed
    BY <1>5 DEF End
  <2>1. CASE ~inTxn
    BY <1>5, <2>0, <2>1, <1>i, <1>g DEF End, sqlite
  <2>2. CASE inTxn
    <3>1. /\ db' \in {db, disk} /\ disk' \in {db, disk}
          /\ disk' = db => db' = db
      BY <1>5, <2>2, CommitFacts DEF End
    <3>2. Newer(listed, db.spans)
      BY <1>i, <1>t, NewerTransitive
    <3> QED
      BY <2>0, <3>1, <3>2, <1>i, <1>r, <1>g
  <2> QED
    BY <2>1, <2>2
<1>6. ASSUME NEW s \in Shapes, InsertSpan(s)
      PROVE  LogInv'
  <2>0. listed' = listed
    BY <1>6, InsertSpanFacts
  <2>1. CASE ~inTxn
    BY <1>6, <2>0, <2>1, <1>i, <1>g, InsertSpanFacts DEF sqlite
  <2>2. CASE inTxn
    <3>1. PICK result \in Results : Exec(result, WithSpan)
      BY <1>6, <2>2, InsertSpanFacts
    <3>2. Newer(db.spans, WithSpan.spans) /\ WellFormed(WithSpan, shown + 1)
      BY <1>t, SpanAdded, Types DEF WithSpan
    <3>3. WithSpan.spans \in SUBSET SpanRows
      BY <3>2 DEF WellFormed, Databases
    <3> QED
      BY <2>0, <3>1, <3>2, <3>3, ExecLog
  <2> QED
    BY <2>1, <2>2
<1>7. CASE InsertAttr
  <2>1. PICK result \in Results : Exec(result, WithAttr)
    BY <1>7, InsertAttrFacts
  <2>2. WithAttr.spans = db.spans
    BY <1>t DEF WithAttr, Databases
  <2> QED
    BY <1>7, <2>1, <2>2, <1>x, InsertAttrFacts
<1>8. CASE InsertEventAttr
  <2>1. PICK result \in Results : Exec(result, WithEventAttr)
    BY <1>8, InsertEventAttrFacts
  <2>2. WithEventAttr.spans = db.spans
    BY <1>t DEF WithEventAttr, Databases
  <2> QED
    BY <1>8, <2>1, <2>2, <1>x, InsertEventAttrFacts
<1>9. CASE InsertEvent
  <2>1. PICK result \in Results : Exec(result, WithEvent)
    BY <1>9, InsertEventFacts
  <2>2. WithEvent.spans = db.spans
    BY <1>t DEF WithEvent, Databases
  <2>3. listed' = listed
    BY <1>9, InsertEventFacts
  <2> QED
    BY <2>1, <2>2, <2>3, <1>x
<1>10. CASE Prune
  <2>1. PICK result \in Results : Exec(result, Pruned(pc))
    BY <1>10, PruneFacts
  <2>2. listed' = listed /\ pc \in PruneLabels
    BY <1>10, PruneFacts
  <2>3. CASE pc # "spans"
    <3>1. Pruned(pc).spans = db.spans
      BY <2>2, <2>3, PrunedWellFormed
    <3> QED
      BY <2>1, <2>2, <3>1, <1>x
  <2>4. CASE pc = "spans"
    <3>1. Newer(db.spans, Pruned(pc).spans)
      BY <2>4, PruneSpans
    <3>2. Pruned(pc).spans \in SUBSET SpanRows
      BY <2>2, <1>t, PrunedWellFormed
    <3> QED
      BY <2>1, <2>2, <3>1, <3>2, ExecLog
  <2> QED
    BY <2>3, <2>4
<1> QED
  BY <1>1, <1>2, <1>3, <1>4, <1>5, <1>6, <1>7, <1>8, <1>9, <1>10 DEF Next, Pass

\* Rows that carry each id of a range once are as many as the range has ids.
LEMMA CountByIds ==
  ASSUME NEW rows, Unique(rows), NEW lo \in Int, NEW hi \in Int, lo <= hi + 1,
         \A r \in rows : r.id \in lo..hi,
         \A i \in lo..hi : \E r \in rows : r.id = i
  PROVE  IsFiniteSet(rows) /\ Cardinality(rows) = hi - lo + 1
<1> DEFINE f == [i \in lo..hi |-> CHOOSE r \in rows : r.id = i]
<1>1. \A i \in lo..hi : f[i] \in rows /\ f[i].id = i
  OBVIOUS
<1>2. \A r \in rows : f[r.id] = r
  BY <1>1 DEF Unique
<1> HIDE DEF f
<1>3. f \in [lo..hi -> rows]
  BY <1>1 DEF f
<1>4. f \in Bijection(lo..hi, rows)
  <2>1. \A i, j \in lo..hi : f[i] = f[j] => i = j
    BY <1>1
  <2>2. f \in Injection(lo..hi, rows)
    BY <1>3, <2>1 DEF Injection, IsInjective
  <2>3. \A r \in rows : \E i \in lo..hi : f[i] = r
    BY <1>2
  <2>4. f \in Surjection(lo..hi, rows)
    BY <1>3, <2>3 DEF Surjection
  <2> QED
    BY <2>2, <2>4 DEF Bijection
<1>5. ExistsBijection(lo..hi, rows)
  BY <1>4 DEF ExistsBijection
<1>6. IsFiniteSet(lo..hi) /\ Cardinality(lo..hi) = hi - lo + 1
  BY FS_Interval
<1> QED
  BY <1>5, <1>6, FS_Bijection

\* The ids of a table of spans are a range.
LEMMA IdRange ==
  ASSUME NEW rows \in SUBSET SpanRows, Consecutive(rows), rows # {}
  PROVE  \E lo, hi \in Nat \ {0} :
            /\ lo <= hi
            /\ \A r \in rows : r.id \in lo..hi
            /\ \A i \in lo..hi : \E r \in rows : r.id = i
<1>1. \A r \in rows : r.id \in Nat \ {0}
  BY DEF SpanRows
<1>2. Bounded(rows)
  BY DEF Consecutive
<1> PICK hi : hi = MaxId(rows)
  OBVIOUS
<1>3. hi \in Nat /\ \A r \in rows : r.id <= hi
  BY <1>1, <1>2, MaxIdFacts
<1>4. PICK s \in rows : s.id = hi
  BY <1>1, <1>2, MaxIdFacts
<1>5. PICK lo \in {r.id : r \in rows} : \A i \in {r.id : r \in rows} : lo <= i
  <2>1. {r.id : r \in rows} \subseteq Nat /\ {r.id : r \in rows} # {}
    BY <1>1
  <2> QED
    BY <2>1, LeastNatural
<1>6. PICK r \in rows : r.id = lo
  BY <1>5
<1>7. \A t \in rows : t.id \in lo..hi
  BY <1>1, <1>3, <1>5
<1>8. \A i \in lo..hi : \E t \in rows : t.id = i
  BY <1>4, <1>6 DEF Consecutive
<1>9. lo \in Nat \ {0} /\ hi \in Nat \ {0} /\ lo <= hi
  BY <1>1, <1>3, <1>4, <1>6
<1> QED
  BY <1>7, <1>8, <1>9

LEMMA FullCount ==
  ASSUME NEW rows \in SUBSET SpanRows, Consecutive(rows), Full(rows)
  PROVE  Cardinality(rows) \in Nat /\ Cardinality(rows) >= Cap
<1>1. PICK r \in rows, s \in rows : s.id - r.id >= Cap - 1
  BY DEF Full
<1>2. PICK lo \in Nat \ {0}, hi \in Nat \ {0} :
         /\ lo <= hi
         /\ \A t \in rows : t.id \in lo..hi
         /\ \A i \in lo..hi : \E t \in rows : t.id = i
  BY <1>1, IdRange
<1>3. Unique(rows)
  BY DEF Consecutive
<1>4. Cardinality(rows) = hi - lo + 1
  BY <1>2, <1>3, CountByIds
<1>5. r.id \in lo..hi /\ s.id \in lo..hi
  BY <1>2
<1> QED
  BY <1>1, <1>2, <1>4, <1>5, CapFacts

\* Once listed, a span keeps its id, and a missing one went by retention.
THEOREM LogCorrect ==
  ASSUME Signed(Cap) = Cap
  PROVE  Spec => []LogInv
<1>1. Init => LogInv
  BY DEF Init, LogInv, Newer, Empty
<1>2. TypeInv /\ StoreInv /\ TxnInv /\ LogInv /\ [Next]_vars => LogInv'
  BY LogStep
<1> QED
  BY <1>1, <1>2, StoreCorrect, PTL DEF Spec

\* However late otel-trace show reads the attributes and events of a span it
\* has listed, it reads that span's, or those of one between whose rows SQLite
\* rolled back: for every number of spans and passes.
\* Assumes that the cap fits sqlite3_int64; else ids are given out twice.
THEOREM ShowReadsOwn ==
  ASSUME Signed(Cap) = Cap
  PROVE  Spec => []ShowReadsOwnRows
<1>1. TypeInv /\ StoreInv /\ OwnInv /\ LogInv => ShowReadsOwnRows
  <2> SUFFICES ASSUME TypeInv, StoreInv, OwnInv, LogInv, NEW row \in listed
               PROVE  /\ \A a \in ShownAttrs(row) : a.of \in torn \cup {row.of}
                      /\ \A e \in ShownEvents(row) :
                            /\ e.of[1] \in torn \cup {row.of}
                            /\ \A a \in ShownEventAttrs(e) :
                                   a.of = e.of \/ a.of[1] \in torn
    BY DEF ShowReadsOwnRows
  <2>1. Owned(disk, torn) /\ Newer(listed, disk.spans)
    BY DEF OwnInv, LogInv
  <2>2. Unique(disk.spans) /\ Unique(disk.events) /\ disk.spans \in SUBSET SpanRows
    BY DEF StoreInv, WellFormed, Consecutive, Databases
  <2>3. ASSUME NEW s \in disk.spans, s.id = row.id
        PROVE  s = row
    <3>1. row \in disk.spans \/ row.id < s.id
      BY <2>1 DEF Newer
    <3>2. ~ (row.id < s.id)
      BY <2>2, <2>3 DEF SpanRows
    <3> QED
      BY <3>1, <3>2, <2>2, <2>3 DEF Unique
  <2>4. \A a \in ShownAttrs(row) : a.of \in torn \cup {row.of}
    BY <2>1, <2>3 DEF ShownAttrs, Owned
  <2>5. \A e \in ShownEvents(row) : e.of[1] \in torn \cup {row.of}
    BY <2>1, <2>3 DEF ShownEvents, Owned
  <2>6. ASSUME NEW e \in ShownEvents(row), NEW a \in ShownEventAttrs(e),
               a.of[1] \notin torn
        PROVE  a.of = e.of
    <3>1. e \in disk.events /\ a \in disk.eventAttrs /\ a.event = e.id
      BY <2>6 DEF ShownEvents, ShownEventAttrs
    <3>2. PICK f \in disk.events : f.id = a.event /\ f.of = a.of
      BY <3>1, <2>1, <2>6 DEF Owned
    <3> QED
      BY <3>1, <3>2, <2>2 DEF Unique
  <2> QED
    BY <2>4, <2>5, <2>6
<1> QED
  BY <1>1, StoreCorrect, LogCorrect, PTL

\* A span that a reader listed and no longer finds was removed by retention
\* with max_spans newer ones stored, whatever failed in between.
THEOREM RetentionKeeps ==
  ASSUME Signed(Cap) = Cap
  PROVE  Spec => []RetentionKeepsNewest
<1>1. TypeInv /\ StoreInv /\ LogInv => RetentionKeepsNewest
  <2> SUFFICES ASSUME TypeInv, StoreInv, LogInv, NEW row \in listed, row \notin disk.spans
               PROVE  Cardinality(disk.spans) >= maxSpans
    BY DEF RetentionKeepsNewest
  <2>1. Full(disk.spans)
    BY DEF LogInv, Newer
  <2>2. disk.spans \in SUBSET SpanRows /\ Consecutive(disk.spans)
    BY DEF StoreInv, WellFormed, Databases
  <2>3. Cardinality(disk.spans) \in Nat /\ Cardinality(disk.spans) >= Cap
    BY <2>1, <2>2, FullCount
  <2> QED
    BY <2>3, CapFacts DEF TypeInv
<1> QED
  BY <1>1, StoreCorrect, LogCorrect, PTL

-----------------------------------------------------------------------------
(* The file implements SpanLog.                                            *)

\* Stored, for any table of spans.
StoredOf(rows) ==
    [i \in 1..Cardinality(rows) |->
        (CHOOSE r \in rows : Cardinality({s \in rows : s.id <= r.id}) = i).of]

\* The ids of rows are lo..hi.
Spread(rows, lo, hi) ==
    /\ lo \in Nat \ {0} /\ hi \in Nat \ {0} /\ lo <= hi
    /\ \A r \in rows : r.id \in lo..hi
    /\ \A i \in lo..hi : \E r \in rows : r.id = i

LEMMA SameSequence ==
  ASSUME NEW S, NEW a \in Seq(S), NEW b \in Seq(S), Len(a) = Len(b),
         \A i \in 1..Len(a) : a[i] = b[i]
  PROVE  a = b
<1>1. a = [i \in 1..Len(a) |-> a[i]] /\ b = [i \in 1..Len(b) |-> b[i]]
  OBVIOUS
<1> QED
  BY <1>1

LEMMA SuffixFacts ==
  ASSUME NEW S, NEW a \in Seq(S), NEW k \in Nat, k <= Len(a)
  PROVE  /\ SubSeq(a, k + 1, Len(a)) \in Seq(S)
         /\ Len(SubSeq(a, k + 1, Len(a))) = Len(a) - k
         /\ \A i \in 1..Len(a) - k : SubSeq(a, k + 1, Len(a))[i] = a[k + i]
  OBVIOUS

\* The log lists the rows in the order of their ids.
LEMMA StoredFacts ==
  ASSUME NEW rows \in SUBSET SpanRows, Consecutive(rows), NEW lo, NEW hi,
         Spread(rows, lo, hi)
  PROVE  /\ StoredOf(rows) \in Seq(Nat) /\ Len(StoredOf(rows)) = hi - lo + 1
         /\ \A r \in rows : StoredOf(rows)[r.id - lo + 1] = r.of
<1>1. /\ lo \in Nat \ {0} /\ hi \in Nat \ {0} /\ lo <= hi
      /\ \A r \in rows : r.id \in lo..hi
      /\ \A i \in lo..hi : \E r \in rows : r.id = i
  BY DEF Spread
<1>2. Unique(rows) /\ \A r \in rows : r.id \in Nat /\ r.of \in Nat
  BY DEF Consecutive, SpanRows
<1>3. Cardinality(rows) = hi - lo + 1
  BY <1>1, <1>2, CountByIds
<1>4. ASSUME NEW r \in rows
      PROVE  Cardinality({s \in rows : s.id <= r.id}) = r.id - lo + 1
  <2> DEFINE older == {s \in rows : s.id <= r.id}
  <2>1. r.id \in lo..hi /\ r.id \in Nat
    BY <1>1, <1>2
  <2>2. Unique(older)
    BY <1>2 DEF Unique
  <2>3. \A s \in older : s.id \in lo..r.id
    BY <1>1, <1>2, <2>1
  <2>4. \A i \in lo..r.id : \E s \in older : s.id = i
    <3> TAKE i \in lo..r.id
    <3>1. i \in lo..hi /\ i <= r.id
      BY <1>1, <2>1
    <3> QED
      BY <3>1, <1>1
  <2> HIDE DEF older
  <2>s. lo \in Int /\ r.id \in Int /\ lo <= r.id + 1
    BY <1>1, <2>1
  <2>5. Cardinality(older) = r.id - lo + 1
    BY <2>s, <2>2, <2>3, <2>4, CountByIds
  <2> QED
    BY <2>5 DEF older
<1>5. ASSUME NEW r \in rows
      PROVE  /\ r.id - lo + 1 \in 1..hi - lo + 1
             /\ r = CHOOSE q \in rows :
                        Cardinality({s \in rows : s.id <= q.id}) = r.id - lo + 1
  <2>1. r.id \in lo..hi /\ r.id - lo + 1 \in 1..hi - lo + 1
    BY <1>1
  <2>2. ASSUME NEW q \in rows,
               Cardinality({s \in rows : s.id <= q.id}) = r.id - lo + 1
        PROVE  q = r
    <3>1. q.id - lo + 1 = r.id - lo + 1
      BY <1>4, <2>2
    <3>2. q.id = r.id
      BY <3>1, <1>1, <1>2
    <3> QED
      BY <3>2, <1>2 DEF Unique
  <2> QED
    BY <1>4, <2>1, <2>2
<1> DEFINE n == hi - lo + 1
           log == StoredOf(rows)
<1>6. n \in Nat
  BY <1>1
<1>7. /\ log = [i \in 1..n |->
              (CHOOSE r \in rows : Cardinality({s \in rows : s.id <= r.id}) = i).of]
      /\ DOMAIN log = 1..n
  BY <1>3 DEF StoredOf
<1>8. ASSUME NEW r \in rows
      PROVE  log[r.id - lo + 1] = r.of
  BY <1>5, <1>7
<1>9. ASSUME NEW i \in 1..n
      PROVE  log[i] \in Nat
  <2>1. lo + i - 1 \in lo..hi /\ (lo + i - 1) - lo + 1 = i
    BY <1>1
  <2>2. PICK r \in rows : r.id = lo + i - 1
    BY <1>1, <2>1
  <2>3. r.id - lo + 1 = i
    BY <2>1, <2>2
  <2> QED
    BY <2>3, <1>2, <1>8
<1> HIDE DEF log
<1>10. log = [i \in 1..n |-> log[i]]
  BY <1>7
<1>11. log \in [1..n -> Nat]
  BY <1>9, <1>10
<1>12. log \in Seq(Nat) /\ Len(log) = n
  BY <1>6, <1>11
<1> QED
  BY <1>8, <1>12 DEF log

LEMMA StoredNothing == StoredOf({}) = <<>>
<1>1. Cardinality({}) = 0
  BY FS_EmptySet
<1> QED
  BY <1>1 DEF StoredOf

\* What a commit appends goes to the new end, in the order it was shown.
LEMMA GrowthIsCommit ==
  ASSUME NEW A \in SUBSET SpanRows, Consecutive(A), NEW B \in SUBSET SpanRows,
         Consecutive(B), A \subseteq B, A # B, Newer(A, B),
         NEW n \in Nat, \A r \in B : r.of <= n,
         NEW a, a = StoredOf(A), NEW b, b = StoredOf(B)
  PROVE  /\ Len(a) < Len(b) /\ SubSeq(b, 1, Len(a)) = a
         /\ \A i \in 1..Len(b) : b[i] \in 1..n
         /\ \A i \in 2..Len(b) : b[i - 1] < b[i]
<1>1. PICK new \in B : new \notin A
  OBVIOUS
<1>2. PICK lo, hi : Spread(B, lo, hi)
  BY <1>1, IdRange DEF Spread
<1>3. /\ lo \in Nat \ {0} /\ hi \in Nat \ {0} /\ lo <= hi
      /\ \A r \in B : r.id \in lo..hi
      /\ \A i \in lo..hi : \E r \in B : r.id = i
  BY <1>2 DEF Spread
<1>4. /\ b \in Seq(Nat) /\ Len(b) = hi - lo + 1
      /\ \A r \in B : b[r.id - lo + 1] = r.of
  BY <1>2, StoredFacts
<1>5. \A r \in B : r.id \in Nat \ {0} /\ r.of \in Nat \ {0}
  BY DEF SpanRows
<1>6. ASSUME NEW i \in 1..Len(b)
      PROVE  \E r \in B : r.id = lo + i - 1 /\ b[i] = r.of
  <2>1. lo + i - 1 \in lo..hi /\ (lo + i - 1) - lo + 1 = i
    BY <1>3, <1>4
  <2>2. PICK r \in B : r.id = lo + i - 1
    BY <1>3, <2>1
  <2> QED
    BY <2>1, <2>2, <1>4
<1>7. \A i \in 1..Len(b) : b[i] \in 1..n
  BY <1>5, <1>6
<1>8. ASSUME NEW i \in 2..Len(b)
      PROVE  b[i - 1] < b[i]
  <2>1. i \in 1..Len(b) /\ i - 1 \in 1..Len(b)
    BY <1>3, <1>4
  <2>2. PICK r \in B : r.id = lo + i - 1 /\ b[i] = r.of
    BY <1>6, <2>1
  <2>3. PICK q \in B : q.id = lo + (i - 1) - 1 /\ b[i - 1] = q.of
    BY <1>6, <2>1
  <2>4. q.id < r.id
    BY <2>2, <2>3, <1>3
  <2>5. q.of < r.of
    BY <2>4 DEF Consecutive
  <2> QED
    BY <2>2, <2>3, <2>5
<1>9. CASE A = {}
  <2>1. a = <<>> /\ Len(a) = 0
    BY <1>9, StoredNothing
  <2>2. Len(a) < Len(b)
    BY <2>1, <1>3, <1>4
  <2>3. SubSeq(b, 1, 0) = <<>>
    BY <1>4
  <2> QED
    BY <2>1, <2>2, <2>3, <1>7, <1>8
<1>10. CASE A # {}
  <2>1. PICK l, h : Spread(A, l, h)
    BY <1>10, IdRange DEF Spread
  <2>2. /\ l \in Nat \ {0} /\ h \in Nat \ {0} /\ l <= h
        /\ \A r \in A : r.id \in l..h
        /\ \A i \in l..h : \E r \in A : r.id = i
    BY <2>1 DEF Spread
  <2>3. /\ a \in Seq(Nat) /\ Len(a) = h - l + 1
        /\ \A r \in A : a[r.id - l + 1] = r.of
    BY <2>1, StoredFacts
  <2>4. \A s \in B : s \in A \/ \A r \in A : r.id < s.id
    BY DEF Newer
  <2>5. l = lo
    <3>1. PICK r \in A : r.id = l
      BY <2>2
    <3>2. lo <= l
      BY <3>1, <1>3
    <3>3. PICK s \in B : s.id = lo
      BY <1>3
    <3>4. CASE s \in A
      BY <3>2, <3>3, <3>4, <1>3, <2>2
    <3>5. CASE s \notin A
      BY <3>1, <3>2, <3>3, <3>5, <2>2, <2>4, <1>3
    <3> QED
      BY <3>4, <3>5
  <2>6. h < hi
    <3>1. PICK r \in A : r.id = h
      BY <2>2
    <3>2. r.id < new.id /\ new.id \in lo..hi
      BY <1>1, <1>3, <2>4
    <3> QED
      BY <3>1, <3>2, <1>3, <2>2
  <2>7. Len(a) < Len(b) /\ Len(a) \in Nat
    BY <2>2, <2>3, <2>5, <2>6, <1>3, <1>4
  <2>8. ASSUME NEW i \in 1..Len(a)
        PROVE  b[i] = a[i]
    <3>1. lo + i - 1 \in l..h /\ (lo + i - 1) - lo + 1 = i
      BY <2>2, <2>3, <2>5, <1>3
    <3>2. PICK r \in A : r.id = lo + i - 1
      BY <3>1, <2>2
    <3>3. a[i] = r.of
      BY <3>1, <3>2, <2>3, <2>5
    <3>4. b[i] = r.of
      BY <3>1, <3>2, <1>4
    <3> QED
      BY <3>3, <3>4
  <2>9. SubSeq(b, 1, Len(a)) = a
    <3> DEFINE c == SubSeq(b, 1, Len(a))
    <3>1. c \in Seq(Nat) /\ Len(c) = Len(a) /\ \A i \in 1..Len(a) : c[i] = b[i]
      BY <1>4, <2>3, <2>7
    <3> HIDE DEF c
    <3>2. c = a
      BY <3>1, <2>3, <2>8, SameSequence
    <3> QED
      BY <3>2 DEF c
  <2> QED
    BY <2>7, <2>9, <1>7, <1>8
<1> QED
  BY <1>9, <1>10

\* What retention removes was at the old end, and something is left.
LEMMA RetentionIsForget ==
  ASSUME NEW A \in SUBSET SpanRows, Consecutive(A), NEW c \in Nat,
         NEW B, B \subseteq A, \A s \in A : s \in B <=> s.id > c, B # {}, A # B,
         NEW a, a = StoredOf(A), NEW b, b = StoredOf(B)
  PROVE  \E k \in 1..Len(a) - 1 : b = SubSeq(a, k + 1, Len(a))
<1>1. B \in SUBSET SpanRows /\ Consecutive(B)
  <2>1. B = {s \in A : s.id > c}
    OBVIOUS
  <2> QED
    BY <2>1, KeptRows
<1>2. PICK lo, hi : Spread(A, lo, hi)
  BY <1>1, IdRange DEF Spread
<1>3. PICK l, h : Spread(B, l, h)
  BY <1>1, IdRange DEF Spread
<1>4. /\ lo \in Nat \ {0} /\ hi \in Nat \ {0} /\ lo <= hi
      /\ \A r \in A : r.id \in lo..hi
      /\ \A i \in lo..hi : \E r \in A : r.id = i
  BY <1>2 DEF Spread
<1>5. /\ l \in Nat \ {0} /\ h \in Nat \ {0} /\ l <= h
      /\ \A r \in B : r.id \in l..h
      /\ \A i \in l..h : \E r \in B : r.id = i
  BY <1>3 DEF Spread
<1>6. /\ a \in Seq(Nat) /\ Len(a) = hi - lo + 1
      /\ \A r \in A : a[r.id - lo + 1] = r.of
  BY <1>2, StoredFacts
<1>7. /\ b \in Seq(Nat) /\ Len(b) = h - l + 1
      /\ \A r \in B : b[r.id - l + 1] = r.of
  BY <1>1, <1>3, StoredFacts
<1>8. PICK gone \in A : gone \notin B
  BY <1>1
<1>9. gone.id <= c /\ gone.id \in lo..hi
  BY <1>4, <1>8
<1>10. lo < l
  <2>1. PICK r \in B : r.id = l
    BY <1>5
  <2>2. r.id > c
    BY <2>1
  <2> QED
    BY <2>1, <2>2, <1>4, <1>5, <1>9
<1>11. h = hi
  <2>1. PICK r \in A : r.id = hi
    BY <1>4
  <2>2. PICK s \in B : s.id = h
    BY <1>5
  <2>3. s.id \in lo..hi /\ s.id > c
    BY <2>2, <1>1, <1>4
  <2>4. r \in B
    BY <2>1, <2>3, <1>4
  <2>5. hi \in l..h
    BY <2>1, <2>4, <1>5
  <2> QED
    BY <2>2, <2>3, <2>5, <1>4, <1>5
<1> PICK k : k = l - lo
  OBVIOUS
<1>12. k \in 1..Len(a) - 1 /\ Len(a) \in Nat /\ Len(b) = Len(a) - k
  BY <1>4, <1>5, <1>6, <1>7, <1>10, <1>11
<1>13. ASSUME NEW i \in 1..Len(b)
       PROVE  b[i] = a[k + i]
  <2>1. l + i - 1 \in l..h /\ (l + i - 1) - l + 1 = i /\ (l + i - 1) - lo + 1 = k + i
    BY <1>4, <1>5, <1>7, <1>12
  <2>2. PICK r \in B : r.id = l + i - 1
    BY <2>1, <1>5
  <2>3. b[i] = r.of
    BY <2>1, <2>2, <1>7
  <2>4. a[k + i] = r.of
    BY <2>1, <2>2, <1>1, <1>6
  <2> QED
    BY <2>3, <2>4
<1> DEFINE t == SubSeq(a, k + 1, Len(a))
<1>14. t \in Seq(Nat) /\ Len(t) = Len(a) - k /\ \A i \in 1..Len(a) - k : t[i] = a[k + i]
  <2>1. a \in Seq(Nat) /\ k \in Nat /\ k <= Len(a)
    BY <1>6, <1>12
  <2> QED
    BY <2>1, SuffixFacts, ZenonT(30)
<1> HIDE DEF t
<1>15. b = t
  <2>1. Len(b) = Len(t) /\ \A i \in 1..Len(b) : b[i] = t[i]
    BY <1>12, <1>13, <1>14
  <2> QED
    BY <2>1, <1>7, <1>14, SameSequence
<1> QED
  BY <1>12, <1>15 DEF t

\* How the table of spans in the file changes in one step.
LEMMA FileStep ==
  ASSUME Signed(Cap) = Cap, TypeInv, StoreInv, TxnInv, LogInv, [Next]_vars
  PROVE  \/ disk'.spans = disk.spans
         \/ disk.spans \subseteq disk'.spans /\ Newer(disk.spans, disk'.spans)
         \/ \E c \in Nat : /\ disk'.spans \subseteq disk.spans
                           /\ \A s \in disk.spans : s \in disk'.spans <=> s.id > c
                           /\ disk'.spans # {}
<1>t. /\ txn \in BOOLEAN /\ WellFormed(db, shown) /\ db \in Databases
      /\ (~txn => db = disk) /\ Newer(disk.spans, db.spans)
      /\ (inTxn => disk.spans \subseteq db.spans)
  BY DEF TypeInv, StoreInv, TxnInv, WellFormed, LogInv
<1>x. ASSUME NEW new, new.spans = db.spans, NEW result \in Results, Exec(result, new)
      PROVE  disk'.spans = disk.spans
  BY <1>x, <1>t, ExecFacts
<1>1. CASE Open \/ SetMaxSpans \/ List \/ UNCHANGED vars
  BY <1>1 DEF Open, SetMaxSpans, List, vars, sqlite
<1>2. CASE Close \/ Crash
  BY <1>2 DEF Close, Crash, Reset
<1>3. CASE Begin
  BY <1>3 DEF Begin
<1>4. CASE End
  <2>1. CASE ~inTxn
    BY <1>4, <2>1 DEF End, sqlite
  <2>2. CASE inTxn
    <3>1. disk' \in {db, disk}
      BY <1>4, <2>2, CommitFacts DEF End
    <3> QED
      BY <2>2, <3>1, <1>t
  <2> QED
    BY <2>1, <2>2
<1>5. ASSUME NEW s \in Shapes, InsertSpan(s)
      PROVE  \/ disk'.spans = disk.spans
             \/ disk.spans \subseteq disk'.spans /\ Newer(disk.spans, disk'.spans)
  <2>1. CASE ~inTxn
    BY <1>5, <2>1, InsertSpanFacts DEF sqlite
  <2>2. CASE inTxn
    <3>1. PICK result \in Results : Exec(result, WithSpan)
      BY <1>5, <2>2, InsertSpanFacts
    <3>2. Newer(db.spans, WithSpan.spans) /\ WellFormed(WithSpan, shown + 1)
      BY <1>t, SpanAdded, Types DEF WithSpan
    <3>4. db.spans \subseteq WithSpan.spans
      BY <1>t DEF WithSpan, Databases
    <3>3. disk' = disk \/ (~txn /\ disk' = WithSpan)
      BY <3>1, ExecFacts
    <3> QED
      BY <3>2, <3>3, <3>4, <1>t
  <2> QED
    BY <2>1, <2>2
<1>6. CASE InsertAttr
  <2>1. PICK result \in Results : Exec(result, WithAttr)
    BY <1>6, InsertAttrFacts
  <2>2. WithAttr.spans = db.spans
    BY <1>t DEF WithAttr, Databases
  <2> QED
    BY <2>1, <2>2, <1>x
<1>7. CASE InsertEventAttr
  <2>1. PICK result \in Results : Exec(result, WithEventAttr)
    BY <1>7, InsertEventAttrFacts
  <2>2. WithEventAttr.spans = db.spans
    BY <1>t DEF WithEventAttr, Databases
  <2> QED
    BY <2>1, <2>2, <1>x
<1>8. CASE InsertEvent
  <2>1. PICK result \in Results : Exec(result, WithEvent)
    BY <1>8, InsertEventFacts
  <2>2. WithEvent.spans = db.spans
    BY <1>t DEF WithEvent, Databases
  <2> QED
    BY <2>1, <2>2, <1>x
<1>9. CASE Prune
  <2>1. PICK result \in Results : Exec(result, Pruned(pc))
    BY <1>9, PruneFacts
  <2>2. pc \in PruneLabels
    BY <1>9, PruneFacts
  <2>3. CASE pc # "spans"
    <3>1. Pruned(pc).spans = db.spans
      BY <2>2, <2>3, PrunedWellFormed
    <3> QED
      BY <2>1, <3>1, <1>x
  <2>4. CASE pc = "spans"
    <3>1. /\ cutoff \in Nat /\ Pruned(pc).spans = {s \in db.spans : s.id > cutoff}
          /\ Pruned(pc).spans # {}
      BY <2>4, PruneSpans
    <3>2. disk' = disk \/ (~txn /\ disk' = Pruned(pc))
      BY <2>1, ExecFacts
    <3> QED
      BY <3>1, <3>2, <1>t
  <2> QED
    BY <2>3, <2>4
<1> QED
  BY <1>1, <1>2, <1>3, <1>4, <1>5, <1>6, <1>7, <1>8, <1>9 DEF Next, Pass

\* Whatever fails and whenever the process dies, the file of otel_sqlite.c
\* behaves as a log of spans: the step-by-step refinement of SpanLog.
THEOREM StoreImplementsLog ==
  ASSUME Signed(Cap) = Cap
  PROVE  Spec => ImplementsSpanLog
<1>1. Init => Log!Init
  <2> SUFFICES ASSUME Init PROVE Stored = <<>>
    BY DEF Log!Init
  <2>1. disk.spans = {}
    BY DEF Init, Empty
  <2> QED
    BY <2>1, StoredNothing DEF Stored, StoredOf
<1>2. TypeInv /\ StoreInv /\ TxnInv /\ LogInv /\ StoreInv' /\ TypeInv' /\ [Next]_vars
      => [Log!Next]_Stored
  <2> SUFFICES ASSUME TypeInv, StoreInv, TxnInv, LogInv, StoreInv', TypeInv', [Next]_vars
               PROVE  [Log!Next]_Stored
    OBVIOUS
  <2> PICK A : A = disk.spans
    OBVIOUS
  <2> PICK B : B = disk'.spans
    OBVIOUS
  <2> PICK a : a = StoredOf(A)
    OBVIOUS
  <2> PICK b : b = StoredOf(B)
    OBVIOUS
  <2>1. Stored = a /\ Stored' = b
    BY DEF Stored, StoredOf
  <2>2. A \in SUBSET SpanRows /\ Consecutive(A)
    BY DEF StoreInv, WellFormed, Databases
  <2>3. B \in SUBSET SpanRows /\ Consecutive(B) /\ \A r \in B : r.of <= shown'
    BY DEF StoreInv, WellFormed, Databases, Past
  <2>4. \A r \in B : r.of <= MaxShown
    <3>1. shown' \in Nat /\ shown' <= MaxShown /\ MaxShown \in Nat
      BY StoreAssumption DEF TypeInv
    <3>2. \A r \in B : r.of \in Nat
      BY <2>3 DEF SpanRows
    <3> QED
      BY <3>1, <3>2, <2>3
  <2>5. CASE A = B
    BY <2>1, <2>5
  <2>6. CASE A # B /\ A \subseteq B /\ Newer(A, B)
    <3>1. /\ Len(a) < Len(b) /\ SubSeq(b, 1, Len(a)) = a
          /\ \A i \in 1..Len(b) : b[i] \in 1..MaxShown
          /\ \A i \in 2..Len(b) : b[i - 1] < b[i]
      BY <2>2, <2>3, <2>4, <2>6, StoreAssumption, GrowthIsCommit
    <3>2. Log!Commit
      BY <2>1, <3>1 DEF Log!Commit
    <3> QED
      BY <3>2 DEF Log!Next
  <2>7. ASSUME A # B, NEW c \in Nat, B \subseteq A,
               \A s \in A : s \in B <=> s.id > c, B # {}
        PROVE  Log!Next
    <3>1. \E k \in 1..Len(a) - 1 : b = SubSeq(a, k + 1, Len(a))
      BY <2>2, <2>7, RetentionIsForget
    <3>2. Log!Forget
      BY <2>1, <3>1 DEF Log!Forget
    <3> QED
      BY <3>2 DEF Log!Next
  <2>8. \/ B = A
        \/ A \subseteq B /\ Newer(A, B)
        \/ \E c \in Nat :
              B \subseteq A /\ (\A s \in A : s \in B <=> s.id > c) /\ B # {}
    BY FileStep
  <2> QED
    BY <2>5, <2>6, <2>7, <2>8
<1> QED
  BY <1>1, <1>2, StoreCorrect, LogCorrect, PTL DEF Spec, ImplementsSpanLog, Log!Spec

=============================================================================
