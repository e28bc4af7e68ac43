-------------------------- MODULE OtelTraceProofs ---------------------------
(***************************************************************************)
(* Proofs about OtelTrace, for any table of spans that start at different  *)
(* times, any command line of options, values and words, and for show any  *)
(* trace whatever its length, ids and parents.                             *)
(***************************************************************************)
EXTENDS OtelTrace, TLAPS, FiniteSetTheorems, WellFoundedInduction

-----------------------------------------------------------------------------
(* ORDER BY: what the newest of a set of items are.                        *)

\* Items that start at different times.
Ordered(items) ==
    /\ IsFiniteSet(items)
    /\ \A a \in items : a.start \in Int
    /\ \A a, b \in items : a.start = b.start => a = b

NewerThan(items, a) == {b \in items : b.start > a.start}

\* How many are newer puts the items in their order.
LEMMA NewerCounts ==
  ASSUME NEW items, Ordered(items)
  PROVE  /\ Cardinality(items) \in Nat
         /\ \A a \in items : Cardinality(NewerThan(items, a)) \in 0..Cardinality(items) - 1
         /\ \A a, b \in items :
              a.start > b.start
                => Cardinality(NewerThan(items, a)) < Cardinality(NewerThan(items, b))
<1>1. Cardinality(items) \in Nat
  BY FS_CardinalityType DEF Ordered
<1>2. ASSUME NEW a \in items
      PROVE  /\ NewerThan(items, a) \in SUBSET items /\ a \notin NewerThan(items, a)
             /\ IsFiniteSet(NewerThan(items, a)) /\ Cardinality(NewerThan(items, a)) \in Nat
  <2>1. NewerThan(items, a) \in SUBSET items /\ a \notin NewerThan(items, a)
    BY DEF NewerThan, Ordered
  <2>2. IsFiniteSet(NewerThan(items, a))
    BY <2>1, FS_Subset DEF Ordered
  <2> QED
    BY <2>1, <2>2, FS_CardinalityType
<1>3. ASSUME NEW a \in items
      PROVE  Cardinality(NewerThan(items, a)) \in 0..Cardinality(items) - 1
  <2>1. /\ Cardinality(NewerThan(items, a)) <= Cardinality(items)
        /\ Cardinality(items) = Cardinality(NewerThan(items, a)) => items = NewerThan(items, a)
    BY <1>2, FS_Subset DEF Ordered
  <2> QED
    BY <1>1, <1>2, <2>1
<1>4. ASSUME NEW a \in items, NEW b \in items, a.start > b.start
      PROVE  Cardinality(NewerThan(items, a)) < Cardinality(NewerThan(items, b))
  <2>1. a.start \in Int /\ b.start \in Int
    BY DEF Ordered
  <2>2. NewerThan(items, a) \in SUBSET NewerThan(items, b) /\ a \in NewerThan(items, b)
    <3>1. \A c \in items : c.start \in Int
      BY DEF Ordered
    <3> QED
      BY <1>4, <2>1, <3>1 DEF NewerThan
  <2>3. /\ Cardinality(NewerThan(items, a)) <= Cardinality(NewerThan(items, b))
        /\ Cardinality(NewerThan(items, b)) = Cardinality(NewerThan(items, a))
              => NewerThan(items, b) = NewerThan(items, a)
    BY <1>2, <2>2, FS_Subset
  <2> QED
    BY <1>2, <2>2, <2>3
<1> QED
  BY <1>1, <1>3, <1>4

\* The items can be ordered.
LEMMA Sortable ==
  ASSUME NEW items, Ordered(items)
  PROVE  \E s \in [1..Cardinality(items) -> items] : NewestFirst(s)
<1> DEFINE n == Cardinality(items)
           rank == [a \in items |-> Cardinality(NewerThan(items, a)) + 1]
<1>1. /\ n \in Nat
      /\ \A a \in items : rank[a] \in 1..n
      /\ \A a, b \in items : a.start > b.start => rank[a] < rank[b]
  <2>1. /\ n \in Nat
        /\ \A a \in items : Cardinality(NewerThan(items, a)) \in 0..n - 1
        /\ \A a, b \in items :
              a.start > b.start
                => Cardinality(NewerThan(items, a)) < Cardinality(NewerThan(items, b))
    BY NewerCounts
  <2> QED
    BY <2>1
<1>2. /\ \A a \in items : a.start \in Int
      /\ \A a, b \in items : a.start = b.start => a = b
  BY DEF Ordered
<1>3. rank \in [items -> 1..n]
  BY <1>1
<1> HIDE DEF rank
<1>4. \A a, b \in items : rank[a] = rank[b] => a = b
  <2> TAKE a, b \in items
  <2>1. rank[a] \in Nat /\ rank[b] \in Nat
    BY <1>1
  <2> QED
    BY <1>1, <1>2, <2>1
<1>5. rank \in Injection(items, 1..n)
  BY <1>3, <1>4 DEF Injection, IsInjective
<1>6. IsFiniteSet(1..n) /\ Cardinality(1..n) = n
  <2>1. 1 \in Int /\ n \in Int
    BY <1>1
  <2> HIDE DEF n
  <2>2. /\ IsFiniteSet(1..n) /\ Cardinality(1..n) = IF 1 > n THEN 0 ELSE n - 1 + 1
    BY <2>1, FS_Interval
  <2> QED
    BY <1>1, <2>2
<1>7. rank \in Surjection(items, 1..n)
  BY <1>5, <1>6, FS_Injection
<1>8. \A k \in 1..n : \E a \in items : rank[a] = k
  BY <1>7 DEF Surjection
<1> DEFINE s == [k \in 1..n |-> CHOOSE a \in items : rank[a] = k]
<1>9. \A k \in 1..n : s[k] \in items /\ rank[s[k]] = k
  BY <1>8
<1>10. s \in [1..n -> items]
  BY <1>8
<1> HIDE DEF s
<1>11. ASSUME NEW j \in 1..n, NEW k \in 1..n, j < k PROVE s[j].start > s[k].start
  <2>1. /\ s[j] \in items /\ s[k] \in items /\ rank[s[j]] = j /\ rank[s[k]] = k
    BY <1>9
  <2>2. ~(s[k].start > s[j].start)
    BY <1>1, <1>11, <2>1
  <2>3. s[k].start # s[j].start
    BY <1>2, <1>11, <2>1
  <2> QED
    BY <1>2, <2>1, <2>2, <2>3
<1>12. NewestFirst(s)
  BY <1>10, <1>11 DEF NewestFirst
<1> QED
  BY <1>10, <1>12

\* In such an order every item has its place, after as many as are newer.
LEMMA SortedFacts ==
  ASSUME NEW items, Ordered(items), NEW n, n = Cardinality(items),
         NEW s \in [1..n -> items], NewestFirst(s)
  PROVE  /\ n \in Nat
         /\ \A a \in items : \E k \in 1..n : s[k] = a
         /\ \A k \in 1..n : Cardinality(NewerThan(items, s[k])) = k - 1
<1>1. n \in Nat /\ IsFiniteSet(items)
  BY FS_CardinalityType DEF Ordered
<1>2. \A j, k \in 1..n : j < k => s[j].start > s[k].start
  BY DEF NewestFirst
<1>3. \A k \in 1..n : s[k] \in items /\ s[k].start \in Int
  BY DEF Ordered
<1>4. ASSUME NEW j \in 1..n, NEW k \in 1..n, s[j] = s[k] PROVE j = k
  <2>1. j \in Int /\ k \in Int /\ ~(s[j].start > s[k].start) /\ ~(s[k].start > s[j].start)
    BY <1>3, <1>4
  <2> QED
    BY <1>2, <2>1
<1>5. s \in Injection(1..n, items)
  BY <1>4 DEF Injection, IsInjective
<1>6. \A m \in Nat : IsFiniteSet(1..m) /\ Cardinality(1..m) = m
  <2> TAKE m \in Nat
  <2>1. 1 \in Int /\ m \in Int
    OBVIOUS
  <2>2. IsFiniteSet(1..m) /\ Cardinality(1..m) = IF 1 > m THEN 0 ELSE m - 1 + 1
    BY <2>1, FS_Interval
  <2> QED
    BY <2>2
<1>7. s \in Surjection(1..n, items)
  BY <1>1, <1>5, <1>6, FS_Injection
<1>8. \A a \in items : \E k \in 1..n : s[k] = a
  BY <1>7 DEF Surjection
<1>9. ASSUME NEW k \in 1..n PROVE Cardinality(NewerThan(items, s[k])) = k - 1
  <2> DEFINE T == NewerThan(items, s[k])
             g == [j \in 1..k - 1 |-> s[j]]
  <2>1. k - 1 \in Nat /\ k \in Int /\ \A j \in 1..k - 1 : j \in 1..n /\ j < k
    BY <1>1
  <2>2. \A j \in 1..k - 1 : s[j] \in T
    BY <1>2, <1>3, <2>1 DEF NewerThan
  <2>3. ASSUME NEW a \in T PROVE \E j \in 1..k - 1 : s[j] = a
    <3>1. a \in items /\ a.start > s[k].start
      BY DEF NewerThan
    <3>2. PICK j \in 1..n : s[j] = a
      BY <1>8, <3>1
    <3>3. j < k
      <4>1. ~(s[k].start > s[j].start) /\ s[j] # s[k]
        BY <1>3, <3>1, <3>2
      <4>2. ~(k < j) /\ j # k
        BY <1>2, <4>1
      <4> QED
        BY <2>1, <4>2
    <3>4. j \in 1..k - 1
      BY <2>1, <3>3
    <3> QED
      BY <3>2, <3>4
  <2>4. g \in Surjection(1..k - 1, T) /\ g \in Injection(1..k - 1, T)
    <3>1. g \in [1..k - 1 -> T]
      BY <2>2
    <3>2. \A a \in T : \E j \in 1..k - 1 : g[j] = a
      BY <2>3
    <3>3. \A j, l \in 1..k - 1 : g[j] = g[l] => j = l
      BY <1>4, <2>1
    <3> HIDE DEF g, T
    <3> QED
      BY <3>1, <3>2, <3>3 DEF Surjection, Injection, IsInjective
  <2> HIDE DEF g, T
  <2>5. Cardinality(T) = Cardinality(1..k - 1)
    BY <1>6, <2>1, <2>4, FS_Surjection
  <2> QED
    BY <1>6, <2>1, <2>5 DEF T
<1> QED
  BY <1>1, <1>8, <1>9

LEMMA PrefixFacts ==
  ASSUME NEW S, NEW s \in Seq(S), NEW n \in 0..Len(s)
  PROVE  /\ SubSeq(s, 1, n) \in Seq(S) /\ Len(SubSeq(s, 1, n)) = n
         /\ \A m \in 1..n : SubSeq(s, 1, n)[m] = s[m]
  OBVIOUS

\* What ORDER BY start_unix_ns DESC LIMIT ? returns.
LEMMA NewestFacts ==
  ASSUME NEW items, Ordered(items), Limit \in Nat \ {0}
  PROVE  LET o == Newest(items)
         IN  /\ o \in Seq(items)
             /\ Len(o) = IF Cardinality(items) < Limit THEN Cardinality(items) ELSE Limit
             /\ \A k \in 1..Len(o) : Cardinality(NewerThan(items, o[k])) = k - 1
             /\ \A j, k \in 1..Len(o) : o[j] = o[k] => j = k
             /\ \A a \in items : \/ \E k \in 1..Len(o) : o[k] = a
                                 \/ /\ Len(o) = Limit
                                    /\ \A k \in 1..Len(o) : a.start < o[k].start
<1> DEFINE n == Cardinality(items)
           m == IF n < Limit THEN n ELSE Limit
           sorted == CHOOSE s \in [1..n -> items] : NewestFirst(s)
           o == Newest(items)
<1>1. sorted \in [1..n -> items] /\ NewestFirst(sorted)
  BY Sortable
<1>2. o = SubSeq(sorted, 1, m)
  BY DEF Newest
<1> HIDE DEF sorted
<1>3. /\ n \in Nat
      /\ \A a \in items : \E k \in 1..n : sorted[k] = a
      /\ \A k \in 1..n : Cardinality(NewerThan(items, sorted[k])) = k - 1
  BY <1>1, SortedFacts
<1>4. sorted \in Seq(items) /\ Len(sorted) = n /\ m \in 0..n /\ m <= Limit
  BY <1>1, <1>3
<1> HIDE DEF o, n
<1>5. o \in Seq(items) /\ Len(o) = m /\ \A k \in 1..m : o[k] = sorted[k]
  <2> HIDE DEF m
  <2> QED
    BY <1>2, <1>4, PrefixFacts
<1>6. \A k \in 1..m : Cardinality(NewerThan(items, o[k])) = k - 1
  <2>1. \A k \in 1..m : k \in 1..n /\ o[k] = sorted[k]
    BY <1>3, <1>4, <1>5
  <2> HIDE DEF m
  <2> QED
    BY <1>3, <2>1
<1>7. \A j, k \in 1..m : o[j] = o[k] => j = k
  BY <1>4, <1>6
<1>8. ASSUME NEW a \in items
      PROVE  \/ \E k \in 1..m : o[k] = a
             \/ m = Limit /\ \A k \in 1..m : a.start < o[k].start
  <2>1. PICK j \in 1..n : sorted[j] = a
    BY <1>3
  <2>2. CASE j <= m
    BY <1>4, <1>5, <2>1, <2>2
  <2>3. CASE ~(j <= m)
    <3>1. m = Limit
      BY <1>3, <2>3
    <3>2. ASSUME NEW k \in 1..m PROVE a.start < o[k].start
      <4>1. k \in 1..n /\ k < j /\ o[k] = sorted[k] /\ DOMAIN sorted = 1..n
        BY <1>1, <1>4, <1>5, <2>1, <2>3
      <4>2. sorted[k].start > sorted[j].start
        BY <1>1, <4>1 DEF NewestFirst
      <4>3. sorted[k].start \in Int /\ sorted[j].start \in Int
        BY <1>1, <4>1 DEF Ordered
      <4> QED
        BY <2>1, <4>1, <4>2, <4>3
    <3> QED
      BY <3>1, <3>2
  <2> QED
    BY <2>2, <2>3
<1> QED
  BY <1>5, <1>6, <1>7, <1>8 DEF o, n

-----------------------------------------------------------------------------
(* The arguments: where the groups lie in argv.                            *)

\* Every nonempty set of naturals has a least element.
LEMMA LeastNatural ==
  ASSUME NEW T, T \subseteq Nat, T # {}
  PROVE  \E x \in T : \A y \in T : x <= y
<1> DEFINE R == OpToRel(<, Nat)
<1>1. IsWellFoundedOn(R, Nat)
  BY NatLessThanWellFounded
<1>2. \A x, y \in Nat : x < y => <<x, y>> \in R
  BY DEF OpToRel
<1> HIDE DEF R
<1>3. PICK x \in T : \A y \in T : ~ (<<y, x>> \in R)
  BY <1>1, WFMin
<1>4. \A y \in T : ~ (y < x)
  <2> TAKE y \in T
  <2>1. y \in Nat /\ x \in Nat
    OBVIOUS
  <2> QED
    BY <1>2, <1>3, <2>1, Zenon
<1> QED
  BY <1>4

\* a is the first m sequences of s, one after the other, and off says where
\* each one ends.
LaidOut(off, s, m, a) ==
    /\ off \in [0..m -> Nat] /\ off[0] = 0 /\ off[m] = Len(a)
    /\ \A k \in 1..m : off[k] = off[k - 1] + Len(s[k]) /\ off[k] <= Len(a)
    /\ \A k \in 1..m : \A j \in 1..Len(s[k]) : a[off[k - 1] + j] = s[k][j]

\* g is what FlattenSeq computes up to the m-th sequence of s.
Flattened(g, s, m) ==
    g = [k \in 1..m |-> IF k = 1 THEN s[k] ELSE g[k - 1] \o s[k]]

\* One more sequence.
LEMMA LayOutNext ==
  ASSUME NEW W, NEW s \in Seq(Seq(W)), NEW m \in 1..Len(s), NEW a \in Seq(W),
         NEW off, LaidOut(off, s, m - 1, a)
  PROVE  \E next : LaidOut(next, s, m, a \o s[m])
<1>1. /\ m \in Nat /\ m - 1 \in Nat /\ s[m] \in Seq(W) /\ Len(s[m]) \in Nat /\ Len(a) \in Nat
  OBVIOUS
<1>2. /\ off \in [0..m - 1 -> Nat] /\ off[0] = 0 /\ off[m - 1] = Len(a)
      /\ \A k \in 1..m - 1 : off[k] = off[k - 1] + Len(s[k]) /\ off[k] <= Len(a)
      /\ \A k \in 1..m - 1 : \A j \in 1..Len(s[k]) : a[off[k - 1] + j] = s[k][j]
  BY DEF LaidOut
<1> DEFINE next == [k \in 0..m |-> IF k = m THEN Len(a) + Len(s[m]) ELSE off[k]]
           b == a \o s[m]
<1>3. /\ b \in Seq(W) /\ Len(b) = Len(a) + Len(s[m])
      /\ \A k \in 1..Len(a) : b[k] = a[k]
      /\ \A j \in 1..Len(s[m]) : b[Len(a) + j] = s[m][j]
  BY <1>1
<1>4. /\ next[m] = Len(a) + Len(s[m])
      /\ \A k \in 0..m - 1 : next[k] = off[k] /\ off[k] \in Nat
  <2>1. m \in 0..m /\ \A k \in 0..m - 1 : k \in 0..m /\ k # m
    BY <1>1
  <2> QED
    BY <1>1, <1>2, <2>1
<1>5. next \in [0..m -> Nat]
  <2>1. \A k \in 0..m : k # m => k \in 0..m - 1
    BY <1>1
  <2> QED
    BY <1>1, <1>2, <2>1
<1> HIDE DEF next, b
<1>6. next[0] = 0 /\ next[m] = Len(b)
  BY <1>1, <1>2, <1>3, <1>4
<1>7. ASSUME NEW k \in 1..m
      PROVE  /\ next[k] = next[k - 1] + Len(s[k]) /\ next[k] <= Len(b)
             /\ \A j \in 1..Len(s[k]) : b[next[k - 1] + j] = s[k][j]
  <2>1. CASE k = m
    <3>1. next[m - 1] = Len(a) /\ next[m] = Len(a) + Len(s[m]) /\ Len(b) = Len(a) + Len(s[m])
      BY <1>1, <1>2, <1>3, <1>4
    <3> QED
      BY <1>1, <1>3, <2>1, <3>1
  <2>2. CASE k # m
    <3>1. k \in 1..m - 1 /\ k \in 0..m - 1 /\ k - 1 \in 0..m - 1
      BY <1>1, <2>2
    <3>2. /\ next[k] = off[k] /\ next[k - 1] = off[k - 1] /\ off[k] \in Nat /\ off[k - 1] \in Nat
          /\ off[k] = off[k - 1] + Len(s[k]) /\ off[k] <= Len(a)
          /\ \A j \in 1..Len(s[k]) : a[off[k - 1] + j] = s[k][j]
      BY <1>2, <1>4, <3>1
    <3>3. s[k] \in Seq(W) /\ Len(s[k]) \in Nat
      BY <3>1
    <3>4. \A j \in 1..Len(s[k]) : off[k - 1] + j \in 1..Len(a)
      <4>1. \A x, y, l, z \in Nat : y = x + l /\ y <= z => \A j \in 1..l : x + j \in 1..z
        OBVIOUS
      <4> QED
        BY <1>1, <3>2, <3>3, <4>1, Zenon
    <3>5. \A j \in 1..Len(s[k]) : b[off[k - 1] + j] = s[k][j]
      BY <1>3, <3>2, <3>4
    <3>6. off[k] <= Len(b)
      <4>1. Len(a) \in Nat /\ Len(s[m]) \in Nat /\ Len(b) = Len(a) + Len(s[m])
        BY <1>1, <1>3
      <4>2. \A x, y, z \in Nat : x <= y => x <= y + z
        OBVIOUS
      <4>3. off[k] <= Len(a) + Len(s[m])
        BY <3>2, <4>1, <4>2, Zenon
      <4> QED
        BY <4>1, <4>3, Zenon
    <3> QED
      BY <3>2, <3>5, <3>6
  <2> QED
    BY <2>1, <2>2
<1>8. LaidOut(next, s, m, b)
  BY <1>5, <1>6, <1>7 DEF LaidOut
<1> QED
  BY <1>8 DEF b

LEMMA FlattenExists ==
  ASSUME NEW W, NEW s \in Seq(Seq(W)), NEW m \in 1..Len(s)
  PROVE  \E g, off : g \in [1..m -> Seq(W)] /\ Flattened(g, s, m) /\ LaidOut(off, s, m, g[m])
<1> DEFINE Good(k) == \E g, off : g \in [1..k -> Seq(W)] /\ Flattened(g, s, k) /\ LaidOut(off, s, k, g[k])
           bad == {k \in 1..Len(s) : ~Good(k)}
<1>1. Len(s) \in Nat
  OBVIOUS
<1> SUFFICES ASSUME bad # {} PROVE FALSE
  OBVIOUS
<1>2. bad \subseteq Nat
  BY <1>1
<1>3. PICK k \in bad : \A y \in bad : k <= y
  BY <1>2, LeastNatural
<1>4. k \in 1..Len(s) /\ k \in Nat /\ ~Good(k) /\ s[k] \in Seq(W)
  <2>1. k \in 1..Len(s) /\ ~Good(k)
    <3> HIDE DEF Good
    <3> QED
      BY <1>3
  <2>2. k \in Nat /\ s[k] \in Seq(W)
    BY <2>1, <1>1
  <2> QED
    BY <2>1, <2>2
<1>5. CASE k = 1
  <2> DEFINE g == [j \in 1..1 |-> s[1]]
  <2>1. g \in [1..1 -> Seq(W)] /\ g[1] = s[1]
    BY <1>4, <1>5
  <2>2. Flattened(g, s, 1)
    <3>1. g = [j \in 1..1 |-> g[j]]
      OBVIOUS
    <3>2. \A j \in 1..1 : (IF j = 1 THEN s[j] ELSE g[j - 1] \o s[j]) = s[1]
      OBVIOUS
    <3> QED
      BY <3>2 DEF Flattened
  <2>3. LaidOut([j \in 0..0 |-> 0], s, 0, <<>>)
    BY DEF LaidOut
  <2>4. <<>> \in Seq(W) /\ 1 \in 1..Len(s) /\ 1 - 1 = 0 /\ <<>> \o s[1] = s[1]
    BY <1>4, <1>5
  <2> HIDE DEF g
  <2>5. PICK off : LaidOut(off, s, 1, <<>> \o s[1])
    BY <2>3, <2>4, LayOutNext
  <2>6. LaidOut(off, s, 1, g[1])
    BY <2>1, <2>4, <2>5
  <2> QED
    BY <1>4, <1>5, <2>1, <2>2, <2>6
<1>6. CASE k # 1
  <2>1. k - 1 \in 1..Len(s) /\ k - 1 \in Nat
    BY <1>1, <1>4, <1>6
  <2>2. Good(k - 1)
    <3>1. ~(k <= k - 1)
      BY <1>4
    <3> HIDE DEF Good
    <3> QED
      BY <1>3, <2>1, <3>1
  <2>3. PICK g, off : /\ g \in [1..k - 1 -> Seq(W)] /\ Flattened(g, s, k - 1)
                      /\ LaidOut(off, s, k - 1, g[k - 1])
    BY <2>2
  <2> DEFINE h == [j \in 1..k |-> IF j = k THEN g[k - 1] \o s[k] ELSE g[j]]
  <2>4. g[k - 1] \in Seq(W) /\ \A j \in 1..k : j # k => j \in 1..k - 1 /\ g[j] \in Seq(W)
    BY <1>4, <2>1, <2>3
  <2>5. g[k - 1] \o s[k] \in Seq(W)
    BY <1>4, <2>4
  <2>6. h \in [1..k -> Seq(W)]
    BY <2>4, <2>5
  <2>7. h[k] = g[k - 1] \o s[k] /\ h[k - 1] = g[k - 1] /\ \A j \in 1..k - 1 : h[j] = g[j]
    <3>1. k \in 1..k /\ k - 1 \in 1..k /\ k - 1 # k /\ \A j \in 1..k - 1 : j \in 1..k /\ j # k
      BY <1>4, <2>1
    <3> QED
      BY <3>1
  <2>8. \A j \in 1..k - 1 : g[j] = IF j = 1 THEN s[j] ELSE g[j - 1] \o s[j]
    <3> DEFINE rhs == [j \in 1..k - 1 |-> IF j = 1 THEN s[j] ELSE g[j - 1] \o s[j]]
    <3>1. g = rhs
      BY <2>3 DEF Flattened
    <3>2. \A j \in 1..k - 1 : rhs[j] = IF j = 1 THEN s[j] ELSE g[j - 1] \o s[j]
      OBVIOUS
    <3> HIDE DEF rhs
    <3> QED
      BY <3>1, <3>2, Zenon
  <2> HIDE DEF h
  <2>9. ASSUME NEW j \in 1..k PROVE h[j] = IF j = 1 THEN s[j] ELSE h[j - 1] \o s[j]
    <3>1. CASE j = k
      BY <1>6, <2>7, <3>1
    <3>2. CASE j # k
      <4>1. j \in 1..k - 1 /\ (j # 1 => j - 1 \in 1..k - 1)
        BY <1>4, <3>2
      <4>2. h[j] = g[j] /\ (j # 1 => h[j - 1] = g[j - 1])
        BY <2>7, <4>1
      <4> QED
        BY <2>8, <4>1, <4>2
    <3> QED
      BY <3>1, <3>2
  <2>10. Flattened(h, s, k)
    BY <2>6, <2>9 DEF Flattened
  <2>11. PICK next : LaidOut(next, s, k, g[k - 1] \o s[k])
    BY <1>4, <2>3, <2>4, LayOutNext
  <2> QED
    BY <1>4, <2>6, <2>7, <2>10, <2>11
<1> QED
  BY <1>5, <1>6

\* argv is the typed groups, one after the other.
LEMMA FlattenLaysOut ==
  ASSUME NEW W, NEW s \in Seq(Seq(W))
  PROVE  \E off : LaidOut(off, s, Len(s), FlattenSeq(s))
<1> DEFINE n == Len(s)
<1>1. n \in Nat
  OBVIOUS
<1>2. CASE n = 0
  <2>1. s = <<>> /\ FlattenSeq(s) = s
    BY <1>2 DEF FlattenSeq
  <2>2. LaidOut([j \in 0..0 |-> 0], s, 0, <<>>)
    BY DEF LaidOut
  <2> QED
    BY <1>2, <2>1, <2>2
<1>3. CASE n # 0
  <2>1. n \in 1..n
    BY <1>1, <1>3
  <2>2. PICK g, off : g \in [1..n -> Seq(W)] /\ Flattened(g, s, n) /\ LaidOut(off, s, n, g[n])
    BY <2>1, FlattenExists
  <2> DEFINE fl == CHOOSE h : h = [k \in 1..n |-> IF k = 1 THEN s[k] ELSE h[k - 1] \o s[k]]
  <2>3. FlattenSeq(s) = fl[n]
    BY <1>3 DEF FlattenSeq
  <2>4. fl = [k \in 1..n |-> IF k = 1 THEN s[k] ELSE fl[k - 1] \o s[k]]
    BY <2>2 DEF Flattened
  <2>5. g = [k \in 1..n |-> IF k = 1 THEN s[k] ELSE g[k - 1] \o s[k]]
    BY <2>2 DEF Flattened
  <2> HIDE DEF fl
  <2>6. /\ \A k \in 1..n : fl[k] = IF k = 1 THEN s[k] ELSE fl[k - 1] \o s[k]
        /\ \A k \in 1..n : g[k] = IF k = 1 THEN s[k] ELSE g[k - 1] \o s[k]
    <3> DEFINE rf == [k \in 1..n |-> IF k = 1 THEN s[k] ELSE fl[k - 1] \o s[k]]
               rg == [k \in 1..n |-> IF k = 1 THEN s[k] ELSE g[k - 1] \o s[k]]
    <3>1. fl = rf /\ g = rg
      BY <2>4, <2>5
    <3>2. /\ \A k \in 1..n : rf[k] = IF k = 1 THEN s[k] ELSE fl[k - 1] \o s[k]
          /\ \A k \in 1..n : rg[k] = IF k = 1 THEN s[k] ELSE g[k - 1] \o s[k]
      OBVIOUS
    <3> HIDE DEF rf, rg
    <3> QED
      BY <3>1, <3>2, Zenon
  <2> DEFINE bad == {k \in 1..n : fl[k] # g[k]}
  <2>7. bad = {}
    <3> SUFFICES ASSUME bad # {} PROVE FALSE
      OBVIOUS
    <3>1. bad \subseteq Nat
      BY <1>1
    <3>2. PICK k \in bad : \A y \in bad : k <= y
      BY <3>1, LeastNatural
    <3>3. k \in 1..n /\ fl[k] # g[k] /\ k \in Nat
      BY <1>1
    <3>4. k # 1
      BY <2>6, <3>3
    <3>5. k - 1 \in 1..n /\ ~(k <= k - 1)
      BY <1>1, <3>3, <3>4
    <3>6. fl[k - 1] = g[k - 1]
      BY <3>2, <3>5
    <3> QED
      BY <2>6, <3>3, <3>4, <3>6
  <2> QED
    BY <2>1, <2>2, <2>3, <2>7
<1> QED
  BY <1>2, <1>3

-----------------------------------------------------------------------------
(* main's loop.                                                            *)

Words == UNION {{g[k] : k \in 1..Len(g)} : g \in Groups}

Filters ==
    [service : Words \cup {Null}, name : Words \cup {Null}, error : BOOLEAN,
     since : Int, min : Int, limit : Int]

\* What strtoll or atoi leaves of a value, zero if the option is not typed.
Amount(v) == IF v = Null THEN 0 ELSE Number(v)

\* v is the value typed last for an option in the first n groups.
LastIs(opt, n, v) ==
    \/ v = Null /\ \A j \in 1..n : typed[j][1] # opt
    \/ \E j \in 1..n : /\ typed[j][1] = opt /\ v = typed[j][2]
                       /\ \A l \in 1..n : l > j => typed[l][1] # opt

\* The filters and the command after n groups.
Parsed(n) ==
    /\ LastIs("--service", n, f.service) /\ LastIs("--name", n, f.name)
    /\ \E v : LastIs("--status", n, v) /\ f.error = (v = "error")
    /\ \E v : LastIs("--since", n, v) /\ f.since = Amount(v)
    /\ \E v : LastIs("--min-duration-us", n, v) /\ f.min = Amount(v)
    /\ \E v : LastIs("--limit", n, v) /\ f.limit = Amount(v)
    /\ \/ cmd = Null /\ \A j \in 1..n : Len(typed[j]) = 2
       \/ \E m \in 1..n : typed[m] = <<cmd>> /\ \A j \in 1..m - 1 : Len(typed[j]) = 2

\* main has come to the end of the n-th group.
AtGroup(n) ==
    /\ \E off : LaidOut(off, typed, Len(typed), argv) /\ i = off[n] + 1
    /\ f \in Filters /\ Parsed(n)

\* As long as main runs on a clean command line it is between two groups.
QueryInv ==
    /\ typed \in Seq(Groups)
    /\ rc = Running /\ Clean => \E n \in 0..Len(typed) : AtGroup(n)
    /\ SpansAsAsked /\ ListAsAsked

LEMMA GroupFacts ==
  ASSUME NEW g \in Groups
  PROVE  /\ g \in Seq(Words) /\ Len(g) \in {1, 2} /\ g[1] \in Words
         /\ Len(g) = 1 => g = <<g[1]>>
         /\ Len(g) = 2 => g[2] \in Words /\ g[1] \in Valued
         /\ Null \notin Words
<1>1. g = <<g[1]>> \/ (g = <<g[1], g[2]>> /\ g[1] \in Valued)
  BY QueryAssumption
<1>2. \A k \in 1..Len(g) : g[k] \in Words
  BY DEF Words
<1>3. Null \notin Words
  <2> SUFFICES ASSUME Null \in Words PROVE FALSE
    OBVIOUS
  <2>1. PICK h \in Groups : Null \in {h[k] : k \in 1..Len(h)}
    BY DEF Words
  <2> QED
    BY <2>1, QueryAssumption
<1>4. CASE g = <<g[1]>>
  <2>1. PICK w : g = <<w>>
    BY <1>4
  <2>2. Len(g) = 1 /\ g[1] = w
    BY <2>1
  <2>3. w \in Words
    BY <1>2, <2>2
  <2>4. g \in Seq(Words)
    BY <2>1, <2>3
  <2> QED
    BY <1>3, <2>1, <2>2, <2>3, <2>4
<1>5. CASE g = <<g[1], g[2]>> /\ g[1] \in Valued
  <2>1. PICK w, v : g = <<w, v>>
    BY <1>5
  <2>2. Len(g) = 2 /\ g[1] = w /\ g[2] = v
    BY <2>1
  <2>3. w \in Words /\ v \in Words
    BY <1>2, <2>2
  <2>4. g \in Seq(Words)
    BY <2>1, <2>3
  <2> QED
    BY <1>3, <1>5, <2>2, <2>3, <2>4
<1> QED
  BY <1>1, <1>4, <1>5

LEMMA NumberType == \A v : Number(v) \in Int /\ Amount(v) \in Int
BY QueryAssumption DEF Number, Amount

LEMMA LastSame ==
  ASSUME NEW n \in Nat, NEW opt, NEW v, LastIs(opt, n, v), typed[n + 1][1] # opt
  PROVE  LastIs(opt, n + 1, v)
<1>1. \A j \in 1..n + 1 : j \in 1..n \/ j = n + 1
  OBVIOUS
<1>2. \A j \in 1..n : j \in 1..n + 1
  OBVIOUS
<1>3. CASE v = Null /\ \A j \in 1..n : typed[j][1] # opt
  BY <1>1, <1>3 DEF LastIs
<1>4. ASSUME NEW j \in 1..n, typed[j][1] = opt /\ v = typed[j][2],
             \A l \in 1..n : l > j => typed[l][1] # opt
      PROVE  LastIs(opt, n + 1, v)
  <2>1. \A l \in 1..n + 1 : l > j => typed[l][1] # opt
    BY <1>1, <1>4
  <2> QED
    BY <1>2, <1>4, <2>1, Zenon DEF LastIs
<1> QED
  BY <1>3, <1>4 DEF LastIs

LEMMA LastNew ==
  ASSUME NEW n \in Nat
  PROVE  LastIs(typed[n + 1][1], n + 1, typed[n + 1][2])
<1>1. n + 1 \in 1..n + 1 /\ \A l \in 1..n + 1 : ~(l > n + 1)
  OBVIOUS
<1> QED
  BY <1>1, Zenon DEF LastIs

LEMMA LastFinal ==
  ASSUME NEW opt, NEW v, typed \in Seq(Groups), LastIs(opt, Len(typed), v)
  PROVE  v = Last1(opt)
<1> DEFINE at == {k \in 1..Len(typed) : typed[k][1] = opt}
<1>1. CASE v = Null /\ \A j \in 1..Len(typed) : typed[j][1] # opt
  BY <1>1 DEF Last1
<1>2. ASSUME NEW j \in 1..Len(typed), typed[j][1] = opt, v = typed[j][2],
             \A l \in 1..Len(typed) : l > j => typed[l][1] # opt
      PROVE  v = Last1(opt)
  <2>1. j \in at /\ at \subseteq Nat /\ \A l \in at : ~(l > j)
    BY <1>2
  <2>2. Last1(opt) = typed[CHOOSE k \in at : \A l \in at : l <= k][2]
    BY <2>1 DEF Last1
  <2> HIDE DEF at
  <2>3. j \in Nat /\ \A l \in at : l \in Nat /\ l <= j
    BY <2>1
  <2>4. \A k \in at : (\A l \in at : l <= k) => k = j
    BY <2>1, <2>3
  <2>5. (CHOOSE k \in at : \A l \in at : l <= k) = j
    BY <2>1, <2>3, <2>4
  <2> QED
    BY <1>2, <2>2, <2>5
<1> QED
  BY <1>1, <1>2 DEF LastIs

\* Where main stands between two groups.
LEMMA AtGroupFacts ==
  ASSUME typed \in Seq(Groups), NEW n \in 0..Len(typed), NEW off,
         LaidOut(off, typed, Len(typed), argv), i = off[n] + 1
  PROVE  /\ i > Len(argv) <=> n = Len(typed)
         /\ n < Len(typed) =>
              /\ n + 1 \in 1..Len(typed) /\ typed[n + 1] \in Groups
              /\ argv[i] = typed[n + 1][1]
              /\ Len(typed[n + 1]) = 2 => i < Len(argv) /\ argv[i + 1] = typed[n + 1][2]
              /\ off[n + 1] = off[n] + Len(typed[n + 1])
              /\ i \in Nat /\ Len(argv) \in Nat
<1> DEFINE m == Len(typed)
<1>1. /\ off \in [0..m -> Nat] /\ off[m] = Len(argv) /\ m \in Nat /\ n \in Nat
      /\ \A k \in 1..m : off[k] = off[k - 1] + Len(typed[k]) /\ off[k] <= Len(argv)
      /\ \A k \in 1..m : \A j \in 1..Len(typed[k]) : argv[off[k - 1] + j] = typed[k][j]
  <2>1. m \in Nat /\ n \in Nat
    OBVIOUS
  <2> HIDE DEF m
  <2>2. LaidOut(off, typed, m, argv)
    BY DEF m
  <2> QED
    BY <2>1, <2>2, Zenon DEF LaidOut
<1>2. m \in 0..m /\ off[m] \in Nat /\ off[n] \in Nat /\ Len(argv) \in Nat
  BY <1>1
<1>3. CASE n = m
  BY <1>1, <1>2, <1>3
<1>4. CASE n # m
  <2>1. n + 1 \in 1..m /\ (n + 1) - 1 = n /\ n < m
    BY <1>1, <1>4
  <2>2. typed[n + 1] \in Groups
    BY <2>1
  <2>3. Len(typed[n + 1]) \in {1, 2}
    BY <2>2, GroupFacts
  <2>4. /\ off[n + 1] = off[n] + Len(typed[n + 1]) /\ off[n + 1] <= Len(argv)
        /\ \A j \in 1..Len(typed[n + 1]) : argv[off[n] + j] = typed[n + 1][j]
    BY <1>1, <2>1
  <2>5. argv[off[n] + 1] = typed[n + 1][1]
    BY <2>3, <2>4
  <2>6. Len(typed[n + 1]) = 2 => argv[off[n] + 2] = typed[n + 1][2]
    BY <2>3, <2>4
  <2>7. Len(typed[n + 1]) = 2 => i < Len(argv)
    BY <1>2, <2>4
  <2>8. ~(i > Len(argv)) /\ i \in Nat /\ i + 1 = off[n] + 2
    <3>1. i \in Nat /\ i + 1 = off[n] + 2
      BY <1>2
    <3>2. off[n] + 1 <= Len(argv)
      <4>1. CASE Len(typed[n + 1]) = 1
        BY <2>4, <4>1
      <4>2. CASE Len(typed[n + 1]) = 2
        <5>1. off[n] + 2 <= Len(argv)
          BY <2>4, <4>2
        <5> QED
          BY <1>2, <5>1
      <4> QED
        BY <2>3, <4>1, <4>2
    <3> QED
      BY <1>2, <3>1, <3>2
  <2> QED
    BY <1>2, <1>4, <2>1, <2>2, <2>4, <2>5, <2>6, <2>7, <2>8
<1> QED
  BY <1>3, <1>4

LEMMA AtGroupStart ==
  ASSUME typed \in Seq(Groups), argv = FlattenSeq(typed), i = 1, f = NoFilters, cmd = Null
  PROVE  AtGroup(0)
<1>1. \A k \in 1..Len(typed) : typed[k] \in Seq(Words)
  BY GroupFacts
<1>2. typed \in Seq(Seq(Words))
  BY <1>1
<1>3. PICK off : LaidOut(off, typed, Len(typed), argv)
  BY <1>2, FlattenLaysOut
<1>4. off[0] = 0
  BY <1>3 DEF LaidOut
<1>5. f \in Filters
  BY DEF NoFilters, Filters
<1>6. \A opt : LastIs(opt, 0, Null)
  BY DEF LastIs
<1>7. Amount(Null) = 0 /\ Null # "error"
  BY QueryAssumption DEF Amount
<1>8. /\ f.service = Null /\ f.name = Null /\ f.error = FALSE
      /\ f.since = 0 /\ f.min = 0 /\ f.limit = 0
  BY DEF NoFilters
<1>9. Parsed(0)
  <2>1. \A j \in 1..0 : Len(typed[j]) = 2
    OBVIOUS
  <2> QED
    BY <1>6, <1>7, <1>8, <2>1, Zenon DEF Parsed
<1> QED
  BY <1>3, <1>4, <1>5, <1>9 DEF AtGroup

LEMMA NotAskedYet == rc = Running => SpansAsAsked /\ ListAsAsked
BY DEF SpansAsAsked, ListAsAsked, Returned

LEMMA QueryStart == QueryInit => QueryInv
<1> SUFFICES ASSUME QueryInit PROVE QueryInv
  OBVIOUS
<1>1. typed \in Seq(Groups)
  <2>1. PICK n \in 0..MaxGroups : typed \in [1..n -> Groups]
    BY DEF QueryInit
  <2>2. n \in Nat
    BY QueryAssumption
  <2> QED
    BY <2>1, <2>2
<1>2. AtGroup(0)
  BY <1>1, AtGroupStart DEF QueryInit
<1>3. 0 \in 0..Len(typed) /\ rc = Running
  BY <1>1 DEF QueryInit
<1> QED
  BY <1>1, <1>2, <1>3, NotAskedYet DEF QueryInv

\* An option and its value.
LEMMA ParseValuedStep ==
  ASSUME typed \in Seq(Groups), Clean, NEW n \in 0..Len(typed), AtGroup(n), ParseValued
  PROVE  n + 1 \in 0..Len(typed) /\ AtGroup(n + 1)'
<1>1. PICK off : LaidOut(off, typed, Len(typed), argv) /\ i = off[n] + 1
  BY DEF AtGroup
<1>2. /\ argv[i] \in Valued /\ i < Len(argv) /\ i <= Len(argv)
      /\ f' = Set(f, argv[i], argv[i + 1]) /\ i' = i + 2
      /\ typed' = typed /\ argv' = argv /\ cmd' = cmd
  BY DEF ParseValued, Parsing
<1> DEFINE g == typed[n + 1]
<1>3. /\ n < Len(typed) /\ n + 1 \in 1..Len(typed) /\ g \in Groups /\ argv[i] = g[1]
      /\ Len(g) = 2 => argv[i + 1] = g[2]
      /\ off[n + 1] = off[n] + Len(g) /\ i \in Nat /\ n \in Nat
  <2>1. i \in Nat /\ Len(argv) \in Nat
    <3>1. n = Len(typed) \/ n < Len(typed)
      OBVIOUS
    <3>2. /\ off \in [0..Len(typed) -> Nat] /\ off[Len(typed)] = Len(argv)
      BY <1>1 DEF LaidOut
    <3> QED
      BY <1>1, <3>2
  <2>2. ~(i > Len(argv))
    BY <1>2, <2>1
  <2>3. n # Len(typed)
    BY <1>1, <2>2, AtGroupFacts
  <2>4. n < Len(typed)
    BY <2>3
  <2> QED
    BY <1>1, <2>4, AtGroupFacts
<1>4. Len(g) = 2 /\ g[1] \in Words /\ g[2] \in Words
  <2>1. Len(g) \in {1, 2} /\ g[1] \in Words /\ (Len(g) = 2 => g[2] \in Words)
    BY <1>3, GroupFacts
  <2>2. Len(g) # 1
    <3>1. g[1] \in Dashed
      BY <1>2, <1>3, QueryAssumption
    <3>2. Len(typed[n + 1]) = 2 \/ typed[n + 1][1] \notin Dashed
      <4>1. n + 1 \in 1..Len(typed)
        BY <1>3
      <4> QED
        BY <4>1, Zenon DEF Clean
    <3>3. Len(g) = 2
      BY <3>1, <3>2, Zenon
    <3> QED
      BY <3>3
  <2> QED
    BY <2>1, <2>2
<1>5. f' = Set(f, g[1], g[2]) /\ g[1] \in Valued /\ i' = off[n + 1] + 1
  <2>1. off[n] \in Nat
    BY <1>1, <1>3 DEF LaidOut
  <2> QED
    BY <1>1, <1>2, <1>3, <1>4, <2>1
<1>6. f \in Filters /\ Parsed(n)
  BY DEF AtGroup
<1>7. /\ \A opt, v : LastIs(opt, n, v) /\ g[1] # opt => LastIs(opt, n + 1, v)
      /\ LastIs(g[1], n + 1, g[2])
  BY <1>3, LastSame, LastNew
<1>8. \A opt, v : LastIs(opt, n + 1, v)' <=> LastIs(opt, n + 1, v)
  BY <1>2 DEF LastIs
<1>9. g[2] # Null /\ Amount(g[2]) = Number(g[2]) /\ Number(g[2]) \in Int
  BY <1>3, <1>4, GroupFacts, NumberType DEF Amount
<1> HIDE DEF g
<1>10. f' \in Filters
  BY <1>4, <1>5, <1>6, <1>9 DEF Set, Filters, Valued
<1>11. /\ f'.service = IF g[1] = "--service" THEN g[2] ELSE f.service
       /\ f'.name = IF g[1] = "--name" THEN g[2] ELSE f.name
       /\ f'.error = IF g[1] = "--status" THEN (g[2] = "error") ELSE f.error
       /\ f'.since = IF g[1] = "--since" THEN Number(g[2]) ELSE f.since
       /\ f'.min = IF g[1] = "--min-duration-us" THEN Number(g[2]) ELSE f.min
       /\ f'.limit = IF g[1] = "--limit" THEN Number(g[2]) ELSE f.limit
  BY <1>5, <1>6 DEF Set, Filters, Valued
<1>12. /\ LastIs("--service", n + 1, f'.service) /\ LastIs("--name", n + 1, f'.name)
       /\ \E v : LastIs("--status", n + 1, v) /\ f'.error = (v = "error")
       /\ \E v : LastIs("--since", n + 1, v) /\ f'.since = Amount(v)
       /\ \E v : LastIs("--min-duration-us", n + 1, v) /\ f'.min = Amount(v)
       /\ \E v : LastIs("--limit", n + 1, v) /\ f'.limit = Amount(v)
  <2>1. LastIs("--service", n + 1, f'.service) /\ LastIs("--name", n + 1, f'.name)
    BY <1>6, <1>7, <1>11 DEF Parsed
  <2>2. \E v : LastIs("--status", n + 1, v) /\ f'.error = (v = "error")
    BY <1>6, <1>7, <1>11 DEF Parsed
  <2>3. \E v : LastIs("--since", n + 1, v) /\ f'.since = Amount(v)
    BY <1>6, <1>7, <1>9, <1>11 DEF Parsed
  <2>4. \E v : LastIs("--min-duration-us", n + 1, v) /\ f'.min = Amount(v)
    BY <1>6, <1>7, <1>9, <1>11 DEF Parsed
  <2>5. \E v : LastIs("--limit", n + 1, v) /\ f'.limit = Amount(v)
    BY <1>6, <1>7, <1>9, <1>11 DEF Parsed
  <2> QED
    BY <2>1, <2>2, <2>3, <2>4, <2>5
<1>13. \/ cmd = Null /\ \A j \in 1..n + 1 : Len(typed[j]) = 2
       \/ \E m \in 1..n + 1 : typed[m] = <<cmd>> /\ \A j \in 1..m - 1 : Len(typed[j]) = 2
  <2>1. \A j \in 1..n + 1 : j \in 1..n \/ j = n + 1
    BY <1>3
  <2>2. \A j \in 1..n : j \in 1..n + 1
    BY <1>3
  <2>3. Len(typed[n + 1]) = 2
    BY <1>4 DEF g
  <2> QED
    BY <1>6, <2>1, <2>2, <2>3, Zenon DEF Parsed
<1>14. Parsed(n + 1)'
  BY <1>2, <1>8, <1>12, <1>13, Zenon DEF Parsed, Amount, Number
<1>15. AtGroup(n + 1)'
  BY <1>1, <1>2, <1>5, <1>10, <1>14 DEF AtGroup, LaidOut, Filters
<1> QED
  BY <1>3, <1>15

\* Before the last group there are arguments left.
LEMMA BeforeLast ==
  ASSUME typed \in Seq(Groups), NEW n \in 0..Len(typed), AtGroup(n)
  PROVE  /\ i > Len(argv) => n = Len(typed)
         /\ i <= Len(argv) => n < Len(typed)
<1>1. PICK off : LaidOut(off, typed, Len(typed), argv) /\ i = off[n] + 1
  BY DEF AtGroup
<1>2. off \in [0..Len(typed) -> Nat] /\ off[Len(typed)] = Len(argv)
  BY <1>1 DEF LaidOut
<1>3. i \in Nat /\ Len(argv) \in Nat
  BY <1>1, <1>2
<1>4. i > Len(argv) <=> n = Len(typed)
  BY <1>1, AtGroupFacts
<1> QED
  BY <1>3, <1>4

\* A word is the command unless there is one already.
LEMMA ParseWordStep ==
  ASSUME typed \in Seq(Groups), Clean, NEW n \in 0..Len(typed), AtGroup(n), ParseWord
  PROVE  n + 1 \in 0..Len(typed) /\ AtGroup(n + 1)'
<1>1. PICK off : LaidOut(off, typed, Len(typed), argv) /\ i = off[n] + 1
  BY DEF AtGroup
<1>2. /\ argv[i] \notin Valued /\ i <= Len(argv)
      /\ cmd' = (IF cmd = Null THEN argv[i] ELSE cmd) /\ i' = i + 1
      /\ typed' = typed /\ argv' = argv /\ f' = f
  BY QueryAssumption DEF ParseWord, Parsing
<1> DEFINE g == typed[n + 1]
<1>3. /\ n < Len(typed) /\ n + 1 \in 1..Len(typed) /\ g \in Groups /\ argv[i] = g[1]
      /\ off[n + 1] = off[n] + Len(g) /\ n \in Nat
  <2>1. n < Len(typed) /\ n \in Nat
    BY <1>2, BeforeLast
  <2> QED
    BY <1>1, <2>1, AtGroupFacts
<1>4. Len(g) = 1 /\ g = <<g[1]>> /\ g[1] \in Words /\ Null \notin Words
  BY <1>2, <1>3, GroupFacts
<1>5. i' = off[n + 1] + 1
  BY <1>1, <1>2, <1>3, <1>4
<1>6. f \in Filters /\ Parsed(n)
  BY DEF AtGroup
<1>7. \A v : \A opt \in Valued : LastIs(opt, n, v) => LastIs(opt, n + 1, v)
  BY <1>2, <1>3, LastSame
<1>8. \A opt, v : LastIs(opt, n + 1, v)' <=> LastIs(opt, n + 1, v)
  BY <1>2 DEF LastIs
<1>9. /\ LastIs("--service", n + 1, f.service) /\ LastIs("--name", n + 1, f.name)
      /\ \E v : LastIs("--status", n + 1, v) /\ f.error = (v = "error")
      /\ \E v : LastIs("--since", n + 1, v) /\ f.since = Amount(v)
      /\ \E v : LastIs("--min-duration-us", n + 1, v) /\ f.min = Amount(v)
      /\ \E v : LastIs("--limit", n + 1, v) /\ f.limit = Amount(v)
  <2>1. {"--service", "--name", "--status", "--since", "--min-duration-us", "--limit"} \subseteq Valued
    BY DEF Valued
  <2> QED
    BY <1>6, <1>7, <2>1 DEF Parsed
<1>10. \E m \in 1..n + 1 : typed[m] = <<cmd'>> /\ \A j \in 1..m - 1 : Len(typed[j]) = 2
  <2>1. CASE cmd = Null /\ \A j \in 1..n : Len(typed[j]) = 2
    <3>1. n + 1 \in 1..n + 1 /\ (n + 1) - 1 = n /\ typed[n + 1] = <<cmd'>>
      BY <1>2, <1>3, <1>4, <2>1
    <3> QED
      BY <2>1, <3>1
  <2>2. ASSUME NEW m \in 1..n, typed[m] = <<cmd>>, \A j \in 1..m - 1 : Len(typed[j]) = 2
        PROVE  \E l \in 1..n + 1 : typed[l] = <<cmd'>> /\ \A j \in 1..l - 1 : Len(typed[j]) = 2
    <3>1. m \in 1..Len(typed) /\ m \in 1..n + 1 /\ typed[m] \in Groups
      BY <1>3
    <3>2. typed[m][1] = cmd
      BY <2>2
    <3>3. cmd \in Words
      BY <3>1, <3>2, GroupFacts
    <3>4. cmd' = cmd
      BY <1>2, <1>4, <3>3
    <3> QED
      BY <2>2, <3>1, <3>4
  <2> QED
    BY <1>6, <2>1, <2>2 DEF Parsed
<1> HIDE DEF g
<1>11. Parsed(n + 1)'
  BY <1>2, <1>8, <1>9, <1>10, Zenon DEF Parsed, Amount, Number
<1>12. AtGroup(n + 1)'
  BY <1>1, <1>2, <1>5, <1>6, <1>11 DEF AtGroup, LaidOut, Filters
<1> QED
  BY <1>3, <1>12

\* The loop sees neither help nor an unknown option or one without its value.
LEMMA CleanGoesOn ==
  ASSUME typed \in Seq(Groups), Clean, NEW n \in 0..Len(typed), AtGroup(n)
  PROVE  ~ParseBad /\ ~ParseHelp
<1> SUFFICES ASSUME ParseBad \/ ParseHelp PROVE FALSE
  OBVIOUS
<1>1. PICK off : LaidOut(off, typed, Len(typed), argv) /\ i = off[n] + 1
  BY DEF AtGroup
<1>2. i <= Len(argv)
  BY DEF ParseBad, ParseHelp, Parsing
<1>3. n < Len(typed)
  BY <1>2, BeforeLast
<1>4. /\ n + 1 \in 1..Len(typed) /\ typed[n + 1] \in Groups /\ argv[i] = typed[n + 1][1]
      /\ Len(typed[n + 1]) = 2 => i < Len(argv)
      /\ i \in Nat /\ Len(argv) \in Nat
  BY <1>1, <1>3, AtGroupFacts
<1>5. Len(typed[n + 1]) = 2 => typed[n + 1][1] \in Valued
  BY <1>4, GroupFacts
<1>6. Len(typed[n + 1]) = 2 \/ typed[n + 1][1] \notin Dashed
  BY <1>4 DEF Clean
<1>7. Valued \cap Help = {} /\ Valued \cup Help \subseteq Dashed
  BY QueryAssumption DEF Valued, Help
<1> QED
  BY <1>4, <1>5, <1>6, <1>7 DEF ParseBad, ParseHelp

\* The command asked for is the one that runs.
LEMMA AskedIsRun ==
  ASSUME typed \in Seq(Groups), AtGroup(Len(typed)), NEW command, Asked(command)
  PROVE  cmd = command
<1>1. PICK k \in 1..Len(typed) :
         typed[k] = <<command>> /\ \A j \in 1..k - 1 : Len(typed[j]) = 2
  BY DEF Asked
<1>2. Len(typed[k]) # 2 /\ typed[k][1] = command
  BY <1>1
<1>3. ~(cmd = Null /\ \A j \in 1..Len(typed) : Len(typed[j]) = 2)
  BY <1>2, Zenon
<1>4. PICK m \in 1..Len(typed) :
         typed[m] = <<cmd>> /\ \A j \in 1..m - 1 : Len(typed[j]) = 2
  BY <1>3 DEF AtGroup, Parsed
<1>5. Len(typed[m]) # 2 /\ typed[m][1] = cmd
  BY <1>4
<1>6. ~(k < m) /\ ~(m < k) /\ k \in Nat /\ m \in Nat
  <2>1. k \in Nat /\ m \in Nat /\ (k < m => k \in 1..m - 1) /\ (m < k => m \in 1..k - 1)
    OBVIOUS
  <2> QED
    BY <1>1, <1>2, <1>4, <1>5, <2>1, Zenon
<1>7. k = m
  BY <1>6
<1> QED
  BY <1>2, <1>5, <1>7

-----------------------------------------------------------------------------
(* The queries.                                                            *)

AllMet(row, columns, values) ==
    \A k \in 1..Len(columns) : Meets(row, columns[k], values[k])

\* Two clauses and their values side by side.
LEMMA MeetsConcat ==
  ASSUME NEW row, NEW A, NEW c \in Seq(A), NEW d \in Seq(A), NEW v \in Seq(A), NEW w \in Seq(A),
         Len(c) = Len(v), Len(d) = Len(w)
  PROVE  /\ Len(c \o d) = Len(v \o w) /\ c \o d \in Seq(A) /\ v \o w \in Seq(A)
         /\ AllMet(row, c \o d, v \o w) <=> AllMet(row, c, v) /\ AllMet(row, d, w)
<1>1. /\ Len(c) \in Nat /\ Len(d) \in Nat
      /\ Len(c \o d) = Len(c) + Len(d) /\ Len(v \o w) = Len(c) + Len(d)
      /\ c \o d \in Seq(A) /\ v \o w \in Seq(A)
  <2>1. Len(c) \in Nat /\ Len(d) \in Nat /\ Len(v) \in Nat /\ Len(w) \in Nat
    OBVIOUS
  <2>2. Len(c \o d) = Len(c) + Len(d) /\ c \o d \in Seq(A)
    BY SMTT(30)
  <2>3. Len(v \o w) = Len(v) + Len(w) /\ v \o w \in Seq(A)
    BY SMTT(30)
  <2> QED
    BY <2>1, <2>2, <2>3
<1>2. /\ \A k \in 1..Len(c) : (c \o d)[k] = c[k] /\ (v \o w)[k] = v[k]
      /\ \A k \in 1..Len(d) : (c \o d)[Len(c) + k] = d[k] /\ (v \o w)[Len(c) + k] = w[k]
  OBVIOUS
<1> DEFINE p == c \o d
           q == v \o w
<1>3. /\ \A k \in 1..Len(c) : p[k] = c[k] /\ q[k] = v[k]
      /\ \A k \in 1..Len(d) : p[Len(c) + k] = d[k] /\ q[Len(c) + k] = w[k]
      /\ Len(p) = Len(c) + Len(d)
  BY <1>1, <1>2
<1> HIDE DEF p, q
<1>4. ASSUME \A k \in 1..Len(p) : Meets(row, p[k], q[k])
      PROVE  /\ \A k \in 1..Len(c) : Meets(row, c[k], v[k])
             /\ \A k \in 1..Len(d) : Meets(row, d[k], w[k])
  <2>1. /\ \A k \in 1..Len(c) : k \in 1..Len(p)
        /\ \A k \in 1..Len(d) : Len(c) + k \in 1..Len(p)
    BY <1>1, <1>3
  <2> QED
    BY <1>3, <1>4, <2>1
<1>5. ASSUME \A k \in 1..Len(c) : Meets(row, c[k], v[k]),
             \A k \in 1..Len(d) : Meets(row, d[k], w[k]),
             NEW k \in 1..Len(p)
      PROVE  Meets(row, p[k], q[k])
  <2>1. CASE k \in 1..Len(c)
    BY <1>3, <1>5, <2>1
  <2>2. CASE k \notin 1..Len(c)
    <3>1. k - Len(c) \in 1..Len(d) /\ Len(c) + (k - Len(c)) = k
      BY <1>1, <1>3, <2>2
    <3> DEFINE l == k - Len(c)
    <3>2. l \in 1..Len(d) /\ Len(c) + l = k
      BY <3>1
    <3> HIDE DEF l
    <3> QED
      BY <1>3, <1>5, <3>2
  <2> QED
    BY <2>1, <2>2
<1>6. AllMet(row, p, q) <=> AllMet(row, c, v) /\ AllMet(row, d, w)
  BY <1>4, <1>5, Zenon DEF AllMet
<1> QED
  BY <1>1, <1>6 DEF p, q

LEMMA MeetsGiven ==
  ASSUME NEW row, NEW present \in BOOLEAN, NEW A, NEW c \in A, NEW v \in A
  PROVE  /\ Given(present, c) \in Seq(A) /\ Given(present, v) \in Seq(A)
         /\ Len(Given(present, c)) = Len(Given(present, v))
         /\ AllMet(row, Given(present, c), Given(present, v)) <=> (present => Meets(row, c, v))
<1>1. CASE present
  <2>1. Given(present, c) = <<c>> /\ Given(present, v) = <<v>>
    BY <1>1 DEF Given
  <2>2. \A k \in 1..1 : k = 1
    OBVIOUS
  <2>3. <<c>> \in Seq(A) /\ <<v>> \in Seq(A) /\ Len(<<c>>) = 1 /\ Len(<<v>>) = 1
        /\ <<c>>[1] = c /\ <<v>>[1] = v /\ 1 \in 1..1
    OBVIOUS
  <2> QED
    BY <1>1, <2>1, <2>2, <2>3, Zenon DEF AllMet
<1>2. CASE ~present
  <2>1. Given(present, c) = <<>> /\ Given(present, v) = <<>>
    BY <1>2 DEF Given
  <2> QED
    BY <1>2, <2>1 DEF AllMet
<1> QED
  BY <1>1, <1>2

\* Each value meets the placeholder of its own column.
LEMMA SelectedFacts ==
  ASSUME NEW row \in Rows
  PROVE  row \in Selected
           <=> /\ f.error => row.error
               /\ f.service # Null => row.service = f.service
               /\ f.name # Null => row.name = f.name
               /\ f.since # 0 => row.start >= Since(f)
               /\ f.min # 0 => row.dur >= f.min * NsPerUs
<1> DEFINE A == {"service", "name", "since", "min", f.service, f.name, Since(f), f.min * NsPerUs}
           P == Placeholders(f)
           B == Bound(f)
           p1 == f.service # Null
           p2 == f.name # Null
           p3 == f.since # 0
           p4 == f.min # 0
           c1 == Given(p1, "service")
           c2 == Given(p2, "name")
           c3 == Given(p3, "since")
           c4 == Given(p4, "min")
           s1 == f.service
           s2 == f.name
           s3 == Since(f)
           s4 == f.min * NsPerUs
           v1 == Given(p1, s1)
           v2 == Given(p2, s2)
           v3 == Given(p3, s3)
           v4 == Given(p4, s4)
<1>1. P = ((c1 \o c2) \o c3) \o c4 /\ B = ((v1 \o v2) \o v3) \o v4
  BY DEF Placeholders, Bound, Since
<1>0. /\ {"service", "name", "since", "min", s1, s2, s3, s4} \subseteq A
      /\ p1 \in BOOLEAN /\ p2 \in BOOLEAN /\ p3 \in BOOLEAN /\ p4 \in BOOLEAN
  OBVIOUS
<1> HIDE DEF A, p1, p2, p3, p4, s1, s2, s3, s4
<1>2. /\ c1 \in Seq(A) /\ v1 \in Seq(A) /\ Len(c1) = Len(v1)
      /\ AllMet(row, c1, v1) <=> (p1 => Meets(row, "service", s1))
  <2>1. "service" \in A /\ s1 \in A /\ p1 \in BOOLEAN
    BY <1>0
  <2> QED
    BY <2>1, MeetsGiven, ZenonT(30)
<1>3. /\ c2 \in Seq(A) /\ v2 \in Seq(A) /\ Len(c2) = Len(v2)
      /\ AllMet(row, c2, v2) <=> (p2 => Meets(row, "name", s2))
  <2>1. "name" \in A /\ s2 \in A /\ p2 \in BOOLEAN
    BY <1>0
  <2> QED
    BY <2>1, MeetsGiven, ZenonT(30)
<1>4. /\ c3 \in Seq(A) /\ v3 \in Seq(A) /\ Len(c3) = Len(v3)
      /\ AllMet(row, c3, v3) <=> (p3 => Meets(row, "since", s3))
  <2>1. "since" \in A /\ s3 \in A /\ p3 \in BOOLEAN
    BY <1>0
  <2> QED
    BY <2>1, MeetsGiven, ZenonT(30)
<1>5. /\ c4 \in Seq(A) /\ v4 \in Seq(A) /\ Len(c4) = Len(v4)
      /\ AllMet(row, c4, v4) <=> (p4 => Meets(row, "min", s4))
  <2>1. "min" \in A /\ s4 \in A /\ p4 \in BOOLEAN
    BY <1>0
  <2> QED
    BY <2>1, MeetsGiven, ZenonT(30)
<1> HIDE DEF c1, c2, c3, c4, v1, v2, v3, v4
<1>6. /\ c1 \o c2 \in Seq(A) /\ v1 \o v2 \in Seq(A) /\ Len(c1 \o c2) = Len(v1 \o v2)
      /\ AllMet(row, c1 \o c2, v1 \o v2) <=> AllMet(row, c1, v1) /\ AllMet(row, c2, v2)
  <2>1. c1 \in Seq(A) /\ v1 \in Seq(A) /\ Len(c1) = Len(v1)
    BY <1>2
  <2>2. c2 \in Seq(A) /\ v2 \in Seq(A) /\ Len(c2) = Len(v2)
    BY <1>3
  <2> QED
    BY <2>1, <2>2, MeetsConcat, SMTT(60)
<1> DEFINE c12 == c1 \o c2
           v12 == v1 \o v2
<1>7. /\ c12 \o c3 \in Seq(A) /\ v12 \o v3 \in Seq(A) /\ Len(c12 \o c3) = Len(v12 \o v3)
      /\ AllMet(row, c12 \o c3, v12 \o v3) <=> AllMet(row, c12, v12) /\ AllMet(row, c3, v3)
  <2>1. c12 \in Seq(A) /\ v12 \in Seq(A) /\ Len(c12) = Len(v12)
    BY <1>6
  <2> HIDE DEF c12, v12
  <2> QED
    <3>1. c3 \in Seq(A) /\ v3 \in Seq(A) /\ Len(c3) = Len(v3)
      BY <1>4
    <3> QED
      BY <2>1, <3>1, MeetsConcat, SMTT(60)
<1> DEFINE c123 == c12 \o c3
           v123 == v12 \o v3
<1>8. AllMet(row, c123 \o c4, v123 \o v4) <=> AllMet(row, c123, v123) /\ AllMet(row, c4, v4)
  <2>1. c123 \in Seq(A) /\ v123 \in Seq(A) /\ Len(c123) = Len(v123)
    BY <1>7
  <2> HIDE DEF c123, v123
  <2> QED
    BY <1>5, <2>1, MeetsConcat, Zenon
<1>9. AllMet(row, P, B) <=> /\ p1 => Meets(row, "service", s1)
                            /\ p2 => Meets(row, "name", s2)
                            /\ p3 => Meets(row, "since", s3)
                            /\ p4 => Meets(row, "min", s4)
  <2>1. P = c123 \o c4 /\ B = v123 \o v4
    BY <1>1
  <2> HIDE DEF P, B
  <2> QED
    BY <1>2, <1>3, <1>4, <1>5, <1>6, <1>7, <1>8, <2>1, Zenon
<1>10. /\ Meets(row, "service", f.service) <=> row.service = f.service
       /\ Meets(row, "name", f.name) <=> row.name = f.name
       /\ Meets(row, "since", Since(f)) <=> row.start >= Since(f)
       /\ Meets(row, "min", f.min * NsPerUs) <=> row.dur >= f.min * NsPerUs
  BY DEF Meets
<1>11. row \in Selected <=> (f.error => row.error) /\ AllMet(row, P, B)
  <2> HIDE DEF P, B
  <2>1. Selected = {r \in Rows : /\ StatusMeets(r)
                                 /\ \A k \in 1..Len(P) : Meets(r, P[k], B[k])}
    BY Zenon DEF Selected, P, B
  <2> QED
    BY <2>1, Zenon DEF StatusMeets, AllMet
<1> HIDE DEF P, B
<1> QED
  BY <1>9, <1>10, <1>11, Zenon DEF p1, p2, p3, p4, s1, s2, s3, s4

\* When the command is run, the query is what was asked for.
LEMMA AskedIsSelected ==
  ASSUME typed \in Seq(Groups), AtGroup(Len(typed))
  PROVE  /\ Selected = {row \in Rows : Wanted(row)}
         /\ Limit = AskedLimit /\ Limit \in Nat \ {0}
<1>1. f \in Filters /\ Parsed(Len(typed))
  BY DEF AtGroup
<1>2. f.service = Last1("--service") /\ f.name = Last1("--name")
  BY <1>1, LastFinal DEF Parsed
<1>3. f.error = (Last1("--status") = "error")
  BY <1>1, LastFinal DEF Parsed
<1>4. f.since = Amount(Last1("--since"))
  BY <1>1, LastFinal DEF Parsed
<1>5. f.min = Amount(Last1("--min-duration-us"))
  BY <1>1, LastFinal DEF Parsed
<1>6. f.limit = Amount(Last1("--limit")) /\ f.limit \in Int
  BY <1>1, LastFinal DEF Parsed, Filters
<1>7. ASSUME NEW row \in Rows
      PROVE  row \in Selected <=> Wanted(row)
  <2>1. /\ f.service # Null => row.service = f.service
        /\ f.name # Null => row.name = f.name
        <=> Last1("--service") \in {Null, row.service} /\ Last1("--name") \in {Null, row.name}
    BY <1>2
  <2>2. (f.error => row.error) <=> (Last1("--status") = "error" => row.error)
    BY <1>3
  <2>3. (f.since # 0 => row.start >= Since(f))
        <=> (Last1("--since") # Null /\ Number(Last1("--since")) # 0
               => row.start >= (NowSec - Number(Last1("--since"))) * NsPerSec)
    BY <1>4, Zenon DEF Amount, Since
  <2>4. (f.min # 0 => row.dur >= f.min * NsPerUs)
        <=> (Last1("--min-duration-us") # Null /\ Number(Last1("--min-duration-us")) # 0
               => row.dur >= Number(Last1("--min-duration-us")) * NsPerUs)
    BY <1>5, Zenon DEF Amount
  <2>5. row \in Selected
          <=> /\ f.error => row.error
              /\ f.service # Null => row.service = f.service
              /\ f.name # Null => row.name = f.name
              /\ f.since # 0 => row.start >= Since(f)
              /\ f.min # 0 => row.dur >= f.min * NsPerUs
    BY SelectedFacts
  <2> QED
    BY <2>1, <2>2, <2>3, <2>4, <2>5, Zenon DEF Wanted
<1>8. Selected \subseteq Rows
  BY DEF Selected
<1>9. Limit = AskedLimit /\ Limit \in Nat \ {0}
  BY <1>6, NumberType DEF Limit, AskedLimit, Amount
<1> QED
  BY <1>7, <1>8, <1>9, Zenon

LEMMA RowsOrdered ==
  ASSUME NEW items, items \subseteq Rows
  PROVE  Ordered(items)
BY QueryAssumption, FS_Subset DEF Ordered

LEMMA Oldest ==
  ASSUME NEW items, Ordered(items), items # {}
  PROVE  \E a \in items : \A b \in items : a.start <= b.start
<1> DEFINE n == Cardinality(items)
<1>1. PICK s \in [1..n -> items] : NewestFirst(s)
  BY Sortable
<1>2. n \in Nat /\ \A a \in items : \E k \in 1..n : s[k] = a
  BY <1>1, SortedFacts
<1> HIDE DEF n
<1>3. n \in 1..n
  BY <1>2
<1>4. ASSUME NEW b \in items
      PROVE  s[n].start <= b.start
  <2>1. PICK k \in 1..n : s[k] = b
    BY <1>2
  <2>2. s[n].start \in Int /\ b.start \in Int
    BY <1>1, <1>3 DEF Ordered
  <2>3. k < n => s[k].start > s[n].start
    BY <1>1, <1>3 DEF NewestFirst
  <2> QED
    BY <1>2, <2>1, <2>2, <2>3
<1> QED
  BY <1>1, <1>3, <1>4

\* The selected spans of one trace.
OfTrace(t) == {s \in Selected : s.trace = t}

LEMMA SummaryFacts ==
  ASSUME NEW r \in Selected
  PROVE  \E a \in Selected :
           /\ a.trace = r.trace /\ \A b \in Selected : b.trace = r.trace => a.start <= b.start
           /\ Summary(OfTrace(r.trace)).trace = a.trace
           /\ Summary(OfTrace(r.trace)).start = a.start
<1> DEFINE g == OfTrace(r.trace)
           a == CHOOSE x \in g : \A y \in g : x.start <= y.start
<1>1. r \in g /\ g \subseteq Rows /\ \A x : x \in g <=> x \in Selected /\ x.trace = r.trace
  BY DEF OfTrace, Selected
<1>2. Summary(g).trace = a.trace /\ Summary(g).start = a.start
  BY DEF Summary
<1> HIDE DEF g
<1>3. \E x \in g : \A y \in g : x.start <= y.start
  BY <1>1, RowsOrdered, Oldest
<1>4. a \in g /\ \A y \in g : a.start <= y.start
  BY <1>3, Zenon
<1> HIDE DEF a
<1> QED
  BY <1>1, <1>2, <1>4 DEF g

\* Traces that start at different times.
LEMMA ListedOrdered ==
  /\ Ordered(Listed)
  /\ \A a \in Listed : \E r \in Selected : a = Summary(OfTrace(r.trace))
  /\ \A r \in Selected : Summary(OfTrace(r.trace)) \in Listed
<1> DEFINE sum == [r \in Selected |-> Summary(OfTrace(r.trace))]
<1>1. Listed = {Summary(OfTrace(r.trace)) : r \in Selected}
  BY DEF Listed, OfTrace
<1>2. /\ \A a \in Listed : \E r \in Selected : a = Summary(OfTrace(r.trace))
      /\ \A r \in Selected : Summary(OfTrace(r.trace)) \in Listed
  BY <1>1
<1>3. Selected \subseteq Rows
  BY DEF Selected
<1>4. IsFiniteSet(Listed)
  <2>1. sum \in [Selected -> Listed] /\ \A a \in Listed : \E r \in Selected : sum[r] = a
    BY <1>2
  <2>2. IsFiniteSet(Selected)
    BY <1>3, QueryAssumption, FS_Subset
  <2> HIDE DEF sum
  <2> QED
    BY <2>1, <2>2, FS_Surjection DEF ExistsSurjection, Surjection
<1>5. \A a \in Listed : a.start \in Int
  BY <1>2, <1>3, SummaryFacts, QueryAssumption
<1>6. ASSUME NEW a \in Listed, NEW b \in Listed, a.start = b.start
      PROVE  a = b
  <2>1. PICK r \in Selected : a = Summary(OfTrace(r.trace))
    BY <1>2
  <2>2. PICK q \in Selected : b = Summary(OfTrace(q.trace))
    BY <1>2
  <2>3. PICK x \in Selected : x.trace = r.trace /\ a.start = x.start
    BY <2>1, SummaryFacts
  <2>4. PICK y \in Selected : y.trace = q.trace /\ b.start = y.start
    BY <2>2, SummaryFacts
  <2>5. x = y
    BY <1>3, <1>6, <2>3, <2>4, QueryAssumption
  <2> QED
    BY <2>1, <2>2, <2>3, <2>4, <2>5
<1> QED
  BY <1>2, <1>4, <1>5, <1>6 DEF Ordered

-----------------------------------------------------------------------------
(* The steps.                                                              *)

\* Nothing that main does changes what was asked for.
LEMMA SameQuestion ==
  ASSUME typed' = typed
  PROVE  /\ Clean' <=> Clean
         /\ \A command : Asked(command)' <=> Asked(command)
         /\ \A row : Wanted(row)' <=> Wanted(row)
         /\ AskedLimit' = AskedLimit /\ MinAsked' = MinAsked
<1>1. Clean' <=> Clean
  BY DEF Clean
<1>2. \A command : Asked(command)' <=> Asked(command)
  BY <1>1 DEF Asked
<1>3. ASSUME NEW opt
      PROVE  Last1(opt)' = Last1(opt)
  <2> DEFINE At == {k \in 1..Len(typed) : typed[k][1] = opt}
             NewAt == {k \in 1..Len(typed') : typed'[k][1] = opt}
             G(S) == CHOOSE k \in S : \A j \in S : j <= k
  <2>1. NewAt = At
    OBVIOUS
  <2>2. /\ Last1(opt) = IF At = {} THEN Null ELSE typed[G(At)][2]
        /\ Last1(opt)' = IF NewAt = {} THEN Null ELSE typed'[G(NewAt)][2]
    BY DEF Last1
  <2> HIDE DEF At, NewAt, G
  <2> QED
    BY <2>1, <2>2
<1>4. \A row : Wanted(row)' <=> Wanted(row)
  BY <1>3, Zenon DEF Wanted, Number
<1>5. AskedLimit' = AskedLimit
  BY <1>3, Zenon DEF AskedLimit, Number
<1>6. MinAsked' = MinAsked
  BY <1>3, Zenon DEF MinAsked, Number
<1> QED
  BY <1>1, <1>2, <1>4, <1>5, <1>6

\* What is true of the whole command line once the loop is over.
LEMMA LoopIsOver ==
  ASSUME QueryInv, rc = Running, i > Len(argv), NEW command, Asked(command)
  PROVE  /\ cmd = command /\ Clean
         /\ Selected = {row \in Rows : Wanted(row)}
         /\ Limit = AskedLimit /\ Limit \in Nat \ {0}
<1>1. typed \in Seq(Groups) /\ Clean
  BY DEF QueryInv, Asked
<1>2. PICK n \in 0..Len(typed) : AtGroup(n)
  BY <1>1 DEF QueryInv
<1>3. n = Len(typed)
  BY <1>1, <1>2, BeforeLast
<1>4. AtGroup(Len(typed))
  BY <1>2, <1>3
<1> QED
  BY <1>1, <1>4, AskedIsRun, AskedIsSelected

LEMMA SpansStep ==
  ASSUME QueryInv, Spans
  PROVE  (SpansAsAsked /\ ListAsAsked)'
<1>1. /\ rc = Running /\ i > Len(argv) /\ cmd = "spans" /\ typed' = typed
      /\ out' = Newest(Selected) /\ rc' = 0
  BY DEF Spans, Ready
<1>2. ListAsAsked'
  <2>1. ~Asked("list")
    BY <1>1, LoopIsOver
  <2> QED
    BY <1>1, <2>1, SameQuestion, Zenon DEF ListAsAsked
<1>3. SpansAsAsked'
  <2>1. CASE ~Asked("spans")
    BY <1>1, <2>1, SameQuestion, Zenon DEF SpansAsAsked
  <2>2. CASE Asked("spans")
    <3> DEFINE wanted == {row \in Rows : Wanted(row)}
               o == Newest(Selected)
    <3>1. Selected = wanted /\ Limit = AskedLimit /\ Limit \in Nat \ {0}
      BY <1>1, <2>2, LoopIsOver
    <3>2. Ordered(Selected)
      BY RowsOrdered DEF Selected
    <3>3. /\ o \in Seq(Selected)
          /\ Len(o) = IF Cardinality(Selected) < Limit THEN Cardinality(Selected) ELSE Limit
          /\ \A k \in 1..Len(o) : Cardinality(NewerThan(Selected, o[k])) = k - 1
      BY <3>1, <3>2, NewestFacts, Zenon
    <3>4. Cardinality(Selected) \in Nat
      BY <3>2, NewerCounts
    <3> HIDE DEF o
    <3>5. \A k \in 1..Len(o) : o[k] \in Selected
      BY <3>3
    <3>6. \A k \in 1..Len(o) :
            /\ o[k] \in wanted
            /\ Cardinality({row \in wanted : row.start > o[k].start}) = k - 1
      BY <3>1, <3>3, <3>5, Zenon DEF NewerThan
    <3>7. \/ Len(o) = AskedLimit
          \/ Len(o) < AskedLimit /\ Len(o) = Cardinality(wanted)
      <4>1. Len(o) = Limit \/ (Len(o) < Limit /\ Len(o) = Cardinality(Selected))
        BY <3>1, <3>3, <3>4
      <4> QED
        BY <3>1, <4>1, Zenon
    <3>8. {row \in Rows : Wanted(row)}' = wanted /\ AskedLimit' = AskedLimit
      <4>1. \A row : Wanted(row)' <=> Wanted(row)
        BY <1>1, SameQuestion
      <4>2. AskedLimit' = AskedLimit
        BY <1>1, SameQuestion
      <4> QED
        BY <4>1, <4>2, Zenon
    <3>9. out' = o /\ rc' = 0
      BY <1>1 DEF o
    <3> HIDE DEF wanted
    <3> QED
      BY <3>6, <3>7, <3>8, <3>9, Zenon DEF SpansAsAsked
  <2> QED
    BY <2>1, <2>2
<1> QED
  BY <1>2, <1>3

LEMMA ListStep ==
  ASSUME QueryInv, List
  PROVE  (SpansAsAsked /\ ListAsAsked)'
<1>1. /\ rc = Running /\ i > Len(argv) /\ cmd = "list" /\ typed' = typed
      /\ out' = Newest(Listed) /\ rc' = 0
  BY DEF List, Ready
<1>2. SpansAsAsked'
  <2>1. ~Asked("spans")
    BY <1>1, LoopIsOver
  <2> QED
    BY <1>1, <2>1, SameQuestion, Zenon DEF SpansAsAsked
<1>3. ListAsAsked'
  <2>1. CASE ~Asked("list")
    BY <1>1, <2>1, SameQuestion, Zenon DEF ListAsAsked
  <2>2. CASE Asked("list")
    <3> DEFINE wanted == {row \in Rows : Wanted(row)}
               o == Newest(Listed)
    <3>1. Selected = wanted /\ Limit = AskedLimit /\ Limit \in Nat \ {0}
      BY <1>1, <2>2, LoopIsOver
    <3>2. /\ Ordered(Listed)
          /\ \A a \in Listed : \E r \in Selected : a = Summary(OfTrace(r.trace))
          /\ \A r \in Selected : Summary(OfTrace(r.trace)) \in Listed
      BY ListedOrdered
    <3>3. /\ o \in Seq(Listed)
          /\ Len(o) = IF Cardinality(Listed) < Limit THEN Cardinality(Listed) ELSE Limit
          /\ \A j, k \in 1..Len(o) : o[j] = o[k] => j = k
          /\ \A a \in Listed : \/ \E k \in 1..Len(o) : o[k] = a
                               \/ /\ Len(o) = Limit
                                  /\ \A k \in 1..Len(o) : a.start < o[k].start
      BY <3>1, <3>2, NewestFacts, Zenon
    <3>4. Cardinality(Listed) \in Nat
      BY <3>2, NewerCounts
    <3> HIDE DEF o, wanted
    <3>5. Len(o) <= AskedLimit /\ \A k \in 1..Len(o) : o[k] \in Listed
      BY <3>1, <3>3, <3>4
    <3>6. ASSUME NEW a \in Listed
          PROVE  \E row \in wanted :
                   /\ row.trace = a.trace /\ row.start = a.start
                   /\ \A s \in wanted : s.trace = row.trace => row.start <= s.start
                   /\ a = Summary(OfTrace(row.trace))
      BY <3>1, <3>2, SummaryFacts
    <3>7. \A j, k \in 1..Len(o) : o[j].trace = o[k].trace => j = k
      BY <3>3, <3>5, <3>6
    <3>8. \A k \in 1..Len(o) : \E row \in wanted :
            /\ row.trace = o[k].trace /\ row.start = o[k].start
            /\ \A s \in wanted : s.trace = row.trace => row.start <= s.start
      BY <3>5, <3>6
    <3>9. ASSUME NEW row \in wanted
          PROVE  \/ \E k \in 1..Len(o) : o[k].trace = row.trace
                 \/ /\ Len(o) = AskedLimit
                    /\ \E s \in wanted : /\ s.trace = row.trace
                                         /\ \A k \in 1..Len(o) : s.start < o[k].start
      <4> DEFINE a == Summary(OfTrace(row.trace))
      <4>1. a \in Listed
        BY <3>1, <3>2
      <4>2. PICK s \in wanted : s.trace = row.trace /\ a.trace = s.trace /\ a.start = s.start
        BY <3>1, SummaryFacts
      <4> HIDE DEF a
      <4> QED
        BY <3>1, <3>3, <4>1, <4>2
    <3>10. {row \in Rows : Wanted(row)}' = wanted /\ AskedLimit' = AskedLimit
      <4>1. \A row : Wanted(row)' <=> Wanted(row)
        BY <1>1, SameQuestion
      <4>2. AskedLimit' = AskedLimit
        BY <1>1, SameQuestion
      <4> QED
        BY <4>1, <4>2, Zenon DEF wanted
    <3>11. out' = o /\ rc' = 0 /\ MinAsked' = MinAsked
      BY <1>1, SameQuestion DEF o
    <3>12. ASSUME NEW k \in 1..Len(o), MinAsked # 0
           PROVE  \E r, s \in Rows : /\ r.trace = o[k].trace /\ s.trace = o[k].trace
                                     /\ End(s) - r.start >= MinAsked * NsPerUs
      <4>1. PICK row \in wanted : row.trace = o[k].trace
        BY <3>8
      <4>2. row \in Rows /\ Wanted(row)
        BY DEF wanted
      <4>3. row.dur >= MinAsked * NsPerUs
        BY <3>12, <4>2 DEF Wanted, MinAsked
      <4>4. row.start \in Int /\ row.dur \in Int /\ MinAsked \in Int /\ NsPerUs \in Nat
        BY <4>2, QueryAssumption, NumberType DEF MinAsked
      <4>5. End(row) - row.start = row.dur
        BY <4>4 DEF End
      <4> QED
        BY <4>1, <4>2, <4>3, <4>5
    <3>13. MinAsked # 0 => \A k \in 1..Len(o) : \E r, s \in Rows :
             /\ r.trace = o[k].trace /\ s.trace = o[k].trace
             /\ End(s) - r.start >= MinAsked * NsPerUs
      BY <3>12
    <3>14. \A row \in wanted :
             \/ \E k \in 1..Len(o) : o[k].trace = row.trace
             \/ /\ Len(o) = AskedLimit
                /\ \E s \in wanted : /\ s.trace = row.trace
                                     /\ \A k \in 1..Len(o) : s.start < o[k].start
      BY <3>9
    <3> QED
      BY <3>5, <3>7, <3>8, <3>10, <3>11, <3>13, <3>14, ZenonT(60) DEF ListAsAsked, End
  <2> QED
    BY <2>1, <2>2
<1> QED
  BY <1>2, <1>3

LEMMA QueryStep ==
  ASSUME QueryInv, [QueryNext]_queryVars
  PROVE  QueryInv'
<1>1. typed' = typed
  BY DEF QueryNext, queryVars, ParseValued, ParseBad, ParseHelp, ParseWord, Spans, List, Fails, Usage
<1>2. typed' \in Seq(Groups) /\ (Clean' <=> Clean)
  BY <1>1, SameQuestion DEF QueryInv
<1>3. ASSUME rc = Running, Clean
      PROVE  \E n \in 0..Len(typed) : AtGroup(n)
  BY <1>3 DEF QueryInv
<1>4. ASSUME rc' = 1 \/ (rc' = Running /\ rc = Running)
      PROVE  (SpansAsAsked /\ ListAsAsked)'
  BY <1>4 DEF SpansAsAsked, ListAsAsked, Returned
<1>5. ASSUME ~Clean
      PROVE  (SpansAsAsked /\ ListAsAsked)'
  <2>1. \A command : ~Asked(command)'
    BY <1>1, <1>5, SameQuestion DEF Asked
  <2> QED
    BY <2>1, Zenon DEF SpansAsAsked, ListAsAsked
<1>6. CASE ParseValued \/ ParseWord
  <2>1. rc = Running /\ rc' = Running
    BY <1>6 DEF ParseValued, ParseWord, Parsing
  <2>2. ASSUME Clean
        PROVE  \E n \in 0..Len(typed) : AtGroup(n)'
    BY <1>3, <1>6, <2>1, <2>2, ParseValuedStep, ParseWordStep DEF QueryInv
  <2> QED
    BY <1>1, <1>2, <1>4, <2>1, <2>2, Zenon DEF QueryInv
<1>7. CASE ParseBad \/ ParseHelp
  <2>1. rc = Running /\ rc' # Running
    BY <1>7 DEF ParseBad, ParseHelp, Parsing, Running
  <2>2. ~Clean
    BY <1>3, <1>7, <2>1, CleanGoesOn DEF QueryInv
  <2> QED
    BY <1>2, <1>5, <2>1, <2>2, Zenon DEF QueryInv
<1>8. CASE Spans
  <2>1. rc' # Running
    BY <1>8 DEF Spans, Running
  <2> QED
    BY <1>2, <1>8, <2>1, SpansStep, Zenon DEF QueryInv
<1>9. CASE List
  <2>1. rc' # Running
    BY <1>9 DEF List, Running
  <2> QED
    BY <1>2, <1>9, <2>1, ListStep, Zenon DEF QueryInv
<1>10. CASE Fails
  <2>1. rc' # Running /\ rc' = 1
    BY <1>10 DEF Fails, Running
  <2> QED
    BY <1>2, <1>4, <2>1, Zenon DEF QueryInv
<1>11. CASE Usage
  <2>1. rc' # Running /\ rc = Running /\ i > Len(argv) /\ cmd \notin {"spans", "list"}
    BY <1>11 DEF Usage, Running, Commands
  <2>2. ~Asked("spans")' /\ ~Asked("list")'
    BY <1>1, <2>1, LoopIsOver, SameQuestion
  <2> QED
    BY <1>2, <2>1, <2>2, Zenon DEF QueryInv, SpansAsAsked, ListAsAsked
<1>12. CASE UNCHANGED queryVars
  <2>1. QueryInv' <=> QueryInv
    <3>1. /\ rc' = rc /\ out' = out /\ argv' = argv /\ i' = i /\ f' = f /\ cmd' = cmd
          /\ typed' = typed
      BY <1>12 DEF queryVars
    <3>2. \A n : AtGroup(n)' <=> AtGroup(n)
      <4>1. \A opt, n, v : LastIs(opt, n, v)' <=> LastIs(opt, n, v)
        BY <3>1 DEF LastIs
      <4>2. \A n : Parsed(n)' <=> Parsed(n)
        BY <3>1, <4>1, Zenon DEF Parsed, Amount, Number
      <4>3. \A off : LaidOut(off, typed, Len(typed), argv)' <=> LaidOut(off, typed, Len(typed), argv)
        BY <3>1 DEF LaidOut
      <4> QED
        BY <3>1, <4>2, <4>3 DEF AtGroup, Filters
    <3>3. SpansAsAsked' <=> SpansAsAsked
      BY <3>1, SameQuestion DEF SpansAsAsked, Returned
    <3>4. ListAsAsked' <=> ListAsAsked
      BY <3>1, SameQuestion DEF ListAsAsked, Returned
    <3> QED
      BY <1>2, <3>1, <3>2, <3>3, <3>4, Zenon DEF QueryInv
  <2> QED
    BY <2>1
<1> QED
  BY <1>6, <1>7, <1>8, <1>9, <1>10, <1>11, <1>12 DEF QueryNext

-----------------------------------------------------------------------------
(* The tree that show prints.                                              *)

\* The rows that a frame is there to print.
Belongs(p, r) == IF p = NoParent THEN IsRoot(r) ELSE parentId[r] = p

Frames == [parent : Ids \cup {NoParent}, depth : Nat, i : 1..N + 1]
Lines == [row : TreeRows, depth : Nat]

\* Before cmd_show has read the trace.
Unloaded == spanId = <<>> /\ parentId = <<>> /\ printed = {} /\ stack = <<>> /\ lines = <<>>

Loaded ==
    /\ spanId \in [TreeRows -> Ids] /\ parentId \in [TreeRows -> Ids \cup {NoParent}]
    /\ Descends(spanId, parentId)
    /\ printed \subseteq TreeRows /\ lines \in Seq(Lines) /\ stack \in Seq(Frames)

\* The rows marked are those on a line, and none is on two.
MarkedInv ==
    /\ \A r \in TreeRows : r \in printed <=> \E k \in 1..Len(lines) : lines[k].row = r
    /\ \A j, k \in 1..Len(lines) : lines[j].row = lines[k].row => j = k

\* A frame's depth is its place on the stack; only the outermost prints roots.
DepthInv ==
    \A m \in 1..Len(stack) :
        stack[m].depth = m - 1 /\ (stack[m].parent = NoParent <=> m = 1)

\* A frame has left no row of its own behind.
BehindInv ==
    \A m \in 1..Len(stack) : \A r \in TreeRows :
        r < stack[m].i /\ Belongs(stack[m].parent, r) => r \in printed

\* A nested frame's parent is on a line that nothing but its subtree follows.
UnderInv ==
    \A m \in 2..Len(stack) : \E j \in 1..Len(lines) :
        /\ spanId[lines[j].row] = stack[m].parent
        /\ lines[j].depth = m - 2
        /\ \A k \in 1..Len(lines) : k > j => lines[k].depth >= m - 1

\* A row's children are printed already or there is a frame to print them.
CoverInv ==
    /\ stack = <<>> => \A r \in TreeRows : IsRoot(r) => r \in printed
    /\ \A r \in printed :
         \/ \E m \in 1..Len(stack) : stack[m].parent = spanId[r]
         \/ \A c \in TreeRows : parentId[c] = spanId[r] => c \in printed

\* No row is printed before an older child of the same parent.
OrderInv ==
    \A r \in printed : \A s \in TreeRows :
        s < r /\ parentId[s] = parentId[r] => s \in printed

\* OutlineIsTree with the nearest line of less indentation named.
NestedInv ==
    \A k \in 1..Len(lines) :
        IF IsRoot(lines[k].row) THEN lines[k].depth = 0
        ELSE \E j \in 1..k - 1 :
               /\ lines[j].depth = lines[k].depth - 1
               /\ spanId[lines[j].row] = parentId[lines[k].row]
               /\ \A l \in 1..k - 1 : l > j => lines[l].depth >= lines[k].depth

SiblingInv ==
    \A j, k \in 1..Len(lines) :
        j < k /\ parentId[lines[j].row] = parentId[lines[k].row]
            => lines[j].row < lines[k].row

TreeInv ==
    \/ Unloaded
    \/ Loaded /\ MarkedInv /\ DepthInv /\ BehindInv /\ UnderInv /\ CoverInv
       /\ OrderInv /\ NestedInv /\ SiblingInv

LEMMA RowsFacts ==
  /\ N \in Nat \ {0} /\ MaxId \in Nat \ {0} /\ NoParent \notin Ids
  /\ TreeRows \subseteq Nat /\ 1 \in TreeRows
  /\ \A r \in TreeRows : r >= 1 /\ r <= N
BY TreeAssumption DEF TreeRows, Ids, NoParent

LEMMA FrontFacts ==
  ASSUME NEW S, NEW s \in Seq(S), s # <<>>
  PROVE  /\ Front(s) \in Seq(S) /\ Len(Front(s)) = Len(s) - 1
         /\ \A m \in 1..Len(s) - 1 : Front(s)[m] = s[m]
<1>1. Len(s) - 1 \in 0..Len(s)
  OBVIOUS
<1> QED
  BY <1>1, PrefixFacts DEF Front

LEMMA TreeStart == TreeInit => TreeInv
BY DEF TreeInit, TreeInv, Unloaded

\* What the loop variable's increment leaves on the stack.
LEMMA AdvancedFacts ==
  ASSUME stack \in Seq(Frames), stack # <<>>, Top.i <= N
  PROVE  /\ Len(stack) \in Nat \ {0} /\ Top = stack[Len(stack)]
         /\ Advanced \in Seq(Frames) /\ Len(Advanced) = Len(stack)
         /\ \A m \in 1..Len(stack) : Advanced[m].parent = stack[m].parent
                                     /\ Advanced[m].depth = stack[m].depth
         /\ \A m \in 1..Len(stack) - 1 : Advanced[m].i = stack[m].i
         /\ Advanced[Len(stack)].i = Top.i + 1
<1> DEFINE n == Len(stack)
<1>1. n \in Nat \ {0} /\ n \in 1..n /\ stack[n] \in Frames
  OBVIOUS
<1>2. Top = stack[n]
  BY DEF Top, Last
<1>3. stack[n].i \in 1..N + 1 /\ stack[n].i <= N /\ stack[n].i + 1 \in 1..N + 1
  BY <1>1, <1>2, RowsFacts DEF Frames
<1>4. PICK u : u = [stack[n] EXCEPT !.i = stack[n].i + 1]
  OBVIOUS
<1>5. u \in Frames /\ u.i = stack[n].i + 1 /\ u.parent = stack[n].parent /\ u.depth = stack[n].depth
  BY <1>1, <1>3, <1>4 DEF Frames
<1>6. Advanced = [stack EXCEPT ![n] = u]
  BY <1>1, <1>4 DEF Advanced
<1>7. Advanced \in Seq(Frames) /\ Len(Advanced) = n
  BY <1>1, <1>5, <1>6
<1>8. \A m \in 1..n : Advanced[m] = IF m = n THEN u ELSE stack[m]
  BY <1>1, <1>6
<1> QED
  BY <1>1, <1>2, <1>5, <1>7, <1>8

\* Reading the trace starts the outermost frame, before any row.
LEMMA LoadStep == TreeInv /\ LoadTrace => TreeInv'
<1> SUFFICES ASSUME TreeInv, LoadTrace PROVE TreeInv'
  OBVIOUS
<1>1. spanId = <<>>
  BY DEF LoadTrace
<1>2. Unloaded
  <2>1. ASSUME spanId \in [TreeRows -> Ids] PROVE FALSE
    <3>1. DOMAIN spanId = TreeRows
      BY <2>1
    <3>2. DOMAIN spanId = {}
      BY <1>1
    <3> QED
      BY <3>1, <3>2, RowsFacts
  <2> QED
    BY <2>1 DEF TreeInv, Loaded
<1>3. /\ spanId' \in [TreeRows -> Ids] /\ parentId' \in [TreeRows -> Ids \cup {NoParent}]
      /\ Descends(spanId', parentId') /\ stack' = <<Frame(NoParent, 0)>>
      /\ printed' = {} /\ lines' = <<>>
  BY <1>2 DEF LoadTrace, Unloaded
<1>4. PICK u : u = Frame(NoParent, 0)
  OBVIOUS
<1>5. u \in Frames /\ u.parent = NoParent /\ u.depth = 0 /\ u.i = 1
  BY <1>4, RowsFacts DEF Frame, Frames
<1>6. stack' \in Seq(Frames) /\ Len(stack') = 1 /\ stack'[1] = u /\ stack' # <<>>
  BY <1>3, <1>4, <1>5
<1>7. Len(lines') = 0 /\ lines' \in Seq(Lines)
  BY <1>3
<1>8. (Descends(spanId, parentId))'
  BY <1>3 DEF Descends
<1>9. Loaded'
  BY <1>3, <1>6, <1>7, <1>8 DEF Loaded
<1>10. MarkedInv'
  BY <1>3, <1>7 DEF MarkedInv
<1>11. DepthInv'
  BY <1>5, <1>6 DEF DepthInv
<1>12. BehindInv'
  BY <1>5, <1>6, RowsFacts DEF BehindInv
<1>13. UnderInv'
  BY <1>6 DEF UnderInv
<1>14. CoverInv' /\ OrderInv'
  BY <1>3, <1>6 DEF CoverInv, OrderInv
<1>15. NestedInv' /\ SiblingInv'
  BY <1>7 DEF NestedInv, SiblingInv
<1> QED
  BY <1>9, <1>10, <1>11, <1>12, <1>13, <1>14, <1>15 DEF TreeInv

\* A frame that passes a row leaves it to another frame or finds it printed.
LEMMA SkipStep ==
  ASSUME Loaded, MarkedInv, DepthInv, BehindInv, UnderInv, CoverInv, OrderInv, NestedInv,
         SiblingInv, Skip
  PROVE  TreeInv'
<1> DEFINE n == Len(stack)
<1>1. /\ stack # <<>> /\ Top.i <= N /\ ~Takes(Top, Top.i) /\ stack' = Advanced
      /\ spanId' = spanId /\ parentId' = parentId /\ printed' = printed /\ lines' = lines
  BY DEF Skip
<1>2. stack \in Seq(Frames)
  BY DEF Loaded
<1>3. /\ n \in Nat \ {0} /\ Top = stack[n]
      /\ stack' \in Seq(Frames) /\ Len(stack') = n
      /\ \A m \in 1..n : stack'[m].parent = stack[m].parent
                                  /\ stack'[m].depth = stack[m].depth
      /\ \A m \in 1..n - 1 : stack'[m].i = stack[m].i
      /\ stack'[n].i = Top.i + 1
  BY <1>1, <1>2, AdvancedFacts
<1> HIDE DEF n
<1>4. stack' # <<>>
  BY <1>3
<1>5. Loaded'
  BY <1>1, <1>3 DEF Loaded, Descends
<1>6. MarkedInv' /\ OrderInv'
  BY <1>1 DEF MarkedInv, OrderInv
<1>7. NestedInv' /\ SiblingInv'
  BY <1>1 DEF NestedInv, SiblingInv, IsRoot
<1>8. DepthInv'
  BY <1>3 DEF DepthInv, n
<1>9. UnderInv'
  <2> SUFFICES ASSUME NEW m \in 2..n
               PROVE  \E j \in 1..Len(lines) :
                         /\ spanId[lines[j].row] = stack'[m].parent
                         /\ lines[j].depth = m - 2
                         /\ \A k \in 1..Len(lines) : k > j => lines[k].depth >= m - 1
    BY <1>1, <1>3 DEF UnderInv
  <2> QED
    BY <1>3 DEF UnderInv, n
<1>10. CoverInv'
  BY <1>1, <1>3, <1>4 DEF CoverInv, IsRoot, n
<1>11. BehindInv'
  <2> SUFFICES ASSUME NEW m \in 1..n, NEW r \in TreeRows,
                      r < stack'[m].i, Belongs(stack[m].parent, r)
               PROVE  r \in printed
    BY <1>1, <1>3 DEF BehindInv, Belongs, IsRoot
  <2>1. CASE r < stack[m].i
    BY <2>1 DEF BehindInv, n
  <2>2. CASE ~(r < stack[m].i)
    <3>1. m = n /\ r = Top.i
      <4>1. stack[m] \in Frames /\ stack[m].i \in Nat /\ r \in Nat
        <5>1. m \in 1..Len(stack)
          BY DEF n
        <5>2. stack[m] \in Frames
          BY <1>2, <5>1
        <5>3. stack[m].i \in 1..N + 1
          BY <5>2 DEF Frames
        <5> QED
          BY <5>2, <5>3, RowsFacts
      <4> QED
        BY <1>3, <2>2, <4>1
    <3> QED
      BY <1>1, <1>3, <3>1 DEF Takes, Done, Belongs
  <2> QED
    BY <2>1, <2>2
<1> QED
  BY <1>5, <1>6, <1>7, <1>8, <1>9, <1>10, <1>11 DEF TreeInv

\* A frame that ends has printed every row of its own.
LEMMA ReturnStep ==
  ASSUME Loaded, MarkedInv, DepthInv, BehindInv, UnderInv, CoverInv, OrderInv, NestedInv,
         SiblingInv, Return
  PROVE  TreeInv'
<1> DEFINE n == Len(stack)
<1>1. /\ stack # <<>> /\ Top.i > N /\ stack' = Front(stack)
      /\ spanId' = spanId /\ parentId' = parentId /\ printed' = printed /\ lines' = lines
  BY DEF Return
<1>2. stack \in Seq(Frames)
  BY DEF Loaded
<1>3. n \in Nat \ {0} /\ n \in 1..n /\ Top = stack[n] /\ stack[n] \in Frames
  BY <1>1, <1>2 DEF Top, Last
<1>4. /\ stack' \in Seq(Frames) /\ Len(stack') = n - 1
      /\ \A m \in 1..n - 1 : stack'[m] = stack[m]
  BY <1>1, <1>2, FrontFacts
<1>5. \A r \in TreeRows : Belongs(stack[n].parent, r) => r \in printed
  <2> SUFFICES ASSUME NEW r \in TreeRows, Belongs(stack[n].parent, r) PROVE r \in printed
    OBVIOUS
  <2>1. r < stack[n].i
    BY <1>1, <1>3, RowsFacts DEF Frames
  <2> QED
    BY <1>3, <2>1 DEF BehindInv
<1> HIDE DEF n
<1>6. Loaded'
  BY <1>1, <1>4 DEF Loaded, Descends
<1>7. MarkedInv' /\ OrderInv'
  BY <1>1 DEF MarkedInv, OrderInv
<1>8. NestedInv' /\ SiblingInv'
  BY <1>1 DEF NestedInv, SiblingInv, IsRoot
<1>9. DepthInv'
  BY <1>3, <1>4 DEF DepthInv, n
<1>10. BehindInv'
  BY <1>1, <1>3, <1>4 DEF BehindInv, Belongs, IsRoot, n
<1>11. UnderInv'
  <2> SUFFICES ASSUME NEW m \in 2..n - 1
               PROVE  \E j \in 1..Len(lines) :
                         /\ spanId[lines[j].row] = stack'[m].parent
                         /\ lines[j].depth = m - 2
                         /\ \A k \in 1..Len(lines) : k > j => lines[k].depth >= m - 1
    BY <1>1, <1>3, <1>4 DEF UnderInv
  <2>1. m \in 2..n /\ stack'[m] = stack[m]
    BY <1>3, <1>4
  <2>2. m \in 2..Len(stack)
    BY <2>1 DEF n
  <2> QED
    BY <2>1, <2>2 DEF UnderInv
<1>12. ASSUME stack' = <<>>, NEW r \in TreeRows, IsRoot(r) PROVE r \in printed
  <2>1. n = 1
    BY <1>3, <1>4, <1>12
  <2>2. stack[n].parent = NoParent
    BY <1>3, <2>1 DEF DepthInv, n
  <2> QED
    BY <1>5, <1>12, <2>2 DEF Belongs
<1>13. ASSUME NEW r \in printed
       PROVE  \/ \E m \in 1..n - 1 : stack'[m].parent = spanId[r]
              \/ \A c \in TreeRows : parentId[c] = spanId[r] => c \in printed
  <2>1. CASE \A c \in TreeRows : parentId[c] = spanId[r] => c \in printed
    BY <2>1
  <2>2. CASE \E m \in 1..n : stack[m].parent = spanId[r]
    <3>1. PICK m \in 1..n : stack[m].parent = spanId[r]
      BY <2>2
    <3>2. CASE m = n
      <4>1. spanId[r] # NoParent
        BY RowsFacts DEF Loaded
      <4> QED
        BY <1>5, <3>1, <3>2, <4>1 DEF Belongs
    <3>3. CASE m # n
      BY <1>3, <1>4, <3>1, <3>3
    <3> QED
      BY <3>2, <3>3
  <2> QED
    BY <2>1, <2>2 DEF CoverInv, n
<1>14. CoverInv'
  BY <1>1, <1>4, <1>12, <1>13 DEF CoverInv, IsRoot
<1> QED
  BY <1>6, <1>7, <1>8, <1>9, <1>10, <1>11, <1>14 DEF TreeInv

\* A line goes under the frame's parent, after the parent's older children.
LEMMA PrintStep ==
  ASSUME Loaded, MarkedInv, DepthInv, BehindInv, UnderInv, CoverInv, OrderInv, NestedInv,
         SiblingInv, PrintRow
  PROVE  TreeInv'
<1> DEFINE n == Len(stack)
           L == Len(lines)
           row == Top.i
           child == Frame(spanId[row], ChildDepth(Top))
           line == [row |-> row, depth |-> Top.depth]
<1>1. /\ stack # <<>> /\ Top.i <= N /\ Takes(Top, row)
      /\ stack' = Append(Advanced, child) /\ lines' = Append(lines, line)
      /\ printed' = printed \cup {row}
      /\ spanId' = spanId /\ parentId' = parentId
  BY DEF PrintRow
<1>2. stack \in Seq(Frames) /\ lines \in Seq(Lines) /\ L \in Nat
  BY DEF Loaded
<1>3. /\ n \in Nat \ {0} /\ Top = stack[n]
      /\ Advanced \in Seq(Frames) /\ Len(Advanced) = n
      /\ \A m \in 1..n : Advanced[m].parent = stack[m].parent
                         /\ Advanced[m].depth = stack[m].depth
      /\ \A m \in 1..n - 1 : Advanced[m].i = stack[m].i
      /\ Advanced[n].i = row + 1
  BY <1>1, <1>2, AdvancedFacts
<1>4. stack[n] \in Frames
  BY <1>2, <1>3
<1>5. Top.depth = n - 1 /\ (Top.parent = NoParent <=> n = 1)
  BY <1>3 DEF DepthInv
<1>6. row \in TreeRows /\ row \in Nat
  <2>1. Top.i \in 1..N + 1
    BY <1>3, <1>4 DEF Frames
  <2> QED
    BY <1>1, <2>1, RowsFacts DEF TreeRows
<1>7. spanId[row] \in Ids /\ spanId[row] # NoParent /\ row \notin printed /\ Belongs(Top.parent, row)
  BY <1>1, <1>6, RowsFacts DEF Loaded, Takes, Done, Belongs
<1>8. /\ child.parent = spanId[row] /\ child.depth = n /\ child.i = 1 /\ child \in Frames
  <2>1. /\ child.parent = spanId[row] /\ child.depth = n /\ child.i = 1
    BY <1>3, <1>5 DEF Frame, ChildDepth
  <2>2. child \in [parent : Ids, depth : {n}, i : {1}]
    BY <1>3, <1>5, <1>7 DEF Frame, ChildDepth
  <2>3. 1 \in 1..N + 1 /\ n \in Nat
    BY <1>3, RowsFacts
  <2> HIDE DEF child, n
  <2> QED
    BY <2>1, <2>2, <2>3 DEF Frames
<1>9. line.row = row /\ line.depth = n - 1 /\ line \in Lines
  BY <1>3, <1>5, <1>6 DEF Lines
<1> HIDE DEF n, child, line
<1>10. /\ stack' \in Seq(Frames) /\ Len(stack') = n + 1 /\ stack'[n + 1] = child
       /\ \A m \in 1..n : stack'[m] = Advanced[m]
  BY <1>1, <1>3, <1>8
<1>11. /\ lines' \in Seq(Lines) /\ Len(lines') = L + 1 /\ lines'[L + 1] = line
       /\ \A k \in 1..L : lines'[k] = lines[k]
  BY <1>1, <1>2, <1>9
<1> HIDE DEF L, row
<1>12. Loaded'
  BY <1>1, <1>6, <1>10, <1>11 DEF Loaded, Descends
<1>13. MarkedInv'
  <2>1. ASSUME NEW r \in TreeRows
        PROVE  r \in printed' <=> \E k \in 1..L + 1 : lines'[k].row = r
    <3>1. CASE r = row
      BY <1>1, <1>2, <1>9, <1>11, <3>1
    <3>2. CASE r # row
      <4>1. r \in printed' <=> \E k \in 1..L : lines[k].row = r
        BY <1>1, <3>2 DEF MarkedInv, L
      <4> QED
        BY <1>2, <1>9, <1>11, <3>2, <4>1
    <3> QED
      BY <3>1, <3>2
  <2>2. ASSUME NEW j \in 1..L + 1, NEW k \in 1..L + 1, lines'[j].row = lines'[k].row
        PROVE  j = k
    <3>1. \A m \in 1..L : lines[m].row # row
      BY <1>6, <1>7 DEF MarkedInv, L
    <3>2. CASE j \in 1..L /\ k \in 1..L
      BY <1>11, <2>2, <3>2 DEF MarkedInv, L
    <3>3. CASE ~(j \in 1..L /\ k \in 1..L)
      BY <1>2, <1>9, <1>11, <2>2, <3>1, <3>3
    <3> QED
      BY <3>2, <3>3
  <2> QED
    BY <1>11, <2>1, <2>2 DEF MarkedInv
<1>14. DepthInv'
  <2> SUFFICES ASSUME NEW m \in 1..n + 1
               PROVE  stack'[m].depth = m - 1 /\ (stack'[m].parent = NoParent <=> m = 1)
    BY <1>10 DEF DepthInv
  <2>1. CASE m = n + 1
    BY <1>3, <1>7, <1>8, <1>10, <2>1
  <2>2. CASE m \in 1..n
    BY <1>3, <1>10, <2>2 DEF DepthInv, n
  <2> QED
    BY <1>3, <2>1, <2>2
<1>15. BehindInv'
  <2> SUFFICES ASSUME NEW m \in 1..n + 1, NEW r \in TreeRows,
                      r < stack'[m].i, Belongs(stack'[m].parent, r)
               PROVE  r \in printed \cup {row}
    BY <1>1, <1>10 DEF BehindInv, Belongs, IsRoot
  <2>1. CASE m = n + 1
    BY <1>8, <1>10, <2>1, RowsFacts
  <2>2. CASE m \in 1..n
    <3>1. stack'[m].parent = stack[m].parent
      BY <1>3, <1>10, <2>2
    <3>2. CASE r < stack[m].i
      BY <2>2, <3>1, <3>2 DEF BehindInv, n
    <3>3. CASE ~(r < stack[m].i)
      <4>1. m \in 1..Len(stack)
        BY <2>2 DEF n
      <4>2. stack[m] \in Frames
        BY <1>2, <4>1
      <4>3. stack[m].i \in 1..N + 1
        BY <4>2 DEF Frames
      <4>4. m = n /\ r <= row
        BY <1>3, <1>6, <1>10, <2>2, <3>3, <4>3, RowsFacts
      <4> QED
        BY <1>3, <1>6, <3>3, <4>4, RowsFacts DEF row
    <3> QED
      BY <3>2, <3>3
  <2> QED
    BY <1>3, <2>1, <2>2
<1>16. UnderInv'
  <2> SUFFICES ASSUME NEW m \in 2..n + 1
               PROVE  \E j \in 1..L + 1 :
                         /\ spanId[lines'[j].row] = stack'[m].parent
                         /\ lines'[j].depth = m - 2
                         /\ \A k \in 1..L + 1 : k > j => lines'[k].depth >= m - 1
    BY <1>1, <1>10, <1>11 DEF UnderInv
  <2>1. CASE m = n + 1
    <3>1. /\ L + 1 \in 1..L + 1 /\ spanId[lines'[L + 1].row] = stack'[m].parent
          /\ lines'[L + 1].depth = m - 2
          /\ \A k \in 1..L + 1 : ~(k > L + 1)
      BY <1>2, <1>3, <1>8, <1>9, <1>10, <1>11, <2>1
    <3> QED
      BY <3>1
  <2>2. CASE m \in 2..n
    <3>1. m \in 2..Len(stack) /\ m \in 1..n
      BY <2>2 DEF n
    <3>2. PICK j \in 1..L :
             /\ spanId[lines[j].row] = stack[m].parent
             /\ lines[j].depth = m - 2
             /\ \A k \in 1..L : k > j => lines[k].depth >= m - 1
      BY <3>1 DEF UnderInv, L
    <3>3. j \in 1..L + 1 /\ lines'[j] = lines[j] /\ stack'[m].parent = stack[m].parent
      BY <1>2, <1>3, <1>10, <1>11, <3>1
    <3>4. \A k \in 1..L + 1 : k > j => lines'[k].depth >= m - 1
      <4> TAKE k \in 1..L + 1
      <4>1. CASE k \in 1..L
        BY <1>11, <3>2, <4>1
      <4>2. CASE k = L + 1
        BY <1>3, <1>9, <1>11, <2>2, <4>2
      <4> QED
        BY <1>2, <4>1, <4>2
    <3> QED
      BY <3>2, <3>3, <3>4
  <2> QED
    BY <1>3, <2>1, <2>2
<1>17. CoverInv'
  <2>1. stack' # <<>>
    BY <1>3, <1>10
  <2>2. ASSUME NEW r \in printed'
        PROVE  \/ \E m \in 1..n + 1 : stack'[m].parent = spanId[r]
               \/ \A c \in TreeRows : parentId[c] = spanId[r] => c \in printed'
    <3>1. CASE r = row
      BY <1>3, <1>8, <1>10, <3>1
    <3>2. CASE r \in printed
      <4>1. CASE \E m \in 1..n : stack[m].parent = spanId[r]
        BY <1>3, <1>10, <4>1
      <4>2. CASE \A c \in TreeRows : parentId[c] = spanId[r] => c \in printed
        BY <1>1, <4>2
      <4> QED
        BY <3>2, <4>1, <4>2 DEF CoverInv, n
    <3> QED
      BY <1>1, <3>1, <3>2
  <2> QED
    BY <1>1, <1>10, <2>1, <2>2 DEF CoverInv
<1>18. \A s \in TreeRows : s < row /\ parentId[s] = parentId[row] => s \in printed
  <2> SUFFICES ASSUME NEW s \in TreeRows, s < row, parentId[s] = parentId[row]
               PROVE  s \in printed
    OBVIOUS
  <2>1. Belongs(Top.parent, s)
    BY <1>7 DEF Belongs, IsRoot
  <2>2. s < stack[n].i /\ n \in 1..Len(stack) /\ Belongs(stack[n].parent, s)
    BY <1>3, <2>1 DEF row, n
  <2> QED
    BY <2>2 DEF BehindInv
<1>19. OrderInv'
  BY <1>1, <1>18 DEF OrderInv
<1>20. ASSUME NEW k \in 1..L
       PROVE  lines[k].row \in TreeRows /\ lines[k].row \in Nat /\ lines[k].row \in printed
  <2>1. lines[k] \in Lines
    BY <1>2, <1>20 DEF L
  <2> QED
    BY <2>1, RowsFacts DEF Lines, MarkedInv, L
<1>21. SiblingInv'
  <2> SUFFICES ASSUME NEW j \in 1..L + 1, NEW k \in 1..L + 1, j < k,
                      parentId[lines'[j].row] = parentId[lines'[k].row]
               PROVE  lines'[j].row < lines'[k].row
    BY <1>1, <1>11 DEF SiblingInv
  <2>1. j \in 1..L /\ lines'[j] = lines[j]
    BY <1>2, <1>11
  <2>2. CASE k \in 1..L
    BY <1>11, <2>1, <2>2 DEF SiblingInv, L
  <2>3. CASE k = L + 1
    <3>1. lines[j].row \in printed /\ parentId[lines[j].row] = parentId[row]
      BY <1>9, <1>11, <1>20, <2>1, <2>3
    <3>2. lines[j].row # row /\ ~(row < lines[j].row)
      BY <1>6, <1>7, <3>1 DEF OrderInv
    <3> QED
      BY <1>6, <1>9, <1>11, <1>20, <2>1, <2>3, <3>2
  <2> QED
    BY <1>2, <2>2, <2>3
<1>22. NestedInv'
  <2> SUFFICES ASSUME NEW k \in 1..L + 1
               PROVE  IF IsRoot(lines'[k].row) THEN lines'[k].depth = 0
                      ELSE \E j \in 1..k - 1 :
                        /\ lines'[j].depth = lines'[k].depth - 1
                        /\ spanId[lines'[j].row] = parentId[lines'[k].row]
                        /\ \A l \in 1..k - 1 : l > j => lines'[l].depth >= lines'[k].depth
    <3>1. \A r : IsRoot(r) <=> parentId'[r] \notin {spanId'[j] : j \in TreeRows}
      BY <1>1 DEF IsRoot
    <3> QED
      BY <1>1, <1>11, <3>1, Zenon DEF NestedInv, IsRoot
  <2>1. CASE k \in 1..L
    <3>1. k \in 1..Len(lines) /\ lines'[k] = lines[k]
          /\ \A j \in 1..k - 1 : lines'[j] = lines[j]
      BY <1>2, <1>11, <2>1 DEF L
    <3> QED
      BY <3>1 DEF NestedInv
  <2>2. CASE k = L + 1
    <3>1. lines'[k].row = row /\ lines'[k].depth = n - 1
      BY <1>9, <1>11, <2>2
    <3>2. CASE n = 1
      BY <1>5, <1>7, <3>1, <3>2 DEF Belongs
    <3>3. CASE n # 1
      <4>1. n \in 2..Len(stack) /\ parentId[row] = Top.parent
        BY <1>3, <1>5, <1>7, <3>3 DEF Belongs, n
      <4>2. PICK j \in 1..L :
             /\ spanId[lines[j].row] = stack[n].parent
             /\ lines[j].depth = n - 2
             /\ \A l \in 1..L : l > j => lines[l].depth >= n - 1
        BY <4>1 DEF UnderInv, L
      <4>3. spanId[lines[j].row] = parentId[row]
        BY <1>3, <4>1, <4>2
      <4>4. ~IsRoot(row)
        BY <1>20, <4>2, <4>3 DEF IsRoot
      <4>5. /\ j \in 1..k - 1 /\ lines'[j] = lines[j]
            /\ \A l \in 1..k - 1 : l \in 1..L /\ lines'[l] = lines[l]
        BY <1>2, <1>11, <2>2
      <4>6. lines'[j].depth = lines'[k].depth - 1
        BY <1>3, <3>1, <4>2, <4>5
      <4>7. \A l \in 1..k - 1 : l > j => lines'[l].depth >= lines'[k].depth
        BY <3>1, <4>2, <4>5
      <4> QED
        BY <3>1, <4>3, <4>4, <4>5, <4>6, <4>7
    <3> QED
      BY <3>2, <3>3
  <2> QED
    BY <1>2, <2>1, <2>2
<1> QED
  BY <1>12, <1>13, <1>14, <1>15, <1>16, <1>17, <1>19, <1>21, <1>22 DEF TreeInv

LEMMA TreeStep == TreeInv /\ [TreeNext]_treeVars => TreeInv'
<1> SUFFICES ASSUME TreeInv, [TreeNext]_treeVars PROVE TreeInv'
  OBVIOUS
<1>1. CASE LoadTrace
  BY <1>1, LoadStep
<1>2. ASSUME PrintSubtree PROVE TreeInv'
  <2>1. stack # <<>>
    BY <1>2 DEF PrintSubtree, PrintRow, Skip, Return
  <2>2. ~Unloaded
    BY <2>1 DEF Unloaded
  <2>3. /\ Loaded /\ MarkedInv /\ DepthInv /\ BehindInv /\ UnderInv /\ CoverInv
        /\ OrderInv /\ NestedInv /\ SiblingInv
    BY <2>2 DEF TreeInv
  <2> QED
    BY <1>2, <2>3, PrintStep, SkipStep, ReturnStep DEF PrintSubtree
<1>3. CASE UNCHANGED treeVars
  <2>1. /\ spanId' = spanId /\ parentId' = parentId /\ printed' = printed
        /\ stack' = stack /\ lines' = lines
    BY <1>3 DEF treeVars
  <2>2. CASE Unloaded
    BY <2>1, <2>2 DEF Unloaded, TreeInv
  <2>3. CASE ~Unloaded
    <3>1. /\ Loaded /\ MarkedInv /\ DepthInv /\ BehindInv /\ UnderInv /\ CoverInv
          /\ OrderInv /\ NestedInv /\ SiblingInv
      BY <2>3 DEF TreeInv
    <3>2. Loaded' /\ MarkedInv' /\ DepthInv' /\ UnderInv' /\ OrderInv' /\ SiblingInv'
      BY <2>1, <3>1 DEF Loaded, MarkedInv, DepthInv, UnderInv, OrderInv, SiblingInv, Descends
    <3>3. BehindInv' /\ CoverInv' /\ NestedInv'
      <4>1. \A r : IsRoot(r)' <=> IsRoot(r)
        BY <2>1 DEF IsRoot
      <4>2. BehindInv'
        BY <2>1, <3>1, <4>1 DEF BehindInv, Belongs
      <4>3. CoverInv'
        BY <2>1, <3>1, <4>1 DEF CoverInv
      <4>4. NestedInv'
        BY <2>1, <3>1, <4>1 DEF NestedInv
      <4> QED
        BY <4>2, <4>3, <4>4
    <3> QED
      BY <3>2, <3>3 DEF TreeInv
  <2> QED
    BY <2>2, <2>3
<1> QED
  BY <1>1, <1>2, <1>3 DEF TreeNext

\* The line that NestedInv names is the nearest with less indentation.
LEMMA OutlineFromNested == TreeInv => OutlineIsTree
<1> SUFFICES ASSUME TreeInv PROVE OutlineIsTree
  OBVIOUS
<1>1. CASE Unloaded
  BY <1>1 DEF Unloaded, OutlineIsTree
<1>2. CASE ~Unloaded
  <2>1. Loaded /\ NestedInv /\ SiblingInv
    BY <1>2 DEF TreeInv
  <2>2. ASSUME NEW k \in 1..Len(lines), ~IsRoot(lines[k].row)
        PROVE  LET up == {j \in 1..k - 1 : lines[j].depth < lines[k].depth}
               IN  /\ up # {}
                   /\ lines[Max(up)].depth = lines[k].depth - 1
                   /\ spanId[lines[Max(up)].row] = parentId[lines[k].row]
    <3> DEFINE up == {j \in 1..k - 1 : lines[j].depth < lines[k].depth}
    <3>1. PICK j \in 1..k - 1 :
               /\ lines[j].depth = lines[k].depth - 1
               /\ spanId[lines[j].row] = parentId[lines[k].row]
               /\ \A l \in 1..k - 1 : l > j => lines[l].depth >= lines[k].depth
      BY <2>1, <2>2 DEF NestedInv
    <3>2. \A l \in 1..k : lines[l].depth \in Nat
      <4> TAKE l \in 1..k
      <4>1. l \in 1..Len(lines) /\ lines \in Seq(Lines)
        BY <2>1 DEF Loaded
      <4>2. lines[l] \in Lines
        BY <4>1
      <4> QED
        BY <4>2 DEF Lines
    <3>3. j \in up /\ \A l \in up : l <= j
      <4>1. \A l \in 1..k - 1 : l \in Nat /\ l \in 1..k
        BY <2>1 DEF Loaded
      <4>2. lines[k].depth \in Nat
        BY <2>1, <3>2 DEF Loaded
      <4>3. lines[j].depth < lines[k].depth
        BY <3>1, <4>2
      <4>4. ASSUME NEW l \in up PROVE l <= j
        <5>1. /\ l \in 1..k - 1 /\ l \in Nat /\ j \in Nat
              /\ lines[l].depth \in Nat /\ lines[l].depth < lines[k].depth
          BY <3>2, <4>1
        <5>2. ~(l > j)
          BY <3>1, <4>2, <5>1
        <5> QED
          BY <5>1, <5>2
      <4> QED
        BY <4>3, <4>4
    <3>4. Max(up) = j
      <4>1. \A l \in up : l \in Nat
        BY <2>1 DEF Loaded
      <4> HIDE DEF up
      <4>2. \A x \in up : (\A y \in up : x >= y) <=> x = j
        BY <3>3, <4>1
      <4>3. Max(up) = CHOOSE x \in up : \A y \in up : x >= y
        BY DEF Max
      <4>4. Max(up) \in up /\ \A y \in up : Max(up) >= y
        BY <3>3, <4>2, <4>3, Zenon
      <4> QED
        BY <4>2, <4>4
    <3> QED
      BY <3>1, <3>3, <3>4
  <2> QED
    BY <2>1, <2>2, Zenon DEF OutlineIsTree, NestedInv, SiblingInv
<1> QED
  BY <1>1, <1>2

\* The parents of the rows not printed would all be rows not printed.
LEMMA AllPrinted == TreeInv /\ Printed => printed = TreeRows
<1> SUFFICES ASSUME TreeInv, Printed PROVE printed = TreeRows
  OBVIOUS
<1>1. Loaded /\ CoverInv /\ stack = <<>> /\ Len(stack) = 0
  BY DEF TreeInv, Unloaded, Printed
<1>2. \A r \in TreeRows : IsRoot(r) => r \in printed
  BY <1>1 DEF CoverInv
<1>3. \A r \in printed : \A c \in TreeRows : parentId[c] = spanId[r] => c \in printed
  BY <1>1 DEF CoverInv
<1> DEFINE S == {parentId[c] : c \in TreeRows \ printed}
<1>4. \A p \in S : \E k \in TreeRows : spanId[k] = p /\ parentId[k] \in S
  <2> TAKE p \in S
  <2>1. PICK c \in TreeRows \ printed : p = parentId[c]
    OBVIOUS
  <2>2. PICK k \in TreeRows : spanId[k] = p
    BY <1>2, <2>1 DEF IsRoot
  <2>3. k \notin printed
    BY <1>3, <2>1, <2>2
  <2> QED
    BY <2>2, <2>3
<1>5. S \subseteq Ids
  BY <1>1, <1>4 DEF Loaded
<1> HIDE DEF S
<1>6. S = {}
  BY <1>1, <1>4, <1>5 DEF Loaded, Descends
<1>7. \A c \in TreeRows : c \in printed
  BY <1>6, Zenon DEF S
<1>8. printed \subseteq TreeRows
  BY <1>1 DEF Loaded
<1> QED
  BY <1>7, <1>8

\* As many lines as rows, when each row is on exactly one line.
LEMMA OnceFromMarked == TreeInv => EveryRowOnce
<1> SUFFICES ASSUME TreeInv, Printed
             PROVE  Len(lines) = N /\ {lines[k].row : k \in 1..Len(lines)} = TreeRows
  BY DEF EveryRowOnce
<1>1. printed = TreeRows
  BY AllPrinted
<1>2. Loaded /\ MarkedInv
  BY DEF TreeInv, Unloaded, Printed
<1> DEFINE L == Len(lines)
           rows == [k \in 1..L |-> lines[k].row]
<1>3. L \in Nat /\ \A k \in 1..L : lines[k].row \in TreeRows
  <2>1. lines \in Seq(Lines)
    BY <1>2 DEF Loaded
  <2>2. L \in Nat /\ \A k \in 1..L : lines[k] \in Lines
    BY <2>1
  <2> HIDE DEF L
  <2> QED
    BY <2>2 DEF Lines
<1>4. \A r \in TreeRows : \E k \in 1..L : lines[k].row = r
  BY <1>1, <1>2 DEF MarkedInv
<1>5. {lines[k].row : k \in 1..L} = TreeRows
  BY <1>3, <1>4
<1>6. rows \in Surjection(1..L, TreeRows)
  BY <1>3, <1>4 DEF Surjection
<1>7. rows \in Injection(1..L, TreeRows)
  BY <1>2, <1>3 DEF Injection, IsInjective, MarkedInv
<1>8. IsFiniteSet(1..L) /\ Cardinality(1..L) = L /\ Cardinality(TreeRows) = N
  <2>1. 1 \in Int /\ L \in Int /\ N \in Int /\ N >= 1 /\ L >= 0
    BY <1>3, RowsFacts
  <2> HIDE DEF L
  <2>2. /\ IsFiniteSet(1..L) /\ Cardinality(1..L) = IF 1 > L THEN 0 ELSE L - 1 + 1
        /\ Cardinality(1..N) = IF 1 > N THEN 0 ELSE N - 1 + 1
    BY <2>1, FS_Interval
  <2> QED
    BY <2>1, <2>2 DEF TreeRows
<1> HIDE DEF L, rows
<1>9. Cardinality(TreeRows) = Cardinality(1..L)
  BY <1>6, <1>7, <1>8, FS_Surjection
<1> QED
  BY <1>5, <1>8, <1>9 DEF L

-----------------------------------------------------------------------------
(* The command.                                                            *)

\* main works on its query until it calls cmd_show; from then on there is no
\* query, and what is printed is the tree.
CommandInv ==
    /\ TreeInv
    /\ IF show = "no" THEN QueryInv ELSE typed = <<>>

LEMMA NothingAsked == typed = <<>> => SpansAsAsked /\ ListAsAsked
<1> SUFFICES ASSUME typed = <<>> PROVE SpansAsAsked /\ ListAsAsked
  OBVIOUS
<1>1. \A command : ~Asked(command)
  BY DEF Asked
<1> QED
  BY <1>1, Zenon DEF SpansAsAsked, ListAsAsked

LEMMA CommandStep == CommandInv /\ [Next]_vars => CommandInv'
<1> SUFFICES ASSUME CommandInv, [Next]_vars PROVE CommandInv'
  OBVIOUS
<1>1. TreeInv'
  <2>1. [TreeNext]_treeVars
    BY DEF Next, Query, Show, ShowFails, Load, ShowPrints, ShowReturns, TreeNext, vars
  <2> QED
    BY <2>1, TreeStep DEF CommandInv
<1>2. CASE Query
  <2>1. show = "no" /\ show' = "no" /\ QueryNext
    BY <1>2 DEF Query
  <2>2. QueryInv'
    BY <2>1, QueryStep DEF CommandInv
  <2> QED
    BY <1>1, <2>1, <2>2, Zenon DEF CommandInv
<1>3. CASE Show
  <2>1. show' # "no" /\ typed' = <<>>
    BY <1>3 DEF Show
  <2> QED
    BY <1>1, <2>1, Zenon DEF CommandInv
<1>4. CASE ShowFails \/ Load \/ ShowPrints \/ ShowReturns
  <2>1. show # "no" /\ show' # "no" /\ typed' = typed
    BY <1>4 DEF ShowFails, Load, ShowPrints, ShowReturns, queryVars
  <2>2. typed = <<>>
    BY <2>1, Zenon DEF CommandInv
  <2> QED
    BY <1>1, <2>1, <2>2, Zenon DEF CommandInv
<1>5. CASE UNCHANGED vars
  <2>1. show' = show /\ typed' = typed /\ UNCHANGED queryVars
    BY <1>5 DEF vars, queryVars
  <2>2. show = "no" => QueryInv'
    BY <2>1, QueryStep DEF CommandInv
  <2> QED
    BY <1>1, <2>1, <2>2, Zenon DEF CommandInv
<1> QED
  BY <1>2, <1>3, <1>4, <1>5 DEF Next

-----------------------------------------------------------------------------
(* The theorems.                                                           *)

\* Where otel-trace is, in every reachable state: main at the end of a group of
\* arguments with the filters those groups set, print_subtree with a frame for
\* every printed row whose children are still to come.
THEOREM CommandCorrect == Spec => []CommandInv
<1>1. Init => CommandInv
  BY QueryStart, TreeStart DEF Init, CommandInv
<1>2. CommandInv /\ [Next]_vars => CommandInv'
  BY CommandStep
<1> QED
  BY <1>1, <1>2, PTL DEF Spec

\* spans prints the newest of the spans that meet every option typed, up to
\* the limit: append_filters and bind_filters agree on which value goes to
\* which placeholder, however options and command are ordered and repeated.
THEOREM SpansCorrect == Spec => []SpansAsAsked
<1>1. CommandInv => SpansAsAsked
  BY NothingAsked, Zenon DEF CommandInv, QueryInv
<1> QED
  BY <1>1, CommandCorrect, PTL

\* list prints each trace at most once: without a duration asked for, those that
\* have a span meeting every option, with the start of the first such span, the
\* newest up to the limit; with one, only traces that last as long.
THEOREM ListCorrect == Spec => []ListAsAsked
<1>1. CommandInv => ListAsAsked
  BY NothingAsked, Zenon DEF CommandInv, QueryInv
<1> QED
  BY <1>1, CommandCorrect, PTL

\* print_subtree prints every row of a trace once, also one whose parent is
\* missing and one under an id that two rows have.
THEOREM RowsPrintedOnce == Spec => []EveryRowOnce
<1>1. CommandInv => EveryRowOnce
  BY OnceFromMarked DEF CommandInv
<1> QED
  BY <1>1, CommandCorrect, PTL

\* print_subtree's indentation is the tree at every moment of the output, and
\* siblings are in the order in which they started.
THEOREM OutlineCorrect == Spec => []OutlineIsTree
<1>1. CommandInv => OutlineIsTree
  BY OutlineFromNested DEF CommandInv
<1> QED
  BY <1>1, CommandCorrect, PTL
=============================================================================
