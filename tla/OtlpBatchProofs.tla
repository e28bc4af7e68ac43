--------------------------- MODULE OtlpBatchProofs ---------------------------
(***************************************************************************)
(* Proofs about OtlpBatch: the cursors stay inside the pools, and every    *)
(* span is packed once, in order and whole, for any sizes of the pools,    *)
(* any number of spans and every sequence of shapes an arena can hold.     *)
(***************************************************************************)
EXTENDS OtlpBatch, TLAPS, WellFoundedInduction

-----------------------------------------------------------------------------
(* Sums over the events of a span.                                         *)

\* Every nonempty set of naturals has a least element.
LEMMA LeastNatural ==
  ASSUME NEW T, T \subseteq Nat, T # {}
  PROVE  \E x \in T : \A y \in T : x <= y
<1> DEFINE R == OpToRel(<, Nat)
<1>1. IsWellFoundedOn(R, Nat)
  BY NatLessThanWellFounded
<1>2. \A x, y \in Nat : x < y => <<x, y>> \in R
  BY DEF OpToRel
<1> HIDE DEF R
<1>3. PICK x \in T : \A y \in T : ~ (<<y, x>> \in R)
  BY <1>1, WFMin
<1>4. \A y \in T : ~ (y < x)
  <2> TAKE y \in T
  <2>1. y \in Nat /\ x \in Nat
    OBVIOUS
  <2> QED
    BY <1>2, <1>3, <2>1, Zenon
<1> QED
  BY <1>4

\* f holds the sums of the first 0, 1, ..., m elements of e.
SumsUpTo(f, e, m) ==
    /\ f \in [0..m -> Nat] /\ f[0] = 0
    /\ \A n \in 1..m : f[n] = f[n - 1] + e[n]

LEMMA SumsExist ==
  ASSUME NEW e \in Seq(Nat), NEW m \in 0..Len(e)
  PROVE  \E f : SumsUpTo(f, e, m)
<1> DEFINE bad == {k \in 0..Len(e) : ~ \E f : SumsUpTo(f, e, k)}
<1>1. Len(e) \in Nat
  OBVIOUS
<1>2. CASE bad = {}
  BY <1>2
<1>3. CASE bad # {}
  <2>1. bad \subseteq Nat
    BY <1>1
  <2>2. PICK k \in bad : \A y \in bad : k <= y
    BY <1>3, <2>1, LeastNatural
  <2>3. k \in 0..Len(e) /\ ~ \E f : SumsUpTo(f, e, k)
    BY <2>2
  <2>4. CASE k = 0
    <3>1. SumsUpTo([n \in 0..0 |-> 0], e, 0)
      BY DEF SumsUpTo
    <3> QED
      BY <2>3, <2>4, <3>1
  <2>5. CASE k # 0
    <3>1. k \in Nat /\ k - 1 \in 0..Len(e) /\ k \in 1..Len(e) /\ e[k] \in Nat
      BY <2>3, <2>5, <1>1
    <3>2. k - 1 \notin bad
      BY <2>2, <3>1
    <3>3. PICK f : SumsUpTo(f, e, k - 1)
      BY <3>1, <3>2
    <3>4. /\ f \in [0..k - 1 -> Nat] /\ f[0] = 0
          /\ \A n \in 1..k - 1 : f[n] = f[n - 1] + e[n]
      BY <3>3 DEF SumsUpTo
    <3> DEFINE g == [n \in 0..k |-> IF n = k THEN f[k - 1] + e[k] ELSE f[n]]
    <3>5. g \in [0..k -> Nat]
      <4>1. f[k - 1] \in Nat /\ \A n \in 0..k : n # k => f[n] \in Nat
        BY <3>1, <3>4
      <4> QED
        BY <3>1, <4>1
    <3>6. g[0] = 0
      BY <3>1, <3>4, <2>5
    <3>7. ASSUME NEW n \in 1..k PROVE g[n] = g[n - 1] + e[n]
      <4>1. n \in 0..k /\ n - 1 \in 0..k /\ n - 1 # k
        BY <3>1
      <4>2. CASE n = k
        BY <4>1, <4>2
      <4>3. CASE n # k
        <5>1. n \in 1..k - 1
          BY <3>1, <4>3
        <5> QED
          BY <3>4, <4>1, <4>3, <5>1
      <4> QED
        BY <4>2, <4>3
    <3> HIDE DEF g
    <3>8. SumsUpTo(g, e, k)
      BY <3>5, <3>6, <3>7 DEF SumsUpTo
    <3> QED
      BY <2>3, <3>8
  <2> QED
    BY <2>4, <2>5
<1> QED
  BY <1>2, <1>3

\* The loop of otlp_add_span over the events computes the sums.
LEMMA EventSums ==
  ASSUME NEW s, s.events \in Seq(Nat)
  PROVE  SumsUpTo(FirstEventsAttrs(s), s.events, Len(s.events))
<1> DEFINE e == s.events
           m == Len(e)
           sum == FirstEventsAttrs(s)
<1>1. m \in Nat /\ m \in 0..m
  OBVIOUS
<1>2. PICK f : SumsUpTo(f, e, m)
  BY <1>1, SumsExist
<1>3. /\ f \in [0..m -> Nat] /\ f[0] = 0
      /\ \A n \in 1..m : f[n] = f[n - 1] + e[n]
  BY <1>2 DEF SumsUpTo
<1>4. f = [n \in 0..m |-> IF n = 0 THEN 0 ELSE f[n - 1] + e[n]]
  <2>1. \A n \in 0..m : f[n] = IF n = 0 THEN 0 ELSE f[n - 1] + e[n]
    BY <1>1, <1>3
  <2>2. f = [n \in 0..m |-> f[n]]
    BY <1>3
  <2> QED
    BY <2>1, <2>2
<1>5. sum = [n \in 0..m |-> IF n = 0 THEN 0 ELSE sum[n - 1] + e[n]]
  BY <1>4 DEF FirstEventsAttrs
<1> HIDE DEF sum
<1>6. /\ sum[0] = 0
      /\ \A n \in 1..m : sum[n] = sum[n - 1] + e[n]
  <2> DEFINE rhs == [n \in 0..m |-> IF n = 0 THEN 0 ELSE sum[n - 1] + e[n]]
  <2>1. \A n \in 0..m : rhs[n] = IF n = 0 THEN 0 ELSE sum[n - 1] + e[n]
    OBVIOUS
  <2>2. sum = rhs
    BY <1>5
  <2> HIDE DEF rhs
  <2>3. \A n \in 0..m : sum[n] = IF n = 0 THEN 0 ELSE sum[n - 1] + e[n]
    BY <2>1, <2>2, Zenon
  <2> QED
    BY <2>3, <1>1
<1>7. DOMAIN sum = 0..m /\ sum = [n \in 0..m |-> sum[n]]
  BY <1>5
<1> DEFINE bad == {n \in 0..m : sum[n] \notin Nat}
<1>8. bad = {}
  <2> SUFFICES ASSUME bad # {} PROVE FALSE
    OBVIOUS
  <2>1. bad \subseteq Nat
    OBVIOUS
  <2>2. PICK n \in bad : \A k \in bad : n <= k
    BY <2>1, LeastNatural
  <2>3. n \in 0..m /\ sum[n] \notin Nat
    OBVIOUS
  <2>4. n # 0 /\ n \in 1..m /\ n - 1 \in 0..m
    BY <2>3, <1>1, <1>6
  <2>5. sum[n - 1] \in Nat /\ s.events[n] \in Nat
    BY <2>2, <2>4
  <2> QED
    BY <2>3, <2>4, <2>5, <1>6
<1>9. sum \in [0..m -> Nat]
  BY <1>7, <1>8
<1> QED
  BY <1>6, <1>9 DEF SumsUpTo, sum

\* The sums grow, so each event's slice ends before the next one's starts.
LEMMA SumsGrow ==
  ASSUME NEW f, NEW e \in Seq(Nat), NEW m, m = Len(e), SumsUpTo(f, e, m),
         NEW i \in 0..m, NEW j \in 0..m, i <= j
  PROVE  f[i] <= f[j]
<1>1. /\ f \in [0..m -> Nat] /\ f[0] = 0 /\ m \in Nat
      /\ \A n \in 1..m : f[n] = f[n - 1] + e[n]
  BY DEF SumsUpTo
<1> DEFINE bad == {k \in i..m : ~ (f[i] <= f[k])}
<1>2. bad = {}
  <2> SUFFICES ASSUME bad # {} PROVE FALSE
    OBVIOUS
  <2>1. bad \subseteq Nat
    BY <1>1
  <2>2. PICK k \in bad : \A n \in bad : k <= n
    BY <2>1, LeastNatural
  <2>3. k \in i..m /\ ~ (f[i] <= f[k]) /\ f[i] \in Nat
    BY <1>1
  <2>4. k # i
    BY <2>3
  <2>5. k \in 1..m /\ k - 1 \in i..m /\ k - 1 \in 0..m
    BY <2>3, <2>4, <1>1
  <2>6. f[i] <= f[k - 1]
    BY <2>2, <2>5
  <2>7. f[k] = f[k - 1] + e[k]
    BY <2>5, <1>1
  <2>8. f[k - 1] \in Nat
    BY <2>5, <1>1
  <2>9. e[k] \in Nat
    BY <2>5
  <2> QED
    BY <2>3, <2>6, <2>7, <2>8, <2>9, SMTT(30)
<1>3. j \in i..m
  BY <1>1
<1> QED
  BY <1>2, <1>3

-----------------------------------------------------------------------------
(* The inductive invariant.                                                *)

\* A span's place in the pools: what struct otel_otlp's span points to.
Places == [attrStart : Nat, attrs : Nat, eventStart : Nat, events : Nat]

\* The pools ap and ep, in use below ua and ue, hold the id-th span, of shape
\* s, at the place b.
Holds(b, id, s, ap, ep, ua, ue) ==
    /\ b.attrs = s.attrs /\ b.events = Len(s.events)
    /\ b.attrStart + s.attrs + EventAttrs(s) <= ua
    /\ b.eventStart + Len(s.events) <= ue
    /\ \A k \in 1..s.attrs : ap[b.attrStart + k - 1] = <<id, 0, k>>
    /\ \A j \in 1..Len(s.events) :
          /\ ep[b.eventStart + j - 1] =
                [attrStart |-> EventAttrStart(s, b.attrStart, j), attrs |-> s.events[j]]
          /\ \A k \in 1..s.events[j] :
                ap[EventAttrStart(s, b.attrStart, j) + k - 1] = <<id, j, k>>

Wholes == {Whole(i, s) : i \in Nat, s \in Shapes}

BatchType ==
    /\ usedAttrs \in 0..BatchAttrs /\ usedEvents \in 0..BatchEvents
    /\ batch \in Seq(Places) /\ Len(batch) <= BatchSpans
    /\ DOMAIN attrPool = 0..BatchAttrs - 1 /\ DOMAIN eventPool = 0..BatchEvents - 1
    /\ added \in Seq(Shapes) /\ sent \in Seq(Wholes)

BatchInv ==
    /\ Len(sent) + Len(batch) = Len(added)
    /\ \A i \in 1..Len(sent) : sent[i] = Whole(i, added[i])
    /\ \A i \in 1..Len(batch) :
          Holds(batch[i], Len(sent) + i, added[Len(sent) + i],
                attrPool, eventPool, usedAttrs, usedEvents)

-----------------------------------------------------------------------------
(* One span in the pools.                                                  *)

LEMMA ShapeFacts ==
  ASSUME NEW s \in Shapes
  PROVE  /\ s.attrs \in Nat /\ s.events \in Seq(Nat) /\ Len(s.events) \in Nat
         /\ EventAttrs(s) \in Nat /\ AttrsNeeded(s) = s.attrs + EventAttrs(s)
         /\ AttrsNeeded(s) <= BatchAttrs /\ Len(s.events) <= BatchEvents
         /\ SumsUpTo(FirstEventsAttrs(s), s.events, Len(s.events))
<1>1. /\ s.attrs \in 0..MaxRecords
      /\ s.events \in UNION {[1..n -> 0..MaxRecords] : n \in 0..MaxRecords}
      /\ s.attrs + Len(s.events) + EventAttrs(s) <= MaxRecords
  BY DEF Shapes
<1>2. /\ MaxRecords \in Nat /\ BatchAttrs \in Nat /\ BatchEvents \in Nat
      /\ MaxRecords <= BatchAttrs /\ MaxRecords <= BatchEvents
  BY PoolsAssumption
<1>3. s.events \in Seq(Nat)
  <2>1. PICK n \in 0..MaxRecords : s.events \in [1..n -> 0..MaxRecords]
    BY <1>1
  <2>2. n \in Nat /\ 0..MaxRecords \subseteq Nat
    BY <1>2
  <2>3. s.events \in [1..n -> Nat]
    BY <2>1, <2>2
  <2> QED
    BY <2>2, <2>3
<1>4. Len(s.events) \in Nat /\ s.attrs \in Nat
  BY <1>1, <1>2, <1>3
<1>5. SumsUpTo(FirstEventsAttrs(s), s.events, Len(s.events))
  BY <1>3, EventSums
<1>6. EventAttrs(s) \in Nat
  BY <1>4, <1>5 DEF SumsUpTo, EventAttrs
<1> QED
  BY <1>1, <1>2, <1>3, <1>4, <1>5, <1>6 DEF AttrsNeeded

LEMMA SliceBounds ==
  ASSUME NEW a \in Nat, NEW p \in Nat, NEW w \in Nat, NEW x \in Nat, NEW y \in Nat,
         NEW z \in Nat, NEW q, q = a + p + x, y = x + w, y <= z
  PROVE  q \in Nat /\ a + p <= q /\ q + w <= a + p + z
  OBVIOUS

\* Where the attributes of the events lie: behind the span's own, one event
\* after the other, up to the end of what the span needs.
LEMMA EventSlices ==
  ASSUME NEW s \in Shapes, NEW a \in Nat, NEW j \in 1..Len(s.events)
  PROVE  /\ EventAttrStart(s, a, j) \in Nat /\ s.events[j] \in Nat
         /\ a + s.attrs <= EventAttrStart(s, a, j)
         /\ EventAttrStart(s, a, j) + s.events[j] <= a + s.attrs + EventAttrs(s)
         /\ \A k \in 1..Len(s.events) :
               k > j => EventAttrStart(s, a, j) + s.events[j] <= EventAttrStart(s, a, k)
<1> DEFINE e == s.events
           f == FirstEventsAttrs(s)
           m == Len(e)
<1>1. s.attrs \in Nat /\ e \in Seq(Nat) /\ m \in Nat /\ SumsUpTo(f, e, m)
  BY ShapeFacts
<1>2. f \in [0..m -> Nat] /\ \A n \in 1..m : f[n] = f[n - 1] + e[n]
  BY <1>1 DEF SumsUpTo
<1>3. j - 1 \in 0..m /\ j \in 0..m /\ m \in 0..m /\ j \in 1..m /\ e[j] \in Nat
  BY <1>1
<1>p. PICK st : st = [k \in 1..m |-> EventAttrStart(s, a, k)]
  OBVIOUS
<1>4. \A k \in 1..m : st[k] = EventAttrStart(s, a, k) /\ st[k] = a + s.attrs + f[k - 1]
  BY <1>p DEF EventAttrStart
<1>5. EventAttrs(s) = f[m]
  BY DEF EventAttrs
<1>6. f[j] <= f[m]
  <2>1. j <= m
    BY <1>3
  <2> QED
    BY <2>1, <1>1, <1>3, SumsGrow
<1>7. \A k \in 1..m : k > j => f[j] <= f[k - 1]
  <2> TAKE k \in 1..m
  <2> HAVE k > j
  <2>1. k - 1 \in 0..m /\ j <= k - 1
    BY <1>1
  <2> QED
    BY <2>1, <1>1, <1>3, SumsGrow
<1> HIDE DEF f, m, e
<1>8. \A k \in 0..m : f[k] \in Nat
  BY <1>2
<1>9. f[j] = f[j - 1] + e[j]
  BY <1>2, <1>3
<1>10. \A k \in 1..m : k - 1 \in 0..m
  BY <1>1
<1>11. /\ st[j] \in Nat /\ a + s.attrs <= st[j]
       /\ st[j] + e[j] <= a + s.attrs + f[m]
  <2>1. f[j] \in Nat /\ f[j - 1] \in Nat /\ f[m] \in Nat
    BY <1>3, <1>8
  <2>2. st[j] = a + s.attrs + f[j - 1] /\ s.attrs \in Nat /\ e[j] \in Nat
    BY <1>1, <1>3, <1>4
  <2>p. PICK p, w, x, y, z, q :
          /\ p = s.attrs /\ w = e[j] /\ x = f[j - 1] /\ y = f[j] /\ z = f[m]
          /\ q = st[j]
    OBVIOUS
  <2>3. /\ p \in Nat /\ w \in Nat /\ x \in Nat /\ y \in Nat /\ z \in Nat
        /\ q = a + p + x /\ y <= z /\ y = x + w
    BY <2>p, <2>1, <2>2, <1>6, <1>9, Zenon
  <2>4. q \in Nat /\ a + p <= q /\ q + w <= a + p + z
    BY <2>3, SliceBounds
  <2> QED
    BY <2>p, <2>4, Zenon
<1>12. ASSUME NEW k \in 1..m, k > j PROVE st[j] + e[j] <= st[k]
  <2>1. f[j] <= f[k - 1] /\ f[k - 1] \in Nat /\ f[j - 1] \in Nat
    BY <1>3, <1>7, <1>8, <1>10, <1>12
  <2> QED
    <3>1. st[j] = a + s.attrs + f[j - 1] /\ st[k] = a + s.attrs + f[k - 1]
      BY <1>3, <1>4
    <3>2. s.attrs \in Nat /\ e[j] \in Nat
      BY <1>1, <1>3
    <3> QED
      BY <3>1, <3>2, <2>1, <1>9
<1>13. /\ st[j] \in Nat /\ e[j] \in Nat /\ a + s.attrs <= st[j]
       /\ st[j] + e[j] <= a + s.attrs + EventAttrs(s)
       /\ \A k \in 1..m : k > j => st[j] + e[j] <= st[k]
  BY <1>3, <1>5, <1>11, <1>12
<1>14. \A k \in 1..m : st[k] = EventAttrStart(s, a, k)
  BY <1>4
<1> QED
  BY <1>3, <1>13, <1>14, Zenon DEF m, e

\* Two different events of a span share no entry of the pool.
LEMMA SlicesDisjoint ==
  ASSUME NEW s \in Shapes, NEW a \in Nat, NEW j \in 1..Len(s.events),
         NEW k \in 1..Len(s.events), NEW i \in Int,
         i \in EventAttrStart(s, a, j)..EventAttrStart(s, a, j) + s.events[j] - 1,
         i \in EventAttrStart(s, a, k)..EventAttrStart(s, a, k) + s.events[k] - 1
  PROVE  j = k
<1>1. PICK x, y : x = EventAttrStart(s, a, j) /\ y = EventAttrStart(s, a, k)
  OBVIOUS
<1>2. PICK v, w : v = s.events[j] /\ w = s.events[k]
  OBVIOUS
<1>3. x \in Nat /\ v \in Nat /\ (k > j => x + v <= y)
  BY <1>1, <1>2, EventSlices
<1>4. y \in Nat /\ w \in Nat /\ (j > k => y + w <= x)
  BY <1>1, <1>2, EventSlices
<1>5. x <= i /\ i <= x + v - 1 /\ y <= i /\ i <= y + w - 1
  BY <1>1, <1>2, <1>3, <1>4
<1>6. j \in Int /\ k \in Int
  BY ShapeFacts
<1>7. ~ (k > j) /\ ~ (j > k)
  BY <1>3, <1>4, <1>5
<1> QED
  BY <1>6, <1>7

\* Indexes of a slice that ends at or before lim, and sums that stay below it.
LEMMA SliceIndex ==
  ASSUME NEW x \in Nat, NEW n \in Nat, NEW lim \in Nat, NEW k \in 1..n, x + n <= lim
  PROVE  x + k - 1 \in 0..lim - 1
  OBVIOUS

LEMMA SliceEnds ==
  ASSUME NEW x \in Nat, NEW n \in Nat, NEW m \in Nat, NEW lim \in Nat,
         x + n + m <= lim, NEW p \in Nat, NEW q \in Nat
  PROVE  x + n <= lim /\ x + n + m <= lim + p + q
  OBVIOUS

LEMMA IndexFacts ==
  ASSUME NEW a \in Nat, NEW n \in Nat, NEW m \in Nat, NEW lim \in Nat,
         a + n + m <= lim, NEW x \in Nat, NEW v \in Nat, a + n <= x,
         x + v <= a + n + m, NEW k \in 1..v, NEW i, i = x + k - 1
  PROVE  /\ i \in 0..lim - 1 /\ i \notin a..a + n - 1
         /\ i \in x..x + v - 1 /\ i - x + 1 = k /\ i \in Int
  OBVIOUS

\* The pools have room for the span from the cursors a and e on.
RoomFor(s, a, e) ==
    /\ a + s.attrs + EventAttrs(s) <= BatchAttrs
    /\ e + Len(s.events) <= BatchEvents

\* What otlp_add_span writes into the attribute pool from the cursor a on:
\* the span's attributes and its events', and nothing below a.
AttrsWritten(new, pool, s, id, a) ==
    /\ DOMAIN new = 0..BatchAttrs - 1
    /\ \A i \in 0..a - 1 : new[i] = pool[i]
    /\ \A k \in 1..s.attrs : new[a + k - 1] = <<id, 0, k>>
    /\ \A j \in 1..Len(s.events) : \A k \in 1..s.events[j] :
          new[EventAttrStart(s, a, j) + k - 1] = <<id, j, k>>

\* The same for the event pool from the cursor e on.
EventsWritten(new, pool, s, a, e) ==
    /\ DOMAIN new = 0..BatchEvents - 1
    /\ \A i \in 0..e - 1 : new[i] = pool[i]
    /\ \A j \in 1..Len(s.events) : new[e + j - 1] =
          [attrStart |-> EventAttrStart(s, a, j), attrs |-> s.events[j]]

LEMMA WrittenAttrs ==
  ASSUME NEW s \in Shapes, NEW id, NEW a \in Nat, NEW e, NEW pool,
         DOMAIN pool = 0..BatchAttrs - 1, RoomFor(s, a, e)
  PROVE  AttrsWritten(WithAttrs(pool, s, id, a), pool, s, id, a)
<1> DEFINE new == WithAttrs(pool, s, id, a)
           mine(i) == {j \in 1..Len(s.events) :
                         LET f == EventAttrStart(s, a, j)
                         IN i \in f..f + s.events[j] - 1}
<1>1. /\ s.attrs \in Nat /\ EventAttrs(s) \in Nat /\ BatchAttrs \in Nat
      /\ a + s.attrs + EventAttrs(s) <= BatchAttrs
  BY ShapeFacts, PoolsAssumption DEF RoomFor
<1>2. /\ DOMAIN new = 0..BatchAttrs - 1
      /\ \A i \in 0..BatchAttrs - 1 : new[i] =
            IF i \in a..a + s.attrs - 1 THEN <<id, 0, i - a + 1>>
            ELSE IF mine(i) = {} THEN pool[i]
            ELSE LET j == CHOOSE k \in mine(i) : TRUE
                 IN <<id, j, i - EventAttrStart(s, a, j) + 1>>
  BY DEF WithAttrs
<1> HIDE DEF new
<1>3. ASSUME NEW i \in 0..a - 1 PROVE new[i] = pool[i]
  <2>1. i \in 0..BatchAttrs - 1 /\ i \notin a..a + s.attrs - 1
    BY <1>1
  <2>2. ASSUME NEW j \in mine(i) PROVE FALSE
    <3>1. j \in 1..Len(s.events) /\ EventAttrStart(s, a, j) <= i
      OBVIOUS
    <3>2. EventAttrStart(s, a, j) \in Nat /\ a + s.attrs <= EventAttrStart(s, a, j)
      BY <3>1, EventSlices
    <3> QED
      BY <3>1, <3>2, <1>1
  <2>3. mine(i) = {}
    BY <2>2
  <2> HIDE DEF mine
  <2> QED
    BY <1>2, <2>1, <2>3
<1>4. ASSUME NEW k \in 1..s.attrs PROVE new[a + k - 1] = <<id, 0, k>>
  <2>1. /\ a + k - 1 \in 0..BatchAttrs - 1 /\ a + k - 1 \in a..a + s.attrs - 1
        /\ (a + k - 1) - a + 1 = k
    BY <1>1
  <2> HIDE DEF mine
  <2> QED
    BY <1>2, <2>1
<1>5. ASSUME NEW j \in 1..Len(s.events), NEW k \in 1..s.events[j]
      PROVE  new[EventAttrStart(s, a, j) + k - 1] = <<id, j, k>>
  <2>1. PICK x, v : x = EventAttrStart(s, a, j) /\ v = s.events[j]
    OBVIOUS
  <2>2. x \in Nat /\ v \in Nat /\ a + s.attrs <= x /\ x + v <= a + s.attrs + EventAttrs(s)
    BY <2>1, EventSlices
  <2>3. k \in 1..v
    BY <2>1
  <2>4. PICK i : i = x + k - 1
    OBVIOUS
  <2>5. /\ i \in 0..BatchAttrs - 1 /\ i \notin a..a + s.attrs - 1
        /\ i \in x..x + v - 1 /\ i - x + 1 = k /\ i \in Int
    <3>1. PICK n, m, lim : n = s.attrs /\ m = EventAttrs(s) /\ lim = BatchAttrs
      OBVIOUS
    <3>2. /\ n \in Nat /\ m \in Nat /\ lim \in Nat /\ a + n + m <= lim
          /\ a + n <= x /\ x + v <= a + n + m
      BY <3>1, <2>2, <1>1, Zenon
    <3>3. /\ i \in 0..lim - 1 /\ i \notin a..a + n - 1
          /\ i \in x..x + v - 1 /\ i - x + 1 = k /\ i \in Int
      BY <3>2, <2>2, <2>3, <2>4, IndexFacts
    <3> QED
      BY <3>1, <3>3, Zenon
  <2>6. j \in mine(i)
    BY <2>1, <2>5
  <2>7. ASSUME NEW q \in mine(i) PROVE q = j
    <3>1. q \in 1..Len(s.events)
          /\ i \in EventAttrStart(s, a, q)..EventAttrStart(s, a, q) + s.events[q] - 1
      OBVIOUS
    <3>2. i \in EventAttrStart(s, a, j)..EventAttrStart(s, a, j) + s.events[j] - 1
      BY <2>1, <2>5
    <3> QED
      BY <3>1, <3>2, <2>5, SlicesDisjoint
  <2> HIDE DEF mine
  <2>8. mine(i) # {} /\ (CHOOSE q \in mine(i) : TRUE) = j
    BY <2>6, <2>7
  <2>9. new[i] = <<id, j, i - EventAttrStart(s, a, j) + 1>>
    BY <1>2, <2>5, <2>8
  <2> QED
    BY <2>1, <2>4, <2>5, <2>9
<1> QED
  BY <1>2, <1>3, <1>4, <1>5 DEF new, AttrsWritten

LEMMA WrittenEvents ==
  ASSUME NEW s \in Shapes, NEW a \in Nat, NEW e \in Nat, NEW pool,
         DOMAIN pool = 0..BatchEvents - 1, RoomFor(s, a, e)
  PROVE  EventsWritten(WithEvents(pool, s, a, e), pool, s, a, e)
<1> DEFINE new == WithEvents(pool, s, a, e)
           written(j) == [attrStart |-> EventAttrStart(s, a, j), attrs |-> s.events[j]]
<1>1. Len(s.events) \in Nat /\ BatchEvents \in Nat /\ e + Len(s.events) <= BatchEvents
  BY ShapeFacts, PoolsAssumption DEF RoomFor
<1>2. /\ DOMAIN new = 0..BatchEvents - 1
      /\ \A i \in 0..BatchEvents - 1 : new[i] =
            IF i \in e..e + Len(s.events) - 1 THEN written(i - e + 1) ELSE pool[i]
  BY DEF WithEvents
<1> HIDE DEF new, written
<1>3. ASSUME NEW i \in 0..e - 1 PROVE new[i] = pool[i]
  <2>1. i \in 0..BatchEvents - 1 /\ i \notin e..e + Len(s.events) - 1
    BY <1>1
  <2> QED
    BY <1>2, <2>1
<1>4. ASSUME NEW j \in 1..Len(s.events) PROVE new[e + j - 1] = written(j)
  <2>1. /\ e + j - 1 \in 0..BatchEvents - 1 /\ e + j - 1 \in e..e + Len(s.events) - 1
        /\ (e + j - 1) - e + 1 = j
    BY <1>1
  <2> QED
    BY <1>2, <2>1
<1> QED
  BY <1>2, <1>3, <1>4 DEF new, written, EventsWritten

\* Where otlp_add_span puts a span.
Place(s, a, e) == [attrStart |-> a, attrs |-> s.attrs, eventStart |-> e,
                   events |-> Len(s.events)]

\* The span just added is in the pools,
LEMMA NewHeld ==
  ASSUME NEW s \in Shapes, NEW id, NEW a \in Nat, NEW e \in Nat, NEW ap, NEW ep,
         DOMAIN ap = 0..BatchAttrs - 1, DOMAIN ep = 0..BatchEvents - 1,
         RoomFor(s, a, e)
  PROVE  Holds(Place(s, a, e), id, s, WithAttrs(ap, s, id, a), WithEvents(ep, s, a, e),
               a + s.attrs + EventAttrs(s), e + Len(s.events))
<1>1. PICK ap2, ep2 : ap2 = WithAttrs(ap, s, id, a) /\ ep2 = WithEvents(ep, s, a, e)
  OBVIOUS
<1>2. /\ \A k \in 1..s.attrs : ap2[a + k - 1] = <<id, 0, k>>
      /\ \A j \in 1..Len(s.events) : \A k \in 1..s.events[j] :
            ap2[EventAttrStart(s, a, j) + k - 1] = <<id, j, k>>
  <2>1. AttrsWritten(ap2, ap, s, id, a)
    BY <1>1, WrittenAttrs, Zenon
  <2> QED
    BY <2>1, Zenon DEF AttrsWritten
<1>3. \A j \in 1..Len(s.events) : ep2[e + j - 1] =
               [attrStart |-> EventAttrStart(s, a, j), attrs |-> s.events[j]]
  <2>1. EventsWritten(ep2, ep, s, a, e)
    BY <1>1, WrittenEvents, Zenon
  <2> QED
    BY <2>1, Zenon DEF EventsWritten
<1>4. PICK b : b = Place(s, a, e)
  OBVIOUS
<1>5. b.attrs = s.attrs /\ b.events = Len(s.events) /\ b.attrStart = a /\ b.eventStart = e
  BY <1>4 DEF Place
<1>6. s.attrs \in Nat /\ EventAttrs(s) \in Nat /\ Len(s.events) \in Nat
  BY ShapeFacts
<1>7. /\ b.attrStart + s.attrs + EventAttrs(s) <= a + s.attrs + EventAttrs(s)
      /\ b.eventStart + Len(s.events) <= e + Len(s.events)
  BY <1>5, <1>6
<1>8. Holds(b, id, s, ap2, ep2, a + s.attrs + EventAttrs(s), e + Len(s.events))
  BY <1>2, <1>3, <1>5, <1>7, Zenon DEF Holds
<1> QED
  BY <1>1, <1>4, <1>8

\* and the ones before it still are.
LEMMA OldHeld ==
  ASSUME NEW s \in Shapes, NEW id, NEW a \in Nat, NEW e \in Nat, NEW ap, NEW ep,
         DOMAIN ap = 0..BatchAttrs - 1, DOMAIN ep = 0..BatchEvents - 1,
         RoomFor(s, a, e),
         NEW b \in Places, NEW n, NEW s0 \in Shapes, Holds(b, n, s0, ap, ep, a, e)
  PROVE  Holds(b, n, s0, WithAttrs(ap, s, id, a), WithEvents(ep, s, a, e),
               a + s.attrs + EventAttrs(s), e + Len(s.events))
<1>1. PICK ap2, ep2 : ap2 = WithAttrs(ap, s, id, a) /\ ep2 = WithEvents(ep, s, a, e)
  OBVIOUS
<1>2. \A i \in 0..a - 1 : ap2[i] = ap[i]
  <2>1. AttrsWritten(ap2, ap, s, id, a)
    BY <1>1, WrittenAttrs, Zenon
  <2> QED
    BY <2>1, Zenon DEF AttrsWritten
<1>3. \A i \in 0..e - 1 : ep2[i] = ep[i]
  <2>1. EventsWritten(ep2, ep, s, a, e)
    BY <1>1, WrittenEvents, Zenon
  <2> QED
    BY <2>1, Zenon DEF EventsWritten
<1>p. /\ b.attrs = s0.attrs /\ b.events = Len(s0.events)
      /\ b.attrStart + s0.attrs + EventAttrs(s0) <= a
      /\ b.eventStart + Len(s0.events) <= e
  BY DEF Holds
<1>4. /\ \A k \in 1..s0.attrs : ap[b.attrStart + k - 1] = <<n, 0, k>>
      /\ \A j \in 1..Len(s0.events) :
            /\ ep[b.eventStart + j - 1] =
                  [attrStart |-> EventAttrStart(s0, b.attrStart, j), attrs |-> s0.events[j]]
            /\ \A k \in 1..s0.events[j] :
                  ap[EventAttrStart(s0, b.attrStart, j) + k - 1] = <<n, j, k>>
  BY DEF Holds
<1>5. b.attrStart \in Nat /\ b.eventStart \in Nat
  BY DEF Places
<1>6. /\ s0.attrs \in Nat /\ EventAttrs(s0) \in Nat /\ Len(s0.events) \in Nat
      /\ s.attrs \in Nat /\ EventAttrs(s) \in Nat /\ Len(s.events) \in Nat
  BY ShapeFacts
<1>r. PICK x0, y0, m0, u0, w0, m1, u1, w1 :
        /\ x0 = b.attrStart /\ y0 = b.eventStart
        /\ m0 = s0.attrs /\ u0 = EventAttrs(s0) /\ w0 = Len(s0.events)
        /\ m1 = s.attrs /\ u1 = EventAttrs(s) /\ w1 = Len(s.events)
  OBVIOUS
<1>q. /\ x0 + m0 <= a /\ x0 + m0 + u0 <= a /\ y0 + w0 <= e
      /\ x0 + m0 + u0 <= a + m1 + u1 /\ y0 + w0 <= e + w1
      /\ x0 \in Nat /\ y0 \in Nat /\ m0 \in Nat /\ u0 \in Nat /\ w0 \in Nat
  <2>1. /\ x0 \in Nat /\ y0 \in Nat /\ m0 \in Nat /\ u0 \in Nat /\ w0 \in Nat
        /\ m1 \in Nat /\ u1 \in Nat /\ w1 \in Nat
    BY <1>r, <1>5, <1>6, Zenon
  <2>2. x0 + m0 + u0 <= a /\ y0 + w0 <= e
    BY <1>r, <1>p, Zenon
  <2>3. x0 + m0 <= a /\ x0 + m0 + u0 <= a + m1 + u1
    BY <2>1, <2>2, SliceEnds
  <2>4. y0 + w0 <= e + w1
    BY <2>1, <2>2
  <2> QED
    BY <2>1, <2>2, <2>3, <2>4
<1>7. /\ b.attrStart + s0.attrs + EventAttrs(s0) <= a + s.attrs + EventAttrs(s)
      /\ b.eventStart + Len(s0.events) <= e + Len(s.events)
  BY <1>q, <1>r, Zenon
<1>8. ASSUME NEW k \in 1..s0.attrs PROVE ap2[b.attrStart + k - 1] = <<n, 0, k>>
  <2>0. k \in 1..m0
    BY <1>r, Zenon
  <2>1. x0 + k - 1 \in 0..a - 1
    BY <2>0, <1>q, SliceIndex
  <2>2. b.attrStart + k - 1 \in 0..a - 1
    BY <2>1, <1>r, Zenon
  <2> QED
    BY <2>2, <1>2, <1>4, Zenon
<1>9. ASSUME NEW j \in 1..Len(s0.events)
      PROVE  ep2[b.eventStart + j - 1] =
                  [attrStart |-> EventAttrStart(s0, b.attrStart, j), attrs |-> s0.events[j]]
  <2>0. j \in 1..w0
    BY <1>r, Zenon
  <2>1. y0 + j - 1 \in 0..e - 1
    BY <2>0, <1>q, SliceIndex
  <2>2. b.eventStart + j - 1 \in 0..e - 1
    BY <2>1, <1>r, Zenon
  <2> QED
    BY <2>2, <1>3, <1>4, Zenon
<1>10. ASSUME NEW j \in 1..Len(s0.events), NEW k \in 1..s0.events[j]
       PROVE  ap2[EventAttrStart(s0, b.attrStart, j) + k - 1] = <<n, j, k>>
  <2>1. PICK x, v : x = EventAttrStart(s0, b.attrStart, j) /\ v = s0.events[j]
    OBVIOUS
  <2>2. /\ x \in Nat /\ v \in Nat
        /\ x + v <= b.attrStart + s0.attrs + EventAttrs(s0)
    BY <2>1, <1>5, EventSlices
  <2>3. k \in 1..v
    BY <2>1
  <2>4. x + k - 1 \in 0..a - 1
    <3>1. x + v <= x0 + m0 + u0
      BY <2>2, <1>r, Zenon
    <3>2. x + v <= a
      BY <3>1, <2>2, <1>q
    <3> QED
      BY <3>2, <2>2, <2>3, SliceIndex
  <2>5. ap2[x + k - 1] = ap[x + k - 1]
    BY <2>4, <1>2
  <2>6. ap[x + k - 1] = <<n, j, k>>
    BY <2>1, <1>4
  <2> QED
    BY <2>1, <2>5, <2>6
<1>11. Holds(b, n, s0, ap2, ep2, a + s.attrs + EventAttrs(s), e + Len(s.events))
  BY <1>p, <1>7, <1>8, <1>9, <1>10, Zenon DEF Holds
<1> QED
  BY <1>1, <1>11

-----------------------------------------------------------------------------
(* What a flush packs.                                                     *)

LEMMA SameSequence ==
  ASSUME NEW S, NEW a \in Seq(S), NEW b \in Seq(S), Len(a) = Len(b),
         \A i \in 1..Len(a) : a[i] = b[i]
  PROVE  a = b
<1>1. a = [i \in 1..Len(a) |-> a[i]] /\ b = [i \in 1..Len(b) |-> b[i]]
  OBVIOUS
<1> QED
  BY <1>1

LEMMA ConcatFacts ==
  ASSUME NEW S, NEW a \in Seq(S), NEW b \in Seq(S)
  PROVE  /\ a \o b \in Seq(S) /\ Len(a \o b) = Len(a) + Len(b)
         /\ \A i \in 1..Len(a) + Len(b) :
                (a \o b)[i] = IF i <= Len(a) THEN a[i] ELSE b[i - Len(a)]
  OBVIOUS

\* Packing reads every span of the batch whole.
LEMMA PackedIsWhole ==
  ASSUME BatchType, BatchInv
  PROVE  /\ Packed \in Seq(Wholes) /\ Len(Packed) = Len(batch)
         /\ \A i \in 1..Len(batch) : Packed[i] = Whole(Len(sent) + i, added[Len(sent) + i])
<1>t. /\ batch \in Seq(Places) /\ added \in Seq(Shapes) /\ sent \in Seq(Wholes)
      /\ Len(batch) \in Nat /\ Len(sent) \in Nat
      /\ Len(sent) + Len(batch) = Len(added)
  BY DEF BatchType, BatchInv
<1>1. ASSUME NEW i \in 1..Len(batch)
      PROVE  Packed[i] = Whole(Len(sent) + i, added[Len(sent) + i]) /\ Packed[i] \in Wholes
  <2>1. PICK n, b, s : n = Len(sent) + i /\ b = batch[i] /\ s = added[n]
    OBVIOUS
  <2>2. n \in Nat /\ s \in Shapes /\ b \in Places
    BY <2>1, <1>t
  <2>3. Holds(b, n, s, attrPool, eventPool, usedAttrs, usedEvents)
    BY <2>1 DEF BatchInv
  <2>4. /\ b.attrs = s.attrs /\ b.events = Len(s.events)
        /\ \A k \in 1..s.attrs : attrPool[b.attrStart + k - 1] = <<n, 0, k>>
        /\ \A j \in 1..Len(s.events) :
              /\ eventPool[b.eventStart + j - 1] =
                  [attrStart |-> EventAttrStart(s, b.attrStart, j), attrs |-> s.events[j]]
              /\ \A k \in 1..s.events[j] :
                  attrPool[EventAttrStart(s, b.attrStart, j) + k - 1] = <<n, j, k>>
    BY <2>3 DEF Holds
  <2>5. Packed[i] =
          [attrs  |-> Slice(b.attrStart, b.attrs),
           events |-> [j \in 1..b.events |->
                        Slice(eventPool[b.eventStart + j - 1].attrStart,
                              eventPool[b.eventStart + j - 1].attrs)]]
    BY <2>1 DEF Packed
  <2>6. Slice(b.attrStart, b.attrs) = [k \in 1..s.attrs |-> <<n, 0, k>>]
    BY <2>4 DEF Slice
  <2>7. ASSUME NEW j \in 1..Len(s.events)
        PROVE  Slice(eventPool[b.eventStart + j - 1].attrStart,
                     eventPool[b.eventStart + j - 1].attrs)
               = [k \in 1..s.events[j] |-> <<n, j, k>>]
    <3>1. PICK x, v, ev : /\ x = EventAttrStart(s, b.attrStart, j) /\ v = s.events[j]
                          /\ ev = eventPool[b.eventStart + j - 1]
      OBVIOUS
    <3>2. ev.attrStart = x /\ ev.attrs = v
      <4>1. ev = [attrStart |-> x, attrs |-> v]
        BY <3>1, <2>4, Zenon
      <4> QED
        BY <4>1
    <3>3. \A k \in 1..v : attrPool[x + k - 1] = <<n, j, k>>
      BY <3>1, <2>4
    <3>4. Slice(x, v) = [k \in 1..v |-> <<n, j, k>>]
      BY <3>3 DEF Slice
    <3> QED
      BY <3>1, <3>2, <3>4
  <2>8. [j \in 1..b.events |-> Slice(eventPool[b.eventStart + j - 1].attrStart,
                                     eventPool[b.eventStart + j - 1].attrs)]
        = [j \in 1..Len(s.events) |-> [k \in 1..s.events[j] |-> <<n, j, k>>]]
    BY <2>4, <2>7, Zenon
  <2>9. Packed[i] = Whole(n, s)
    BY <2>5, <2>6, <2>8 DEF Whole
  <2> QED
    BY <2>1, <2>2, <2>9 DEF Wholes
<1>2. Packed = [i \in 1..Len(batch) |-> Packed[i]]
  BY DEF Packed
<1>3. PICK p : p = Packed
  OBVIOUS
<1>4. p \in [1..Len(batch) -> Wholes]
  BY <1>1, <1>2, <1>3, Zenon
<1>5. p \in Seq(Wholes) /\ Len(p) = Len(batch)
  BY <1>4, <1>t
<1> QED
  BY <1>1, <1>3, <1>5

LEMMA AllPacked ==
  ASSUME BatchType, BatchInv
  PROVE  /\ sent \o Packed \in Seq(Wholes) /\ Len(sent \o Packed) = Len(added)
         /\ \A i \in 1..Len(added) : (sent \o Packed)[i] = Whole(i, added[i])
<1>1. PICK p : p = Packed
  OBVIOUS
<1>2. /\ p \in Seq(Wholes) /\ Len(p) = Len(batch)
      /\ \A i \in 1..Len(batch) : p[i] = Whole(Len(sent) + i, added[Len(sent) + i])
  BY <1>1, PackedIsWhole
<1>3. /\ sent \in Seq(Wholes) /\ Len(sent) \in Nat /\ Len(batch) \in Nat
      /\ Len(sent) + Len(batch) = Len(added)
      /\ \A i \in 1..Len(sent) : sent[i] = Whole(i, added[i])
  BY DEF BatchType, BatchInv
<1>4. /\ sent \o p \in Seq(Wholes) /\ Len(sent \o p) = Len(added)
      /\ \A i \in 1..Len(added) :
            (sent \o p)[i] = IF i <= Len(sent) THEN sent[i] ELSE p[i - Len(sent)]
  BY <1>2, <1>3, ConcatFacts
<1>5. ASSUME NEW i \in 1..Len(added) PROVE (sent \o p)[i] = Whole(i, added[i])
  <2>1. CASE i <= Len(sent)
    <3>1. i \in 1..Len(sent)
      BY <2>1, <1>3
    <3> QED
      BY <2>1, <3>1, <1>3, <1>4
  <2>2. CASE ~ (i <= Len(sent))
    <3>1. i - Len(sent) \in 1..Len(batch) /\ Len(sent) + (i - Len(sent)) = i
      BY <2>2, <1>3
    <3>2. p[i - Len(sent)] = Whole(i, added[i])
      BY <3>1, <1>2
    <3> QED
      BY <2>2, <3>2, <1>4
  <2> QED
    BY <2>1, <2>2
<1> QED
  BY <1>1, <1>4, <1>5

-----------------------------------------------------------------------------
(* Every step keeps the invariant.                                         *)

LEMMA AppendFacts ==
  ASSUME NEW S, NEW q \in Seq(S), NEW x \in S
  PROVE  /\ Append(q, x) \in Seq(S) /\ Len(Append(q, x)) = Len(q) + 1
         /\ Append(q, x)[Len(q) + 1] = x
         /\ \A i \in 1..Len(q) : Append(q, x)[i] = q[i]
  OBVIOUS

LEMMA InitStep ==
  ASSUME BatchInit
  PROVE  BatchType /\ BatchInv
<1>1. BatchAttrs \in Nat /\ BatchEvents \in Nat /\ BatchSpans \in Nat
  BY PoolsAssumption
<1>2. /\ batch = <<>> /\ usedAttrs = 0 /\ usedEvents = 0 /\ added = <<>> /\ sent = <<>>
      /\ DOMAIN attrPool = 0..BatchAttrs - 1 /\ DOMAIN eventPool = 0..BatchEvents - 1
  BY DEF BatchInit
<1>3. BatchType
  BY <1>1, <1>2 DEF BatchType
<1>4. Len(sent) = 0 /\ Len(batch) = 0 /\ Len(added) = 0
  BY <1>2
<1>5. BatchInv
  BY <1>4 DEF BatchInv
<1> QED
  BY <1>3, <1>5

LEMMA FlushStep ==
  ASSUME BatchType, BatchInv, Flush
  PROVE  BatchType' /\ BatchInv'
<1>1. /\ sent' = sent \o Packed /\ batch' = <<>> /\ usedAttrs' = 0 /\ usedEvents' = 0
      /\ attrPool' = attrPool /\ eventPool' = eventPool /\ added' = added
  BY DEF Flush
<1>2. /\ sent' \in Seq(Wholes) /\ Len(sent') = Len(added)
      /\ \A i \in 1..Len(added) : sent'[i] = Whole(i, added[i])
  BY <1>1, AllPacked, Zenon
<1>3. /\ DOMAIN attrPool = 0..BatchAttrs - 1 /\ DOMAIN eventPool = 0..BatchEvents - 1
      /\ added \in Seq(Shapes)
  BY DEF BatchType
<1>4. BatchAttrs \in Nat /\ BatchEvents \in Nat /\ BatchSpans \in Nat
  BY PoolsAssumption
<1>5. batch' \in Seq(Places) /\ Len(batch') = 0
  BY <1>1
<1>6. BatchType'
  BY <1>1, <1>2, <1>3, <1>4, <1>5 DEF BatchType
<1>7. Len(sent') + Len(batch') = Len(added')
  BY <1>1, <1>2, <1>3, <1>5
<1>8. \A i \in 1..Len(sent') : sent'[i] = Whole(i, added'[i])
  BY <1>1, <1>2, Zenon
<1>9. \A i \in 1..Len(batch') :
          Holds(batch'[i], Len(sent') + i, added'[Len(sent') + i],
                attrPool', eventPool', usedAttrs', usedEvents')
  BY <1>5
<1>10. BatchInv'
  BY <1>7, <1>8, <1>9, Zenon DEF BatchInv
<1> QED
  BY <1>6, <1>10

\* What otlp_add_span starts from, after the flush if there is one: old is
\* the batch and a and e the cursors; the pools have room for the span.
Ready(s, old, a, e, done) ==
    /\ old \in Seq(Places) /\ Len(old) < BatchSpans /\ a \in Nat /\ e \in Nat
    /\ RoomFor(s, a, e)
    /\ done \in Seq(Wholes) /\ Len(done) + Len(old) = Len(added)
    /\ \A i \in 1..Len(done) : done[i] = Whole(i, added[i])
    /\ \A i \in 1..Len(old) : Holds(old[i], Len(done) + i, added[Len(done) + i],
                                    attrPool, eventPool, a, e)

\* What otlp_add_span does from there.
Writes(s, old, a, e) ==
    /\ batch' = Append(old, Place(s, a, e))
    /\ attrPool' = WithAttrs(attrPool, s, Len(added) + 1, a)
    /\ eventPool' = WithEvents(eventPool, s, a, e)
    /\ usedAttrs' = a + s.attrs + EventAttrs(s)
    /\ usedEvents' = e + Len(s.events)
    /\ added' = Append(added, s)

LEMMA ReadyFull ==
  ASSUME BatchType, BatchInv, NEW s \in Shapes
  PROVE  Ready(s, <<>>, 0, 0, sent \o Packed)
<1>1. PICK d : d = sent \o Packed
  OBVIOUS
<1>2. /\ d \in Seq(Wholes) /\ Len(d) = Len(added)
      /\ \A i \in 1..Len(added) : d[i] = Whole(i, added[i])
  BY <1>1, AllPacked, Zenon
<1>3. Len(added) \in Nat
  BY DEF BatchType
<1>4. RoomFor(s, 0, 0)
  <2>1. /\ s.attrs \in Nat /\ EventAttrs(s) \in Nat /\ Len(s.events) \in Nat
        /\ s.attrs + EventAttrs(s) <= BatchAttrs /\ Len(s.events) <= BatchEvents
    BY ShapeFacts
  <2>2. BatchAttrs \in Nat /\ BatchEvents \in Nat
    BY PoolsAssumption
  <2> QED
    BY <2>1, <2>2 DEF RoomFor
<1>5. PICK o : o = <<>>
  OBVIOUS
<1>6. o \in Seq(Places) /\ Len(o) = 0
  BY <1>5
<1>7. Len(o) < BatchSpans
  BY <1>6, PoolsAssumption
<1>8. Len(d) + Len(o) = Len(added) /\ 1..Len(o) = {}
  BY <1>2, <1>3, <1>6
<1>9. Ready(s, o, 0, 0, d)
  BY <1>2, <1>4, <1>6, <1>7, <1>8 DEF Ready
<1> QED
  BY <1>1, <1>5, <1>9

LEMMA ReadyNotFull ==
  ASSUME BatchType, BatchInv, NEW s \in Shapes, ~ Full(s)
  PROVE  Ready(s, batch, usedAttrs, usedEvents, sent)
<1>1. /\ s.attrs \in Nat /\ EventAttrs(s) \in Nat /\ Len(s.events) \in Nat
      /\ AttrsNeeded(s) = s.attrs + EventAttrs(s)
  BY ShapeFacts
<1>2. BatchAttrs \in Nat /\ BatchEvents \in Nat /\ BatchSpans \in Nat
  BY PoolsAssumption
<1>3. /\ usedAttrs \in Nat /\ usedEvents \in Nat /\ batch \in Seq(Places)
      /\ Len(batch) \in Nat /\ Len(batch) <= BatchSpans /\ sent \in Seq(Wholes)
  BY <1>2 DEF BatchType
<1>4. /\ Len(batch) # BatchSpans /\ ~ (usedAttrs + AttrsNeeded(s) > BatchAttrs)
      /\ ~ (usedEvents + Len(s.events) > BatchEvents)
  BY DEF Full
<1>5. Len(batch) < BatchSpans
  BY <1>2, <1>3, <1>4
<1>6. RoomFor(s, usedAttrs, usedEvents)
  BY <1>1, <1>2, <1>3, <1>4, SMTT(30) DEF RoomFor
<1>7. /\ Len(sent) + Len(batch) = Len(added)
      /\ \A i \in 1..Len(sent) : sent[i] = Whole(i, added[i])
      /\ \A i \in 1..Len(batch) :
            Holds(batch[i], Len(sent) + i, added[Len(sent) + i],
                  attrPool, eventPool, usedAttrs, usedEvents)
  BY DEF BatchInv
<1> QED
  BY <1>3, <1>5, <1>6, <1>7, Zenon DEF Ready

LEMMA AddStep ==
  ASSUME BatchType, BatchInv, NEW s \in Shapes, NEW old, NEW a, NEW e,
         Ready(s, old, a, e, sent'), Writes(s, old, a, e)
  PROVE  BatchType' /\ BatchInv'
<1>1. /\ old \in Seq(Places) /\ Len(old) < BatchSpans /\ a \in Nat /\ e \in Nat
      /\ RoomFor(s, a, e)
      /\ sent' \in Seq(Wholes) /\ Len(sent') + Len(old) = Len(added)
  BY DEF Ready
<1>2. /\ \A i \in 1..Len(sent') : sent'[i] = Whole(i, added[i])
      /\ \A i \in 1..Len(old) : Holds(old[i], Len(sent') + i, added[Len(sent') + i],
                                      attrPool, eventPool, a, e)
  BY DEF Ready
<1>3. /\ batch' = Append(old, Place(s, a, e))
      /\ attrPool' = WithAttrs(attrPool, s, Len(added) + 1, a)
      /\ eventPool' = WithEvents(eventPool, s, a, e)
      /\ usedAttrs' = a + s.attrs + EventAttrs(s)
      /\ usedEvents' = e + Len(s.events)
      /\ added' = Append(added, s)
  BY DEF Writes
<1>4. /\ DOMAIN attrPool = 0..BatchAttrs - 1 /\ DOMAIN eventPool = 0..BatchEvents - 1
      /\ added \in Seq(Shapes) /\ Len(added) \in Nat
  BY DEF BatchType
<1>5. /\ s.attrs \in Nat /\ EventAttrs(s) \in Nat /\ Len(s.events) \in Nat
      /\ BatchAttrs \in Nat /\ BatchEvents \in Nat /\ BatchSpans \in Nat
  BY ShapeFacts, PoolsAssumption
<1>6. Place(s, a, e) \in Places
  BY <1>1, <1>5 DEF Place, Places
<1>7. PICK p, nb, na : p = Place(s, a, e) /\ nb = batch' /\ na = added'
  OBVIOUS
<1>8. /\ nb \in Seq(Places) /\ Len(nb) = Len(old) + 1 /\ nb[Len(old) + 1] = p
      /\ \A i \in 1..Len(old) : nb[i] = old[i]
  <2>1. p \in Places /\ nb = Append(old, p)
    BY <1>3, <1>6, <1>7
  <2> QED
    BY <2>1, <1>1, AppendFacts
<1>9. /\ na \in Seq(Shapes) /\ Len(na) = Len(added) + 1 /\ na[Len(added) + 1] = s
      /\ \A i \in 1..Len(added) : na[i] = added[i]
  <2>1. na = Append(added, s)
    BY <1>3, <1>7
  <2> QED
    BY <2>1, <1>4, AppendFacts
<1>10. Len(old) \in Nat /\ Len(sent') \in Nat
  BY <1>1
<1>11. BatchType'
  <2>1. usedAttrs' \in 0..BatchAttrs /\ usedEvents' \in 0..BatchEvents
    <3>1. PICK n, m, w, la, le : /\ n = s.attrs /\ m = EventAttrs(s) /\ w = Len(s.events)
                                 /\ la = BatchAttrs /\ le = BatchEvents
      OBVIOUS
    <3>2. n \in Nat /\ m \in Nat /\ w \in Nat /\ la \in Nat /\ le \in Nat
      BY <3>1, <1>5, Zenon
    <3>3. a + n + m <= la /\ e + w <= le
      BY <3>1, <1>1, Zenon DEF RoomFor
    <3>4. a + n + m \in 0..la /\ e + w \in 0..le
      BY <3>2, <3>3, <1>1
    <3> QED
      BY <3>1, <3>4, <1>3, Zenon
  <2>2. AttrsWritten(attrPool', attrPool, s, Len(added) + 1, a)
    BY <1>1, <1>3, <1>4, WrittenAttrs, Zenon
  <2>3. EventsWritten(eventPool', eventPool, s, a, e)
    BY <1>1, <1>3, <1>4, WrittenEvents, Zenon
  <2>4. DOMAIN attrPool' = 0..BatchAttrs - 1 /\ DOMAIN eventPool' = 0..BatchEvents - 1
    BY <2>2, <2>3, Zenon DEF AttrsWritten, EventsWritten
  <2>5. Len(nb) <= BatchSpans
    BY <1>1, <1>5, <1>8, <1>10
  <2> QED
    BY <2>1, <2>4, <2>5, <1>1, <1>7, <1>8, <1>9, Zenon DEF BatchType
<1>12. Len(sent') + Len(nb) = Len(na)
  <2>1. PICK d, o, m, x, y : /\ d = Len(sent') /\ o = Len(old) /\ m = Len(added)
                             /\ x = Len(nb) /\ y = Len(na)
    OBVIOUS
  <2>2. d \in Nat /\ o \in Nat /\ m \in Nat /\ d + o = m /\ x = o + 1 /\ y = m + 1
    BY <2>1, <1>1, <1>4, <1>8, <1>9, <1>10, Zenon
  <2>3. d + x = y
    BY <2>2
  <2> QED
    BY <2>1, <2>3, Zenon
<1>13. ASSUME NEW i \in 1..Len(sent') PROVE sent'[i] = Whole(i, na[i])
  <2>1. i \in 1..Len(added)
    BY <1>1, <1>4, <1>10
  <2> QED
    BY <2>1, <1>2, <1>9, Zenon
<1>14. ASSUME NEW i \in 1..Len(nb)
       PROVE  Holds(nb[i], Len(sent') + i, na[Len(sent') + i],
                    attrPool', eventPool', usedAttrs', usedEvents')
  <2>1. CASE i = Len(old) + 1
    <3>1. Len(sent') + i = Len(added) + 1
      BY <2>1, <1>1, <1>4, <1>10
    <3>2. Holds(Place(s, a, e), Len(added) + 1, s,
                WithAttrs(attrPool, s, Len(added) + 1, a),
                WithEvents(eventPool, s, a, e),
                a + s.attrs + EventAttrs(s), e + Len(s.events))
      BY <1>1, <1>4, NewHeld, Zenon
    <3>3. nb[i] = Place(s, a, e) /\ na[Len(sent') + i] = s
      BY <2>1, <3>1, <1>7, <1>8, <1>9, Zenon
    <3> QED
      BY <3>1, <3>2, <3>3, <1>3, Zenon
  <2>2. CASE i # Len(old) + 1
    <3>1. i \in 1..Len(old) /\ Len(sent') + i \in 1..Len(added)
      BY <2>2, <1>1, <1>4, <1>8, <1>10
    <3>2. PICK n, s0, b : n = Len(sent') + i /\ s0 = added[n] /\ b = old[i]
      OBVIOUS
    <3>3. Holds(b, n, s0, attrPool, eventPool, a, e)
      BY <3>1, <3>2, <1>2, Zenon
    <3>4. b \in Places /\ s0 \in Shapes
      BY <3>1, <3>2, <1>1, <1>4
    <3>5. Holds(b, n, s0,
                WithAttrs(attrPool, s, Len(added) + 1, a),
                WithEvents(eventPool, s, a, e),
                a + s.attrs + EventAttrs(s), e + Len(s.events))
      BY <1>1, <1>4, <3>3, <3>4, OldHeld, Zenon
    <3>6. nb[i] = b /\ na[n] = s0
      BY <3>1, <3>2, <1>8, <1>9, Zenon
    <3> QED
      BY <3>2, <3>5, <3>6, <1>3, Zenon
  <2> QED
    BY <2>1, <2>2
<1>15. BatchInv'
  BY <1>7, <1>12, <1>13, <1>14, Zenon DEF BatchInv
<1> QED
  BY <1>11, <1>15

LEMMA BatchStep ==
  ASSUME BatchType, BatchInv, [BatchNext]_batchVars
  PROVE  BatchType' /\ BatchInv'
<1>1. CASE Flush
  BY <1>1, FlushStep
<1>2. ASSUME NEW s \in Shapes, AddSpan(s)
      PROVE  BatchType' /\ BatchInv'
  <2>1. CASE Full(s)
    <3>1. Writes(s, <<>>, 0, 0) /\ sent' = sent \o Packed
      BY <1>2, <2>1 DEF AddSpan, Writes, Place
    <3>2. Ready(s, <<>>, 0, 0, sent')
      BY <3>1, ReadyFull
    <3> QED
      BY <3>1, <3>2, AddStep
  <2>2. CASE ~ Full(s)
    <3>1. Writes(s, batch, usedAttrs, usedEvents) /\ sent' = sent
      BY <1>2, <2>2 DEF AddSpan, Writes, Place
    <3>2. Ready(s, batch, usedAttrs, usedEvents, sent')
      BY <3>1, <2>2, ReadyNotFull
    <3> QED
      BY <3>1, <3>2, AddStep
  <2> QED
    BY <2>1, <2>2
<1>3. CASE UNCHANGED batchVars
  BY <1>3, Zenon DEF batchVars, BatchType, BatchInv
<1> QED
  BY <1>1, <1>2, <1>3 DEF BatchNext

-----------------------------------------------------------------------------
(* The theorems.                                                           *)

\* Every slice a span of the batch points to holds that span's own data and
\* lies below the cursors, in every reachable state.
THEOREM BatchCorrect == BatchSpec => [](BatchType /\ BatchInv)
<1>1. BatchInit => BatchType /\ BatchInv
  BY InitStep
<1>2. (BatchType /\ BatchInv) /\ [BatchNext]_batchVars => (BatchType /\ BatchInv)'
  BY BatchStep
<1> QED
  BY <1>1, <1>2, PTL DEF BatchSpec

\* otlp_add_span never writes behind the end of a pool: the flush it starts
\* with makes room, because one span's arena never holds more records than
\* a pool has entries.
THEOREM CursorsInBounds == BatchSpec => []PoolsInBounds
<1>1. BatchType => PoolsInBounds
  <2> SUFFICES ASSUME BatchType PROVE PoolsInBounds
    OBVIOUS
  <2>1. BatchAttrs \in Nat /\ BatchEvents \in Nat
    BY PoolsAssumption
  <2> QED
    BY <2>1 DEF BatchType, PoolsInBounds
<1> QED
  BY <1>1, BatchCorrect, PTL

\* What otlp_flush packs is every span drained so far, once, in order, each
\* with exactly its own attributes and its events' attributes.
THEOREM SpansPackedWhole == BatchSpec => []PackedWhole
<1>1. BatchType /\ BatchInv => PackedWhole
  <2> SUFFICES ASSUME BatchType, BatchInv PROVE PackedWhole
    OBVIOUS
  <2>1. PICK all : all = sent \o Packed
    OBVIOUS
  <2>2. /\ all \in Seq(Wholes) /\ Len(all) = Len(added)
        /\ \A i \in 1..Len(added) : all[i] = Whole(i, added[i])
    BY <2>1, AllPacked, Zenon
  <2>3. all = [i \in 1..Len(added) |-> all[i]]
    BY <2>2
  <2>4. all = [i \in 1..Len(added) |-> Whole(i, added[i])]
    BY <2>2, <2>3, Zenon
  <2> QED
    BY <2>1, <2>4 DEF PackedWhole
<1> QED
  BY <1>1, BatchCorrect, PTL
=============================================================================
