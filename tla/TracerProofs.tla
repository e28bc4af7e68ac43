---------------------------- MODULE TracerProofs ----------------------------
(***************************************************************************)
(* Proofs about Tracer, for any number of workers, drain threads, contexts *)
(* and spans, any ring capacity and any batch size.                        *)
(***************************************************************************)
EXTENDS Tracer, TLAPS, WellFoundedInduction, FiniteSetTheorems

-----------------------------------------------------------------------------
(* Sequences, and the registry list.                                       *)

\* Every nonempty set of naturals has a least element.
LEMMA LeastNatural ==
  ASSUME NEW T, T \subseteq Nat, T # {}
  PROVE  \E x \in T : \A y \in T : x <= y
<1> DEFINE R == OpToRel(<, Nat)
<1>1. IsWellFoundedOn(R, Nat)
  BY NatLessThanWellFounded
<1>2. \A x, y \in Nat : x < y => <<x, y>> \in R
  BY DEF OpToRel
<1> HIDE DEF R
<1>3. PICK x \in T : \A y \in T : ~ (<<y, x>> \in R)
  BY <1>1, WFMin
<1>4. \A y \in T : ~ (y < x)
  <2> TAKE y \in T
  <2>1. y \in Nat /\ x \in Nat
    OBVIOUS
  <2> QED
    BY <1>2, <1>3, <2>1, Zenon
<1> QED
  BY <1>4

\* What the unlinking loop of otel_thread_unregister leaves of the registry:
\* the list itself if c is not on it, else the list with one entry for c out.
LEMMA WithoutIsRemoval ==
  ASSUME NEW c, threads \in Seq(Ctx)
  PROVE  /\ c \notin Elements(threads) => Without(c) = threads
         /\ c \in Elements(threads) =>
              \E k \in 1..Len(threads) :
                /\ threads[k] = c
                /\ Without(c) = SubSeq(threads, 1, k - 1)
                                  \o SubSeq(threads, k + 1, Len(threads))
<1> DEFINE at == {i \in 1..Len(threads) : threads[i] = c}
           k  == CHOOSE i \in at : \A j \in at : i <= j
           cut == SubSeq(threads, 1, k - 1) \o SubSeq(threads, k + 1, Len(threads))
<1>1. Without(c) = IF at = {} THEN threads ELSE cut
  BY DEF Without
<1>2. at = {} <=> c \notin Elements(threads)
  BY DEF Elements
<1>3. ASSUME at # {} PROVE k \in at
  <2>1. at \subseteq Nat
    OBVIOUS
  <2> HIDE DEF at
  <2>2. \E i \in at : \A j \in at : i <= j
    BY <2>1, <1>3, LeastNatural
  <2> QED
    BY <2>2
<1>4. ASSUME at # {} PROVE k \in 1..Len(threads) /\ threads[k] = c
  BY <1>3, <1>4
<1> HIDE DEF at, k
<1> QED
  BY <1>1, <1>2, <1>4

\* What concatenation does, in the form used below.
LEMMA ConcatFacts ==
  ASSUME NEW S, NEW a \in Seq(S), NEW b \in Seq(S)
  PROVE  /\ a \o b \in Seq(S) /\ Len(a \o b) = Len(a) + Len(b)
         /\ \A i \in 1..Len(a) + Len(b) :
                (a \o b)[i] = IF i <= Len(a) THEN a[i] ELSE b[i - Len(a)]
  OBVIOUS

\* Taking one entry out of a list.
LEMMA RemovalFacts ==
  ASSUME NEW S, NEW s \in Seq(S), NEW k \in 1..Len(s)
  PROVE  LET t == SubSeq(s, 1, k - 1) \o SubSeq(s, k + 1, Len(s))
         IN  /\ t \in Seq(S) /\ Len(t) = Len(s) - 1
             /\ \A i \in 1..Len(t) : t[i] = IF i < k THEN s[i] ELSE s[i + 1]
<1> DEFINE a == SubSeq(s, 1, k - 1)
           b == SubSeq(s, k + 1, Len(s))
<1>1. a \in Seq(S) /\ Len(a) = k - 1 /\ \A i \in 1..(k - 1) : a[i] = s[i]
  OBVIOUS
<1>2. /\ b \in Seq(S) /\ Len(b) = Len(s) - k
      /\ \A i \in 1..(Len(s) - k) : b[i] = s[k + i]
  OBVIOUS
<1> HIDE DEF a, b
<1>3. a \o b \in Seq(S) /\ Len(a \o b) = Len(s) - 1
  <2>1. a \o b \in Seq(S) /\ Len(a \o b) = Len(a) + Len(b)
    BY <1>1, <1>2, ConcatFacts, Zenon
  <2> QED
    BY <1>1, <1>2, <2>1
<1>4. ASSUME NEW i \in 1..Len(a \o b)
      PROVE  (a \o b)[i] = IF i < k THEN s[i] ELSE s[i + 1]
  <2>1. i \in Int /\ 1 <= i /\ i <= Len(s) - 1
    BY <1>3
  <2>2. i \in 1..Len(a) + Len(b)
    BY <1>1, <1>2, <2>1
  <2>3. (a \o b)[i] = IF i <= Len(a) THEN a[i] ELSE b[i - Len(a)]
    BY <1>1, <1>2, <2>2, ConcatFacts, Zenon
  <2>4. CASE i < k
    BY <1>1, <2>1, <2>3, <2>4
  <2>5. CASE ~(i < k)
    <3>1. i - Len(a) \in 1..(Len(s) - k) /\ k + (i - Len(a)) = i + 1
      BY <1>1, <2>1, <2>5
    <3> QED
      BY <1>1, <1>2, <2>1, <2>3, <2>5, <3>1
  <2> QED
    BY <2>4, <2>5
<1> QED
  BY <1>3, <1>4, Zenon DEF a, b

\* What is left of a ring after its first n spans.
LEMMA SuffixFacts ==
  ASSUME NEW S, NEW s \in Seq(S), NEW n \in Nat
  PROVE  LET t == SubSeq(s, n + 1, Len(s))
         IN  /\ t \in Seq(S)
             /\ Len(t) = IF n <= Len(s) THEN Len(s) - n ELSE 0
             /\ \A i \in 1..Len(t) : t[i] = s[n + i]
  OBVIOUS

\* The unlinking loop leaves a list of contexts.
LEMMA WithoutType ==
  ASSUME NEW c, threads \in Seq(Ctx)
  PROVE  Without(c) \in Seq(Ctx)
<1>1. CASE c \notin Elements(threads)
  BY <1>1, WithoutIsRemoval
<1>2. CASE c \in Elements(threads)
  <2>1. PICK k \in 1..Len(threads) :
          Without(c) = SubSeq(threads, 1, k - 1)
                         \o SubSeq(threads, k + 1, Len(threads))
    BY <1>2, WithoutIsRemoval, Zenon
  <2> QED
    BY <2>1, RemovalFacts, Zenon
<1> QED
  BY <1>1, <1>2

\* ctx->next is null or an entry of the list.
LEMMA NextCtxFacts ==
  ASSUME NEW c, threads \in Seq(Ctx)
  PROVE  NextCtx(c) \in Elements(threads) \cup {NoCtx} /\ NextCtx(c) \in Ctx \cup {NoCtx}
<1> DEFINE later == {i \in 2..Len(threads) : threads[i - 1] = c}
           k == CHOOSE i \in later : TRUE
<1>1. NextCtx(c) = IF later = {} THEN NoCtx ELSE threads[k]
  BY DEF NextCtx
<1>2. ASSUME later # {} PROVE k \in 1..Len(threads)
  <2>1. k \in later
    BY <1>2
  <2> QED
    BY <2>1
<1> HIDE DEF later, k
<1> QED
  BY <1>1, <1>2 DEF Elements

\* What appending does, in the form used below.
LEMMA AppendFacts ==
  ASSUME NEW S, NEW s \in Seq(S), NEW e \in S
  PROVE  /\ Append(s, e) \in Seq(S) /\ Len(Append(s, e)) = Len(s) + 1
         /\ \A i \in 1..Len(s) : Append(s, e)[i] = s[i]
         /\ Append(s, e)[Len(s) + 1] = e
         /\ Elements(Append(s, e)) = Elements(s) \cup {e}
<1>1. /\ Append(s, e) \in Seq(S) /\ Len(Append(s, e)) = Len(s) + 1
      /\ \A i \in 1..Len(s) : Append(s, e)[i] = s[i]
      /\ Append(s, e)[Len(s) + 1] = e
  OBVIOUS
<1> DEFINE t == Append(s, e)
<1> HIDE DEF t
<1>2. /\ Len(t) = Len(s) + 1 /\ Len(s) \in Nat
      /\ \A i \in 1..Len(s) : t[i] = s[i]
      /\ t[Len(s) + 1] = e
  BY <1>1 DEF t
<1>3. {t[i] : i \in 1..Len(t)} = {s[i] : i \in 1..Len(s)} \cup {e}
  <2>1. 1..Len(t) = 1..Len(s) \cup {Len(s) + 1}
    BY <1>2
  <2> QED
    BY <1>2, <2>1, ZenonT(30)
<1> QED
  BY <1>1, <1>3 DEF t, Elements

Distinct(s) == \A i, j \in 1..Len(s) : s[i] = s[j] => i = j

\* Pushing a new context keeps the list free of repetitions.
LEMMA PrependFacts ==
  ASSUME NEW S, NEW s \in Seq(S), NEW e \in S, Distinct(s), e \notin Elements(s)
  PROVE  /\ Distinct(<<e>> \o s)
         /\ Elements(<<e>> \o s) = Elements(s) \cup {e}
<1> DEFINE t == <<e>> \o s
<1>1. /\ t \in Seq(S) /\ Len(t) = Len(s) + 1
      /\ \A i \in 1..Len(t) : t[i] = IF i = 1 THEN e ELSE s[i - 1]
  <2>1. <<e>> \in Seq(S) /\ Len(<<e>>) = 1 /\ <<e>>[1] = e
    OBVIOUS
  <2> QED
    BY <2>1, ConcatFacts
<1> HIDE DEF t
<1>2. Len(s) \in Nat
  OBVIOUS
<1>3. \A i \in 1..Len(s) : s[i] # e
  BY DEF Elements
<1>4. Distinct(t)
  <2> SUFFICES ASSUME NEW i \in 1..Len(t), NEW j \in 1..Len(t), t[i] = t[j]
               PROVE  i = j
    BY DEF Distinct
  <2>1. CASE i = 1 \/ j = 1
    <3>1. \A m \in 1..Len(t) : m # 1 => t[m] # e
      <4> SUFFICES ASSUME NEW m \in 1..Len(t), m # 1 PROVE t[m] # e
        OBVIOUS
      <4>1. m - 1 \in 1..Len(s) /\ t[m] = s[m - 1]
        BY <1>1, <1>2
      <4> QED
        BY <1>3, <4>1
    <3>2. t[1] = e
      BY <1>1, <1>2
    <3> QED
      BY <2>1, <3>1, <3>2
  <2>2. CASE i # 1 /\ j # 1
    <3>1. i - 1 \in 1..Len(s) /\ j - 1 \in 1..Len(s) /\ s[i - 1] = s[j - 1]
      BY <1>1, <1>2, <2>2
    <3>2. i - 1 = j - 1
      BY <3>1 DEF Distinct
    <3> QED
      BY <3>2
  <2> QED
    BY <2>1, <2>2
<1>5. Elements(t) = Elements(s) \cup {e}
  <2>1. \A x \in Elements(t) : x \in Elements(s) \cup {e}
    BY <1>1, <1>2 DEF Elements
  <2>2. e \in Elements(t)
    BY <1>1, <1>2 DEF Elements
  <2>3. ASSUME NEW x \in Elements(s) PROVE x \in Elements(t)
    <3>1. PICK i \in 1..Len(s) : x = s[i]
      BY <2>3 DEF Elements
    <3>2. i + 1 \in 1..Len(t) /\ t[i + 1] = x
      BY <1>1, <1>2, <3>1
    <3> QED
      BY <3>2 DEF Elements
  <2> QED
    BY <2>1, <2>2, <2>3
<1> QED
  BY <1>4, <1>5 DEF t

\* Unlinking takes exactly c off a list without repetitions.
LEMMA WithoutFacts ==
  ASSUME NEW c, threads \in Seq(Ctx), Distinct(threads)
  PROVE  Distinct(Without(c)) /\ Elements(Without(c)) = Elements(threads) \ {c}
<1>1. CASE c \notin Elements(threads)
  BY <1>1, WithoutIsRemoval
<1>2. CASE c \in Elements(threads)
  <2>1. PICK k \in 1..Len(threads) :
          /\ threads[k] = c
          /\ Without(c) = SubSeq(threads, 1, k - 1)
                            \o SubSeq(threads, k + 1, Len(threads))
    BY <1>2, WithoutIsRemoval, Zenon
  <2> DEFINE t == Without(c)
  <2> HIDE DEF t
  <2>2. /\ t \in Seq(Ctx) /\ Len(t) = Len(threads) - 1
        /\ \A i \in 1..Len(t) :
              t[i] = IF i < k THEN threads[i] ELSE threads[i + 1]
    BY <2>1, RemovalFacts, ZenonT(30) DEF t
  <2>3. Len(threads) \in Nat /\ k \in Nat
    OBVIOUS
  <2>4. Distinct(t)
    BY <2>2, <2>3 DEF Distinct
  <2>5. ASSUME NEW x \in Elements(t) PROVE x \in Elements(threads) /\ x # c
    <3>1. PICK i \in 1..Len(t) : x = t[i]
      BY DEF Elements
    <3>2. PICK m \in 1..Len(threads) : x = threads[m] /\ m # k
      <4>1. CASE i < k
        BY <2>2, <2>3, <3>1, <4>1
      <4>2. CASE ~(i < k)
        <5>1. i + 1 \in 1..Len(threads) /\ x = threads[i + 1] /\ i + 1 # k
          BY <2>2, <2>3, <3>1, <4>2
        <5> QED
          BY <5>1
      <4> QED
        BY <4>1, <4>2
    <3>3. x # c
      BY <2>1, <3>2 DEF Distinct
    <3> QED
      BY <3>2, <3>3 DEF Elements
  <2>6. ASSUME NEW x \in Elements(threads), x # c PROVE x \in Elements(t)
    <3>1. PICK i \in 1..Len(threads) : x = threads[i]
      BY DEF Elements
    <3>2. CASE i < k
      <4>1. i \in 1..Len(t) /\ t[i] = x
        BY <2>2, <2>3, <3>1, <3>2
      <4> QED
        BY <4>1 DEF Elements
    <3>3. CASE ~(i < k)
      <4>1. i # k
        BY <2>1, <2>6, <3>1
      <4>2. i - 1 \in 1..Len(t) /\ t[i - 1] = x
        BY <2>2, <2>3, <3>1, <3>3, <4>1
      <4> QED
        BY <4>2 DEF Elements
    <3> QED
      BY <3>2, <3>3
  <2>7. Elements(t) = Elements(threads) \ {c}
    BY <2>5, <2>6
  <2> QED
    BY <2>4, <2>7 DEF t
<1> QED
  BY <1>1, <1>2

-----------------------------------------------------------------------------
(* Type correctness.                                                       *)

\* What the types of the thread locals rest on: a thread in otel_drain_ctx has
\* a ring, its cursors are used only there, and a span that is open has a
\* number left.
LocalsInv ==
    /\ \A p \in Threads : pc[p] \in {"link", "load", "emit"} => walk[p] \in Ctx
    /\ \A p \in Threads : pc[p] # "emit" => pos[p] = 0 /\ lim[p] = 0
    /\ \A w \in Workers : recording[w] => ended[w] < MaxEnds
    /\ \A w \in Workers : dropped[w] <= ended[w]

\* Every step of every thread keeps the types and LocalsInv.
LEMMA TypeStep ==
  ASSUME TypeOK, LocalsInv, [Next]_vars
  PROVE  TypeOK' /\ LocalsInv'
<1> USE TracerAssumption
<1> USE DEF config, locks, heap, cursors, spans, work, Goto
<1>m. Main \in Threads
  BY DEF Threads
<1>w. \A w \in Workers : w \in Threads
  BY DEF Threads
<1>l. /\ {"idle", "sink_present", "recompute", "link", "drain_lock"} \subseteq Labels
      /\ {"registry_lock", "begin", "load", "emit", "flush", "end"} \subseteq Labels
      /\ {"unlock", "unlink", "free", "free_all"} \subseteq Labels
  BY DEF Labels
<1> USE <1>l
<1>1. CASE OtelInit
  <2>1. /\ batch' \in Seq(Ctx) /\ Len(batch') <= BatchSpans
        /\ threads' \in Seq(Ctx)
    BY <1>1 DEF OtelInit
  <2>2. /\ initialized' \in BOOLEAN /\ transport' \in BOOLEAN /\ sink' \in BOOLEAN
        /\ sinkPresent' \in BOOLEAN /\ runtimeOn' \in BOOLEAN /\ enabled' \in BOOLEAN
    BY <1>1 DEF OtelInit
  <2>3. /\ ended' = [w \in Workers |-> 0] /\ dropped' = [w \in Workers |-> 0]
        /\ UNCHANGED <<locks, live, owner, cursors, recording, phase, staged, pc,
                       tls, bracket>>
    BY <1>1 DEF OtelInit
  <2>4. ended' \in [Workers -> 0..MaxEnds] /\ dropped' \in [Workers -> 0..MaxEnds]
    BY <2>3
  <2>5. \A w \in Workers : (recording'[w] => ended'[w] < MaxEnds) /\ dropped'[w] <= ended'[w]
    BY <2>3 DEF TypeOK, LocalsInv
  <2>6. UNCHANGED <<locks, live, owner, cursors, recording, phase, staged, pc, tls, bracket>>
    BY <2>3
  <2>7. TypeOK'
    BY <2>1, <2>2, <2>4, <2>6 DEF TypeOK
  <2> QED
    BY <2>5, <2>6, <2>7 DEF LocalsInv
<1>2. CASE SetTransport
  <2>1. transport' \in BOOLEAN
    BY <1>2, Zenon DEF SetTransport
  <2>2. /\ pc' = [pc EXCEPT ![Main] = "recompute"]
        /\ UNCHANGED <<initialized, sink, sinkPresent, runtimeOn, enabled, work>>
        /\ pc[Main] = "idle"
    BY <1>2, Zenon DEF SetTransport, MayCall
  <2> QED
    BY <1>m, <2>1, <2>2, SMTT(30) DEF TypeOK, LocalsInv
<1>3. CASE SetEnabled
  <2>1. runtimeOn' \in BOOLEAN
    BY <1>3, Zenon DEF SetEnabled
  <2>2. /\ pc' = [pc EXCEPT ![Main] = "recompute"]
        /\ UNCHANGED <<initialized, transport, sink, sinkPresent, enabled, work>>
        /\ pc[Main] = "idle"
    BY <1>3, Zenon DEF SetEnabled, MayCall
  <2> QED
    BY <1>m, <2>1, <2>2, SMTT(30) DEF TypeOK, LocalsInv
<1>4. CASE SetSpanSink
  <2>1. sink' \in BOOLEAN
    BY <1>4, Zenon DEF SetSpanSink
  <2>2. /\ pc' = [pc EXCEPT ![Main] = "sink_present"]
        /\ UNCHANGED <<initialized, transport, sinkPresent, runtimeOn, enabled, work>>
        /\ pc[Main] = "idle"
    BY <1>4, Zenon DEF SetSpanSink, MayCall
  <2> QED
    BY <1>m, <2>1, <2>2, SMTT(30) DEF TypeOK, LocalsInv
<1>5. CASE SetSinkPresent
  BY <1>5, <1>m, SMTT(30) DEF SetSinkPresent, TypeOK, LocalsInv
<1>6. CASE RecomputeEnabled
  BY <1>6, <1>m, SMTT(60) DEF RecomputeEnabled, TypeOK, LocalsInv
<1>7. CASE StartThreads
  BY <1>7 DEF StartThreads, TypeOK, LocalsInv
<1>8. CASE StopThreads
  BY <1>8 DEF StopThreads, TypeOK, LocalsInv
<1>9. CASE Shutdown
  BY <1>9, <1>m, SMTT(30) DEF Shutdown, TypeOK, LocalsInv
<1>10. CASE FreeAll
  <2>1. /\ staged' \in [Ctx -> Seq(1..MaxEnds)]
        /\ \A c \in Ctx : Len(staged'[c]) <= Capacity
        /\ threads' \in Seq(Ctx)
    BY <1>10 DEF FreeAll
  <2> QED
    BY <1>10, <1>m, <2>1, ZenonT(30) DEF FreeAll, TypeOK, LocalsInv
<1>11. ASSUME NEW w \in Workers, Register(w) PROVE TypeOK' /\ LocalsInv'
  <2>1. PICK c \in Ctx : /\ live' = live \cup {c}
                         /\ owner' = [owner EXCEPT ![c] = w]
                         /\ walk' = [walk EXCEPT ![w] = c]
    BY <1>11 DEF Register
  <2>2. /\ pc' = [pc EXCEPT ![w] = "link"] /\ pc[w] = "idle"
        /\ UNCHANGED <<config, locks, threads, pos, lim, spans, phase, batch,
                       staged, tls, emitted, bracket>>
    BY <1>11 DEF Register, CanCall
  <2>3. /\ live' \subseteq Ctx /\ owner' \in [Ctx -> Workers \cup {NoCtx}]
        /\ walk' \in [Threads -> Ctx \cup {NoCtx}] /\ pc' \in [Threads -> Labels]
    BY <1>w, <2>1, <2>2 DEF TypeOK
  <2>4. UNCHANGED <<config, locks, threads, pos, lim, spans, phase, batch,
                    staged, tls, emitted, bracket>>
    BY <2>2
  <2>5. TypeOK'
    BY <2>3, <2>4, SMTT(30) DEF TypeOK
  <2>6. LocalsInv'
    BY <1>w, <2>1, <2>2 DEF LocalsInv, TypeOK
  <2> QED
    BY <2>5, <2>6
<1>12. ASSUME NEW w \in Workers, SpanStart(w) PROVE TypeOK' /\ LocalsInv'
  BY <1>12, <1>w DEF SpanStart, CanCall, TypeOK, LocalsInv
<1>13. ASSUME NEW w \in Workers, SpanEnd(w) PROVE TypeOK' /\ LocalsInv'
  <2>1. ended[w] \in 0..MaxEnds /\ ended[w] < MaxEnds /\ dropped[w] <= ended[w]
    BY <1>13 DEF SpanEnd, TypeOK, LocalsInv
  <2>2. /\ ended' = [ended EXCEPT ![w] = @ + 1]
        /\ recording' = [recording EXCEPT ![w] = FALSE]
    BY <1>13 DEF SpanEnd
  <2>3. UNCHANGED <<config, locks, heap, cursors, phase, batch, pc, tls, bracket>>
    BY <1>13 DEF SpanEnd
  <2>4. ended' \in [Workers -> 0..MaxEnds] /\ recording' \in [Workers -> BOOLEAN]
    BY <2>1, <2>2, SMTT(30) DEF TypeOK
  <2>5. \A v \in Workers : recording'[v] => ended'[v] < MaxEnds
    BY <2>2 DEF TypeOK, LocalsInv
  <2>6. CASE Refuses(tls[w])
    <3>1. UNCHANGED staged /\ dropped' = [dropped EXCEPT ![w] = @ + 1]
      BY <1>13, <2>6 DEF SpanEnd, Drops
    <3>2. /\ dropped' \in [Workers -> 0..MaxEnds]
          /\ \A v \in Workers : dropped'[v] <= ended'[v]
      BY <2>1, <2>2, <3>1, SMTT(30) DEF TypeOK, LocalsInv
    <3>3. TypeOK'
      BY <2>3, <2>4, <3>1, <3>2, SMTT(30) DEF TypeOK
    <3> QED
      BY <2>3, <2>5, <3>2, <3>3 DEF LocalsInv
  <2>7. CASE ~Refuses(tls[w])
    <3>1. tls[w] \in Ctx /\ Len(staged[tls[w]]) < Capacity
      BY <2>7 DEF Refuses, TypeOK
    <3>2. /\ staged' = [staged EXCEPT ![tls[w]] = Append(@, ended[w] + 1)]
          /\ UNCHANGED dropped
      BY <1>13, <2>7 DEF SpanEnd
    <3>3. ended[w] + 1 \in 1..MaxEnds
      BY <2>1
    <3>4. /\ staged' \in [Ctx -> Seq(1..MaxEnds)]
          /\ \A c \in Ctx : Len(staged'[c]) <= Capacity
      BY <3>1, <3>2, <3>3, SMTT(60) DEF TypeOK
    <3>5. \A v \in Workers : dropped'[v] <= ended'[v]
      BY <2>1, <2>2, <3>2 DEF TypeOK, LocalsInv
    <3>6. UNCHANGED dropped
      BY <3>2
    <3>7. TypeOK'
      BY <2>3, <2>4, <3>4, <3>6, SMTT(30) DEF TypeOK
    <3> QED
      BY <2>3, <2>5, <3>5, <3>7 DEF LocalsInv
  <2> QED
    BY <2>6, <2>7
<1>14. ASSUME NEW w \in Workers, Unregister(w) PROVE TypeOK' /\ LocalsInv'
  BY <1>14, <1>w, ZenonT(30) DEF Unregister, CanCall, TypeOK, LocalsInv
<1>15. ASSUME NEW w \in Workers, Link(w) PROVE TypeOK' /\ LocalsInv'
  <2>1. walk[w] \in Ctx
    BY <1>15, <1>w DEF Link, LocalsInv
  <2>2. threads' \in Seq(Ctx)
    <3>1. threads' = <<walk[w]>> \o threads
      BY <1>15 DEF Link
    <3>2. threads \in Seq(Ctx) /\ <<walk[w]>> \in Seq(Ctx)
      BY <2>1 DEF TypeOK
    <3> QED
      BY <3>1, <3>2, ConcatFacts
  <2>3. /\ tls' = [tls EXCEPT ![w] = walk[w]]
        /\ walk' = [walk EXCEPT ![w] = NoCtx]
        /\ pc' = [pc EXCEPT ![w] = "idle"]
    BY <1>15 DEF Link
  <2>4. UNCHANGED <<config, locks, live, owner, pos, lim, spans, phase, batch,
                    staged, bracket>>
    BY <1>15 DEF Link
  <2>5. /\ tls' \in [Workers -> Ctx \cup {NoCtx}]
        /\ walk' \in [Threads -> Ctx \cup {NoCtx}]
        /\ pc' \in [Threads -> Labels]
    BY <1>w, <2>1, <2>3 DEF TypeOK
  <2>6. TypeOK'
    BY <2>2, <2>4, <2>5, SMTT(30) DEF TypeOK
  <2>7. LocalsInv'
    BY <1>15, <1>w, <2>3, <2>4 DEF Link, LocalsInv, TypeOK
  <2> QED
    BY <2>6, <2>7
<1>16. ASSUME NEW w \in Workers, Unlink(w) PROVE TypeOK' /\ LocalsInv'
  <2>1. threads' \in Seq(Ctx)
    BY <1>16, WithoutType DEF Unlink, TypeOK
  <2> QED
    BY <1>16, <1>w, <2>1, SMTT(30) DEF Unlink, TypeOK, LocalsInv
<1>17. ASSUME NEW w \in Workers, Free(w) PROVE TypeOK' /\ LocalsInv'
  <2>1. /\ staged' \in [Ctx -> Seq(1..MaxEnds)]
        /\ \A c \in Ctx : Len(staged'[c]) <= Capacity
    <3>1. <<>> \in Seq(1..MaxEnds) /\ Len(<<>>) <= Capacity
      OBVIOUS
    <3>2. staged' = [staged EXCEPT ![tls[w]] = <<>>]
      BY <1>17 DEF Free
    <3> QED
      BY <3>1, <3>2 DEF TypeOK
  <2> QED
    BY <1>17, <1>w, <2>1, SMTT(60) DEF Free, TypeOK, LocalsInv
<1>18. ASSUME NEW d \in Drainers, DrainCall(d) PROVE TypeOK' /\ LocalsInv'
  BY <1>18, ZenonT(30) DEF DrainCall, TypeOK, LocalsInv, Threads
<1>19. ASSUME NEW p \in Threads, LockDrain(p) PROVE TypeOK' /\ LocalsInv'
  BY <1>19 DEF LockDrain, TypeOK, LocalsInv
<1>20. ASSUME NEW p \in Threads, ReadLock(p) PROVE TypeOK' /\ LocalsInv'
  BY <1>20 DEF ReadLock, TypeOK, LocalsInv
<1>21. ASSUME NEW p \in Threads, WriteLock(p) PROVE TypeOK' /\ LocalsInv'
  BY <1>21, SMTT(30) DEF WriteLock, AfterWriteLock, TypeOK, LocalsInv
<1>22. ASSUME NEW p \in Threads, Begin(p) PROVE TypeOK' /\ LocalsInv'
  <2> DEFINE first == IF p \in Workers THEN tls[p]
                     ELSE IF threads = <<>> THEN NoCtx ELSE Head(threads)
  <2>1. first \in Ctx \cup {NoCtx}
    <3>1. threads # <<>> => Head(threads) \in Ctx
      BY DEF TypeOK
    <3> QED
      BY <3>1 DEF TypeOK
  <2>2. /\ walk' = [walk EXCEPT ![p] = first]
        /\ pc' = [pc EXCEPT ![p] = IF first = NoCtx THEN "flush" ELSE "load"]
        /\ pc[p] = "begin"
    BY <1>22 DEF Begin
  <2> HIDE DEF first
  <2>3. UNCHANGED <<config, locks, heap, pos, lim, spans, phase, batch, staged, tls>>
    BY <1>22 DEF Begin
  <2>4. bracket' \subseteq Threads
    BY <1>22 DEF Begin, TypeOK
  <2>5. /\ walk' \in [Threads -> Ctx \cup {NoCtx}]
        /\ pc' \in [Threads -> Labels]
    BY <2>1, <2>2 DEF TypeOK
  <2>6. TypeOK'
    BY <2>3, <2>4, <2>5, SMTT(30) DEF TypeOK
  <2>7. LocalsInv'
    BY <2>1, <2>2, <2>3 DEF LocalsInv, TypeOK
  <2> QED
    BY <2>6, <2>7
<1>23. ASSUME NEW p \in Threads, Load(p) PROVE TypeOK' /\ LocalsInv'
  <2>1. walk[p] \in Ctx /\ pos[p] = 0
    BY <1>23 DEF Load, LocalsInv
  <2>2. Len(staged[walk[p]]) \in Nat /\ Len(staged[walk[p]]) <= Capacity
    BY <2>1 DEF TypeOK
  <2> QED
    BY <1>23, <2>1, <2>2, SMTT(30) DEF Load, TypeOK, LocalsInv
<1>24. ASSUME NEW p \in Threads, Emit(p) PROVE TypeOK' /\ LocalsInv'
  <2>1. walk[p] \in Ctx
    BY <1>24 DEF Emit, LocalsInv
  <2>2. \/ batch' = batch \/ batch' = <<walk[p]>>
        \/ Len(batch) # BatchSpans /\ batch' = Append(batch, walk[p])
    BY <1>24 DEF Emit
  <2>3. batch' \in Seq(Ctx) /\ Len(batch') <= BatchSpans
    <3>1. batch \in Seq(Ctx) /\ Len(batch) \in Nat /\ Len(batch) <= BatchSpans
      BY DEF TypeOK
    <3>2. CASE batch' = batch
      BY <3>1, <3>2
    <3>3. CASE batch' = <<walk[p]>>
      BY <2>1, <3>3
    <3>4. CASE Len(batch) # BatchSpans /\ batch' = Append(batch, walk[p])
      <4>1. batch' \in Seq(Ctx) /\ Len(batch') = Len(batch) + 1
        BY <2>1, <3>1, <3>4
      <4> QED
        BY <3>1, <3>4, <4>1
    <3> QED
      BY <2>2, <3>2, <3>3, <3>4
  <2>4. pos' \in [Threads -> Nat] /\ \A q \in Threads : pos'[q] <= lim[q]
    <3>1. /\ pos \in [Threads -> Nat] /\ lim \in [Threads -> Nat]
          /\ \A q \in Threads : pos[q] <= lim[q]
      BY DEF TypeOK
    <3>2. pos[p] < lim[p] /\ pos' = [pos EXCEPT ![p] = @ + 1]
      BY <1>24 DEF Emit
    <3>3. pos' \in [Threads -> Nat]
      BY <3>1, <3>2
    <3>4. pos'[p] = pos[p] + 1 /\ \A q \in Threads : q # p => pos'[q] = pos[q]
      BY <3>1, <3>2
    <3>5. pos[p] + 1 <= lim[p]
      BY <3>1, <3>2
    <3> QED
      BY <3>1, <3>3, <3>4, <3>5
  <2>5. UNCHANGED <<config, locks, heap, walk, lim, spans, phase, staged, pc, tls,
                    bracket>>
    BY <1>24 DEF Emit
  <2>6. TypeOK'
    BY <2>3, <2>4, <2>5, SMTT(30) DEF TypeOK
  <2>7. \A q \in Threads : q # p => pos'[q] = pos[q]
    BY <1>24 DEF Emit, TypeOK
  <2> QED
    BY <1>24, <2>5, <2>6, <2>7 DEF Emit, LocalsInv
<1>25. ASSUME NEW p \in Threads, Store(p) PROVE TypeOK' /\ LocalsInv'
  <2> DEFINE c    == walk[p]
             next == IF p \in Workers THEN NoCtx ELSE NextCtx(c)
             rest == SubSeq(staged[c], lim[p] + 1, Len(staged[c]))
  <2>1. c \in Ctx
    BY <1>25 DEF Store, LocalsInv
  <2>2. next \in Ctx \cup {NoCtx}
    BY NextCtxFacts DEF TypeOK
  <2>3. staged' = [staged EXCEPT ![c] = rest]
    BY <1>25 DEF Store, Unreleased
  <2>4. /\ walk' = [walk EXCEPT ![p] = next]
        /\ pc' = [pc EXCEPT ![p] = IF next = NoCtx THEN "flush" ELSE "load"]
        /\ pos' = [pos EXCEPT ![p] = 0] /\ lim' = [lim EXCEPT ![p] = 0]
    BY <1>25 DEF Store, AfterRing
  <2>5. rest \in Seq(1..MaxEnds) /\ Len(rest) <= Capacity
    <3>1. /\ staged[c] \in Seq(1..MaxEnds) /\ Len(staged[c]) \in Nat
          /\ Len(staged[c]) <= Capacity /\ lim[p] \in Nat
      BY <2>1 DEF TypeOK
    <3>2. /\ rest \in Seq(1..MaxEnds)
          /\ Len(rest) = IF lim[p] <= Len(staged[c]) THEN Len(staged[c]) - lim[p] ELSE 0
      BY <3>1, SuffixFacts, Zenon
    <3> HIDE DEF rest, c
    <3> QED
      BY <3>1, <3>2
  <2> HIDE DEF c, next, rest
  <2>6. /\ staged' \in [Ctx -> Seq(1..MaxEnds)]
        /\ \A d \in Ctx : Len(staged'[d]) <= Capacity
    BY <2>1, <2>3, <2>5 DEF TypeOK
  <2>7. /\ walk' \in [Threads -> Ctx \cup {NoCtx}] /\ pc' \in [Threads -> Labels]
        /\ pos' \in [Threads -> Nat] /\ lim' \in [Threads -> Nat]
        /\ \A q \in Threads : pos'[q] <= lim'[q] /\ lim'[q] <= Capacity
    BY <2>2, <2>4 DEF TypeOK
  <2>8. UNCHANGED <<config, locks, heap, spans, phase, batch, tls, bracket>>
    BY <1>25 DEF Store
  <2>9. TypeOK'
    BY <2>6, <2>7, <2>8, ZenonT(30) DEF TypeOK
  <2>10. LocalsInv'
    BY <2>2, <2>4, <2>8 DEF LocalsInv, TypeOK
  <2> QED
    BY <2>9, <2>10
<1>26. ASSUME NEW p \in Threads, Flush(p) PROVE TypeOK' /\ LocalsInv'
  BY <1>26, SMTT(30) DEF Flush, TypeOK, LocalsInv
<1>27. ASSUME NEW p \in Threads, End(p) PROVE TypeOK' /\ LocalsInv'
  <2>1. bracket' \subseteq Threads
    BY <1>27 DEF End, TypeOK
  <2> QED
    BY <1>27, <2>1, SMTT(60) DEF End, TypeOK, LocalsInv
<1>28. ASSUME NEW p \in Threads, Unlock(p) PROVE TypeOK' /\ LocalsInv'
  BY <1>28, SMTT(30) DEF Unlock, TypeOK, LocalsInv
<1>29. CASE UNCHANGED vars
  BY <1>29 DEF vars, TypeOK, LocalsInv
<1> QED
  BY <1>1, <1>2, <1>3, <1>4, <1>5, <1>6, <1>7, <1>8, <1>9, <1>10, <1>11, <1>12,
     <1>13, <1>14, <1>15, <1>16, <1>17, <1>18, <1>19, <1>20, <1>21, <1>22, <1>23,
     <1>24, <1>25, <1>26, <1>27, <1>28, <1>29
     DEF Next, Configure, Work, Continue, Pass

\* The types of every variable hold throughout, in particular no ring exceeds its
\* capacity, no batch exceeds OTEL_BATCH_SPANS and no thread drains a null
\* context.
THEOREM TypeCorrect == Spec => [](TypeOK /\ LocalsInv)
<1>1. Init => TypeOK /\ LocalsInv
  <2> SUFFICES ASSUME Init PROVE TypeOK /\ LocalsInv
    OBVIOUS
  <2>1. /\ threads \in Seq(Ctx) /\ batch \in Seq(Ctx) /\ Len(batch) <= BatchSpans
    BY TracerAssumption DEF Init
  <2>2. /\ staged \in [Ctx -> Seq(1..MaxEnds)]
        /\ \A c \in Ctx : Len(staged[c]) <= Capacity
    BY TracerAssumption DEF Init
  <2>3. /\ live \subseteq Ctx /\ pc \in [Threads -> Labels]
        /\ tls \in [Workers -> Ctx \cup {NoCtx}]
        /\ walk \in [Threads -> Ctx \cup {NoCtx}]
        /\ owner \in [Ctx -> Workers \cup {NoCtx}]
    BY DEF Init, Labels
  <2>4. /\ recording \in [Workers -> BOOLEAN]
        /\ ended \in [Workers -> 0..MaxEnds] /\ dropped \in [Workers -> 0..MaxEnds]
        /\ pos \in [Threads -> Nat] /\ lim \in [Threads -> Nat]
        /\ \A p \in Threads : pos[p] <= lim[p] /\ lim[p] <= Capacity
    BY TracerAssumption DEF Init
  <2>5. TypeOK
    BY <2>1, <2>2, <2>3, <2>4 DEF Init, TypeOK
  <2>6. LocalsInv
    BY DEF Init, LocalsInv
  <2> QED
    BY <2>5, <2>6
<1> QED
  BY <1>1, TypeStep, PTL DEF Spec

-----------------------------------------------------------------------------
(* Who holds which lock.                                                   *)

Draining == {"begin", "load", "emit", "flush", "end"}
Holding  == Draining \cup {"registry_lock", "unlink", "unlock"}

\* Each thread stays in its own part of the code; the drain lock is held from
\* otel_mutex_lock to its release, the registry lock, for writing by an
\* unregistering worker and for reading by otel_drain, within that; and outside
\* "run" only the main thread moves.
ControlInv ==
    /\ \A w \in Workers : pc[w] \in Draining \cup
           {"idle", "link", "drain_lock", "registry_lock", "unlink", "free"}
    /\ \A d \in Drainers : pc[d] \in Draining \cup
           {"idle", "drain_lock", "registry_lock", "unlock"}
    /\ pc[Main] \in Draining \cup
           {"idle", "drain_lock", "registry_lock", "unlock", "sink_present",
            "recompute", "free_all"}
    /\ \A p \in Threads : pc[p] \in Holding <=> drainLock = p
    /\ \A w \in Workers : pc[w] \in Draining \cup {"unlink"} <=> writer = w
    /\ \A p \in Threads \ Workers : pc[p] \in Draining \cup {"unlock"} <=> p \in readers
    /\ readers \cap Workers = {}
    /\ pc[Main] \in Holding \cup {"drain_lock", "free_all"} => phase = "stop"
    /\ phase # "run" => \A p \in Threads \ {Main} : pc[p] = "idle"

\* Every step keeps ControlInv.
LEMMA ControlStep ==
  ASSUME TypeOK, ControlInv, [Next]_vars
  PROVE  ControlInv'
<1> USE TracerAssumption
<1> USE DEF config, locks, heap, cursors, spans, work, Goto, Draining, Holding
<1>t. /\ pc \in [Threads -> Labels] /\ Main \in Threads
      /\ Workers \subseteq Threads /\ Drainers \subseteq Threads
      /\ \A p \in Threads : p \in Workers \/ p \in Drainers \/ p = Main
      /\ Nobody \notin Threads
  BY DEF TypeOK, Threads
<1>u. ASSUME UNCHANGED <<pc, locks, phase>> PROVE ControlInv'
  BY <1>u DEF ControlInv
<1>1. CASE OtelInit
  BY <1>1, <1>u DEF OtelInit
<1>2. CASE SetTransport
  BY <1>2, <1>t DEF SetTransport, MayCall, ControlInv
<1>3. CASE SetEnabled
  BY <1>3, <1>t DEF SetEnabled, MayCall, ControlInv
<1>4. CASE SetSpanSink
  BY <1>4, <1>t DEF SetSpanSink, MayCall, ControlInv
<1>5. CASE SetSinkPresent
  BY <1>5, <1>t DEF SetSinkPresent, ControlInv
<1>6. CASE RecomputeEnabled
  BY <1>6, <1>t DEF RecomputeEnabled, ControlInv
<1>7. CASE StartThreads
  BY <1>7, <1>t DEF StartThreads, ControlInv
<1>8. CASE StopThreads
  BY <1>8, <1>t DEF StopThreads, ControlInv
<1>9. CASE Shutdown
  BY <1>9, <1>t DEF Shutdown, ControlInv
<1>10. CASE FreeAll
  BY <1>10, <1>t DEF FreeAll, ControlInv
<1>11. ASSUME NEW w \in Workers, Register(w) PROVE ControlInv'
  BY <1>11, <1>t DEF Register, CanCall, ControlInv
<1>12. ASSUME NEW w \in Workers, SpanStart(w) PROVE ControlInv'
  BY <1>12, <1>u DEF SpanStart
<1>13. ASSUME NEW w \in Workers, SpanEnd(w) PROVE ControlInv'
  BY <1>13, <1>u DEF SpanEnd
<1>14. ASSUME NEW w \in Workers, Unregister(w) PROVE ControlInv'
  BY <1>14, <1>t DEF Unregister, CanCall, ControlInv
<1>15. ASSUME NEW w \in Workers, Link(w) PROVE ControlInv'
  BY <1>15, <1>t DEF Link, ControlInv
<1>16. ASSUME NEW w \in Workers, Unlink(w) PROVE ControlInv'
  BY <1>16, <1>t DEF Unlink, ControlInv
<1>17. ASSUME NEW w \in Workers, Free(w) PROVE ControlInv'
  BY <1>17, <1>t DEF Free, ControlInv
<1>18. ASSUME NEW d \in Drainers, DrainCall(d) PROVE ControlInv'
  BY <1>18, <1>t DEF DrainCall, ControlInv
<1>19. ASSUME NEW p \in Threads, LockDrain(p) PROVE ControlInv'
  BY <1>19, <1>t DEF LockDrain, ControlInv
<1>20. ASSUME NEW p \in Threads, ReadLock(p) PROVE ControlInv'
  BY <1>20, <1>t DEF ReadLock, ControlInv
<1>21. ASSUME NEW p \in Threads, WriteLock(p) PROVE ControlInv'
  BY <1>21, <1>t DEF WriteLock, AfterWriteLock, ControlInv
<1>22. ASSUME NEW p \in Threads, Begin(p) PROVE ControlInv'
  BY <1>22, <1>t DEF Begin, ControlInv
<1>23. ASSUME NEW p \in Threads, Load(p) PROVE ControlInv'
  BY <1>23, <1>t DEF Load, ControlInv
<1>24. ASSUME NEW p \in Threads, Emit(p) PROVE ControlInv'
  BY <1>24, <1>u DEF Emit
<1>25. ASSUME NEW p \in Threads, Store(p) PROVE ControlInv'
  BY <1>25, <1>t DEF Store, AfterRing, ControlInv
<1>26. ASSUME NEW p \in Threads, Flush(p) PROVE ControlInv'
  BY <1>26, <1>t DEF Flush, ControlInv
<1>27. ASSUME NEW p \in Threads, End(p) PROVE ControlInv'
  BY <1>27, <1>t DEF End, ControlInv
<1>28. ASSUME NEW p \in Threads, Unlock(p) PROVE ControlInv'
  BY <1>28, <1>t DEF Unlock, ControlInv
<1>29. CASE UNCHANGED vars
  BY <1>29, <1>u DEF vars
<1> QED
  BY <1>1, <1>2, <1>3, <1>4, <1>5, <1>6, <1>7, <1>8, <1>9, <1>10, <1>11,
     <1>12, <1>13, <1>14, <1>15, <1>16, <1>17, <1>18, <1>19, <1>20, <1>21,
     <1>22, <1>23, <1>24, <1>25, <1>26, <1>27, <1>28, <1>29
     DEF Next, Configure, Work, Continue, Pass

\* At most one thread is inside a pass, and it excludes writers: the locks of
\* otel_drain and otel_thread_unregister work as intended.
THEOREM ControlCorrect == Spec => []ControlInv
<1>1. Init => ControlInv
  BY TracerAssumption DEF Init, ControlInv, Draining, Holding, Threads
<1>2. TypeOK /\ ControlInv /\ [Next]_vars => ControlInv'
  BY ControlStep
<1> QED
  BY <1>1, <1>2, TypeCorrect, PTL DEF Spec

-----------------------------------------------------------------------------
(* The registry and the heap.                                              *)

Leaving == Holding \cup {"drain_lock", "free"}

\* The registry list: distinct live contexts; the batch points only into
\* contexts on it, and only while its pass holds the drain lock.
ListInv ==
    /\ Distinct(threads)
    /\ Elements(threads) \subseteq live
    /\ Elements(batch) \subseteq Elements(threads)
    /\ batch # <<>> => drainLock # Nobody /\ pc[drainLock] \in {"load", "emit", "flush"}

\* A worker's pointer to its context: set from the end of otel_thread_register
\* to the end of otel_thread_unregister, and on the list until "free".
TlsInv ==
    \A w \in Workers :
        /\ tls[w] # NoCtx =>
               /\ tls[w] \in live /\ owner[tls[w]] = w
               /\ tls[w] \in Elements(threads) <=> pc[w] # "free"
        /\ pc[w] \in Leaving => tls[w] # NoCtx
        /\ pc[w] = "link" =>
               /\ tls[w] = NoCtx /\ walk[w] \in live /\ owner[walk[w]] = w
               /\ walk[w] \notin Elements(threads)

\* The context a thread is draining is on the list.
WalkInv ==
    /\ \A p \in Threads : walk[p] # NoCtx => pc[p] \in {"link", "load", "emit"}
    /\ \A p \in Threads : pc[p] \in {"load", "emit"} => walk[p] \in Elements(threads)
    /\ \A w \in Workers : pc[w] \in {"load", "emit"} => walk[w] = tls[w]
    /\ \A p \in Threads : pc[p] = "emit" => lim[p] <= Len(staged[walk[p]])

\* Every live context belongs to one worker, that has no other; while the
\* threads run the worker knows it.  Freed rings are empty.
OwnerInv ==
    /\ \A c \in live : owner[c] \in Workers
    /\ \A c, d \in live : owner[c] = owner[d] => c = d
    /\ \A c \in live : phase = "run" =>
           \/ tls[owner[c]] = c
           \/ pc[owner[c]] = "link" /\ walk[owner[c]] = c
    /\ \A c \in Ctx \ live : staged[c] = <<>>
    /\ phase = "boot" => live = {}
    /\ phase = "stop" => live \subseteq Elements(threads)
    /\ phase # "run" => \A w \in Workers : tls[w] = NoCtx

HeapInv == ListInv /\ TlsInv /\ WalkInv /\ OwnerInv

\* Pushing a context onto the registry list.
LEMMA LinkList ==
  ASSUME TypeOK, LocalsInv, HeapInv, NEW w \in Workers, Link(w)
  PROVE  Distinct(threads') /\ Elements(threads') = Elements(threads) \cup {walk[w]}
<1>1. walk[w] \notin Elements(threads) /\ walk[w] \in Ctx
  BY DEF Link, HeapInv, TlsInv, LocalsInv, Threads
<1>2. threads' = <<walk[w]>> \o threads /\ threads \in Seq(Ctx) /\ Distinct(threads)
  BY DEF Link, HeapInv, ListInv, TypeOK
<1> QED
  BY <1>1, <1>2, PrependFacts

\* Taking a context off the registry list.
LEMMA UnlinkList ==
  ASSUME TypeOK, HeapInv, NEW w \in Workers, Unlink(w)
  PROVE  Distinct(threads') /\ Elements(threads') = Elements(threads) \ {tls[w]}
<1>1. threads' = Without(tls[w]) /\ threads \in Seq(Ctx) /\ Distinct(threads)
  BY DEF Unlink, HeapInv, ListInv, TypeOK
<1> QED
  BY <1>1, WithoutFacts

\* Every step keeps ListInv.
LEMMA ListStep ==
  ASSUME TypeOK, LocalsInv, ControlInv, HeapInv, [Next]_vars
  PROVE  ListInv'
<1> USE TracerAssumption
<1>l. ListInv
  BY DEF HeapInv
<1> USE <1>l
<1> USE DEF config, locks, heap, cursors, spans, work, Goto
<1>t. /\ pc \in [Threads -> Labels] /\ Main \in Threads
      /\ Workers \subseteq Threads /\ Drainers \subseteq Threads
      /\ Nobody \notin Threads /\ drainLock \in Threads \cup {Nobody}
      /\ threads \in Seq(Ctx) /\ batch \in Seq(Ctx) /\ live \subseteq Ctx
      /\ tls \in [Workers -> Ctx \cup {NoCtx}]
      /\ walk \in [Threads -> Ctx \cup {NoCtx}]
  BY DEF TypeOK, Threads
<1>h. \A p \in Threads : pc[p] \in Holding <=> drainLock = p
  BY DEF ControlInv
<1>e. Elements(<<>>) = {}
  BY DEF Elements
<1>d. Distinct(<<>>)
  BY DEF Distinct
<1>k. ASSUME UNCHANGED <<threads, batch>>, Elements(threads) \subseteq live',
             batch # <<>> => /\ drainLock' # Nobody
                             /\ pc'[drainLock'] \in {"load", "emit", "flush"}
      PROVE  ListInv'
  BY <1>k DEF ListInv, Distinct, Elements
<1>u. ASSUME UNCHANGED <<threads, live, batch, drainLock, pc>> PROVE ListInv'
  BY <1>u DEF ListInv, Distinct, Elements
<1>1. CASE OtelInit
  BY <1>1, <1>e, <1>d DEF OtelInit, ListInv
<1>2. CASE SetTransport
  <2>1. UNCHANGED <<threads, batch>> /\ Elements(threads) \subseteq live'
    BY <1>2 DEF SetTransport, MayCall, ListInv
  <2>2. batch # <<>> => /\ drainLock' # Nobody
                        /\ pc'[drainLock'] \in {"load", "emit", "flush"}
    BY <1>2, <1>t, <1>h DEF SetTransport, MayCall, ListInv, Holding, Draining
  <2> QED
    BY <1>k, <2>1, <2>2
<1>3. CASE SetEnabled
  <2>1. UNCHANGED <<threads, batch>> /\ Elements(threads) \subseteq live'
    BY <1>3 DEF SetEnabled, MayCall, ListInv
  <2>2. batch # <<>> => /\ drainLock' # Nobody
                        /\ pc'[drainLock'] \in {"load", "emit", "flush"}
    BY <1>3, <1>t, <1>h DEF SetEnabled, MayCall, ListInv, Holding, Draining
  <2> QED
    BY <1>k, <2>1, <2>2
<1>4. CASE SetSpanSink
  <2>1. UNCHANGED <<threads, batch>> /\ Elements(threads) \subseteq live'
    BY <1>4 DEF SetSpanSink, MayCall, ListInv
  <2>2. batch # <<>> => /\ drainLock' # Nobody
                        /\ pc'[drainLock'] \in {"load", "emit", "flush"}
    BY <1>4, <1>t, <1>h DEF SetSpanSink, MayCall, ListInv, Holding, Draining
  <2> QED
    BY <1>k, <2>1, <2>2
<1>5. CASE SetSinkPresent
  <2>1. UNCHANGED <<threads, batch>> /\ Elements(threads) \subseteq live'
    BY <1>5 DEF SetSinkPresent, ListInv
  <2>2. batch # <<>> => /\ drainLock' # Nobody
                        /\ pc'[drainLock'] \in {"load", "emit", "flush"}
    BY <1>5, <1>t, <1>h DEF SetSinkPresent, ListInv, Holding, Draining
  <2> QED
    BY <1>k, <2>1, <2>2
<1>6. CASE RecomputeEnabled
  <2>1. UNCHANGED <<threads, batch>> /\ Elements(threads) \subseteq live'
    BY <1>6 DEF RecomputeEnabled, ListInv
  <2>2. batch # <<>> => /\ drainLock' # Nobody
                        /\ pc'[drainLock'] \in {"load", "emit", "flush"}
    BY <1>6, <1>t, <1>h DEF RecomputeEnabled, ListInv, Holding, Draining
  <2> QED
    BY <1>k, <2>1, <2>2
<1>7. CASE StartThreads
  BY <1>7, <1>u DEF StartThreads
<1>8. CASE StopThreads
  BY <1>8, <1>u DEF StopThreads
<1>9. CASE Shutdown
  <2>1. UNCHANGED <<threads, batch>> /\ Elements(threads) \subseteq live'
    BY <1>9 DEF Shutdown, ListInv
  <2>2. batch # <<>> => /\ drainLock' # Nobody
                        /\ pc'[drainLock'] \in {"load", "emit", "flush"}
    BY <1>9, <1>t, <1>h DEF Shutdown, ListInv, Holding, Draining
  <2> QED
    BY <1>k, <2>1, <2>2
<1>10. CASE FreeAll
  <2>1. batch = <<>>
    BY <1>10, <1>t, <1>h DEF FreeAll, ControlInv, ListInv
  <2> QED
    BY <1>10, <1>e, <1>d, <2>1 DEF FreeAll, ListInv
<1>11. ASSUME NEW w \in Workers, Register(w) PROVE ListInv'
  <2>1. UNCHANGED <<threads, batch>> /\ Elements(threads) \subseteq live'
    BY <1>11 DEF Register, CanCall, ListInv
  <2>2. batch # <<>> => /\ drainLock' # Nobody
                        /\ pc'[drainLock'] \in {"load", "emit", "flush"}
    BY <1>11, <1>t, <1>h DEF Register, CanCall, ListInv, Holding, Draining
  <2> QED
    BY <1>k, <2>1, <2>2
<1>12. ASSUME NEW w \in Workers, SpanStart(w) PROVE ListInv'
  BY <1>12, <1>u DEF SpanStart
<1>13. ASSUME NEW w \in Workers, SpanEnd(w) PROVE ListInv'
  BY <1>13, <1>u DEF SpanEnd
<1>14. ASSUME NEW w \in Workers, Unregister(w) PROVE ListInv'
  <2>1. UNCHANGED <<threads, batch>> /\ Elements(threads) \subseteq live'
    BY <1>14 DEF Unregister, CanCall, ListInv
  <2>2. batch # <<>> => /\ drainLock' # Nobody
                        /\ pc'[drainLock'] \in {"load", "emit", "flush"}
    BY <1>14, <1>t, <1>h DEF Unregister, CanCall, ListInv, Holding, Draining
  <2> QED
    BY <1>k, <2>1, <2>2
<1>15. ASSUME NEW w \in Workers, Link(w) PROVE ListInv'
  <2>1. walk[w] \in live
    BY <1>15, <1>t DEF Link, HeapInv, TlsInv
  <2>2. /\ pc' = [pc EXCEPT ![w] = "idle"] /\ pc[w] = "link"
        /\ UNCHANGED <<live, batch, drainLock>>
    BY <1>15 DEF Link
  <2>3. Distinct(threads') /\ Elements(threads') = Elements(threads) \cup {walk[w]}
    BY <1>15, LinkList
  <2>4. Elements(batch') \subseteq Elements(threads) /\ Elements(threads') \subseteq live'
    BY <2>1, <2>2, <2>3 DEF ListInv
  <2>5. batch' # <<>> => /\ drainLock' # Nobody
                         /\ pc'[drainLock'] \in {"load", "emit", "flush"}
    BY <1>t, <1>h, <2>2 DEF ListInv
  <2> QED
    BY <2>3, <2>4, <2>5 DEF ListInv
<1>16. ASSUME NEW w \in Workers, Unlink(w) PROVE ListInv'
  <2>1. drainLock = w /\ batch = <<>>
    BY <1>16, <1>t, <1>h DEF Unlink, ListInv, Holding
  <2>2. UNCHANGED <<live, batch>>
    BY <1>16 DEF Unlink
  <2>3. Distinct(threads') /\ Elements(threads') \subseteq Elements(threads)
    BY <1>16, UnlinkList
  <2> QED
    BY <1>e, <2>1, <2>2, <2>3 DEF ListInv
<1>17. ASSUME NEW w \in Workers, Free(w) PROVE ListInv'
  <2>1. tls[w] \notin Elements(threads)
    BY <1>17, <1>t DEF Free, HeapInv, TlsInv, Leaving
  <2>2. UNCHANGED <<threads, batch>> /\ Elements(threads) \subseteq live'
    BY <1>17, <2>1 DEF Free, ListInv
  <2>3. batch # <<>> => /\ drainLock' # Nobody
                        /\ pc'[drainLock'] \in {"load", "emit", "flush"}
    BY <1>17, <1>t, <1>h DEF Free, ListInv, Holding
  <2> QED
    BY <1>k, <2>2, <2>3
<1>18. ASSUME NEW d \in Drainers, DrainCall(d) PROVE ListInv'
  <2>1. UNCHANGED <<threads, batch>> /\ Elements(threads) \subseteq live'
    BY <1>18 DEF DrainCall, ListInv
  <2>2. batch # <<>> => /\ drainLock' # Nobody
                        /\ pc'[drainLock'] \in {"load", "emit", "flush"}
    BY <1>18, <1>t, <1>h DEF DrainCall, ListInv, Holding, Draining
  <2> QED
    BY <1>k, <2>1, <2>2
<1>19. ASSUME NEW p \in Threads, LockDrain(p) PROVE ListInv'
  <2>1. UNCHANGED <<threads, batch>> /\ Elements(threads) \subseteq live'
    BY <1>19 DEF LockDrain, ListInv
  <2>2. batch # <<>> => /\ drainLock' # Nobody
                        /\ pc'[drainLock'] \in {"load", "emit", "flush"}
    BY <1>19, <1>t, <1>h DEF LockDrain, ListInv, Holding, Draining
  <2> QED
    BY <1>k, <2>1, <2>2
<1>20. ASSUME NEW p \in Threads, ReadLock(p) PROVE ListInv'
  <2>1. UNCHANGED <<threads, batch>> /\ Elements(threads) \subseteq live'
    BY <1>20 DEF ReadLock, ListInv
  <2>2. batch # <<>> => /\ drainLock' # Nobody
                        /\ pc'[drainLock'] \in {"load", "emit", "flush"}
    BY <1>20, <1>t, <1>h DEF ReadLock, ListInv, Holding, Draining
  <2> QED
    BY <1>k, <2>1, <2>2
<1>21. ASSUME NEW p \in Threads, WriteLock(p) PROVE ListInv'
  <2>1. UNCHANGED <<threads, batch>> /\ Elements(threads) \subseteq live'
    BY <1>21 DEF WriteLock, AfterWriteLock, ListInv
  <2>2. batch # <<>> => /\ drainLock' # Nobody
                        /\ pc'[drainLock'] \in {"load", "emit", "flush"}
    BY <1>21, <1>t, <1>h DEF WriteLock, AfterWriteLock, ListInv, Holding, Draining
  <2> QED
    BY <1>k, <2>1, <2>2
<1>22. ASSUME NEW p \in Threads, Begin(p) PROVE ListInv'
  <2>1. UNCHANGED <<threads, batch>> /\ Elements(threads) \subseteq live'
    BY <1>22 DEF Begin, ListInv
  <2>2. batch # <<>> => /\ drainLock' # Nobody
                        /\ pc'[drainLock'] \in {"load", "emit", "flush"}
    BY <1>22, <1>t, <1>h DEF Begin, ListInv, Holding, Draining
  <2> QED
    BY <1>k, <2>1, <2>2
<1>23. ASSUME NEW p \in Threads, Load(p) PROVE ListInv'
  <2>1. UNCHANGED <<threads, batch>> /\ Elements(threads) \subseteq live'
    BY <1>23 DEF Load, ListInv
  <2>2. batch # <<>> => /\ drainLock' # Nobody
                        /\ pc'[drainLock'] \in {"load", "emit", "flush"}
    BY <1>23, <1>t, <1>h DEF Load, ListInv, Holding, Draining
  <2> QED
    BY <1>k, <2>1, <2>2
<1>24. ASSUME NEW p \in Threads, Emit(p) PROVE ListInv'
  <2>1. walk[p] \in Elements(threads) /\ walk[p] \in Ctx /\ drainLock = p
    BY <1>24, <1>t, <1>h DEF Emit, HeapInv, WalkInv, LocalsInv, Holding, Draining
  <2>2. \/ batch' = batch \/ batch' = <<walk[p]>> \/ batch' = Append(batch, walk[p])
    BY <1>24 DEF Emit
  <2>3. Elements(batch') \subseteq Elements(batch) \cup {walk[p]}
    <3>1. Elements(<<walk[p]>>) = {walk[p]}
      BY DEF Elements
    <3>2. Elements(Append(batch, walk[p])) = Elements(batch) \cup {walk[p]}
      BY <1>t, <2>1, AppendFacts
    <3> QED
      BY <2>2, <3>1, <3>2
  <2>4. UNCHANGED <<threads, live, drainLock, pc>> /\ pc[p] = "emit"
    BY <1>24 DEF Emit
  <2>5. Elements(batch') \subseteq Elements(threads)'
    BY <2>1, <2>3, <2>4, ZenonT(30) DEF ListInv, Elements
  <2>6. Distinct(threads') /\ Elements(threads') \subseteq live'
    BY <2>4 DEF ListInv
  <2> QED
    BY <1>t, <2>1, <2>4, <2>5, <2>6 DEF ListInv
<1>25. ASSUME NEW p \in Threads, Store(p) PROVE ListInv'
  <2>1. UNCHANGED <<threads, batch>> /\ Elements(threads) \subseteq live'
    BY <1>25 DEF Store, AfterRing, Unreleased, ListInv
  <2>2. batch # <<>> => /\ drainLock' # Nobody
                        /\ pc'[drainLock'] \in {"load", "emit", "flush"}
    BY <1>25, <1>t, <1>h DEF Store, AfterRing, Unreleased, ListInv, Holding, Draining
  <2> QED
    BY <1>k, <2>1, <2>2
<1>26. ASSUME NEW p \in Threads, Flush(p) PROVE ListInv'
  <2>1. UNCHANGED <<threads, live>> /\ batch' = <<>>
    BY <1>26 DEF Flush
  <2> QED
    BY <1>e, <2>1 DEF ListInv, Distinct, Elements
<1>27. ASSUME NEW p \in Threads, End(p) PROVE ListInv'
  <2>1. UNCHANGED <<threads, batch>> /\ Elements(threads) \subseteq live'
    BY <1>27 DEF End, ListInv
  <2>2. batch # <<>> => /\ drainLock' # Nobody
                        /\ pc'[drainLock'] \in {"load", "emit", "flush"}
    BY <1>27, <1>t, <1>h DEF End, ListInv, Holding, Draining
  <2> QED
    BY <1>k, <2>1, <2>2
<1>28. ASSUME NEW p \in Threads, Unlock(p) PROVE ListInv'
  <2>1. UNCHANGED <<threads, batch>> /\ Elements(threads) \subseteq live'
    BY <1>28 DEF Unlock, ListInv
  <2>2. batch # <<>> => /\ drainLock' # Nobody
                        /\ pc'[drainLock'] \in {"load", "emit", "flush"}
    BY <1>28, <1>t, <1>h DEF Unlock, ListInv, Holding, Draining
  <2> QED
    BY <1>k, <2>1, <2>2
<1>29. CASE UNCHANGED vars
  BY <1>29, <1>u DEF vars
<1> QED
  BY <1>1, <1>2, <1>3, <1>4, <1>5, <1>6, <1>7, <1>8, <1>9, <1>10, <1>11,
     <1>12, <1>13, <1>14, <1>15, <1>16, <1>17, <1>18, <1>19, <1>20, <1>21,
     <1>22, <1>23, <1>24, <1>25, <1>26, <1>27, <1>28, <1>29
     DEF Next, Configure, Work, Continue, Pass

\* Every step keeps TlsInv.
LEMMA TlsStep ==
  ASSUME TypeOK, LocalsInv, ControlInv, HeapInv, [Next]_vars
  PROVE  TlsInv'
<1> USE TracerAssumption
<1> USE DEF config, locks, heap, cursors, spans, work, Goto
<1>t. /\ pc \in [Threads -> Labels] /\ Main \in Threads
      /\ Workers \subseteq Threads /\ Drainers \subseteq Threads
      /\ Main \notin Workers /\ Workers \cap Drainers = {}
      /\ live \subseteq Ctx /\ NoCtx \notin Ctx /\ NoCtx \notin Workers
      /\ tls \in [Workers -> Ctx \cup {NoCtx}]
      /\ walk \in [Threads -> Ctx \cup {NoCtx}]
      /\ owner \in [Ctx -> Workers \cup {NoCtx}]
  BY DEF TypeOK, Threads, Ctx

<1>l. TlsInv
  BY DEF HeapInv
<1> USE <1>l
<1>u. ASSUME UNCHANGED <<threads, live, owner, tls, walk, pc>> PROVE TlsInv'
  BY <1>u DEF TlsInv, Elements
<1>v. ASSUME UNCHANGED <<threads, live, owner, tls>>,
             \A w \in Workers : pc'[w] \in Leaving => pc[w] \in Leaving \/ tls[w] # NoCtx,
             \A w \in Workers : pc'[w] = "link" => pc[w] = "link" /\ walk'[w] = walk[w],
             \A w \in Workers : pc'[w] = "free" <=> pc[w] = "free"
      PROVE  TlsInv'
  <2>1. Elements(threads)' = Elements(threads)
    BY <1>v DEF Elements
  <2> QED
    BY <1>v, <2>1 DEF TlsInv
<1>1. CASE OtelInit
  <2>1. \A v \in Workers : tls'[v] = NoCtx /\ pc'[v] = "idle"
    BY <1>1, <1>t DEF OtelInit, ControlInv, HeapInv, OwnerInv
  <2> QED
    BY <2>1 DEF TlsInv, Leaving, Holding, Draining
<1>2. CASE SetTransport
  BY <1>2, <1>t, <1>v DEF SetTransport, MayCall, Leaving, Holding, Draining
<1>3. CASE SetEnabled
  BY <1>3, <1>t, <1>v DEF SetEnabled, MayCall, Leaving, Holding, Draining
<1>4. CASE SetSpanSink
  BY <1>4, <1>t, <1>v DEF SetSpanSink, MayCall, Leaving, Holding, Draining
<1>5. CASE SetSinkPresent
  BY <1>5, <1>t, <1>v DEF SetSinkPresent, Leaving, Holding, Draining
<1>6. CASE RecomputeEnabled
  BY <1>6, <1>t, <1>v DEF RecomputeEnabled, Leaving, Holding, Draining
<1>7. CASE StartThreads
  BY <1>7, <1>u DEF StartThreads
<1>8. CASE StopThreads
  <2>1. \A v \in Workers : tls'[v] = NoCtx /\ pc'[v] = "idle"
    BY <1>8, <1>t DEF StopThreads, ControlInv, HeapInv, OwnerInv
  <2> QED
    BY <2>1 DEF TlsInv, Leaving, Holding, Draining
<1>9. CASE Shutdown
  BY <1>9, <1>t, <1>v DEF Shutdown, Leaving, Holding, Draining
<1>10. CASE FreeAll
  <2>1. \A v \in Workers : tls'[v] = NoCtx /\ pc'[v] = "idle"
    BY <1>10, <1>t DEF FreeAll, ControlInv, HeapInv, OwnerInv
  <2> QED
    BY <2>1 DEF TlsInv, Leaving, Holding, Draining
<1>11. ASSUME NEW w \in Workers, Register(w) PROVE TlsInv'
  <2>1. PICK c \in Ctx : /\ owner[c] = NoCtx /\ live' = live \cup {c}
                         /\ owner' = [owner EXCEPT ![c] = w]
                         /\ walk' = [walk EXCEPT ![w] = c]
    BY <1>11 DEF Register
  <2>2. c \notin live /\ c \notin Elements(threads)
    BY <1>t, <2>1 DEF HeapInv, OwnerInv, ListInv
  <2>3. /\ tls[w] = NoCtx /\ pc' = [pc EXCEPT ![w] = "link"]
        /\ UNCHANGED <<tls, threads>> /\ pc[w] = "idle"
    BY <1>11 DEF Register, CanCall
  <2>4. Elements(threads)' = Elements(threads)
    BY <2>3 DEF Elements
  <2> QED
    BY <1>t, <2>1, <2>2, <2>3, <2>4 DEF TlsInv, Leaving, Holding, Draining
<1>12. ASSUME NEW w \in Workers, SpanStart(w) PROVE TlsInv'
  BY <1>12, <1>u DEF SpanStart
<1>13. ASSUME NEW w \in Workers, SpanEnd(w) PROVE TlsInv'
  BY <1>13, <1>u DEF SpanEnd
<1>14. ASSUME NEW w \in Workers, Unregister(w) PROVE TlsInv'
  BY <1>14, <1>t, <1>v DEF Unregister, CanCall, Leaving, Holding, Draining
<1>15. ASSUME NEW w \in Workers, Link(w) PROVE TlsInv'
  <2>1. /\ pc' = [pc EXCEPT ![w] = "idle"] /\ pc[w] = "link"
        /\ tls' = [tls EXCEPT ![w] = walk[w]] /\ walk' = [walk EXCEPT ![w] = NoCtx]
        /\ UNCHANGED <<live, owner>>
    BY <1>15 DEF Link
  <2>2. Elements(threads)' = Elements(threads) \cup {walk[w]}
    BY <1>15, LinkList
  <2>3. tls[w] = NoCtx /\ walk[w] \in live /\ owner[walk[w]] = w
    BY <2>1 DEF TlsInv
  <2> QED
    BY <1>t, <2>1, <2>2, <2>3 DEF TlsInv, Leaving, Holding, Draining
<1>16. ASSUME NEW w \in Workers, Unlink(w) PROVE TlsInv'
  <2>1. /\ pc' = [pc EXCEPT ![w] = "free"] /\ pc[w] = "unlink"
        /\ UNCHANGED <<live, owner, tls, walk>>
    BY <1>16 DEF Unlink
  <2>2. Elements(threads)' = Elements(threads) \ {tls[w]}
    BY <1>16, UnlinkList
  <2> QED
    BY <1>t, <2>1, <2>2 DEF TlsInv, Leaving, Holding, Draining
<1>17. ASSUME NEW w \in Workers, Free(w) PROVE TlsInv'
  <2>1. /\ pc' = [pc EXCEPT ![w] = "idle"] /\ pc[w] = "free"
        /\ live' = live \ {tls[w]} /\ tls' = [tls EXCEPT ![w] = NoCtx]
        /\ UNCHANGED <<threads, owner, walk>>
    BY <1>17 DEF Free
  <2>2. Elements(threads)' = Elements(threads)
    BY <2>1 DEF Elements
  <2>3. tls[w] # NoCtx /\ owner[tls[w]] = w
    BY <2>1 DEF TlsInv, Leaving
  <2> QED
    BY <1>t, <2>1, <2>2, <2>3 DEF TlsInv, Leaving, Holding, Draining
<1>18. ASSUME NEW d \in Drainers, DrainCall(d) PROVE TlsInv'
  BY <1>18, <1>t, <1>v DEF DrainCall, Leaving, Holding, Draining
<1>19. ASSUME NEW p \in Threads, LockDrain(p) PROVE TlsInv'
  BY <1>19, <1>t, <1>v DEF LockDrain, Leaving, Holding, Draining
<1>20. ASSUME NEW p \in Threads, ReadLock(p) PROVE TlsInv'
  BY <1>20, <1>t, <1>v DEF ReadLock, Leaving, Holding, Draining
<1>21. ASSUME NEW p \in Threads, WriteLock(p) PROVE TlsInv'
  BY <1>21, <1>t, <1>v DEF WriteLock, AfterWriteLock, Leaving, Holding, Draining
<1>22. ASSUME NEW p \in Threads, Begin(p) PROVE TlsInv'
  BY <1>22, <1>t, <1>v DEF Begin, Leaving, Holding, Draining
<1>23. ASSUME NEW p \in Threads, Load(p) PROVE TlsInv'
  BY <1>23, <1>t, <1>v DEF Load, Leaving, Holding, Draining
<1>24. ASSUME NEW p \in Threads, Emit(p) PROVE TlsInv'
  BY <1>24, <1>u DEF Emit
<1>25. ASSUME NEW p \in Threads, Store(p) PROVE TlsInv'
  BY <1>25, <1>t, <1>v DEF Store, AfterRing, Unreleased, Leaving, Holding, Draining
<1>26. ASSUME NEW p \in Threads, Flush(p) PROVE TlsInv'
  BY <1>26, <1>t, <1>v DEF Flush, Leaving, Holding, Draining
<1>27. ASSUME NEW p \in Threads, End(p) PROVE TlsInv'
  BY <1>27, <1>t, <1>v DEF End, Leaving, Holding, Draining
<1>28. ASSUME NEW p \in Threads, Unlock(p) PROVE TlsInv'
  BY <1>28, <1>t, <1>v DEF Unlock, Leaving, Holding, Draining
<1>29. CASE UNCHANGED vars
  BY <1>29, <1>u DEF vars
<1> QED
  BY <1>1, <1>2, <1>3, <1>4, <1>5, <1>6, <1>7, <1>8, <1>9, <1>10, <1>11,
     <1>12, <1>13, <1>14, <1>15, <1>16, <1>17, <1>18, <1>19, <1>20, <1>21,
     <1>22, <1>23, <1>24, <1>25, <1>26, <1>27, <1>28, <1>29
     DEF Next, Configure, Work, Continue, Pass

\* Every step keeps WalkInv.
LEMMA WalkStep ==
  ASSUME TypeOK, LocalsInv, ControlInv, HeapInv, [Next]_vars
  PROVE  WalkInv'
<1> USE TracerAssumption
<1> USE DEF config, locks, heap, cursors, spans, work, Goto
<1>t. /\ pc \in [Threads -> Labels] /\ Main \in Threads
      /\ Workers \subseteq Threads /\ Drainers \subseteq Threads
      /\ Main \notin Workers /\ Workers \cap Drainers = {}
      /\ live \subseteq Ctx /\ NoCtx \notin Ctx /\ NoCtx \notin Workers
      /\ tls \in [Workers -> Ctx \cup {NoCtx}]
      /\ walk \in [Threads -> Ctx \cup {NoCtx}]
      /\ owner \in [Ctx -> Workers \cup {NoCtx}]
  BY DEF TypeOK, Threads, Ctx

<1>l. WalkInv
  BY DEF HeapInv
<1> USE <1>l
<1>h. \A p \in Threads : pc[p] \in Holding <=> drainLock = p
  BY DEF ControlInv
<1>u. ASSUME UNCHANGED <<threads, walk, tls, lim, staged, pc>> PROVE WalkInv'
  BY <1>u DEF WalkInv, Elements
<1>v. ASSUME UNCHANGED <<threads, walk, tls, lim, staged>>,
             \A p \in Threads :
                 \/ pc'[p] = pc[p]
                 \/ pc[p] \notin {"link", "load", "emit"} /\ pc'[p] \notin {"load", "emit"}
      PROVE  WalkInv'
  <2>1. Elements(threads)' = Elements(threads)
    BY <1>v DEF Elements
  <2> QED
    BY <1>t, <1>v, <2>1 DEF WalkInv
<1>1. CASE OtelInit
  <2>1. \A q \in Threads : pc'[q] \notin {"link", "load", "emit"} /\ walk'[q] = NoCtx
    BY <1>1, <1>t DEF OtelInit, ControlInv, WalkInv, Threads, Holding, Draining
  <2> QED
    BY <1>t, <2>1 DEF WalkInv
<1>2. CASE SetTransport
  BY <1>2, <1>t, <1>v DEF SetTransport, MayCall
<1>3. CASE SetEnabled
  BY <1>3, <1>t, <1>v DEF SetEnabled, MayCall
<1>4. CASE SetSpanSink
  BY <1>4, <1>t, <1>v DEF SetSpanSink, MayCall
<1>5. CASE SetSinkPresent
  BY <1>5, <1>t, <1>v DEF SetSinkPresent
<1>6. CASE RecomputeEnabled
  BY <1>6, <1>t, <1>v DEF RecomputeEnabled
<1>7. CASE StartThreads
  BY <1>7, <1>u DEF StartThreads
<1>8. CASE StopThreads
  <2>1. \A q \in Threads : pc'[q] \notin {"link", "load", "emit"} /\ walk'[q] = NoCtx
    BY <1>8, <1>t DEF StopThreads, ControlInv, WalkInv, Threads, Holding, Draining
  <2> QED
    BY <1>t, <2>1 DEF WalkInv
<1>9. CASE Shutdown
  BY <1>9, <1>t, <1>v DEF Shutdown
<1>10. CASE FreeAll
  <2>1. \A q \in Threads : pc'[q] \notin {"link", "load", "emit"} /\ walk'[q] = NoCtx
    BY <1>10, <1>t DEF FreeAll, ControlInv, WalkInv, Threads, Holding, Draining
  <2> QED
    BY <1>t, <2>1 DEF WalkInv
<1>11. ASSUME NEW w \in Workers, Register(w) PROVE WalkInv'
  <2>1. PICK c \in Ctx : walk' = [walk EXCEPT ![w] = c]
    BY <1>11 DEF Register
  <2>2. /\ pc' = [pc EXCEPT ![w] = "link"] /\ pc[w] = "idle"
        /\ UNCHANGED <<threads, tls, lim, staged>>
    BY <1>11 DEF Register, CanCall
  <2>3. Elements(threads)' = Elements(threads)
    BY <2>2 DEF Elements
  <2> QED
    BY <1>t, <2>1, <2>2, <2>3 DEF WalkInv
<1>12. ASSUME NEW w \in Workers, SpanStart(w) PROVE WalkInv'
  BY <1>12, <1>u DEF SpanStart
<1>13. ASSUME NEW w \in Workers, SpanEnd(w) PROVE WalkInv'
  <2>1. UNCHANGED <<threads, walk, tls, lim, pc>>
    BY <1>13 DEF SpanEnd
  <2>2. Elements(threads)' = Elements(threads)
    BY <2>1 DEF Elements
  <2>3. \A c \in Ctx : Len(staged[c]) \in Nat /\ Len(staged'[c]) \in Nat /\ Len(staged[c]) <= Len(staged'[c])
    <3>1. \A c \in Ctx : staged[c] \in Seq(1..MaxEnds)
      BY DEF TypeOK
    <3>2. CASE UNCHANGED staged
      BY <3>1, <3>2
    <3>3. CASE ~Refuses(tls[w])
      <4>1. /\ staged' = [staged EXCEPT ![tls[w]] = Append(@, ended[w] + 1)]
            /\ tls[w] \in Ctx
        BY <1>13, <1>t, <3>3 DEF SpanEnd, Refuses
      <4>2. ended[w] + 1 \in 1..MaxEnds
        BY <1>13, SMTT(30) DEF SpanEnd, TypeOK, LocalsInv
      <4>3. /\ Append(staged[tls[w]], ended[w] + 1) \in Seq(1..MaxEnds)
            /\ Len(Append(staged[tls[w]], ended[w] + 1)) = Len(staged[tls[w]]) + 1
        BY <3>1, <4>1, <4>2, AppendFacts
      <4>4. staged \in [Ctx -> Seq(1..MaxEnds)]
        BY DEF TypeOK
      <4> QED
        BY <3>1, <4>1, <4>3, <4>4
    <3> QED
      BY <1>13, <3>2, <3>3 DEF SpanEnd
  <2>4. \A q \in Threads : pc[q] = "emit" => walk[q] \in Ctx /\ lim[q] \in Nat
    BY DEF LocalsInv, TypeOK
  <2> QED
    BY <1>t, <2>1, <2>2, <2>3, <2>4 DEF WalkInv
<1>14. ASSUME NEW w \in Workers, Unregister(w) PROVE WalkInv'
  BY <1>14, <1>t, <1>v DEF Unregister, CanCall
<1>15. ASSUME NEW w \in Workers, Link(w) PROVE WalkInv'
  <2>1. /\ pc' = [pc EXCEPT ![w] = "idle"] /\ pc[w] = "link"
        /\ tls' = [tls EXCEPT ![w] = walk[w]] /\ walk' = [walk EXCEPT ![w] = NoCtx]
        /\ UNCHANGED <<lim, staged>>
    BY <1>15 DEF Link
  <2>2. Elements(threads)' = Elements(threads) \cup {walk[w]}
    BY <1>15, LinkList
  <2> QED
    BY <1>t, <2>1, <2>2 DEF WalkInv
<1>16. ASSUME NEW w \in Workers, Unlink(w) PROVE WalkInv'
  <2>1. /\ pc' = [pc EXCEPT ![w] = "free"] /\ pc[w] = "unlink"
        /\ UNCHANGED <<tls, walk, lim, staged>>
    BY <1>16 DEF Unlink
  <2>2. \A q \in Threads : pc[q] \notin {"load", "emit"}
    BY <1>t, <1>h, <2>1 DEF Holding, Draining
  <2> QED
    BY <1>t, <2>1, <2>2 DEF WalkInv
<1>17. ASSUME NEW w \in Workers, Free(w) PROVE WalkInv'
  <2>1. /\ pc' = [pc EXCEPT ![w] = "idle"] /\ pc[w] = "free"
        /\ tls' = [tls EXCEPT ![w] = NoCtx]
        /\ staged' = [staged EXCEPT ![tls[w]] = <<>>]
        /\ UNCHANGED <<threads, walk, lim>>
    BY <1>17 DEF Free
  <2>2. Elements(threads)' = Elements(threads)
    BY <2>1 DEF Elements
  <2>3. tls[w] \notin Elements(threads)
    BY <2>1 DEF HeapInv, TlsInv, Leaving
  <2>4. \A q \in Threads : pc[q] = "emit" => staged'[walk[q]] = staged[walk[q]]
    BY <2>1, <2>3 DEF WalkInv, TypeOK, LocalsInv
  <2> QED
    BY <1>t, <2>1, <2>2, <2>4 DEF WalkInv
<1>18. ASSUME NEW d \in Drainers, DrainCall(d) PROVE WalkInv'
  BY <1>18, <1>t, <1>v DEF DrainCall
<1>19. ASSUME NEW p \in Threads, LockDrain(p) PROVE WalkInv'
  BY <1>19, <1>t, <1>v DEF LockDrain
<1>20. ASSUME NEW p \in Threads, ReadLock(p) PROVE WalkInv'
  BY <1>20, <1>t, <1>v DEF ReadLock
<1>21. ASSUME NEW p \in Threads, WriteLock(p) PROVE WalkInv'
  BY <1>21, <1>t, <1>v DEF WriteLock, AfterWriteLock
<1>22. ASSUME NEW p \in Threads, Begin(p) PROVE WalkInv'
  <2> DEFINE first == IF p \in Workers THEN tls[p]
                     ELSE IF threads = <<>> THEN NoCtx ELSE Head(threads)
  <2>1. /\ walk' = [walk EXCEPT ![p] = first]
        /\ pc' = [pc EXCEPT ![p] = IF first = NoCtx THEN "flush" ELSE "load"]
        /\ pc[p] = "begin" /\ UNCHANGED <<threads, tls, lim, staged>>
    BY <1>22 DEF Begin
  <2>2. p \in Workers => first = tls[p] /\ first \in Elements(threads)
    BY <2>1 DEF HeapInv, TlsInv, Leaving, Holding, Draining
  <2>3. p \notin Workers => first \in Elements(threads) \cup {NoCtx}
    <3>1. threads # <<>> => Head(threads) \in Elements(threads)
      <4>1. threads \in Seq(Ctx)
        BY DEF TypeOK
      <4> QED
        BY <4>1 DEF Elements
    <3> QED
      BY <3>1
  <2>4. Elements(threads)' = Elements(threads)
    BY <2>1 DEF Elements
  <2> HIDE DEF first
  <2> QED
    BY <1>t, <2>1, <2>2, <2>3, <2>4 DEF WalkInv
<1>23. ASSUME NEW p \in Threads, Load(p) PROVE WalkInv'
  <2>1. /\ lim' = [lim EXCEPT ![p] = Len(staged[walk[p]])]
        /\ pc' = [pc EXCEPT ![p] = "emit"] /\ pc[p] = "load"
        /\ UNCHANGED <<threads, walk, tls, staged>>
    BY <1>23 DEF Load
  <2>2. Elements(threads)' = Elements(threads)
    BY <2>1 DEF Elements
  <2>3. staged[walk[p]] \in Seq(1..MaxEnds) /\ lim \in [Threads -> Nat]
    BY <2>1 DEF LocalsInv, TypeOK
  <2>4. lim'[p] <= Len(staged[walk[p]]) /\ \A q \in Threads : q # p => lim'[q] = lim[q]
    BY <2>1, <2>3
  <2> QED
    BY <1>t, <2>1, <2>2, <2>4 DEF WalkInv
<1>24. ASSUME NEW p \in Threads, Emit(p) PROVE WalkInv'
  BY <1>24, <1>u DEF Emit
<1>25. ASSUME NEW p \in Threads, Store(p) PROVE WalkInv'
  <2> DEFINE next == IF p \in Workers THEN NoCtx ELSE NextCtx(walk[p])
  <2>1. /\ walk' = [walk EXCEPT ![p] = next]
        /\ pc' = [pc EXCEPT ![p] = IF next = NoCtx THEN "flush" ELSE "load"]
        /\ pc[p] = "emit" /\ UNCHANGED <<threads, tls>>
    BY <1>25 DEF Store, AfterRing
  <2>2. next \in Elements(threads) \cup {NoCtx} /\ (p \in Workers => next = NoCtx)
    BY NextCtxFacts DEF TypeOK
  <2>3. \A q \in Threads : q # p => pc[q] \notin {"load", "emit"}
    BY <1>t, <1>h, <2>1 DEF Holding, Draining
  <2>4. Elements(threads)' = Elements(threads)
    BY <2>1 DEF Elements
  <2> HIDE DEF next
  <2> QED
    BY <1>t, <2>1, <2>2, <2>3, <2>4 DEF WalkInv
<1>26. ASSUME NEW p \in Threads, Flush(p) PROVE WalkInv'
  BY <1>26, <1>t, <1>v DEF Flush
<1>27. ASSUME NEW p \in Threads, End(p) PROVE WalkInv'
  BY <1>27, <1>t, <1>v DEF End
<1>28. ASSUME NEW p \in Threads, Unlock(p) PROVE WalkInv'
  BY <1>28, <1>t, <1>v DEF Unlock
<1>29. CASE UNCHANGED vars
  BY <1>29, <1>u DEF vars
<1> QED
  BY <1>1, <1>2, <1>3, <1>4, <1>5, <1>6, <1>7, <1>8, <1>9, <1>10, <1>11,
     <1>12, <1>13, <1>14, <1>15, <1>16, <1>17, <1>18, <1>19, <1>20, <1>21,
     <1>22, <1>23, <1>24, <1>25, <1>26, <1>27, <1>28, <1>29
     DEF Next, Configure, Work, Continue, Pass

\* Every step keeps OwnerInv.
LEMMA OwnerStep ==
  ASSUME TypeOK, LocalsInv, ControlInv, HeapInv, [Next]_vars
  PROVE  OwnerInv'
<1> USE TracerAssumption
<1> USE DEF config, locks, heap, cursors, spans, work, Goto
<1>t. /\ pc \in [Threads -> Labels] /\ Main \in Threads
      /\ Workers \subseteq Threads /\ Drainers \subseteq Threads
      /\ Main \notin Workers /\ Workers \cap Drainers = {}
      /\ live \subseteq Ctx /\ NoCtx \notin Ctx /\ NoCtx \notin Workers
      /\ tls \in [Workers -> Ctx \cup {NoCtx}]
      /\ walk \in [Threads -> Ctx \cup {NoCtx}]
      /\ owner \in [Ctx -> Workers \cup {NoCtx}]
  BY DEF TypeOK, Threads, Ctx

<1>l. OwnerInv
  BY DEF HeapInv
<1> USE <1>l
<1>u. ASSUME UNCHANGED <<threads, live, owner, tls, walk, staged, phase, pc>> PROVE OwnerInv'
  BY <1>u DEF OwnerInv, Elements
<1>v. ASSUME UNCHANGED <<threads, live, owner, tls, staged, phase>>,
             \A w \in Workers : pc[w] = "link" => pc'[w] = "link" /\ walk'[w] = walk[w]
      PROVE  OwnerInv'
  <2>1. Elements(threads)' = Elements(threads)
    BY <1>v DEF Elements
  <2> QED
    BY <1>v, <2>1 DEF OwnerInv
<1>1. CASE OtelInit
  BY <1>1 DEF OtelInit, OwnerInv
<1>2. CASE SetTransport
  BY <1>2, <1>t, <1>v DEF SetTransport, MayCall
<1>3. CASE SetEnabled
  BY <1>3, <1>t, <1>v DEF SetEnabled, MayCall
<1>4. CASE SetSpanSink
  BY <1>4, <1>t, <1>v DEF SetSpanSink, MayCall
<1>5. CASE SetSinkPresent
  BY <1>5, <1>t, <1>v DEF SetSinkPresent
<1>6. CASE RecomputeEnabled
  BY <1>6, <1>t, <1>v DEF RecomputeEnabled
<1>7. CASE StartThreads
  <2>1. live' = {} /\ phase' = "run" /\ UNCHANGED <<staged, tls>>
    BY <1>7 DEF StartThreads, OwnerInv
  <2>2. live = {}
    BY <1>7 DEF StartThreads, OwnerInv
  <2> QED
    BY <2>1, <2>2 DEF OwnerInv
<1>8. CASE StopThreads
  <2>1. /\ phase = "run" /\ phase' = "stop" /\ \A p \in Threads : pc[p] = "idle"
        /\ tls' = [w \in Workers |-> NoCtx]
        /\ UNCHANGED <<threads, live, owner, staged>>
    BY <1>8 DEF StopThreads
  <2>2. Elements(threads)' = Elements(threads)
    BY <2>1 DEF Elements
  <2>3. live \subseteq Elements(threads)
    <3> SUFFICES ASSUME NEW c \in live PROVE c \in Elements(threads)
      OBVIOUS
    <3>1. owner[c] \in Workers /\ pc[owner[c]] = "idle" /\ c # NoCtx
      BY <1>t, <2>1 DEF OwnerInv
    <3>2. tls[owner[c]] = c
      BY <2>1, <3>1 DEF OwnerInv
    <3> QED
      BY <3>1, <3>2 DEF HeapInv, TlsInv
  <2> QED
    BY <2>1, <2>2, <2>3 DEF OwnerInv
<1>9. CASE Shutdown
  BY <1>9, <1>t, <1>v DEF Shutdown
<1>10. CASE FreeAll
  <2>1. /\ live' = {} /\ staged' = [c \in Ctx |-> <<>>] /\ phase' = "boot"
        /\ UNCHANGED tls
    BY <1>10 DEF FreeAll
  <2>2. \A w \in Workers : tls[w] = NoCtx
    BY <1>10, <1>t DEF FreeAll, ControlInv, OwnerInv
  <2> QED
    BY <2>1, <2>2 DEF OwnerInv
<1>11. ASSUME NEW w \in Workers, Register(w) PROVE OwnerInv'
  <2>1. PICK c \in Ctx : /\ owner[c] = NoCtx /\ live' = live \cup {c}
                         /\ owner' = [owner EXCEPT ![c] = w]
                         /\ walk' = [walk EXCEPT ![w] = c]
    BY <1>11 DEF Register
  <2>2. /\ tls[w] = NoCtx /\ pc' = [pc EXCEPT ![w] = "link"] /\ pc[w] = "idle"
        /\ phase = "run" /\ UNCHANGED <<threads, tls, staged, phase>>
    BY <1>11 DEF Register, CanCall
  <2>3. c \notin live /\ \A d \in live : owner[d] # w /\ owner'[d] = owner[d]
    BY <1>t, <2>1, <2>2 DEF OwnerInv
  <2>4. owner'[c] = w
    BY <1>t, <2>1
  <2>5. /\ \A d \in live' : owner'[d] \in Workers
        /\ \A d, e \in live' : owner'[d] = owner'[e] => d = e
    BY <2>1, <2>3, <2>4 DEF OwnerInv
  <2>6. /\ pc'[w] = "link" /\ walk'[w] = c
        /\ \A v \in Workers : v # w => pc'[v] = pc[v] /\ walk'[v] = walk[v]
    BY <1>t, <2>1, <2>2
  <2>7. ASSUME NEW d \in live'
        PROVE  \/ tls'[owner'[d]] = d
               \/ pc'[owner'[d]] = "link" /\ walk'[owner'[d]] = d
    <3>1. CASE d = c
      BY <2>4, <2>6, <3>1
    <3>2. CASE d \in live
      BY <2>2, <2>3, <2>6, <3>2 DEF OwnerInv
    <3> QED
      BY <2>1, <3>1, <3>2
  <2> QED
    BY <2>1, <2>2, <2>5, <2>7 DEF OwnerInv
<1>12. ASSUME NEW w \in Workers, SpanStart(w) PROVE OwnerInv'
  BY <1>12, <1>u DEF SpanStart
<1>13. ASSUME NEW w \in Workers, SpanEnd(w) PROVE OwnerInv'
  <2>1. UNCHANGED <<threads, live, owner, tls, walk, phase, pc>>
    BY <1>13 DEF SpanEnd
  <2>2. Elements(threads)' = Elements(threads)
    BY <2>1 DEF Elements
  <2>3. \A c \in Ctx \ live : staged'[c] = staged[c]
    BY <1>13, <1>t DEF SpanEnd, Refuses, HeapInv, TlsInv, TypeOK
  <2> QED
    BY <2>1, <2>2, <2>3 DEF OwnerInv
<1>14. ASSUME NEW w \in Workers, Unregister(w) PROVE OwnerInv'
  BY <1>14, <1>t, <1>v DEF Unregister, CanCall
<1>15. ASSUME NEW w \in Workers, Link(w) PROVE OwnerInv'
  <2>1. /\ pc' = [pc EXCEPT ![w] = "idle"] /\ pc[w] = "link"
        /\ tls' = [tls EXCEPT ![w] = walk[w]] /\ walk' = [walk EXCEPT ![w] = NoCtx]
        /\ UNCHANGED <<live, owner, staged, phase>>
    BY <1>15 DEF Link
  <2>2. tls[w] = NoCtx /\ phase = "run"
    BY <1>t, <2>1 DEF HeapInv, TlsInv, ControlInv
  <2>3. \A c \in live : tls'[owner[c]] = c \/ (pc'[owner[c]] = "link" /\ walk'[owner[c]] = c)
    BY <1>t, <2>1, <2>2 DEF OwnerInv
  <2> QED
    BY <2>1, <2>2, <2>3 DEF OwnerInv
<1>16. ASSUME NEW w \in Workers, Unlink(w) PROVE OwnerInv'
  <2>1. /\ pc' = [pc EXCEPT ![w] = "free"] /\ pc[w] = "unlink"
        /\ UNCHANGED <<live, owner, tls, walk, staged, phase>>
    BY <1>16 DEF Unlink
  <2>2. phase = "run"
    BY <1>t, <2>1 DEF ControlInv
  <2> QED
    BY <1>t, <2>1, <2>2 DEF OwnerInv
<1>17. ASSUME NEW w \in Workers, Free(w) PROVE OwnerInv'
  <2>1. /\ pc' = [pc EXCEPT ![w] = "idle"] /\ pc[w] = "free"
        /\ live' = live \ {tls[w]} /\ tls' = [tls EXCEPT ![w] = NoCtx]
        /\ staged' = [staged EXCEPT ![tls[w]] = <<>>]
        /\ UNCHANGED <<owner, walk, phase>>
    BY <1>17 DEF Free
  <2>2. phase = "run"
    BY <1>t, <2>1 DEF ControlInv
  <2>3. tls[w] \in live /\ owner[tls[w]] = w
    BY <2>1 DEF HeapInv, TlsInv, Leaving
  <2>4. \A c \in Ctx \ live' : staged'[c] = <<>>
    BY <2>1, <2>3 DEF OwnerInv, TypeOK
  <2>5. \A c \in live' : owner[c] # w
    BY <2>1, <2>3 DEF OwnerInv
  <2>6. \A c \in live' : tls'[owner[c]] = c \/ (pc'[owner[c]] = "link" /\ walk'[owner[c]] = c)
    BY <1>t, <2>1, <2>2, <2>5 DEF OwnerInv
  <2> QED
    BY <2>1, <2>2, <2>4, <2>6 DEF OwnerInv
<1>18. ASSUME NEW d \in Drainers, DrainCall(d) PROVE OwnerInv'
  BY <1>18, <1>t, <1>v DEF DrainCall
<1>19. ASSUME NEW p \in Threads, LockDrain(p) PROVE OwnerInv'
  BY <1>19, <1>t, <1>v DEF LockDrain
<1>20. ASSUME NEW p \in Threads, ReadLock(p) PROVE OwnerInv'
  BY <1>20, <1>t, <1>v DEF ReadLock
<1>21. ASSUME NEW p \in Threads, WriteLock(p) PROVE OwnerInv'
  BY <1>21, <1>t, <1>v DEF WriteLock, AfterWriteLock
<1>22. ASSUME NEW p \in Threads, Begin(p) PROVE OwnerInv'
  BY <1>22, <1>t, <1>v DEF Begin
<1>23. ASSUME NEW p \in Threads, Load(p) PROVE OwnerInv'
  BY <1>23, <1>t, <1>v DEF Load
<1>24. ASSUME NEW p \in Threads, Emit(p) PROVE OwnerInv'
  BY <1>24, <1>u DEF Emit
<1>25. ASSUME NEW p \in Threads, Store(p) PROVE OwnerInv'
  <2>1. /\ UNCHANGED <<threads, live, owner, tls, phase>> /\ pc[p] = "emit"
        /\ \A q \in Threads : q # p => pc'[q] = pc[q] /\ walk'[q] = walk[q]
    BY <1>25, <1>t DEF Store
  <2>2. Elements(threads)' = Elements(threads)
    BY <2>1 DEF Elements
  <2>3. walk[p] \in live
    BY <2>1 DEF HeapInv, WalkInv, ListInv
  <2>4. \A c \in Ctx \ live : staged'[c] = staged[c]
    BY <1>25, <2>3 DEF Store, TypeOK
  <2> QED
    BY <1>t, <2>1, <2>2, <2>4 DEF OwnerInv
<1>26. ASSUME NEW p \in Threads, Flush(p) PROVE OwnerInv'
  BY <1>26, <1>t, <1>v DEF Flush
<1>27. ASSUME NEW p \in Threads, End(p) PROVE OwnerInv'
  BY <1>27, <1>t, <1>v DEF End
<1>28. ASSUME NEW p \in Threads, Unlock(p) PROVE OwnerInv'
  BY <1>28, <1>t, <1>v DEF Unlock
<1>29. CASE UNCHANGED vars
  BY <1>29, <1>u DEF vars
<1> QED
  BY <1>1, <1>2, <1>3, <1>4, <1>5, <1>6, <1>7, <1>8, <1>9, <1>10, <1>11,
     <1>12, <1>13, <1>14, <1>15, <1>16, <1>17, <1>18, <1>19, <1>20, <1>21,
     <1>22, <1>23, <1>24, <1>25, <1>26, <1>27, <1>28, <1>29
     DEF Next, Configure, Work, Continue, Pass

\* The registry and the heap stay consistent for every interleaving.
LEMMA HeapCorrect == Spec => []HeapInv
<1>1. Init => HeapInv
  <2> SUFFICES ASSUME Init PROVE HeapInv
    OBVIOUS
  <2>1. Elements(<<>>) = {} /\ Distinct(<<>>)
    BY DEF Elements, Distinct
  <2>2. ListInv
    BY <2>1 DEF Init, ListInv
  <2>3. TlsInv
    BY DEF Init, TlsInv, Threads, Leaving, Holding, Draining
  <2>4. WalkInv
    BY DEF Init, WalkInv, Threads
  <2>5. OwnerInv
    BY DEF Init, OwnerInv
  <2> QED
    BY <2>2, <2>3, <2>4, <2>5 DEF HeapInv
<1>2. TypeOK /\ LocalsInv /\ ControlInv /\ HeapInv /\ [Next]_vars => HeapInv'
  BY ListStep, TlsStep, WalkStep, OwnerStep DEF HeapInv
<1> QED
  BY <1>1, <1>2, TypeCorrect, ControlCorrect, PTL DEF Spec

\* No thread ever reaches a freed context: not through otel_tls, not through the
\* registry list, not through the ring it drains and not through the batch that
\* otlp_flush has not packed yet; whatever configuration calls run next to the
\* drain.
THEOREM NoDangling == Spec => []NoDanglingContext
<1>1. ControlInv /\ HeapInv => NoDanglingContext
  <2> SUFFICES ASSUME ControlInv, HeapInv PROVE NoDanglingContext
    OBVIOUS
  <2>1. Elements(threads) \subseteq live /\ Elements(batch) \subseteq live
    BY DEF HeapInv, ListInv
  <2>2. \A w \in Workers : tls[w] \in live \cup {NoCtx}
    BY DEF HeapInv, TlsInv
  <2>3. ASSUME NEW p \in Threads, walk[p] # NoCtx PROVE walk[p] \in live
    <3>1. CASE pc[p] \in {"load", "emit"}
      BY <2>1, <3>1 DEF HeapInv, WalkInv
    <3>2. CASE pc[p] = "link" /\ p \in Workers
      BY <3>2 DEF HeapInv, TlsInv
    <3> QED
      BY TracerAssumption, <2>3, <3>1, <3>2
         DEF ControlInv, Threads, Draining, HeapInv, WalkInv
  <2> QED
    BY <2>1, <2>2, <2>3 DEF NoDanglingContext
<1> QED
  BY <1>1, ControlCorrect, HeapCorrect, PTL


-----------------------------------------------------------------------------
(* The sink's bracket.                                                     *)

\* While the sink is not changed next to a running drain, the thread inside a
\* pass and nobody else is between begin() and end().
BracketInv ==
    /\ pc[Main] = "sink_present" => phase = "boot"
    /\ \A p \in Threads :
           p \in bracket <=> sinkPresent /\ pc[p] \in Draining \ {"begin"}

\* Every step keeps BracketInv.
LEMMA BracketStep ==
  ASSUME "attach" \notin LiveCalls, TypeOK, ControlInv, BracketInv, [Next]_vars
  PROVE  BracketInv'
<1> USE TracerAssumption
<1> USE DEF config, locks, heap, cursors, spans, work, Goto
<1>t. /\ pc \in [Threads -> Labels] /\ Main \in Threads
      /\ Workers \subseteq Threads /\ Drainers \subseteq Threads
      /\ Main \notin Workers /\ Main \notin Drainers
  BY DEF TypeOK, Threads
<1>u. ASSUME UNCHANGED <<pc, phase, bracket, sinkPresent>> PROVE BracketInv'
  BY <1>u DEF BracketInv
<1>1. CASE OtelInit
  <2>1. \A p \in Threads : p \notin bracket /\ pc[p] \notin Draining
    BY <1>1, <1>t DEF OtelInit, ControlInv, BracketInv, Draining, Holding
  <2> QED
    BY <1>1, <1>t, <2>1 DEF OtelInit, BracketInv, Draining
<1>2. CASE SetTransport
  <2>1. pc' = [pc EXCEPT ![Main] = "recompute"] /\ pc[Main] = "idle"
        /\ UNCHANGED <<phase, bracket, sinkPresent>>
    BY <1>2 DEF SetTransport, MayCall
  <2> QED
    BY <1>t, <2>1 DEF BracketInv, Draining
<1>3. CASE SetEnabled
  <2>1. pc' = [pc EXCEPT ![Main] = "recompute"] /\ pc[Main] = "idle"
        /\ UNCHANGED <<phase, bracket, sinkPresent>>
    BY <1>3 DEF SetEnabled, MayCall
  <2> QED
    BY <1>t, <2>1 DEF BracketInv, Draining
<1>4. CASE SetSpanSink
  <2>1. /\ pc' = [pc EXCEPT ![Main] = "sink_present"] /\ pc[Main] = "idle"
        /\ phase = "boot" /\ UNCHANGED <<phase, bracket, sinkPresent>>
    BY <1>4 DEF SetSpanSink, MayCall
  <2> QED
    BY <1>t, <2>1 DEF BracketInv, Draining
<1>5. CASE SetSinkPresent
  <2>1. \A p \in Threads : p \notin bracket /\ pc[p] \notin Draining
    BY <1>5, <1>t DEF SetSinkPresent, ControlInv, BracketInv, Draining, Holding
  <2> QED
    BY <1>5, <1>t, <2>1 DEF SetSinkPresent, BracketInv, Draining
<1>6. CASE RecomputeEnabled
  BY <1>6, <1>t DEF RecomputeEnabled, BracketInv, Draining
<1>7. CASE StartThreads
  BY <1>7, <1>t DEF StartThreads, BracketInv, Draining
<1>8. CASE StopThreads
  BY <1>8, <1>t DEF StopThreads, BracketInv, Draining
<1>9. CASE Shutdown
  BY <1>9, <1>t DEF Shutdown, BracketInv, Draining
<1>10. CASE FreeAll
  BY <1>10, <1>t DEF FreeAll, BracketInv, Draining
<1>11. ASSUME NEW w \in Workers, Register(w) PROVE BracketInv'
  BY <1>11, <1>t DEF Register, CanCall, BracketInv, Draining
<1>12. ASSUME NEW w \in Workers, SpanStart(w) PROVE BracketInv'
  BY <1>12, <1>u DEF SpanStart
<1>13. ASSUME NEW w \in Workers, SpanEnd(w) PROVE BracketInv'
  BY <1>13, <1>u DEF SpanEnd
<1>14. ASSUME NEW w \in Workers, Unregister(w) PROVE BracketInv'
  BY <1>14, <1>t DEF Unregister, CanCall, BracketInv, Draining
<1>15. ASSUME NEW w \in Workers, Link(w) PROVE BracketInv'
  BY <1>15, <1>t DEF Link, BracketInv, Draining
<1>16. ASSUME NEW w \in Workers, Unlink(w) PROVE BracketInv'
  BY <1>16, <1>t DEF Unlink, BracketInv, Draining
<1>17. ASSUME NEW w \in Workers, Free(w) PROVE BracketInv'
  BY <1>17, <1>t DEF Free, BracketInv, Draining
<1>18. ASSUME NEW d \in Drainers, DrainCall(d) PROVE BracketInv'
  BY <1>18, <1>t DEF DrainCall, BracketInv, Draining
<1>19. ASSUME NEW p \in Threads, LockDrain(p) PROVE BracketInv'
  BY <1>19, <1>t DEF LockDrain, BracketInv, Draining
<1>20. ASSUME NEW p \in Threads, ReadLock(p) PROVE BracketInv'
  BY <1>20, <1>t DEF ReadLock, BracketInv, Draining
<1>21. ASSUME NEW p \in Threads, WriteLock(p) PROVE BracketInv'
  BY <1>21, <1>t DEF WriteLock, AfterWriteLock, BracketInv, Draining
<1>22. ASSUME NEW p \in Threads, Begin(p) PROVE BracketInv'
  <2>1. /\ bracket' = IF sinkPresent THEN bracket \cup {p} ELSE bracket
        /\ UNCHANGED <<phase, sinkPresent>> /\ pc[p] = "begin"
        /\ pc'[p] \in {"flush", "load"}
        /\ \A q \in Threads : q # p => pc'[q] = pc[q]
    BY <1>22, <1>t DEF Begin
  <2> QED
    BY <1>t, <2>1 DEF BracketInv, Draining
<1>23. ASSUME NEW p \in Threads, Load(p) PROVE BracketInv'
  BY <1>23, <1>t DEF Load, BracketInv, Draining
<1>24. ASSUME NEW p \in Threads, Emit(p) PROVE BracketInv'
  BY <1>24, <1>u DEF Emit
<1>25. ASSUME NEW p \in Threads, Store(p) PROVE BracketInv'
  <2>1. /\ UNCHANGED <<phase, sinkPresent, bracket>> /\ pc[p] = "emit"
        /\ pc'[p] \in {"flush", "load"}
        /\ \A q \in Threads : q # p => pc'[q] = pc[q]
    BY <1>25, <1>t DEF Store, AfterRing
  <2> QED
    BY <1>t, <2>1 DEF BracketInv, Draining
<1>26. ASSUME NEW p \in Threads, Flush(p) PROVE BracketInv'
  BY <1>26, <1>t DEF Flush, BracketInv, Draining
<1>27. ASSUME NEW p \in Threads, End(p) PROVE BracketInv'
  BY <1>27, <1>t DEF End, Closes, BracketInv, Draining
<1>28. ASSUME NEW p \in Threads, Unlock(p) PROVE BracketInv'
  BY <1>28, <1>t DEF Unlock, BracketInv, Draining
<1>29. CASE UNCHANGED vars
  BY <1>29, <1>u DEF vars
<1> QED
  BY <1>1, <1>2, <1>3, <1>4, <1>5, <1>6, <1>7, <1>8, <1>9, <1>10, <1>11,
     <1>12, <1>13, <1>14, <1>15, <1>16, <1>17, <1>18, <1>19, <1>20, <1>21,
     <1>22, <1>23, <1>24, <1>25, <1>26, <1>27, <1>28, <1>29
     DEF Next, Configure, Work, Continue, Pass

\* An embedder that sets its sink before it starts its threads
\* never sees a span() outside a pass or two passes at once.  (A sink that
\* is attached next to a running drain can: run tracer_attach.)
THEOREM SinkBracketed ==
  ASSUME "attach" \notin LiveCalls
  PROVE  Spec => []SinkPassesBracketed
<1>1. Init => BracketInv
  BY DEF Init, BracketInv, Threads, Draining
<1>2. TypeOK /\ ControlInv /\ BracketInv /\ [Next]_vars => BracketInv'
  BY BracketStep
<1>3. TypeOK /\ ControlInv /\ BracketInv => SinkPassesBracketed
  BY DEF TypeOK, ControlInv, BracketInv, SinkPassesBracketed, Holding, Draining
<1> QED
  BY <1>1, <1>2, <1>3, TypeCorrect, ControlCorrect, PTL DEF Spec

-----------------------------------------------------------------------------
(* The order of emission.                                                  *)

\* The spans of c's ring already emitted by the pass that is reading it.
ReadOf(c) == IF drainLock # Nobody /\ walk[drainLock] = c THEN pos[drainLock] ELSE 0

Rising(s) == \A i, j \in 1..Len(s) : i < j => s[i] < s[j]

\* A worker's spans are numbered in the order they end, and the record of what
\* was emitted has them in that order.
EmittedOrder ==
    /\ emitted \in [Workers -> Seq(1..MaxEnds)]
    /\ \A w \in Workers : Rising(emitted[w])
    /\ \A w \in Workers : \A i \in 1..Len(emitted[w]) : emitted[w][i] <= ended[w]

\* They lie in a ring in that order too, and what the pass has not read of it is
\* later than all that was emitted.
RingOrder(c) ==
    /\ Rising(staged[c])
    /\ \A k \in 1..Len(staged[c]) : staged[c][k] <= ended[owner[c]]
    /\ \A k \in 1..Len(staged[c]) : k > ReadOf(c) =>
           \A i \in 1..Len(emitted[owner[c]]) : emitted[owner[c]][i] < staged[c][k]
    /\ \A k \in 1..Len(staged[c]) : k <= ReadOf(c) =>
           staged[c][k] \in Elements(emitted[owner[c]])

OrderInv == EmittedOrder /\ \A c \in live : RingOrder(c)

\* Every step keeps OrderInv.
LEMMA OrderStep ==
  ASSUME TypeOK, LocalsInv, ControlInv, HeapInv, OrderInv, [Next]_vars
  PROVE  OrderInv'
<1> USE TracerAssumption
<1> USE DEF config, locks, heap, cursors, spans, work, Goto
<1>t. /\ pc \in [Threads -> Labels] /\ Workers \subseteq Threads
      /\ live \subseteq Ctx /\ NoCtx \notin Ctx /\ Nobody \notin Threads
      /\ drainLock \in Threads \cup {Nobody}
      /\ tls \in [Workers -> Ctx \cup {NoCtx}]
      /\ walk \in [Threads -> Ctx \cup {NoCtx}]
      /\ owner \in [Ctx -> Workers \cup {NoCtx}]
      /\ pos \in [Threads -> Nat] /\ lim \in [Threads -> Nat]
      /\ ended \in [Workers -> 0..MaxEnds]
      /\ staged \in [Ctx -> Seq(1..MaxEnds)]
  BY DEF TypeOK, Threads, Ctx
<1>h. \A p \in Threads : pc[p] \in Holding <=> drainLock = p
  BY DEF ControlInv
<1>o. \A c \in live : c \in Ctx /\ owner[c] \in Workers
  BY <1>t DEF HeapInv, OwnerInv
<1>z. \A p \in Threads : pc[p] # "emit" => pos[p] = 0
  BY DEF LocalsInv
<1>e. emitted \in [Workers -> Seq(1..MaxEnds)]
  BY DEF OrderInv, EmittedOrder
<1>v. ASSUME UNCHANGED <<emitted, ended, staged, owner>>, live' \subseteq live,
             \A c \in live : ReadOf(c)' = ReadOf(c)
      PROVE  OrderInv'
  <2>1. EmittedOrder'
    BY <1>v DEF OrderInv, EmittedOrder, Rising
  <2>2. ASSUME NEW c \in live' PROVE RingOrder(c)'
    <3>1. RingOrder(c) /\ ReadOf(c)' = ReadOf(c)
      BY <1>v, <2>2 DEF OrderInv
    <3> QED
      BY <1>v, <3>1 DEF RingOrder, Rising, Elements
  <2> QED
    BY <2>1, <2>2 DEF OrderInv
<1>u. ASSUME UNCHANGED <<emitted, ended, staged, owner, live, drainLock, walk, pos>>
      PROVE  OrderInv'
  BY <1>u, <1>v DEF ReadOf
<1>1. CASE OtelInit
  <2>1. live' = {}
    BY <1>1 DEF OtelInit, HeapInv, OwnerInv
  <2>2. emitted' = [w \in Workers |-> <<>>]
    BY <1>1 DEF OtelInit
  <2>3. <<>> \in Seq(1..MaxEnds) /\ Len(<<>>) = 0 /\ Rising(<<>>)
    BY DEF Rising
  <2>4. EmittedOrder'
    BY <2>2, <2>3 DEF EmittedOrder
  <2> QED
    BY <2>1, <2>4 DEF OrderInv
<1>2. CASE SetTransport
  BY <1>2, <1>u DEF SetTransport, MayCall
<1>3. CASE SetEnabled
  BY <1>3, <1>u DEF SetEnabled, MayCall
<1>4. CASE SetSpanSink
  BY <1>4, <1>u DEF SetSpanSink, MayCall
<1>5. CASE SetSinkPresent
  BY <1>5, <1>u DEF SetSinkPresent
<1>6. CASE RecomputeEnabled
  BY <1>6, <1>u DEF RecomputeEnabled
<1>7. CASE StartThreads
  BY <1>7, <1>u DEF StartThreads
<1>8. CASE StopThreads
  BY <1>8, <1>u DEF StopThreads
<1>9. CASE Shutdown
  BY <1>9, <1>u DEF Shutdown
<1>10. CASE FreeAll
  <2>1. live' = {} /\ UNCHANGED <<emitted, ended>>
    BY <1>10 DEF FreeAll
  <2>2. EmittedOrder'
    BY <2>1 DEF OrderInv, EmittedOrder, Rising
  <2> QED
    BY <2>1, <2>2 DEF OrderInv
<1>11. ASSUME NEW w \in Workers, Register(w) PROVE OrderInv'
  <2>1. PICK c \in Ctx : /\ owner[c] = NoCtx /\ live' = live \cup {c}
                         /\ owner' = [owner EXCEPT ![c] = w]
                         /\ walk' = [walk EXCEPT ![w] = c]
    BY <1>11 DEF Register
  <2>2. UNCHANGED <<drainLock, pos, emitted, ended, staged>> /\ pc[w] = "idle"
    BY <1>11 DEF Register, CanCall
  <2>3. c \notin live
    BY <1>t, <1>o, <2>1
  <2>4. EmittedOrder'
    BY <2>2 DEF OrderInv, EmittedOrder, Rising
  <2>5. RingOrder(c)'
    <3>1. staged'[c] = <<>>
      BY <2>2, <2>3 DEF HeapInv, OwnerInv
    <3>2. 1..Len(staged'[c]) = {}
      BY <3>1
    <3> QED
      BY <3>2 DEF RingOrder, Rising
  <2>6. ASSUME NEW d \in live PROVE RingOrder(d)'
    <3>1. owner'[d] = owner[d]
      BY <1>t, <1>o, <2>1, <2>3
    <3>2. ReadOf(d)' = ReadOf(d)
      BY <1>t, <1>h, <1>o, <2>1, <2>2 DEF ReadOf, Holding, Draining
    <3> QED
      BY <2>2, <3>1, <3>2 DEF OrderInv, RingOrder, Rising, Elements
  <2> QED
    BY <2>1, <2>4, <2>5, <2>6 DEF OrderInv
<1>12. ASSUME NEW w \in Workers, SpanStart(w) PROVE OrderInv'
  BY <1>12, <1>u DEF SpanStart, CanCall
<1>13. ASSUME NEW w \in Workers, SpanEnd(w) PROVE OrderInv'
  <2>c. PICK c \in Ctx \cup {NoCtx} : c = tls[w]
    BY <1>t
  <2>n. PICK n \in 1..MaxEnds : n = ended[w] + 1 /\ ended[w] \in Nat
    <3>1. ended[w] \in 0..MaxEnds /\ ended[w] < MaxEnds
      BY <1>13, <1>t DEF SpanEnd, LocalsInv
    <3> QED
      BY <3>1
  <2>1. UNCHANGED <<emitted, owner, live, drainLock, walk, pos>>
        /\ ended' = [ended EXCEPT ![w] = n]
    BY <1>13, <2>n DEF SpanEnd
  <2>2. n \in 1..MaxEnds /\ ended[w] \in Nat
    BY <2>n
  <2>3. ended' \in [Workers -> 0..MaxEnds] /\ \A v \in Workers : ended[v] <= ended'[v]
    BY <1>t, <2>n, <2>1
  <2>4. EmittedOrder'
    <3>1. ASSUME NEW v \in Workers, NEW i \in 1..Len(emitted[v])
          PROVE  emitted[v][i] <= ended'[v]
      <4>1. emitted[v][i] \in Nat /\ emitted[v][i] <= ended[v]
        BY <1>e DEF OrderInv, EmittedOrder
      <4> QED
        BY <1>t, <2>3, <4>1
    <3> QED
      BY <2>1, <3>1 DEF OrderInv, EmittedOrder, Rising
  <2>5. \A d \in live : ReadOf(d)' = ReadOf(d)
    BY <2>1 DEF ReadOf
  <2>6. ASSUME NEW d \in live, staged'[d] = staged[d] PROVE RingOrder(d)'
    <3>1. RingOrder(d) /\ owner[d] \in Workers /\ d \in Ctx
      BY <1>o DEF OrderInv
    <3>2. ASSUME NEW k \in 1..Len(staged[d]) PROVE staged[d][k] <= ended'[owner[d]]
      <4>1. staged[d][k] \in Nat /\ staged[d][k] <= ended[owner[d]]
        BY <1>t, <3>1, SMTT(30) DEF RingOrder
      <4> QED
        BY <1>t, <2>3, <3>1, <4>1
    <3> QED
      BY <2>1, <2>5, <2>6, <3>1, <3>2 DEF RingOrder, Rising, Elements
  <2>7. CASE Refuses(c)
    <3>1. UNCHANGED <<staged, live>>
      BY <1>13, <2>c, <2>7 DEF SpanEnd
    <3> QED
      BY <2>4, <2>6, <3>1 DEF OrderInv
  <2>8. CASE ~Refuses(c)
    <3>1. c \in live /\ c \in Ctx /\ owner[c] = w
      BY <1>t, <2>c, <2>8 DEF Refuses, HeapInv, TlsInv
    <3>2. staged' = [staged EXCEPT ![c] = Append(staged[c], n)]
      BY <1>13, <2>c, <2>n, <2>8 DEF SpanEnd
    <3>3. /\ Len(staged'[c]) = Len(staged[c]) + 1 /\ Len(staged[c]) \in Nat
          /\ \A k \in 1..Len(staged[c]) : staged'[c][k] = staged[c][k]
          /\ \A k \in 1..Len(staged[c]) : staged[c][k] \in Nat
          /\ staged'[c][Len(staged[c]) + 1] = n
      BY <1>t, <2>2, <3>1, <3>2, AppendFacts
    <3>4. RingOrder(c)
      BY <3>1 DEF OrderInv
    <3>5. ended'[w] = n /\ n = ended[w] + 1 /\ n \in Nat
      BY <1>t, <2>n, <2>1
    <3>6. \A k \in 1..Len(staged[c]) : staged[c][k] < n
      <4> TAKE k \in 1..Len(staged[c])
      <4>1. staged[c][k] \in Nat /\ staged[c][k] <= ended[w]
        BY <3>1, <3>3, <3>4 DEF RingOrder
      <4> QED
        BY <2>2, <3>5, <4>1
    <3>7. \A i \in 1..Len(emitted[w]) : emitted[w][i] < n
      <4> TAKE i \in 1..Len(emitted[w])
      <4>1. emitted[w][i] \in Nat /\ emitted[w][i] <= ended[w]
        BY <1>e DEF OrderInv, EmittedOrder
      <4> QED
        BY <2>2, <3>5, <4>1
    <3>8. ReadOf(c) \in Nat /\ ReadOf(c) <= Len(staged[c])
      <4>1. CASE drainLock \in Threads /\ walk[drainLock] = c
        <5>1. CASE pc[drainLock] = "emit"
          <6>1. /\ lim[drainLock] <= Len(staged[c]) /\ lim[drainLock] \in Nat
                /\ pos[drainLock] \in Nat /\ pos[drainLock] <= lim[drainLock]
            BY <4>1, <5>1 DEF HeapInv, WalkInv, TypeOK
          <6> QED
            BY <1>t, <3>3, <4>1, <6>1 DEF ReadOf
        <5>2. CASE pc[drainLock] # "emit"
          BY <1>t, <1>z, <3>3, <4>1, <5>2 DEF ReadOf
        <5> QED
          BY <5>1, <5>2
      <4>2. CASE ~(drainLock \in Threads /\ walk[drainLock] = c)
        BY <1>t, <3>3, <4>2 DEF ReadOf
      <4> QED
        BY <4>1, <4>2
    <3>9. RingOrder(c)'
      <4>1. Rising(staged'[c])
        <5> SUFFICES ASSUME NEW i \in 1..Len(staged'[c]), NEW j \in 1..Len(staged'[c]), i < j
                     PROVE  staged'[c][i] < staged'[c][j]
          BY DEF Rising
        <5>1. i \in 1..Len(staged[c])
          BY <3>3
        <5>2. CASE j \in 1..Len(staged[c])
          BY <3>3, <3>4, <5>1, <5>2 DEF RingOrder, Rising
        <5>3. CASE j = Len(staged[c]) + 1
          BY <3>3, <3>6, <5>1, <5>3
        <5> QED
          BY <3>3, <5>2, <5>3
      <4>2. \A k \in 1..Len(staged'[c]) : staged'[c][k] <= ended'[owner'[c]]
        <5> TAKE k \in 1..Len(staged'[c])
        <5>1. staged'[c][k] \in Nat /\ staged'[c][k] <= n
          <6>1. CASE k \in 1..Len(staged[c])
            BY <3>3, <3>5, <3>6, <6>1
          <6>2. CASE k = Len(staged[c]) + 1
            BY <3>3, <3>5, <6>2
          <6> QED
            BY <3>3, <6>1, <6>2
        <5> QED
          BY <2>1, <3>1, <3>5, <5>1
      <4>3. ASSUME NEW k \in 1..Len(staged'[c]), k > ReadOf(c),
                   NEW i \in 1..Len(emitted[w])
            PROVE  emitted[w][i] < staged'[c][k]
        <5>1. CASE k \in 1..Len(staged[c])
          BY <3>1, <3>3, <3>4, <4>3, <5>1 DEF RingOrder
        <5>2. CASE k = Len(staged[c]) + 1
          BY <3>3, <3>7, <5>2
        <5> QED
          BY <3>3, <5>1, <5>2
      <4>4. ASSUME NEW k \in 1..Len(staged'[c]), k <= ReadOf(c)
            PROVE  staged'[c][k] \in Elements(emitted[w])
        <5>1. k \in 1..Len(staged[c])
          BY <3>3, <3>8, <4>4
        <5> QED
          BY <3>1, <3>3, <3>4, <4>4, <5>1 DEF RingOrder
      <4>5. UNCHANGED <<emitted, owner>> /\ ReadOf(c)' = ReadOf(c)
        BY <2>1, <2>5, <3>1
      <4> QED
        BY <3>1, <4>1, <4>2, <4>3, <4>4, <4>5 DEF RingOrder, Elements
    <3>10. \A d \in live : d # c => staged'[d] = staged[d]
      BY <1>t, <3>2
    <3> QED
      BY <2>1, <2>4, <2>6, <3>9, <3>10 DEF OrderInv
  <2> QED
    BY <2>7, <2>8
<1>14. ASSUME NEW w \in Workers, Unregister(w) PROVE OrderInv'
  BY <1>14, <1>u DEF Unregister, CanCall
<1>15. ASSUME NEW w \in Workers, Link(w) PROVE OrderInv'
  <2>1. UNCHANGED <<emitted, ended, staged, owner, live>>
    BY <1>15 DEF Link
  <2>2. \A c \in live : ReadOf(c)' = ReadOf(c)
    BY <1>15, <1>t, <1>h, <1>o, <1>z DEF Link, ReadOf, Holding, Draining, HeapInv, WalkInv
  <2> QED
    BY <1>v, <2>1, <2>2
<1>16. ASSUME NEW w \in Workers, Unlink(w) PROVE OrderInv'
  <2>1. UNCHANGED <<emitted, ended, staged, owner, live>>
    BY <1>16 DEF Unlink
  <2>2. \A c \in live : ReadOf(c)' = ReadOf(c)
    BY <1>16, <1>t, <1>h, <1>o, <1>z DEF Unlink, ReadOf, Holding, Draining, HeapInv, WalkInv
  <2> QED
    BY <1>v, <2>1, <2>2
<1>17. ASSUME NEW w \in Workers, Free(w) PROVE OrderInv'
  <2>1. UNCHANGED <<emitted, ended, owner, drainLock, walk, pos>> /\ live' \subseteq live
    BY <1>17 DEF Free
  <2>2. \A c \in live' : staged'[c] = staged[c] /\ ReadOf(c)' = ReadOf(c)
    BY <1>17, <1>t, <2>1 DEF Free, ReadOf
  <2>3. EmittedOrder'
    BY <2>1 DEF OrderInv, EmittedOrder, Rising
  <2>4. ASSUME NEW c \in live' PROVE RingOrder(c)'
    BY <2>1, <2>2 DEF OrderInv, RingOrder, Rising, Elements
  <2> QED
    BY <2>3, <2>4 DEF OrderInv
<1>18. ASSUME NEW d \in Drainers, DrainCall(d) PROVE OrderInv'
  BY <1>18, <1>u DEF DrainCall
<1>19. ASSUME NEW p \in Threads, LockDrain(p) PROVE OrderInv'
  <2>1. UNCHANGED <<emitted, ended, staged, owner, live>>
    BY <1>19 DEF LockDrain
  <2>2. \A c \in live : ReadOf(c)' = ReadOf(c)
    BY <1>19, <1>t, <1>h, <1>o, <1>z DEF LockDrain, ReadOf, Holding, Draining, HeapInv, WalkInv
  <2> QED
    BY <1>v, <2>1, <2>2
<1>20. ASSUME NEW p \in Threads, ReadLock(p) PROVE OrderInv'
  BY <1>20, <1>u DEF ReadLock
<1>21. ASSUME NEW p \in Threads, WriteLock(p) PROVE OrderInv'
  BY <1>21, <1>u DEF WriteLock, AfterWriteLock
<1>22. ASSUME NEW p \in Threads, Begin(p) PROVE OrderInv'
  <2>1. UNCHANGED <<emitted, ended, staged, owner, live>>
    BY <1>22 DEF Begin
  <2>2. \A c \in live : ReadOf(c)' = ReadOf(c)
    BY <1>22, <1>t, <1>h, <1>o, <1>z DEF Begin, ReadOf, Holding, Draining, HeapInv, WalkInv
  <2> QED
    BY <1>v, <2>1, <2>2
<1>23. ASSUME NEW p \in Threads, Load(p) PROVE OrderInv'
  BY <1>23, <1>u DEF Load
<1>24. ASSUME NEW p \in Threads, Emit(p) PROVE OrderInv'
  <2>c. PICK c : c = walk[p]
    OBVIOUS
  <2>w. PICK w : w = owner[c]
    OBVIOUS
  <2>x. PICK x : x = staged[c][pos[p] + 1]
    OBVIOUS
  <2>1. /\ emitted' = [emitted EXCEPT ![w] = Append(@, x)]
        /\ pos' = [pos EXCEPT ![p] = pos[p] + 1]
        /\ pc[p] = "emit" /\ pos[p] < lim[p]
        /\ UNCHANGED <<ended, staged, owner, live, drainLock, walk>>
    BY <1>24, <2>c, <2>w, <2>x DEF Emit
  <2>2. c \in live /\ c \in Ctx /\ w \in Workers /\ lim[p] <= Len(staged[c])
    BY <1>t, <1>o, <2>c, <2>w, <2>1 DEF HeapInv, WalkInv, ListInv
  <2>3. drainLock = p /\ drainLock # Nobody
    BY <1>t, <1>h, <2>1 DEF Holding, Draining
  <2>4. /\ ReadOf(c) = pos[p] /\ ReadOf(c)' = pos[p] + 1 /\ pos[p] \in Nat
        /\ \A d \in live : d # c => ReadOf(d) = 0 /\ ReadOf(d)' = 0
    BY <1>t, <2>c, <2>1, <2>3 DEF ReadOf
  <2>5. pos[p] + 1 \in 1..Len(staged[c]) /\ staged[c] \in Seq(1..MaxEnds)
    BY <1>t, <2>1, <2>2, SMTT(30)
  <2>6. x \in 1..MaxEnds /\ x <= ended[w] /\ RingOrder(c)
    BY <2>w, <2>x, <2>2, <2>5 DEF OrderInv, RingOrder
  <2>7. \A i \in 1..Len(emitted[w]) : emitted[w][i] < x
    <3>1. pos[p] + 1 > ReadOf(c)
      BY <2>4
    <3> QED
      BY <2>w, <2>x, <2>5, <2>6, <3>1 DEF RingOrder
  <2>8. \A k \in 1..Len(staged[c]) : k > pos[p] + 1 => x < staged[c][k]
    BY <2>x, <2>5, <2>6 DEF RingOrder, Rising
  <2>9. /\ emitted'[w] \in Seq(1..MaxEnds) /\ emitted[w] \in Seq(1..MaxEnds)
        /\ Len(emitted[w]) \in Nat
        /\ Len(emitted'[w]) = Len(emitted[w]) + 1
        /\ \A i \in 1..Len(emitted[w]) : emitted'[w][i] = emitted[w][i]
        /\ emitted'[w][Len(emitted[w]) + 1] = x
        /\ Elements(emitted'[w]) = Elements(emitted[w]) \cup {x}
    BY <1>e, <2>1, <2>2, <2>6, AppendFacts
  <2>10. \A v \in Workers : v # w => emitted'[v] = emitted[v]
    BY <1>e, <2>1
  <2>11. EmittedOrder'
    <3>n. Len(emitted'[w]) = Len(emitted[w]) + 1 /\ Len(emitted[w]) \in Nat
      BY <2>9
    <3>1. emitted' \in [Workers -> Seq(1..MaxEnds)]
      BY <1>e, <2>1, <2>2, <2>9
    <3>2. Rising(emitted[w])
      BY <2>2 DEF OrderInv, EmittedOrder
    <3>3. Rising(emitted'[w])
      <4> SUFFICES ASSUME NEW i \in 1..Len(emitted'[w]), NEW j \in 1..Len(emitted'[w]), i < j
                   PROVE  emitted'[w][i] < emitted'[w][j]
        BY DEF Rising
      <4>1. i \in 1..Len(emitted[w])
        BY <2>9
      <4>2. CASE j \in 1..Len(emitted[w])
        BY <2>9, <3>2, <4>1, <4>2 DEF Rising
      <4>3. CASE j = Len(emitted[w]) + 1
        BY <2>7, <2>9, <4>1, <4>3
      <4> QED
        BY <3>n, <4>2, <4>3
    <3>4. ASSUME NEW i \in 1..Len(emitted'[w]) PROVE emitted'[w][i] <= ended[w]
      <4>1. CASE i \in 1..Len(emitted[w])
        BY <2>2, <2>9, <4>1 DEF OrderInv, EmittedOrder
      <4>2. CASE i = Len(emitted[w]) + 1
        BY <2>6, <2>9, <4>2
      <4> QED
        BY <3>n, <4>1, <4>2
    <3>5. \A v \in Workers : Rising(emitted'[v])
      BY <2>10, <3>3 DEF OrderInv, EmittedOrder
    <3>6. \A v \in Workers : \A i \in 1..Len(emitted'[v]) : emitted'[v][i] <= ended'[v]
      BY <2>1, <2>10, <3>4 DEF OrderInv, EmittedOrder
    <3> QED
      BY <3>1, <3>5, <3>6 DEF EmittedOrder
  <2>12. ASSUME NEW d \in live, d # c PROVE RingOrder(d)'
    <3>1. owner[d] \in Workers /\ owner[d] # w
      BY <1>o, <2>w, <2>2, <2>12 DEF HeapInv, OwnerInv
    <3>2. RingOrder(d) /\ ReadOf(d)' = ReadOf(d)
      BY <2>4, <2>12 DEF OrderInv
    <3>3. emitted'[owner[d]] = emitted[owner[d]] /\ UNCHANGED <<ended, staged, owner>>
      BY <2>1, <2>10, <3>1
    <3> QED
      BY <3>2, <3>3 DEF RingOrder
  <2>13. RingOrder(c)'
    <3>1. UNCHANGED <<ended, staged, owner>> /\ owner[c] = w
      BY <2>w, <2>1
    <3>2. ASSUME NEW k \in 1..Len(staged[c]), k > pos[p] + 1,
                 NEW i \in 1..Len(emitted'[w])
          PROVE  emitted'[w][i] < staged[c][k]
      <4>1. CASE i \in 1..Len(emitted[w])
        <5>1. k > ReadOf(c)
          BY <2>4, <3>2
        <5> QED
          BY <2>6, <2>9, <3>1, <4>1, <5>1 DEF RingOrder
      <4>2. CASE i = Len(emitted[w]) + 1
        BY <2>8, <2>9, <3>2, <4>2
      <4> QED
        BY <2>9, <4>1, <4>2
    <3>3. ASSUME NEW k \in 1..Len(staged[c]), k <= pos[p] + 1
          PROVE  staged[c][k] \in Elements(emitted'[w])
      <4>1. CASE k = pos[p] + 1
        BY <2>x, <2>9, <4>1
      <4>2. CASE k # pos[p] + 1
        <5>1. k <= ReadOf(c)
          BY <2>4, <3>3, <4>2
        <5> QED
          BY <2>6, <2>9, <3>1, <5>1 DEF RingOrder
      <4> QED
        BY <4>1, <4>2
    <3> QED
      BY <2>4, <2>6, <3>1, <3>2, <3>3 DEF RingOrder
  <2> QED
    BY <2>1, <2>11, <2>12, <2>13 DEF OrderInv
<1>25. ASSUME NEW p \in Threads, Store(p) PROVE OrderInv'
  <2>c. PICK c : c = walk[p]
    OBVIOUS
  <2>r. PICK rest : rest = SubSeq(staged[c], lim[p] + 1, Len(staged[c]))
    OBVIOUS
  <2>1. /\ staged' = [staged EXCEPT ![c] = rest]
        /\ pos' = [pos EXCEPT ![p] = 0]
        /\ pc[p] = "emit" /\ pos[p] = lim[p]
        /\ UNCHANGED <<emitted, ended, owner, live, drainLock>>
    BY <1>25, <2>c, <2>r DEF Store, Unreleased
  <2>2. c \in live /\ c \in Ctx /\ lim[p] \in Nat /\ lim[p] <= Len(staged[c])
    BY <1>t, <1>o, <2>c, <2>1 DEF HeapInv, WalkInv, ListInv
  <2>3. drainLock = p
    BY <1>t, <1>h, <2>1 DEF Holding, Draining
  <2>4. /\ ReadOf(c) = lim[p] /\ \A d \in live : ReadOf(d)' = 0
        /\ \A d \in live : d # c => ReadOf(d) = 0
    BY <1>t, <2>c, <2>1, <2>3 DEF ReadOf
  <2>5. /\ Len(rest) = Len(staged[c]) - lim[p] /\ Len(staged[c]) \in Nat
        /\ \A i \in 1..Len(rest) : rest[i] = staged[c][lim[p] + i]
    <3>1. staged[c] \in Seq(1..MaxEnds)
      BY <1>t, <2>2
    <3>2. /\ Len(rest) = IF lim[p] <= Len(staged[c]) THEN Len(staged[c]) - lim[p] ELSE 0
          /\ \A i \in 1..Len(rest) : rest[i] = staged[c][lim[p] + i]
      BY <2>r, <2>2, <3>1, SuffixFacts, Zenon
    <3> QED
      BY <2>2, <3>1, <3>2
  <2>6. EmittedOrder'
    BY <2>1 DEF OrderInv, EmittedOrder, Rising
  <2>7. ASSUME NEW d \in live, d # c PROVE RingOrder(d)'
    <3>1. staged'[d] = staged[d] /\ ReadOf(d)' = ReadOf(d) /\ RingOrder(d)
      BY <1>t, <2>1, <2>4, <2>7 DEF OrderInv
    <3> QED
      BY <2>1, <3>1 DEF RingOrder
  <2>8. RingOrder(c)'
    <3>1. staged'[c] = rest /\ ReadOf(c)' = 0 /\ RingOrder(c)
      BY <1>t, <2>1, <2>2, <2>4 DEF OrderInv
    <3>2. \A i \in 1..Len(rest) : lim[p] + i \in 1..Len(staged[c]) /\ lim[p] + i > ReadOf(c)
      BY <2>2, <2>4, <2>5
    <3>3. Rising(rest)
      <4> SUFFICES ASSUME NEW i \in 1..Len(rest), NEW j \in 1..Len(rest), i < j
                   PROVE  rest[i] < rest[j]
        BY DEF Rising
      <4>1. lim[p] + i < lim[p] + j
        BY <2>2
      <4> QED
        BY <2>5, <3>1, <3>2, <4>1 DEF RingOrder, Rising
    <3>4. \A k \in 1..Len(rest) : rest[k] <= ended[owner[c]]
      BY <2>5, <3>1, <3>2 DEF RingOrder
    <3>5. \A k \in 1..Len(rest) : \A i \in 1..Len(emitted[owner[c]]) :
              emitted[owner[c]][i] < rest[k]
      BY <2>5, <3>1, <3>2 DEF RingOrder
    <3>6. \A k \in 1..Len(rest) : ~(k <= 0)
      OBVIOUS
    <3> QED
      BY <2>1, <3>1, <3>3, <3>4, <3>5, <3>6 DEF RingOrder
  <2> QED
    BY <2>1, <2>6, <2>7, <2>8 DEF OrderInv
<1>26. ASSUME NEW p \in Threads, Flush(p) PROVE OrderInv'
  BY <1>26, <1>u DEF Flush
<1>27. ASSUME NEW p \in Threads, End(p) PROVE OrderInv'
  BY <1>27, <1>u DEF End
<1>28. ASSUME NEW p \in Threads, Unlock(p) PROVE OrderInv'
  <2>1. UNCHANGED <<emitted, ended, staged, owner, live>>
    BY <1>28 DEF Unlock
  <2>2. \A c \in live : ReadOf(c)' = ReadOf(c)
    BY <1>28, <1>t, <1>h, <1>o, <1>z DEF Unlock, ReadOf, Holding, Draining, HeapInv, WalkInv
  <2> QED
    BY <1>v, <2>1, <2>2
<1>29. CASE UNCHANGED vars
  BY <1>29, <1>u DEF vars
<1> QED
  BY <1>1, <1>2, <1>3, <1>4, <1>5, <1>6, <1>7, <1>8, <1>9, <1>10, <1>11,
     <1>12, <1>13, <1>14, <1>15, <1>16, <1>17, <1>18, <1>19, <1>20, <1>21,
     <1>22, <1>23, <1>24, <1>25, <1>26, <1>27, <1>28, <1>29
     DEF Next, Configure, Work, Continue, Pass

\* The order of a worker's spans, in its ring and as emitted.
LEMMA OrderCorrect == Spec => []OrderInv
<1>1. Init => OrderInv
  <2> SUFFICES ASSUME Init PROVE OrderInv
    OBVIOUS
  <2>1. <<>> \in Seq(1..MaxEnds) /\ Len(<<>>) = 0 /\ Rising(<<>>)
    BY DEF Rising
  <2> QED
    BY <2>1 DEF Init, OrderInv, EmittedOrder
<1>2. TypeOK /\ LocalsInv /\ ControlInv /\ HeapInv /\ OrderInv /\ [Next]_vars => OrderInv'
  BY OrderStep
<1> QED
  BY <1>1, <1>2, TypeCorrect, ControlCorrect, HeapCorrect, PTL DEF Spec

\* A worker's spans reach otel_emit_span at most once and in the order they
\* ended, however its ring is shared among drain threads, its own unregister,
\* later registrations and shutdown, and however tracing is switched meanwhile.
THEOREM OnceInOrder == Spec => []EmittedOnceInOrder
<1>1. OrderInv => EmittedOnceInOrder
  BY DEF OrderInv, EmittedOrder, Rising, EmittedOnceInOrder
<1> QED
  BY <1>1, OrderCorrect, PTL

-----------------------------------------------------------------------------
(* Accounting.                                                             *)

\* otel_enabled_ is what otel_recompute_enabled makes of the configuration, up
\* to a call that is under way, and once the threads run it is never cleared.
EnabledInv ==
    /\ pc[Main] \notin {"sink_present", "recompute"} =>
           (enabled <=> initialized /\ (transport \/ sinkPresent) /\ runtimeOn)
    /\ phase # "boot" /\ enabled => initialized /\ (transport \/ sinkPresent) /\ runtimeOn
    /\ phase # "boot" /\ pc[Main] = "sink_present" => sink

\* With tracing off no span is open and no ring holds one.
QuietInv ==
    /\ phase # "run" => \A w \in Workers : ~recording[w]
    /\ phase # "boot" /\ ~enabled =>
           /\ \A w \in Workers : ~recording[w]
           /\ \A c \in Ctx : staged[c] = <<>>

\* A worker that unregisters has emptied its ring before it takes it off the
\* list: nobody adds to a ring but its owner, who is busy here.
FinalInv ==
    \A w \in Workers :
        /\ pc[w] = "emit" => lim[w] = Len(staged[walk[w]])
        /\ pc[w] \in {"flush", "end", "unlink", "free"} => staged[tls[w]] = <<>>

\* otel_shutdown's own pass has emptied every ring of the list up to the one it
\* is at, and all of them when it comes to free them.
LastPassInv ==
    /\ pc[Main] \in {"load", "emit"} =>
           \E k \in 1..Len(threads) :
               /\ walk[Main] = threads[k]
               /\ \A j \in 1..(k - 1) : staged[threads[j]] = <<>>
    /\ pc[Main] = "emit" => lim[Main] = Len(staged[walk[Main]])
    /\ pc[Main] \in {"flush", "end", "unlock", "free_all"} =>
           \A c \in Ctx : staged[c] = <<>>

\* Every step keeps EnabledInv.
LEMMA EnabledStep ==
  ASSUME "enable" \notin LiveCalls, TypeOK, EnabledInv, [Next]_vars
  PROVE  EnabledInv'
<1> USE TracerAssumption
<1> USE DEF config, locks, heap, cursors, spans, work, Goto

<1>t. pc \in [Threads -> Labels] /\ Main \in Threads /\ Main \notin Workers /\ Main \notin Drainers
  BY DEF TypeOK, Threads
<1>v. ASSUME UNCHANGED <<config, phase>>,
             pc'[Main] = "sink_present" => pc[Main] = "sink_present",
             pc[Main] \in {"sink_present", "recompute"} => pc'[Main] = pc[Main]
      PROVE  EnabledInv'
  BY <1>v DEF EnabledInv
<1>u. ASSUME UNCHANGED <<config, phase, pc>> PROVE EnabledInv'
  BY <1>u, <1>v
<1>1. CASE OtelInit
  BY <1>1 DEF OtelInit, EnabledInv
<1>2. CASE SetTransport
  <2>1. pc'[Main] = "recompute" /\ phase = "boot" /\ phase' = "boot"
    BY <1>2, <1>t DEF SetTransport, MayCall
  <2> QED
    BY <2>1 DEF EnabledInv
<1>3. CASE SetEnabled
  <2>1. pc'[Main] = "recompute" /\ phase = "boot" /\ phase' = "boot"
    BY <1>3, <1>t DEF SetEnabled, MayCall
  <2> QED
    BY <2>1 DEF EnabledInv
<1>4. CASE SetSpanSink
  <2>1. /\ pc'[Main] = "sink_present"
        /\ UNCHANGED <<initialized, transport, sinkPresent, runtimeOn, enabled, phase>>
    BY <1>4, <1>t DEF SetSpanSink
  <2>2. phase # "boot" => sink'
    BY <1>4, Zenon DEF SetSpanSink
  <2> QED
    BY <2>1, <2>2 DEF EnabledInv
<1>5. CASE SetSinkPresent
  <2>1. /\ pc'[Main] = "recompute" /\ sinkPresent' = sink
        /\ UNCHANGED <<initialized, transport, runtimeOn, enabled, phase>>
        /\ pc[Main] = "sink_present"
    BY <1>5, <1>t DEF SetSinkPresent
  <2>2. phase # "boot" => sinkPresent'
    BY <2>1 DEF EnabledInv
  <2> QED
    BY <2>1, <2>2 DEF EnabledInv
<1>6. CASE RecomputeEnabled
  <2>1. /\ pc'[Main] = "idle"
        /\ UNCHANGED <<initialized, transport, sinkPresent, runtimeOn, phase>>
    BY <1>6, <1>t DEF RecomputeEnabled
  <2>2. enabled' <=> initialized /\ (transport \/ sinkPresent) /\ runtimeOn
    BY <1>6, Zenon DEF RecomputeEnabled
  <2> QED
    BY <2>1, <2>2 DEF EnabledInv
<1>7. CASE StartThreads
  <2>1. UNCHANGED <<config, pc>> /\ pc[Main] = "idle"
    BY <1>7 DEF StartThreads
  <2> QED
    BY <2>1 DEF EnabledInv
<1>8. CASE StopThreads
  <2>1. UNCHANGED <<config, pc>> /\ pc[Main] = "idle"
    BY <1>8, <1>t DEF StopThreads
  <2> QED
    BY <2>1 DEF EnabledInv
<1>9. CASE Shutdown
  <2>1. /\ UNCHANGED <<config, phase>> /\ pc[Main] = "idle"
        /\ pc'[Main] \in {"drain_lock", "free_all"}
    BY <1>9, <1>t DEF Shutdown
  <2> QED
    BY <1>v, <2>1
<1>10. CASE FreeAll
  <2>1. pc'[Main] = "idle" /\ phase' = "boot" /\ ~enabled' /\ ~initialized'
    BY <1>10, <1>t DEF FreeAll
  <2> QED
    BY <2>1 DEF EnabledInv
<1>11. ASSUME NEW w \in Workers, Register(w) PROVE EnabledInv'
  BY <1>11, <1>t, <1>v DEF Register, CanCall
<1>12. ASSUME NEW w \in Workers, SpanStart(w) PROVE EnabledInv'
  BY <1>12, <1>u DEF SpanStart
<1>13. ASSUME NEW w \in Workers, SpanEnd(w) PROVE EnabledInv'
  BY <1>13, <1>u DEF SpanEnd
<1>14. ASSUME NEW w \in Workers, Unregister(w) PROVE EnabledInv'
  BY <1>14, <1>t, <1>v DEF Unregister, CanCall
<1>15. ASSUME NEW w \in Workers, Link(w) PROVE EnabledInv'
  BY <1>15, <1>t, <1>v DEF Link
<1>16. ASSUME NEW w \in Workers, Unlink(w) PROVE EnabledInv'
  BY <1>16, <1>t, <1>v DEF Unlink
<1>17. ASSUME NEW w \in Workers, Free(w) PROVE EnabledInv'
  BY <1>17, <1>t, <1>v DEF Free
<1>18. ASSUME NEW d \in Drainers, DrainCall(d) PROVE EnabledInv'
  BY <1>18, <1>t, <1>v DEF DrainCall
<1>19. ASSUME NEW p \in Threads, LockDrain(p) PROVE EnabledInv'
  BY <1>19, <1>t, <1>v DEF LockDrain
<1>20. ASSUME NEW p \in Threads, ReadLock(p) PROVE EnabledInv'
  BY <1>20, <1>t, <1>v DEF ReadLock
<1>21. ASSUME NEW p \in Threads, WriteLock(p) PROVE EnabledInv'
  BY <1>21, <1>t, <1>v DEF WriteLock, AfterWriteLock
<1>22. ASSUME NEW p \in Threads, Begin(p) PROVE EnabledInv'
  <2>1. /\ UNCHANGED <<config, phase>> /\ pc[p] = "begin"
        /\ pc'[p] \in {"flush", "load"}
        /\ \A q \in Threads : q # p => pc'[q] = pc[q]
    BY <1>22, <1>t DEF Begin
  <2> QED
    BY <1>t, <1>v, <2>1
<1>23. ASSUME NEW p \in Threads, Load(p) PROVE EnabledInv'
  BY <1>23, <1>t, <1>v DEF Load
<1>24. ASSUME NEW p \in Threads, Emit(p) PROVE EnabledInv'
  BY <1>24, <1>u DEF Emit
<1>25. ASSUME NEW p \in Threads, Store(p) PROVE EnabledInv'
  <2>1. /\ UNCHANGED <<config, phase>> /\ pc[p] = "emit"
        /\ pc'[p] \in {"flush", "load"}
        /\ \A q \in Threads : q # p => pc'[q] = pc[q]
    BY <1>25, <1>t DEF Store, AfterRing
  <2> QED
    BY <1>t, <1>v, <2>1
<1>26. ASSUME NEW p \in Threads, Flush(p) PROVE EnabledInv'
  BY <1>26, <1>t, <1>v DEF Flush
<1>27. ASSUME NEW p \in Threads, End(p) PROVE EnabledInv'
  BY <1>27, <1>t, <1>v DEF End
<1>28. ASSUME NEW p \in Threads, Unlock(p) PROVE EnabledInv'
  BY <1>28, <1>t, <1>v DEF Unlock
<1>29. CASE UNCHANGED vars
  BY <1>29, <1>u DEF vars
<1> QED
  BY <1>1, <1>2, <1>3, <1>4, <1>5, <1>6, <1>7, <1>8, <1>9, <1>10, <1>11,
     <1>12, <1>13, <1>14, <1>15, <1>16, <1>17, <1>18, <1>19, <1>20, <1>21,
     <1>22, <1>23, <1>24, <1>25, <1>26, <1>27, <1>28, <1>29
     DEF Next, Configure, Work, Continue, Pass

\* The store of tail empties a ring that was read to its end, keeps an empty
\* ring empty and leaves the other rings alone.
LEMMA StoreEmpties ==
  ASSUME TypeOK, LocalsInv, NEW p \in Threads, Store(p)
  PROVE  /\ \A c \in Ctx : staged[c] = <<>> => staged'[c] = <<>>
         /\ lim[p] = Len(staged[walk[p]]) => staged'[walk[p]] = <<>>
         /\ \A c \in Ctx : c # walk[p] => staged'[c] = staged[c]
<1>1. /\ staged' = [staged EXCEPT ![walk[p]] =
                       SubSeq(staged[walk[p]], lim[p] + 1, Len(staged[walk[p]]))]
      /\ pc[p] = "emit"
  BY DEF Store, Unreleased
<1>2. /\ walk[p] \in Ctx /\ staged \in [Ctx -> Seq(1..MaxEnds)] /\ lim[p] \in Nat
  BY <1>1 DEF LocalsInv, TypeOK
<1>3. PICK q \in Seq(1..MaxEnds) : q = staged[walk[p]]
  BY <1>2
<1>4. PICK t : t = SubSeq(q, lim[p] + 1, Len(q))
  OBVIOUS
<1>5. /\ t \in Seq(1..MaxEnds) /\ Len(q) \in Nat
      /\ Len(t) = IF lim[p] <= Len(q) THEN Len(q) - lim[p] ELSE 0
  <2>1. /\ t \in Seq(1..MaxEnds)
        /\ Len(t) = IF lim[p] <= Len(q) THEN Len(q) - lim[p] ELSE 0
    BY <1>2, <1>4, SuffixFacts, Zenon
  <2>2. Len(q) \in Nat
    OBVIOUS
  <2> QED
    BY <2>1, <2>2
<1>6. lim[p] = Len(q) \/ q = <<>> => t = <<>>
  <2>1. Len(<<>>) = 0
    OBVIOUS
  <2>2. lim[p] = Len(q) \/ q = <<>> => Len(t) = 0
    BY <1>2, <1>5, <2>1
  <2>3. Len(t) = 0 => t = <<>>
    BY <1>5
  <2> QED
    BY <2>2, <2>3
<1>7. staged'[walk[p]] = t /\ \A c \in Ctx : c # walk[p] => staged'[c] = staged[c]
  BY <1>1, <1>2, <1>3, <1>4
<1> QED
  BY <1>3, <1>6, <1>7

\* Every step keeps QuietInv.
LEMMA QuietStep ==
  ASSUME TypeOK, LocalsInv, ControlInv, HeapInv, EnabledInv, QuietInv, [Next]_vars
  PROVE  QuietInv'
<1> USE TracerAssumption
<1> USE DEF config, locks, heap, cursors, spans, work, Goto

<1>u. ASSUME UNCHANGED <<phase, enabled, recording, staged>> PROVE QuietInv'
  BY <1>u DEF QuietInv
<1>1. CASE OtelInit
  BY <1>1 DEF OtelInit, QuietInv
<1>2. CASE SetTransport
  BY <1>2, <1>u DEF SetTransport, MayCall
<1>3. CASE SetEnabled
  BY <1>3, <1>u DEF SetEnabled, MayCall
<1>4. CASE SetSpanSink
  BY <1>4, <1>u DEF SetSpanSink, MayCall
<1>5. CASE SetSinkPresent
  BY <1>5, <1>u DEF SetSinkPresent
<1>6. CASE RecomputeEnabled
  <2>1. UNCHANGED <<phase, recording, staged>>
    BY <1>6 DEF RecomputeEnabled
  <2>2. enabled' <=> initialized /\ (transport \/ sinkPresent) /\ runtimeOn
    BY <1>6, Zenon DEF RecomputeEnabled
  <2>3. phase # "boot" /\ ~enabled' => ~enabled
    BY <2>2 DEF EnabledInv
  <2> QED
    BY <2>1, <2>3 DEF QuietInv
<1>7. CASE StartThreads
  <2>1. UNCHANGED <<recording, staged>> /\ phase = "boot"
    BY <1>7 DEF StartThreads
  <2>2. \A c \in Ctx : staged[c] = <<>>
    BY <2>1 DEF HeapInv, OwnerInv
  <2> QED
    BY <2>1, <2>2 DEF QuietInv
<1>8. CASE StopThreads
  <2>1. UNCHANGED <<enabled, staged>> /\ recording' = [w \in Workers |-> FALSE] /\ phase = "run"
    BY <1>8 DEF StopThreads
  <2> QED
    BY <2>1 DEF QuietInv
<1>9. CASE Shutdown
  BY <1>9, <1>u DEF Shutdown
<1>10. CASE FreeAll
  <2>1. UNCHANGED recording /\ phase' = "boot"
    BY <1>10 DEF FreeAll
  <2>2. phase = "stop"
    BY <1>10 DEF FreeAll, ControlInv
  <2> QED
    BY <2>1, <2>2 DEF QuietInv
<1>11. ASSUME NEW w \in Workers, Register(w) PROVE QuietInv'
  BY <1>11, <1>u DEF Register, CanCall
<1>12. ASSUME NEW w \in Workers, SpanStart(w) PROVE QuietInv'
  <2>1. enabled /\ UNCHANGED enabled /\ phase' = "run"
    BY <1>12 DEF SpanStart, CanCall
  <2> QED
    BY <2>1 DEF QuietInv
<1>13. ASSUME NEW w \in Workers, SpanEnd(w) PROVE QuietInv'
  <2>1. recording[w] /\ UNCHANGED enabled /\ phase = "run" /\ phase' = "run"
    BY <1>13 DEF SpanEnd, CanCall
  <2>2. enabled
    BY <2>1 DEF QuietInv
  <2> QED
    BY <2>1, <2>2 DEF QuietInv
<1>14. ASSUME NEW w \in Workers, Unregister(w) PROVE QuietInv'
  BY <1>14, <1>u DEF Unregister, CanCall
<1>15. ASSUME NEW w \in Workers, Link(w) PROVE QuietInv'
  BY <1>15, <1>u DEF Link
<1>16. ASSUME NEW w \in Workers, Unlink(w) PROVE QuietInv'
  BY <1>16, <1>u DEF Unlink
<1>17. ASSUME NEW w \in Workers, Free(w) PROVE QuietInv'
  <2>1. /\ staged' = [staged EXCEPT ![tls[w]] = <<>>]
        /\ UNCHANGED <<phase, enabled, recording>>
    BY <1>17 DEF Free
  <2>2. staged \in [Ctx -> Seq(1..MaxEnds)]
    BY DEF TypeOK
  <2>3. \A c \in Ctx : staged[c] = <<>> => staged'[c] = <<>>
    BY <2>1, <2>2
  <2> QED
    BY <2>1, <2>3 DEF QuietInv
<1>18. ASSUME NEW d \in Drainers, DrainCall(d) PROVE QuietInv'
  BY <1>18, <1>u DEF DrainCall
<1>19. ASSUME NEW p \in Threads, LockDrain(p) PROVE QuietInv'
  BY <1>19, <1>u DEF LockDrain
<1>20. ASSUME NEW p \in Threads, ReadLock(p) PROVE QuietInv'
  BY <1>20, <1>u DEF ReadLock
<1>21. ASSUME NEW p \in Threads, WriteLock(p) PROVE QuietInv'
  BY <1>21, <1>u DEF WriteLock, AfterWriteLock
<1>22. ASSUME NEW p \in Threads, Begin(p) PROVE QuietInv'
  BY <1>22, <1>u DEF Begin
<1>23. ASSUME NEW p \in Threads, Load(p) PROVE QuietInv'
  BY <1>23, <1>u DEF Load
<1>24. ASSUME NEW p \in Threads, Emit(p) PROVE QuietInv'
  BY <1>24, <1>u DEF Emit
<1>25. ASSUME NEW p \in Threads, Store(p) PROVE QuietInv'
  <2>1. UNCHANGED <<phase, enabled, recording>>
    BY <1>25 DEF Store
  <2>2. \A c \in Ctx : staged[c] = <<>> => staged'[c] = <<>>
    BY <1>25, StoreEmpties
  <2> QED
    BY <2>1, <2>2 DEF QuietInv
<1>26. ASSUME NEW p \in Threads, Flush(p) PROVE QuietInv'
  BY <1>26, <1>u DEF Flush
<1>27. ASSUME NEW p \in Threads, End(p) PROVE QuietInv'
  BY <1>27, <1>u DEF End
<1>28. ASSUME NEW p \in Threads, Unlock(p) PROVE QuietInv'
  BY <1>28, <1>u DEF Unlock
<1>29. CASE UNCHANGED vars
  BY <1>29, <1>u DEF vars
<1> QED
  BY <1>1, <1>2, <1>3, <1>4, <1>5, <1>6, <1>7, <1>8, <1>9, <1>10, <1>11,
     <1>12, <1>13, <1>14, <1>15, <1>16, <1>17, <1>18, <1>19, <1>20, <1>21,
     <1>22, <1>23, <1>24, <1>25, <1>26, <1>27, <1>28, <1>29
     DEF Next, Configure, Work, Continue, Pass

\* Every step keeps FinalInv.
LEMMA FinalStep ==
  ASSUME TypeOK, LocalsInv, ControlInv, HeapInv, QuietInv, FinalInv, [Next]_vars
  PROVE  FinalInv'
<1> USE TracerAssumption
<1> USE DEF config, locks, heap, cursors, spans, work, Goto

<1>t. /\ pc \in [Threads -> Labels] /\ Workers \subseteq Threads /\ Main \notin Workers
      /\ Workers \cap Drainers = {}
      /\ staged \in [Ctx -> Seq(1..MaxEnds)] /\ NoCtx \notin Ctx
      /\ tls \in [Workers -> Ctx \cup {NoCtx}] /\ walk \in [Threads -> Ctx \cup {NoCtx}]
      /\ lim \in [Threads -> Nat]
  BY DEF TypeOK, Threads, Ctx
<1>h. \A p \in Threads : pc[p] \in Holding <=> drainLock = p
  BY DEF ControlInv
<1>o. \A v, w \in Workers : v # w /\ tls[v] # NoCtx => tls[v] # tls[w]
  BY DEF HeapInv, TlsInv
<1>l. \A w \in Workers : pc[w] \in {"load", "emit", "flush", "end", "unlink", "free"} =>
          tls[w] # NoCtx
  BY DEF HeapInv, TlsInv, Leaving, Holding, Draining
<1>k. \A w \in Workers : pc[w] \in {"load", "emit"} => walk[w] = tls[w]
  BY DEF HeapInv, WalkInv
<1>v. ASSUME UNCHANGED <<staged, tls>>,
             \A w \in Workers :
                 /\ pc'[w] = "emit" => pc[w] = "emit" /\ lim'[w] = lim[w] /\ walk'[w] = walk[w]
                 /\ pc'[w] \in {"flush", "end", "unlink", "free"} =>
                       pc[w] \in {"flush", "end", "unlink", "free"}
      PROVE  FinalInv'
  BY <1>v DEF FinalInv
<1>u. ASSUME UNCHANGED <<staged, tls, pc, lim, walk>> PROVE FinalInv'
  BY <1>u, <1>v
<1>1. CASE OtelInit
  <2>1. \A w \in Workers : pc'[w] = "idle"
    BY <1>1, <1>t DEF OtelInit, ControlInv, Threads
  <2> QED
    BY <2>1 DEF FinalInv
<1>2. CASE SetTransport
  BY <1>2, <1>t, <1>v DEF SetTransport, MayCall
<1>3. CASE SetEnabled
  BY <1>3, <1>t, <1>v DEF SetEnabled, MayCall
<1>4. CASE SetSpanSink
  BY <1>4, <1>t, <1>v DEF SetSpanSink, MayCall
<1>5. CASE SetSinkPresent
  BY <1>5, <1>t, <1>v DEF SetSinkPresent
<1>6. CASE RecomputeEnabled
  BY <1>6, <1>t, <1>v DEF RecomputeEnabled
<1>7. CASE StartThreads
  BY <1>7, <1>u DEF StartThreads
<1>8. CASE StopThreads
  <2>1. \A w \in Workers : pc'[w] = "idle"
    BY <1>8, <1>t DEF StopThreads, ControlInv, Threads
  <2> QED
    BY <2>1 DEF FinalInv
<1>9. CASE Shutdown
  BY <1>9, <1>t, <1>v DEF Shutdown
<1>10. CASE FreeAll
  <2>1. \A w \in Workers : pc'[w] = "idle"
    BY <1>10, <1>t DEF FreeAll, ControlInv, Threads
  <2> QED
    BY <2>1 DEF FinalInv
<1>11. ASSUME NEW w \in Workers, Register(w) PROVE FinalInv'
  <2>1. /\ UNCHANGED <<staged, tls, lim>> /\ pc' = [pc EXCEPT ![w] = "link"]
        /\ \A v \in Workers : v # w => walk'[v] = walk[v]
    BY <1>11, <1>t DEF Register
  <2> QED
    BY <1>t, <1>v, <2>1
<1>12. ASSUME NEW w \in Workers, SpanStart(w) PROVE FinalInv'
  BY <1>12, <1>u DEF SpanStart
<1>13. ASSUME NEW w \in Workers, SpanEnd(w) PROVE FinalInv'
  <2>1. UNCHANGED <<tls, pc, lim, walk>> /\ pc[w] = "idle"
    BY <1>13 DEF SpanEnd, CanCall
  <2>2. \A c \in Ctx : c # tls[w] => staged'[c] = staged[c]
    BY <1>13, <1>t DEF SpanEnd
  <2>3. \A v \in Workers : pc[v] \in {"load", "emit", "flush", "end", "unlink", "free"} =>
            staged'[tls[v]] = staged[tls[v]]
    BY <1>t, <1>o, <1>l, <2>1, <2>2
  <2> QED
    BY <1>k, <2>1, <2>3 DEF FinalInv
<1>14. ASSUME NEW w \in Workers, Unregister(w) PROVE FinalInv'
  BY <1>14, <1>t, <1>v DEF Unregister, CanCall
<1>15. ASSUME NEW w \in Workers, Link(w) PROVE FinalInv'
  <2>1. /\ pc' = [pc EXCEPT ![w] = "idle"] /\ UNCHANGED <<staged, lim>>
        /\ \A v \in Workers : v # w => walk'[v] = walk[v] /\ tls'[v] = tls[v]
    BY <1>15, <1>t DEF Link
  <2> QED
    BY <1>t, <2>1 DEF FinalInv
<1>16. ASSUME NEW w \in Workers, Unlink(w) PROVE FinalInv'
  <2>1. pc' = [pc EXCEPT ![w] = "free"] /\ pc[w] = "unlink" /\ UNCHANGED <<staged, tls, lim, walk>>
    BY <1>16 DEF Unlink
  <2> QED
    BY <1>t, <1>v, <2>1
<1>17. ASSUME NEW w \in Workers, Free(w) PROVE FinalInv'
  <2>1. /\ pc' = [pc EXCEPT ![w] = "idle"] /\ pc[w] = "free" /\ UNCHANGED <<lim, walk>>
        /\ tls' = [tls EXCEPT ![w] = NoCtx]
        /\ staged' = [staged EXCEPT ![tls[w]] = <<>>]
    BY <1>17 DEF Free
  <2>2. \A v \in Workers : v # w /\ pc[v] \in {"load", "emit", "flush", "end", "unlink", "free"} =>
            staged'[tls[v]] = staged[tls[v]] /\ tls'[v] = tls[v]
    BY <1>t, <1>o, <1>l, <2>1
  <2> QED
    BY <1>t, <1>k, <2>1, <2>2 DEF FinalInv
<1>18. ASSUME NEW d \in Drainers, DrainCall(d) PROVE FinalInv'
  BY <1>18, <1>t, <1>v DEF DrainCall
<1>19. ASSUME NEW p \in Threads, LockDrain(p) PROVE FinalInv'
  BY <1>19, <1>t, <1>v DEF LockDrain
<1>20. ASSUME NEW p \in Threads, ReadLock(p) PROVE FinalInv'
  BY <1>20, <1>t, <1>v DEF ReadLock
<1>21. ASSUME NEW p \in Threads, WriteLock(p) PROVE FinalInv'
  <2>1. /\ pc[p] = "registry_lock" /\ p \in Workers /\ UNCHANGED <<staged, tls, lim, walk, phase, enabled>>
        /\ pc' = [pc EXCEPT ![p] = AfterWriteLock]
    BY <1>21 DEF WriteLock
  <2>2. CASE enabled
    BY <1>t, <1>v, <2>1, <2>2 DEF AfterWriteLock
  <2>3. CASE ~enabled
    <3>1. phase = "run"
      BY <1>t, <2>1, ZenonT(30) DEF ControlInv
    <3>2. \A c \in Ctx : staged[c] = <<>>
      BY <2>3, <3>1 DEF QuietInv
    <3>3. tls[p] \in Ctx
      BY <1>t, <2>1 DEF HeapInv, TlsInv, Leaving, Holding
    <3> QED
      BY <1>t, <2>1, <3>2, <3>3, <2>3 DEF FinalInv, AfterWriteLock
  <2> QED
    BY <2>2, <2>3
<1>22. ASSUME NEW p \in Threads, Begin(p) PROVE FinalInv'
  <2>1. /\ UNCHANGED <<staged, tls, lim>> /\ pc[p] = "begin"
        /\ \A q \in Threads : q # p => pc'[q] = pc[q] /\ walk'[q] = walk[q]
    BY <1>22, <1>t DEF Begin
  <2>2. p \in Workers => pc'[p] = "load"
    <3>1. p \in Workers => tls[p] # NoCtx
      BY <2>1 DEF HeapInv, TlsInv, Leaving, Holding, Draining
    <3> QED
      BY <1>22, <1>t, <3>1 DEF Begin
  <2> QED
    BY <1>t, <1>v, <2>1, <2>2
<1>23. ASSUME NEW p \in Threads, Load(p) PROVE FinalInv'
  <2>1. /\ pc[p] = "load" /\ pc' = [pc EXCEPT ![p] = "emit"]
        /\ lim' = [lim EXCEPT ![p] = Len(staged[walk[p]])] /\ UNCHANGED <<staged, tls, walk>>
    BY <1>23 DEF Load
  <2> QED
    BY <1>t, <2>1 DEF FinalInv
<1>24. ASSUME NEW p \in Threads, Emit(p) PROVE FinalInv'
  BY <1>24, <1>u DEF Emit
<1>25. ASSUME NEW p \in Threads, Store(p) PROVE FinalInv'
  <2>1. /\ UNCHANGED tls /\ pc[p] = "emit"
        /\ \A q \in Threads : q # p => pc'[q] = pc[q] /\ walk'[q] = walk[q] /\ lim'[q] = lim[q]
        /\ pc'[p] # "emit"
    BY <1>25, <1>t DEF Store, AfterRing
  <2>2. \A q \in Threads : q # p => pc[q] \notin Holding
    BY <1>t, <1>h, <2>1 DEF Holding, Draining
  <2>3. /\ lim[p] = Len(staged[walk[p]]) => staged'[walk[p]] = <<>>
        /\ \A c \in Ctx : staged[c] = <<>> => staged'[c] = <<>>
    BY <1>25, StoreEmpties
  <2>4. ASSUME NEW w \in Workers, w # p
        PROVE  /\ pc'[w] # "emit"
               /\ pc'[w] \in {"flush", "end", "unlink", "free"} => staged'[tls[w]] = <<>>
    BY <1>t, <1>l, <2>1, <2>2, <2>3, <2>4 DEF FinalInv, Holding, Draining
  <2>5. p \in Workers => staged'[tls[p]] = <<>>
    BY <1>k, <2>1, <2>3 DEF FinalInv
  <2> QED
    BY <2>1, <2>4, <2>5 DEF FinalInv
<1>26. ASSUME NEW p \in Threads, Flush(p) PROVE FinalInv'
  BY <1>26, <1>t, <1>v DEF Flush
<1>27. ASSUME NEW p \in Threads, End(p) PROVE FinalInv'
  BY <1>27, <1>t, <1>v DEF End
<1>28. ASSUME NEW p \in Threads, Unlock(p) PROVE FinalInv'
  BY <1>28, <1>t, <1>v DEF Unlock
<1>29. CASE UNCHANGED vars
  BY <1>29, <1>u DEF vars
<1> QED
  BY <1>1, <1>2, <1>3, <1>4, <1>5, <1>6, <1>7, <1>8, <1>9, <1>10, <1>11,
     <1>12, <1>13, <1>14, <1>15, <1>16, <1>17, <1>18, <1>19, <1>20, <1>21,
     <1>22, <1>23, <1>24, <1>25, <1>26, <1>27, <1>28, <1>29
     DEF Next, Configure, Work, Continue, Pass

\* On a list without repetitions ctx->next is the entry after ctx.
LEMMA NextCtxAt ==
  ASSUME threads \in Seq(Ctx), Distinct(threads), NEW k \in 1..Len(threads)
  PROVE  NextCtx(threads[k]) = IF k < Len(threads) THEN threads[k + 1] ELSE NoCtx
<1> DEFINE later == {i \in 2..Len(threads) : threads[i - 1] = threads[k]}
<1>1. NextCtx(threads[k]) = IF later = {} THEN NoCtx ELSE threads[CHOOSE i \in later : TRUE]
  BY DEF NextCtx
<1>2. \A i \in later : i = k + 1
  <2> SUFFICES ASSUME NEW i \in 2..Len(threads), threads[i - 1] = threads[k] PROVE i = k + 1
    OBVIOUS
  <2>1. i - 1 \in 1..Len(threads)
    OBVIOUS
  <2>2. i - 1 = k
    BY <2>1 DEF Distinct
  <2> QED
    BY <2>2
<1>3. CASE k < Len(threads)
  <2>1. k + 1 \in later
    <3>1. k + 1 \in 2..Len(threads) /\ (k + 1) - 1 = k
      BY <1>3
    <3> QED
      BY <3>1
  <2> HIDE DEF later
  <2>2. later # {} /\ (CHOOSE i \in later : TRUE) = k + 1
    BY <1>2, <2>1
  <2> QED
    BY <1>1, <1>3, <2>2
<1>4. CASE ~(k < Len(threads))
  <2>1. later = {}
    <3> SUFFICES ASSUME NEW i \in later PROVE FALSE
      OBVIOUS
    <3>1. i \in 2..Len(threads) /\ i = k + 1
      BY <1>2
    <3> QED
      BY <1>4, <3>1
  <2> QED
    BY <1>1, <1>4, <2>1
<1> QED
  BY <1>3, <1>4

\* Every step keeps LastPassInv.
LEMMA LastPassStep ==
  ASSUME TypeOK, LocalsInv, ControlInv, HeapInv, QuietInv, LastPassInv, [Next]_vars
  PROVE  LastPassInv'
<1> USE TracerAssumption
<1> USE DEF config, locks, heap, cursors, spans, work, Goto

<1>t. /\ pc \in [Threads -> Labels] /\ Main \in Threads /\ Main \notin Workers /\ Main \notin Drainers
      /\ Workers \subseteq Threads /\ Drainers \subseteq Threads
      /\ threads \in Seq(Ctx) /\ Len(threads) \in Nat
  BY SMTT(30) DEF TypeOK, Threads
<1>c. ControlInv'
  BY ControlStep
<1>r. ASSUME phase' # "stop" PROVE LastPassInv'
  BY <1>c, <1>r DEF ControlInv, LastPassInv, Holding, Draining
<1>q. \A p \in Threads : pc[p] # "idle" /\ p # Main => phase = "run"
  BY DEF ControlInv
<1>e. ASSUME phase = "stop", \A k \in 1..Len(threads) : staged[threads[k]] = <<>>
      PROVE  \A c \in Ctx : staged[c] = <<>>
  BY <1>e DEF HeapInv, OwnerInv, Elements
<1>v. ASSUME UNCHANGED <<threads, walk, lim, staged>>,
             pc'[Main] \in {"load", "emit"} => pc'[Main] = pc[Main],
             pc'[Main] \in {"flush", "end", "unlock", "free_all"} =>
                 pc[Main] \in {"flush", "end", "unlock", "free_all"}
      PROVE  LastPassInv'
  BY <1>v DEF LastPassInv
<1>u. ASSUME UNCHANGED <<threads, walk, lim, staged, pc>> PROVE LastPassInv'
  BY <1>u, <1>v
<1>1. CASE OtelInit
  BY <1>1, <1>t, <1>q, <1>r DEF OtelInit
<1>2. CASE SetTransport
  BY <1>2, <1>t, <1>v DEF SetTransport, MayCall
<1>3. CASE SetEnabled
  BY <1>3, <1>t, <1>v DEF SetEnabled, MayCall
<1>4. CASE SetSpanSink
  BY <1>4, <1>t, <1>v DEF SetSpanSink, MayCall
<1>5. CASE SetSinkPresent
  BY <1>5, <1>t, <1>v DEF SetSinkPresent
<1>6. CASE RecomputeEnabled
  BY <1>6, <1>t, <1>v DEF RecomputeEnabled
<1>7. CASE StartThreads
  BY <1>7, <1>t, <1>q, <1>r DEF StartThreads
<1>8. CASE StopThreads
  BY <1>8, <1>t DEF StopThreads, LastPassInv
<1>9. CASE Shutdown
  <2>1. /\ pc' = [pc EXCEPT ![Main] = IF enabled THEN "drain_lock" ELSE "free_all"]
        /\ UNCHANGED staged /\ phase = "stop"
    BY <1>9 DEF Shutdown
  <2>2. ~enabled => \A c \in Ctx : staged[c] = <<>>
    BY <2>1 DEF QuietInv
  <2> QED
    BY <1>t, <2>1, <2>2 DEF LastPassInv
<1>10. CASE FreeAll
  BY <1>10, <1>r DEF FreeAll
<1>11. ASSUME NEW w \in Workers, Register(w) PROVE LastPassInv'
  BY <1>11, <1>t, <1>q, <1>r DEF Register, CanCall
<1>12. ASSUME NEW w \in Workers, SpanStart(w) PROVE LastPassInv'
  BY <1>12, <1>t, <1>q, <1>r DEF SpanStart, CanCall
<1>13. ASSUME NEW w \in Workers, SpanEnd(w) PROVE LastPassInv'
  BY <1>13, <1>t, <1>q, <1>r DEF SpanEnd, CanCall
<1>14. ASSUME NEW w \in Workers, Unregister(w) PROVE LastPassInv'
  BY <1>14, <1>t, <1>q, <1>r DEF Unregister, CanCall
<1>15. ASSUME NEW w \in Workers, Link(w) PROVE LastPassInv'
  BY <1>15, <1>t, <1>q, <1>r DEF Link
<1>16. ASSUME NEW w \in Workers, Unlink(w) PROVE LastPassInv'
  BY <1>16, <1>t, <1>q, <1>r DEF Unlink
<1>17. ASSUME NEW w \in Workers, Free(w) PROVE LastPassInv'
  BY <1>17, <1>t, <1>q, <1>r DEF Free
<1>18. ASSUME NEW d \in Drainers, DrainCall(d) PROVE LastPassInv'
  BY <1>18, <1>t, <1>q, <1>r DEF DrainCall
<1>19. ASSUME NEW p \in Threads, LockDrain(p) PROVE LastPassInv'
  <2>1. CASE p # Main
    BY <1>19, <1>q, <1>r, <2>1 DEF LockDrain
  <2>2. CASE p = Main
    BY <1>19, <1>t, <1>v, <2>2 DEF LockDrain
  <2> QED
    BY <2>1, <2>2
<1>20. ASSUME NEW p \in Threads, ReadLock(p) PROVE LastPassInv'
  <2>1. CASE p # Main
    BY <1>20, <1>q, <1>r, <2>1 DEF ReadLock
  <2>2. CASE p = Main
    BY <1>20, <1>t, <1>v, <2>2 DEF ReadLock
  <2> QED
    BY <2>1, <2>2
<1>21. ASSUME NEW p \in Threads, WriteLock(p) PROVE LastPassInv'
  <2>1. CASE p # Main
    BY <1>21, <1>q, <1>r, <2>1 DEF WriteLock
  <2>2. CASE p = Main
    BY <1>21, <1>t, <1>v, <2>2 DEF WriteLock
  <2> QED
    BY <2>1, <2>2
<1>22. ASSUME NEW p \in Threads, Begin(p) PROVE LastPassInv'
  <2>1. CASE p # Main
    BY <1>22, <1>q, <1>r, <2>1 DEF Begin
  <2>2. CASE p = Main
    <3>1. /\ walk' = [walk EXCEPT ![Main] = IF threads = <<>> THEN NoCtx ELSE Head(threads)]
          /\ UNCHANGED <<threads, staged>>
          /\ pc' = [pc EXCEPT ![Main] =
                      IF (IF threads = <<>> THEN NoCtx ELSE Head(threads)) = NoCtx
                      THEN "flush" ELSE "load"]
      BY <1>22, <1>t, <2>2 DEF Begin
    <3>2. phase = "stop" /\ walk \in [Threads -> Ctx \cup {NoCtx}]
      BY <1>22, <2>2 DEF Begin, ControlInv, Holding, Draining, TypeOK
    <3>3. CASE threads = <<>>
      <4>1. \A c \in Ctx : staged[c] = <<>>
        <5>1. 1..Len(threads) = {}
          BY <3>3
        <5> QED
          BY <1>e, <3>2, <5>1
      <4>2. pc'[Main] = "flush"
        BY <1>t, <3>1, <3>3
      <4> QED
        BY <3>1, <4>1, <4>2 DEF LastPassInv
    <3>4. CASE threads # <<>>
      <4>1. 1 \in 1..Len(threads) /\ Head(threads) = threads[1] /\ Head(threads) \in Ctx
        BY <1>t, <3>4
      <4>2. pc'[Main] = "load" /\ walk'[Main] = threads[1]
        BY <1>t, <3>1, <3>2, <3>4, <4>1 DEF Ctx
      <4>3. \A j \in 1..(1 - 1) : staged[threads[j]] = <<>>
        OBVIOUS
      <4> QED
        BY <3>1, <4>1, <4>2, <4>3 DEF LastPassInv
    <3> QED
      BY <3>3, <3>4
  <2> QED
    BY <2>1, <2>2
<1>23. ASSUME NEW p \in Threads, Load(p) PROVE LastPassInv'
  <2>1. CASE p # Main
    BY <1>23, <1>q, <1>r, <2>1 DEF Load
  <2>2. CASE p = Main
    <3>1. /\ pc[Main] = "load" /\ pc' = [pc EXCEPT ![Main] = "emit"]
          /\ lim' = [lim EXCEPT ![Main] = Len(staged[walk[Main]])]
          /\ UNCHANGED <<threads, walk, staged>> /\ lim \in [Threads -> Nat]
      BY <1>23, <2>2 DEF Load, TypeOK
    <3> QED
      BY <1>t, <3>1 DEF LastPassInv
  <2> QED
    BY <2>1, <2>2
<1>24. ASSUME NEW p \in Threads, Emit(p) PROVE LastPassInv'
  BY <1>24, <1>u DEF Emit
<1>25. ASSUME NEW p \in Threads, Store(p) PROVE LastPassInv'
  <2>1. CASE p # Main
    BY <1>25, <1>q, <1>r, <2>1 DEF Store
  <2>2. CASE p = Main
    <3>1. /\ pc[Main] = "emit" /\ UNCHANGED threads
          /\ walk' = [walk EXCEPT ![Main] = NextCtx(walk[Main])]
          /\ pc' = [pc EXCEPT ![Main] = IF NextCtx(walk[Main]) = NoCtx THEN "flush" ELSE "load"]
          /\ walk \in [Threads -> Ctx \cup {NoCtx}]
      BY <1>25, <1>t, <2>2 DEF Store, AfterRing, TypeOK
    <3>2. PICK k \in 1..Len(threads) :
            walk[Main] = threads[k] /\ \A j \in 1..(k - 1) : staged[threads[j]] = <<>>
      BY <3>1 DEF LastPassInv
    <3>3. /\ staged'[threads[k]] = <<>>
          /\ \A c \in Ctx : staged[c] = <<>> => staged'[c] = <<>>
          /\ \A c \in Ctx : c # threads[k] => staged'[c] = staged[c]
      BY <1>25, <2>2, <3>1, <3>2, StoreEmpties DEF LastPassInv
    <3>4. \A j \in 1..k : staged'[threads[j]] = <<>>
      <4> SUFFICES ASSUME NEW j \in 1..k PROVE staged'[threads[j]] = <<>>
        OBVIOUS
      <4>1. CASE j = k
        BY <3>3, <4>1
      <4>2. CASE j # k
        <5>1. j \in 1..(k - 1) /\ threads[j] \in Ctx
          BY <1>t, <4>2
        <5> QED
          BY <3>2, <3>3, <5>1
      <4> QED
        BY <4>1, <4>2
    <3>5. NextCtx(walk[Main]) = IF k < Len(threads) THEN threads[k + 1] ELSE NoCtx
      BY <1>t, <3>2, NextCtxAt DEF HeapInv, ListInv
    <3>6. CASE k < Len(threads)
      <4>1. k + 1 \in 1..Len(threads) /\ (k + 1) - 1 = k
        BY <1>t, <3>6
      <4>2. threads[k + 1] \in Ctx /\ threads[k + 1] # NoCtx
        BY <1>t, <4>1 DEF Ctx
      <4>3. pc'[Main] = "load" /\ walk'[Main] = threads[k + 1]
        BY <1>t, <3>1, <3>5, <3>6, <4>2
      <4> QED
        BY <3>1, <3>4, <4>1, <4>3 DEF LastPassInv
    <3>7. CASE ~(k < Len(threads))
      <4>1. k = Len(threads) /\ pc'[Main] = "flush" /\ phase = "stop"
        BY <1>t, <3>1, <3>5, <3>7 DEF ControlInv, Holding, Draining
      <4>2. \A c \in Ctx : staged'[c] = <<>>
        <5> SUFFICES ASSUME NEW c \in Ctx PROVE staged'[c] = <<>>
          OBVIOUS
        <5>1. CASE c \in live
          <6>1. PICK j \in 1..Len(threads) : threads[j] = c
            BY <4>1, <5>1 DEF HeapInv, OwnerInv, Elements
          <6> QED
            BY <3>4, <4>1, <6>1
        <5>2. CASE c \notin live
          BY <3>3, <5>2 DEF HeapInv, OwnerInv
        <5> QED
          BY <5>1, <5>2
      <4> QED
        BY <4>1, <4>2 DEF LastPassInv
    <3> QED
      BY <3>6, <3>7
  <2> QED
    BY <2>1, <2>2
<1>26. ASSUME NEW p \in Threads, Flush(p) PROVE LastPassInv'
  <2>1. CASE p # Main
    BY <1>26, <1>q, <1>r, <2>1 DEF Flush
  <2>2. CASE p = Main
    BY <1>26, <1>t, <1>v, <2>2 DEF Flush
  <2> QED
    BY <2>1, <2>2
<1>27. ASSUME NEW p \in Threads, End(p) PROVE LastPassInv'
  <2>1. CASE p # Main
    BY <1>27, <1>q, <1>r, <2>1 DEF End
  <2>2. CASE p = Main
    BY <1>27, <1>t, <1>v, <2>2 DEF End
  <2> QED
    BY <2>1, <2>2
<1>28. ASSUME NEW p \in Threads, Unlock(p) PROVE LastPassInv'
  <2>1. CASE p # Main
    BY <1>28, <1>q, <1>r, <2>1 DEF Unlock
  <2>2. CASE p = Main
    BY <1>28, <1>t, <1>v, <2>2 DEF Unlock
  <2> QED
    BY <2>1, <2>2
<1>29. CASE UNCHANGED vars
  BY <1>29, <1>u DEF vars
<1> QED
  BY <1>1, <1>2, <1>3, <1>4, <1>5, <1>6, <1>7, <1>8, <1>9, <1>10, <1>11,
     <1>12, <1>13, <1>14, <1>15, <1>16, <1>17, <1>18, <1>19, <1>20, <1>21,
     <1>22, <1>23, <1>24, <1>25, <1>26, <1>27, <1>28, <1>29
     DEF Next, Configure, Work, Continue, Pass

\* The spans of w that are not lost: emitted, or waiting in its ring.
Kept(w) == Elements(emitted[w]) \cup Waiting(w)

\* What waits of w, ring by ring.
LEMMA WaitingFacts ==
  ASSUME NEW w
  PROVE  \A n : n \in Waiting(w) <=>
             \E c \in live : owner[c] = w /\ n \in Elements(staged[c])
BY DEF Waiting

\* Every step keeps the account of every worker.
LEMMA AccountStep ==
  ASSUME TypeOK, LocalsInv, ControlInv, HeapInv, OrderInv, FinalInv, LastPassInv,
         EverySpanAccounted, [Next]_vars
  PROVE  EverySpanAccounted'
<1> USE TracerAssumption
<1> USE DEF config, locks, heap, cursors, spans, work, Goto

<1>t. /\ pc \in [Threads -> Labels] /\ Workers \subseteq Threads /\ Main \in Threads
      /\ live \subseteq Ctx /\ NoCtx \notin Ctx /\ NoCtx \notin Workers
      /\ tls \in [Workers -> Ctx \cup {NoCtx}]
      /\ walk \in [Threads -> Ctx \cup {NoCtx}]
      /\ owner \in [Ctx -> Workers \cup {NoCtx}]
      /\ pos \in [Threads -> Nat] /\ lim \in [Threads -> Nat]
      /\ ended \in [Workers -> 0..MaxEnds]
      /\ dropped \in [Workers -> 0..MaxEnds]
      /\ staged \in [Ctx -> Seq(1..MaxEnds)]
  BY DEF TypeOK, Threads, Ctx
<1>o. \A c \in live : c \in Ctx /\ owner[c] \in Workers
  BY <1>t DEF HeapInv, OwnerInv
<1>e. emitted \in [Workers -> Seq(1..MaxEnds)]
  BY DEF OrderInv, EmittedOrder
<1>0. Elements(<<>>) = {}
  BY DEF Elements
<1>v. ASSUME UNCHANGED <<ended, dropped>>, \A w \in Workers : Kept(w)' = Kept(w)
      PROVE  EverySpanAccounted'
  BY <1>v DEF EverySpanAccounted, Kept
<1>s. ASSUME UNCHANGED <<ended, dropped, emitted>>,
             \A w \in Workers : \A n : n \in Waiting(w)' <=> n \in Waiting(w)
      PROVE  EverySpanAccounted'
  <2>1. ASSUME NEW w \in Workers PROVE Kept(w)' = Kept(w)
    <3>1. Waiting(w)' = Waiting(w)
      BY <1>s
    <3> QED
      BY <1>s, <3>1 DEF Kept, Elements
  <2> QED
    BY <1>s, <1>v, <2>1
<1>u. ASSUME UNCHANGED <<ended, dropped, emitted, staged, owner, live>>
      PROVE  EverySpanAccounted'
  BY <1>u, <1>s DEF Waiting, Elements
<1>1. CASE OtelInit
  <2>1. live' = {} /\ ended' = [w \in Workers |-> 0] /\ dropped' = [w \in Workers |-> 0]
    BY <1>1 DEF OtelInit, HeapInv, OwnerInv
  <2>2. ASSUME NEW w \in Workers
        PROVE  Cardinality((1..ended'[w]) \ Kept(w)') = dropped'[w]
    <3>1. 1..ended'[w] = {} /\ dropped'[w] = 0
      BY <2>1
    <3>2. (1..ended'[w]) \ Kept(w)' = {}
      BY <3>1
    <3> QED
      BY <3>1, <3>2, FS_EmptySet
  <2> QED
    BY <2>2 DEF EverySpanAccounted, Kept
<1>2. CASE SetTransport
  BY <1>2, <1>u DEF SetTransport
<1>3. CASE SetEnabled
  BY <1>3, <1>u DEF SetEnabled
<1>4. CASE SetSpanSink
  BY <1>4, <1>u DEF SetSpanSink
<1>5. CASE SetSinkPresent
  BY <1>5, <1>u DEF SetSinkPresent
<1>6. CASE RecomputeEnabled
  BY <1>6, <1>u DEF RecomputeEnabled
<1>7. CASE StartThreads
  BY <1>7, <1>u DEF StartThreads
<1>8. CASE StopThreads
  BY <1>8, <1>u DEF StopThreads
<1>9. CASE Shutdown
  BY <1>9, <1>u DEF Shutdown
<1>10. CASE FreeAll
  <2>1. live' = {} /\ UNCHANGED <<ended, dropped, emitted>> /\ pc[Main] = "free_all"
    BY <1>10 DEF FreeAll
  <2>2. \A c \in live : Elements(staged[c]) = {}
    BY <1>0, <1>t, <2>1 DEF LastPassInv
  <2>3. \A w \in Workers : \A n : n \in Waiting(w)' <=> n \in Waiting(w)
    BY <2>1, <2>2 DEF Waiting
  <2> QED
    BY <1>s, <2>1, <2>3
<1>11. ASSUME NEW w \in Workers, Register(w) PROVE EverySpanAccounted'
  <2>1. PICK c \in Ctx : /\ owner[c] = NoCtx /\ live' = live \cup {c}
                         /\ owner' = [owner EXCEPT ![c] = w]
    BY <1>11 DEF Register
  <2>2. UNCHANGED <<emitted, ended, dropped, staged>>
    BY <1>11 DEF Register
  <2>3. c \notin live
    BY <1>t, <1>o, <2>1
  <2>4. Elements(staged'[c]) = {}
    BY <1>0, <2>2, <2>3 DEF HeapInv, OwnerInv
  <2>5. \A d \in live : owner'[d] = owner[d] /\ staged'[d] = staged[d]
    BY <1>t, <1>o, <2>1, <2>2, <2>3
  <2>6. \A v \in Workers : \A n : n \in Waiting(v)' <=> n \in Waiting(v)
    <3>1. \A v \in Workers : \A n : n \in Waiting(v)' <=>
              \E d \in live' : owner'[d] = v /\ n \in Elements(staged'[d])
      BY DEF Waiting, Elements
    <3>2. \A d \in live' : (d \in live \/ d = c)
      BY <2>1
    <3>3. \A d \in live : d \in live'
      BY <2>1
    <3>4. ASSUME NEW v \in Workers, NEW n, n \in Waiting(v)' PROVE n \in Waiting(v)
      <4>1. PICK d \in live' : owner'[d] = v /\ n \in Elements(staged'[d])
        BY <3>1, <3>4
      <4>2. d \in live
        BY <2>4, <3>2, <4>1
      <4> QED
        BY <2>5, <4>1, <4>2, WaitingFacts
    <3>5. ASSUME NEW v \in Workers, NEW n, n \in Waiting(v) PROVE n \in Waiting(v)'
      <4>1. PICK d \in live : owner[d] = v /\ n \in Elements(staged[d])
        BY <3>5, WaitingFacts
      <4> QED
        BY <2>5, <3>1, <3>3, <4>1
    <3> QED
      BY <3>4, <3>5
  <2> QED
    BY <1>s, <2>2, <2>6
<1>12. ASSUME NEW w \in Workers, SpanStart(w) PROVE EverySpanAccounted'
  BY <1>12, <1>u DEF SpanStart
<1>13. ASSUME NEW w \in Workers, SpanEnd(w) PROVE EverySpanAccounted'
  <2>c. PICK c \in Ctx \cup {NoCtx} : c = tls[w]
    BY <1>t
  <2>n. PICK n \in 1..MaxEnds : n = ended[w] + 1
    <3>1. ended[w] \in 0..MaxEnds /\ ended[w] < MaxEnds
      BY <1>13, <1>t DEF SpanEnd, LocalsInv
    <3> QED
      BY <3>1
  <2>1. UNCHANGED <<emitted, owner, live>> /\ ended' = [ended EXCEPT ![w] = n]
    BY <1>13, <2>n DEF SpanEnd
  <2>2. ended'[w] = n /\ \A v \in Workers : v # w => ended'[v] = ended[v]
    BY <1>t, <2>1
  <2>3. n \notin Kept(w)
    <3>1. n \notin Elements(emitted[w])
      <4> SUFFICES ASSUME NEW i \in 1..Len(emitted[w]), emitted[w][i] = n PROVE FALSE
        BY DEF Elements
      <4> QED
        BY <1>t, <2>n DEF OrderInv, EmittedOrder
    <3>2. n \notin Waiting(w)
      <4> SUFFICES ASSUME NEW d \in live, owner[d] = w,
                          NEW k \in 1..Len(staged[d]), staged[d][k] = n
                   PROVE  FALSE
        BY DEF Waiting, Elements
      <4> QED
        BY <1>t, <2>n, SMTT(30) DEF OrderInv, RingOrder
    <3> QED
      BY <3>1, <3>2 DEF Kept

  <2>4. \A v \in Workers : Cardinality((1..ended[v]) \ Kept(v)) = dropped[v]
    BY DEF EverySpanAccounted, Kept
  <2>5. CASE Refuses(c)
    <3>1. UNCHANGED staged /\ dropped' = [dropped EXCEPT ![w] = @ + 1]
      BY <1>13, <2>c, <2>5 DEF SpanEnd, Drops
    <3>2. \A v \in Workers : Kept(v)' = Kept(v)
      BY <2>1, <3>1 DEF Kept, Waiting, Elements
    <3>3. PICK L : L = (1..ended[w]) \ Kept(w)
      OBVIOUS
    <3>4. IsFiniteSet(L) /\ n \notin L
      <4>1. ended[w] \in Nat
        BY <1>t
      <4>2. IsFiniteSet(1..ended[w])
        BY <4>1, FS_Interval
      <4>3. L \subseteq 1..ended[w]
        BY <3>3
      <4>4. n \notin 1..ended[w]
        BY <2>n, <4>1
      <4> QED
        BY <4>2, <4>3, <4>4, FS_Subset, Zenon
    <3>5. (1..ended'[w]) \ Kept(w)' = L \cup {n}
      <4>1. 1..ended'[w] = (1..ended[w]) \cup {n}
        BY <1>t, <2>n, <2>2, SMTT(60)
      <4> QED
        BY <2>3, <3>2, <3>3, <4>1
    <3>6. Cardinality(L \cup {n}) = Cardinality(L) + 1
      BY <3>4, FS_AddElement
    <3>7. dropped'[w] = dropped[w] + 1 /\ \A v \in Workers : v # w => dropped'[v] = dropped[v]
      BY <1>t, <3>1
    <3>8. Cardinality((1..ended'[w]) \ Kept(w)') = dropped'[w]
      BY <2>4, <3>3, <3>5, <3>6, <3>7
    <3>9. \A v \in Workers : v # w => Cardinality((1..ended'[v]) \ Kept(v)') = dropped'[v]
      BY <2>2, <2>4, <3>2, <3>7
    <3> QED
      BY <3>8, <3>9 DEF EverySpanAccounted, Kept
  <2>6. CASE ~Refuses(c)
    <3>1. UNCHANGED dropped /\ staged' = [staged EXCEPT ![c] = Append(@, n)]
      BY <1>13, <2>c, <2>n, <2>6 DEF SpanEnd
    <3>2. c \in live /\ owner[c] = w /\ c \in Ctx
      BY <1>t, <2>c, <2>6 DEF Refuses, HeapInv, TlsInv
    <3>3. /\ staged'[c] = Append(staged[c], n)
          /\ \A d \in Ctx : d # c => staged'[d] = staged[d]
      BY <1>t, <3>1, <3>2
    <3>4. Elements(staged'[c]) = Elements(staged[c]) \cup {n}
      <4>1. staged[c] \in Seq(1..MaxEnds)
        BY <1>t, <3>2
      <4> QED
        BY <3>3, <4>1, AppendFacts
    <3>5. Kept(w)' = Kept(w) \cup {n}
      <4>1. \A m : m \in Waiting(w)' <=>
                \E d \in live' : owner'[d] = w /\ m \in Elements(staged'[d])
        BY DEF Waiting, Elements
      <4>2. \A m : m \in Waiting(w)' <=> m \in Waiting(w) \/ m = n
        <5>1. \A d \in live : d # c => staged'[d] = staged[d]
          BY <1>t, <3>3
        <5>2. \A d \in live : owner[d] = w => d = c
          BY <3>2 DEF HeapInv, OwnerInv
        <5>3. \A m : m \in Waiting(w)' <=> m \in Elements(staged'[c])
          BY <2>1, <3>2, <4>1, <5>2, Zenon
        <5>4. \A m : m \in Waiting(w) <=> m \in Elements(staged[c])
          BY <3>2, <5>2, WaitingFacts, Zenon
        <5> QED
          BY <3>4, <5>3, <5>4
      <4>3. Elements(emitted[w])' = Elements(emitted[w])
        BY <2>1 DEF Elements
      <4> QED
        BY <4>2, <4>3 DEF Kept
    <3>6. \A v \in Workers : v # w => Kept(v)' = Kept(v)
      <4> SUFFICES ASSUME NEW v \in Workers, v # w PROVE Kept(v)' = Kept(v)
        OBVIOUS
      <4>1. \A m : m \in Waiting(v)' <=>
                \E d \in live' : owner'[d] = v /\ m \in Elements(staged'[d])
        BY DEF Waiting, Elements
      <4>2. \A m : m \in Waiting(v)' <=> m \in Waiting(v)
        BY <1>t, <2>1, <3>2, <3>3, <4>1, WaitingFacts, ZenonT(30)
      <4>3. Elements(emitted[v])' = Elements(emitted[v])
        BY <2>1 DEF Elements
      <4> QED
        BY <4>2, <4>3 DEF Kept
    <3>7. (1..ended'[w]) \ Kept(w)' = (1..ended[w]) \ Kept(w)
      <4>1. 1..ended'[w] = (1..ended[w]) \cup {n}
        BY <1>t, <2>n, <2>2, SMTT(60)
      <4>2. n \notin 1..ended[w]
        BY <1>t, <2>n
      <4> QED
        BY <3>5, <4>1, <4>2
    <3>8. \A v \in Workers : Cardinality((1..ended'[v]) \ Kept(v)') = dropped'[v]
      BY <2>2, <2>4, <3>1, <3>6, <3>7
    <3> QED
      BY <3>8 DEF EverySpanAccounted, Kept
  <2> QED
    BY <2>5, <2>6
<1>14. ASSUME NEW w \in Workers, Unregister(w) PROVE EverySpanAccounted'
  BY <1>14, <1>u DEF Unregister
<1>15. ASSUME NEW w \in Workers, Link(w) PROVE EverySpanAccounted'
  BY <1>15, <1>u DEF Link
<1>16. ASSUME NEW w \in Workers, Unlink(w) PROVE EverySpanAccounted'
  BY <1>16, <1>u DEF Unlink
<1>17. ASSUME NEW w \in Workers, Free(w) PROVE EverySpanAccounted'
  <2>1. PICK c : c = tls[w]
    OBVIOUS
  <2>2. /\ live' = live \ {c} /\ staged' = [staged EXCEPT ![c] = <<>>]
        /\ UNCHANGED <<ended, dropped, emitted, owner>> /\ pc[w] = "free"
    BY <1>17, <2>1 DEF Free
  <2>3. c \in live /\ Elements(staged[c]) = {}
    BY <1>0, <2>1, <2>2 DEF FinalInv, HeapInv, TlsInv, Leaving
  <2>4. \A d \in live' : d \in live /\ staged'[d] = staged[d]
    BY <1>t, <2>2
  <2>5. \A v \in Workers : \A n : n \in Waiting(v)' <=> n \in Waiting(v)
    <3>1. \A v \in Workers : \A n : n \in Waiting(v)' <=>
              \E d \in live' : owner'[d] = v /\ n \in Elements(staged'[d])
      BY DEF Waiting, Elements
    <3> QED
      BY <2>2, <2>3, <2>4, <3>1, WaitingFacts
  <2> QED
    BY <1>s, <2>2, <2>5
<1>18. ASSUME NEW d \in Drainers, DrainCall(d) PROVE EverySpanAccounted'
  BY <1>18, <1>u DEF DrainCall
<1>19. ASSUME NEW p \in Threads, LockDrain(p) PROVE EverySpanAccounted'
  BY <1>19, <1>u DEF LockDrain
<1>20. ASSUME NEW p \in Threads, ReadLock(p) PROVE EverySpanAccounted'
  BY <1>20, <1>u DEF ReadLock
<1>21. ASSUME NEW p \in Threads, WriteLock(p) PROVE EverySpanAccounted'
  BY <1>21, <1>u DEF WriteLock
<1>22. ASSUME NEW p \in Threads, Begin(p) PROVE EverySpanAccounted'
  BY <1>22, <1>u DEF Begin
<1>23. ASSUME NEW p \in Threads, Load(p) PROVE EverySpanAccounted'
  BY <1>23, <1>u DEF Load
<1>24. ASSUME NEW p \in Threads, Emit(p) PROVE EverySpanAccounted'
  <2>c. PICK c \in Ctx : c = walk[p] /\ c \in live
    BY <1>24, <1>t DEF Emit, HeapInv, WalkInv, ListInv
  <2>w. PICK w \in Workers : w = owner[c]
    BY <1>o, <2>c
  <2>m. PICK k \in Nat : k = pos[p] + 1 /\ pos[p] < lim[p]
    BY <1>24, <1>t DEF Emit
  <2>1. /\ UNCHANGED <<ended, dropped, staged, owner, live>>
        /\ emitted' = [emitted EXCEPT ![w] = Append(@, staged[c][k])]
    BY <1>24, <2>c, <2>w, <2>m DEF Emit
  <2>2. k \in 1..Len(staged[c])
    <3>1. lim[p] <= Len(staged[c])
      BY <1>24, <2>c DEF Emit, HeapInv, WalkInv
    <3>2. Len(staged[c]) \in Nat
      BY <1>t
    <3> QED
      BY <1>t, <2>m, <3>1, <3>2, SMTT(30)
  <2>3. PICK n \in 1..MaxEnds : n = staged[c][k]
    <3>1. staged[c] \in Seq(1..MaxEnds)
      BY <1>t
    <3> QED
      BY <2>2, <3>1
  <2>4. /\ emitted'[w] = Append(emitted[w], n)
        /\ \A v \in Workers : v # w => emitted'[v] = emitted[v]
    BY <1>e, <2>1, <2>3
  <2>5. Elements(emitted'[w]) = Elements(emitted[w]) \cup {n}
    <3>1. emitted[w] \in Seq(1..MaxEnds)
      BY <1>e
    <3> QED
      BY <2>4, <3>1, AppendFacts
  <2>6. n \in Waiting(w)
    <3>1. n \in Elements(staged[c])
      BY <2>2, <2>3 DEF Elements
    <3> QED
      BY <2>c, <2>w, <3>1, WaitingFacts
  <2>7. \A v \in Workers : Waiting(v)' = Waiting(v)
    BY <2>1 DEF Waiting, Elements
  <2>8. Kept(w)' = Kept(w)
    <3>1. Elements(emitted[w])' = Elements(emitted[w]) \cup {n}
      BY <2>5 DEF Elements
    <3> QED
      BY <2>6, <2>7, <3>1 DEF Kept
  <2>9. \A v \in Workers : v # w => Kept(v)' = Kept(v)
    BY <2>4, <2>7 DEF Kept, Elements
  <2> QED
    BY <1>v, <2>1, <2>8, <2>9
<1>25. ASSUME NEW p \in Threads, Store(p) PROVE EverySpanAccounted'
  <2>c. PICK c \in Ctx : c = walk[p] /\ c \in live
    BY <1>25, <1>t DEF Store, HeapInv, WalkInv, ListInv
  <2>w. PICK w \in Workers : w = owner[c]
    BY <1>o, <2>c
  <2>q. PICK q \in Seq(1..MaxEnds) : q = staged[c]
    BY <1>t
  <2>m. PICK m \in Nat : m = lim[p] /\ m = pos[p]
    BY <1>25, <1>t DEF Store
  <2>1. /\ UNCHANGED <<ended, dropped, emitted, owner, live>>
        /\ staged' = [staged EXCEPT ![c] = SubSeq(q, m + 1, Len(q))]
        /\ pc[p] = "emit"
    BY <1>25, <2>c, <2>q, <2>m DEF Store, Unreleased
  <2>2. PICK r : r = SubSeq(q, m + 1, Len(q))
    OBVIOUS
  <2>3. staged'[c] = r /\ \A d \in Ctx : d # c => staged'[d] = staged[d]
    BY <1>t, <2>1, <2>2
  <2>4. Len(q) \in Nat /\ m <= Len(q)
    <3>1. Len(q) \in Nat
      OBVIOUS
    <3>2. m <= Len(q)
      BY <2>c, <2>q, <2>m, <2>1 DEF HeapInv, WalkInv
    <3> QED
      BY <3>1, <3>2
  <2>5. /\ r \in Seq(1..MaxEnds) /\ Len(r) = Len(q) - m
        /\ \A i \in 1..Len(r) : r[i] = q[m + i]
    <3>1. /\ r \in Seq(1..MaxEnds)
          /\ Len(r) = IF m <= Len(q) THEN Len(q) - m ELSE 0
      BY <2>2, SuffixFacts, Zenon
    <3>2. \A i \in 1..Len(r) : r[i] = q[m + i]
      <4>1. \A i \in 1..Len(SubSeq(q, m + 1, Len(q))) :
                SubSeq(q, m + 1, Len(q))[i] = q[m + i]
        BY SuffixFacts, ZenonT(30)
      <4> QED
        BY <2>2, <4>1
    <3> QED
      BY <2>4, <3>1, <3>2
  <2>6. ReadOf(c) = m
    BY <1>t, <2>c, <2>m, <2>1, TracerAssumption, SMTT(30) DEF ReadOf, ControlInv, Holding, Draining, Threads
  <2>7. \A i \in 1..m : q[i] \in Elements(emitted[w])
    <3>1. RingOrder(c)
      BY <2>c DEF OrderInv
    <3>2. \A i \in 1..Len(q) : i <= m => q[i] \in Elements(emitted[w])
      BY <2>w, <2>q, <2>6, <3>1 DEF RingOrder
    <3>3. \A i \in 1..m : i \in 1..Len(q) /\ i <= m
      BY <2>4
    <3> QED
      BY <3>2, <3>3
  <2>8. Elements(r) \subseteq Elements(q)
    <3> SUFFICES ASSUME NEW i \in 1..Len(r) PROVE r[i] \in Elements(q)
      BY DEF Elements
    <3>1. m + i \in 1..Len(q) /\ r[i] = q[m + i]
      BY <2>4, <2>5
    <3> QED
      BY <3>1 DEF Elements
  <2>9. Elements(q) \subseteq Elements(r) \cup Elements(emitted[w])
    <3> SUFFICES ASSUME NEW i \in 1..Len(q), i > m PROVE q[i] \in Elements(r)
      <4>1. \A i \in 1..Len(q) : ~(i > m) => i \in 1..m
        BY <2>4
      <4> QED
        BY <2>7, <4>1 DEF Elements
    <3>1. PICK j \in 1..Len(r) : j = i - m
      BY <2>4, <2>5
    <3>2. m + j = i
      BY <3>1, <2>4
    <3>3. r[j] = q[i]
      BY <2>5, <3>2
    <3> QED
      BY <3>3 DEF Elements
  <2>10. \A v \in Workers : \A n : n \in Waiting(v)' <=>
             \E d \in live' : owner'[d] = v /\ n \in Elements(staged'[d])
    BY DEF Waiting, Elements
  <2>11. \A v \in Workers : v # w => Kept(v)' = Kept(v)
    <3> SUFFICES ASSUME NEW v \in Workers, v # w PROVE Kept(v)' = Kept(v)
      OBVIOUS
    <3>1. \A n : n \in Waiting(v)' <=> n \in Waiting(v)
      <4>1. \A d \in live : owner[d] = v => d # c /\ staged'[d] = staged[d]
        BY <1>t, <2>w, <2>3
      <4>2. ASSUME NEW n, n \in Waiting(v)' PROVE n \in Waiting(v)
        <5>1. PICK d \in live : owner[d] = v /\ n \in Elements(staged'[d])
          BY <2>1, <2>10, <4>2
        <5> QED
          BY <4>1, <5>1, WaitingFacts
      <4>3. ASSUME NEW n, n \in Waiting(v) PROVE n \in Waiting(v)'
        <5>1. PICK d \in live : owner[d] = v /\ n \in Elements(staged[d])
          BY <4>3, WaitingFacts
        <5> QED
          BY <2>1, <2>10, <4>1, <5>1
      <4> QED
        BY <4>2, <4>3
    <3>2. Elements(emitted[v])' = Elements(emitted[v])
      BY <2>1 DEF Elements
    <3> QED
      BY <3>1, <3>2 DEF Kept
  <2>12. Kept(w)' = Kept(w)
    <3>1. \A d \in live : owner[d] = w => d = c
      BY <2>c, <2>w DEF HeapInv, OwnerInv
    <3>2. \A n : n \in Waiting(w)' <=> n \in Elements(r)
      <4>1. staged'[c] = r /\ live' = live /\ owner' = owner
        BY <2>c, <2>1, <2>3
      <4>2. \A n : n \in Waiting(w)' <=>
               \E d \in live : owner[d] = w /\ n \in Elements(staged'[d])
        BY <2>w, <2>10, <4>1, Zenon
      <4>3. c \in live /\ owner[c] = w
        BY <2>c, <2>w
      <4> QED
        BY <3>1, <4>1, <4>2, <4>3, Zenon
    <3>3. \A n : n \in Waiting(w) <=> n \in Elements(q)
      BY <2>c, <2>w, <2>q, <3>1, WaitingFacts
    <3>4. Elements(emitted[w])' = Elements(emitted[w])
      BY <2>1 DEF Elements
    <3> QED
      BY <2>8, <2>9, <3>2, <3>3, <3>4 DEF Kept
  <2> QED
    BY <1>v, <2>1, <2>11, <2>12
<1>26. ASSUME NEW p \in Threads, Flush(p) PROVE EverySpanAccounted'
  BY <1>26, <1>u DEF Flush
<1>27. ASSUME NEW p \in Threads, End(p) PROVE EverySpanAccounted'
  BY <1>27, <1>u DEF End
<1>28. ASSUME NEW p \in Threads, Unlock(p) PROVE EverySpanAccounted'
  BY <1>28, <1>u DEF Unlock
<1>29. CASE UNCHANGED vars
  BY <1>29, <1>u DEF vars
<1> QED
  BY <1>1, <1>2, <1>3, <1>4, <1>5, <1>6, <1>7, <1>8, <1>9, <1>10, <1>11,
     <1>12, <1>13, <1>14, <1>15, <1>16, <1>17, <1>18, <1>19, <1>20, <1>21,
     <1>22, <1>23, <1>24, <1>25, <1>26, <1>27, <1>28, <1>29
     DEF Next, Configure, Work, Continue, Pass

\* Unless tracing is switched off in mid-flight, every span a worker ended was
\* emitted, waits in its ring or was counted in otel_dropped_spans: neither a
\* full ring, nor unregistering, nor shutdown loses one silently.
THEOREM AllAccounted ==
  ASSUME "enable" \notin LiveCalls
  PROVE  Spec => []EverySpanAccounted
<1> DEFINE I == EnabledInv /\ QuietInv /\ FinalInv /\ LastPassInv /\ EverySpanAccounted
<1>1. Init => I
  <2> SUFFICES ASSUME Init PROVE I
    OBVIOUS
  <2>1. \A p \in Threads : pc[p] = "idle"
    BY DEF Init
  <2>2. Main \in Threads /\ Workers \subseteq Threads
    BY DEF Threads
  <2>3. EnabledInv
    BY <2>1, <2>2 DEF Init, EnabledInv
  <2>4. QuietInv
    BY DEF Init, QuietInv
  <2>5. FinalInv /\ LastPassInv
    BY <2>1, <2>2 DEF FinalInv, LastPassInv
  <2>6. \A w \in Workers : ended[w] = 0 /\ dropped[w] = 0
    BY DEF Init
  <2>7. EverySpanAccounted
    <3> SUFFICES ASSUME NEW w \in Workers
                 PROVE  Cardinality((1..ended[w]) \ Kept(w)) = dropped[w]
      BY DEF EverySpanAccounted, Kept
    <3>1. 1..ended[w] = {}
      BY <2>6
    <3>2. (1..ended[w]) \ Kept(w) = {}
      BY <3>1
    <3> QED
      BY <2>6, <3>2, FS_EmptySet
  <2> QED
    BY <2>3, <2>4, <2>5, <2>7
<1>2. TypeOK /\ LocalsInv /\ ControlInv /\ HeapInv /\ OrderInv /\ I /\ [Next]_vars => I'
  BY EnabledStep, QuietStep, FinalStep, LastPassStep, AccountStep
<1>3. I => EverySpanAccounted
  OBVIOUS
<1> HIDE DEF I
<1> QED
  BY <1>1, <1>2, <1>3, TypeCorrect, ControlCorrect, HeapCorrect, OrderCorrect, PTL DEF Spec

=============================================================================
