-------------------------- MODULE SpanContextProofs -------------------------
(***************************************************************************)
(* Proofs about SpanContext, for any number of draws, ratios and spans,    *)
(* and about IdGenerator, for any size of a limb.                          *)
(***************************************************************************)
EXTENDS SpanContext, IdGenerator, Integers, TLAPS

-----------------------------------------------------------------------------
(* The sampling decision.                                                  *)

\* The two words of the sampler and the call that is storing them: the threshold
\* is always the one of a ratio that is or was in force, the flag that of the
\* newest, and a root start that went on to draw has seen a ratio below 1.
SamplerInv ==
    /\ always \in BOOLEAN /\ enabled \in BOOLEAN /\ registered \in BOOLEAN
    /\ drawing \in BOOLEAN
    /\ setting \in Ratios \cup {Idle} /\ ratio \in 0..Draws
    /\ threshold = ThresholdOf(ratio)
    /\ always <=> (IF setting = Idle THEN ratio ELSE setting) >= Draws
    /\ drawing =>
           /\ window \subseteq 0..Draws /\ ratio \in window
           /\ setting # Idle => setting \in window
           /\ \E r \in window : r < Draws

\* Every step of either thread keeps SamplerInv.
LEMMA SamplerStep ==
  ASSUME SamplerInv, [ContextNext]_contextVars
  PROVE  SamplerInv'
<1> USE ContextAssumption
<1> USE DEF sampler, contextVars, Idle
<1>1. ASSUME NEW r \in Ratios, SetAlways(r) PROVE SamplerInv'
  <2>1. /\ setting = Idle /\ setting' = r /\ UNCHANGED <<threshold, ratio, enabled, registered, drawing>>
        /\ window' = IF drawing THEN window \cup {r} ELSE window
        /\ r \in 0..Draws /\ r # Idle
    BY <1>1 DEF SetAlways
  <2>2. always' \in BOOLEAN /\ (always' <=> r >= Draws)
    <3>1. always' = (r >= Draws)
      BY <1>1 DEF SetAlways
    <3>2. (r >= Draws) \in BOOLEAN
      BY <2>1
    <3> QED
      BY <3>1, <3>2, Zenon
  <2> QED
    BY <2>1, <2>2 DEF SamplerInv, ThresholdOf
<1>2. CASE SetThreshold
  BY <1>2 DEF SetThreshold, SamplerInv, ThresholdOf
<1>3. CASE SetEnabled
  <2>1. UNCHANGED <<sampler, registered, drawing, window>> /\ enabled' \in BOOLEAN
    BY <1>3 DEF SetEnabled
  <2> QED
    BY <2>1 DEF SamplerInv, ThresholdOf
<1>4. CASE SetRegistered
  <2>1. UNCHANGED <<sampler, enabled, drawing, window>> /\ registered' \in BOOLEAN
    BY <1>4 DEF SetRegistered
  <2> QED
    BY <2>1 DEF SamplerInv, ThresholdOf
<1>5. CASE StartRoot
  <2>1. UNCHANGED <<sampler, enabled, registered>>
    BY <1>5 DEF StartRoot
  <2>2. CASE UNCHANGED <<drawing, window>>
    BY <2>1, <2>2 DEF SamplerInv, ThresholdOf
  <2>3. CASE ~always /\ drawing' = TRUE /\ window' = InForce
    BY <2>1, <2>3 DEF SamplerInv, ThresholdOf, InForce
  <2> QED
    BY <1>5, <2>2, <2>3 DEF StartRoot
<1>6. ASSUME NEW d \in 0..Draws - 1, DrawRoot(d) PROVE SamplerInv'
  BY <1>6 DEF DrawRoot, SamplerInv, ThresholdOf
<1>7. ASSUME NEW i \in 1..Len(seen), StartChild(i) PROVE SamplerInv'
  BY <1>7 DEF StartChild, SamplerInv, ThresholdOf
<1>8. ASSUME NEW i \in 1..Len(seen), StartRemote(i) PROVE SamplerInv'
  BY <1>8 DEF StartRemote, SamplerInv, ThresholdOf
<1>9. CASE UNCHANGED contextVars
  BY <1>9 DEF SamplerInv, ThresholdOf
<1> QED
  BY <1>1, <1>2, <1>3, <1>4, <1>5, <1>6, <1>7, <1>8, <1>9 DEF ContextNext

\* The sampler between and during the two stores of otel_set_sampler.
LEMMA SamplerCorrect == ContextSpec => []SamplerInv
<1>1. ContextInit => SamplerInv
  <2> SUFFICES ASSUME ContextInit PROVE SamplerInv
    OBVIOUS
  <2>1. Draws \in Nat /\ Draws # 0
    BY ContextAssumption
  <2>2. setting = Idle /\ ratio = Draws /\ threshold = Draws - 1 /\ always /\ ~drawing
    BY DEF ContextInit
  <2>3. ratio \in 0..Draws /\ threshold = ThresholdOf(ratio) /\ ratio >= Draws
    BY <2>1, <2>2 DEF ThresholdOf
  <2>4. always \in BOOLEAN /\ enabled \in BOOLEAN /\ registered \in BOOLEAN /\ drawing \in BOOLEAN
    BY DEF ContextInit
  <2> QED
    BY <2>2, <2>3, <2>4 DEF SamplerInv
<1>2. SamplerInv /\ [ContextNext]_contextVars => SamplerInv'
  BY SamplerStep
<1> QED
  BY <1>1, <1>2, PTL DEF ContextSpec

\* However calls of otel_set_sampler fall between the two loads of a root start,
\* the draw is compared as one of the ratios in force meanwhile would have it.
THEOREM OneRatio == ContextSpec => []DecisionFromOneRatio
<1>1. SamplerInv => DecisionFromOneRatio
  <2> SUFFICES ASSUME SamplerInv, drawing, NEW d \in 0..Draws - 1
               PROVE  \E r \in window : Sampled(d) = (d < r)
    BY DEF DecisionFromOneRatio
  <2>1. PICK low \in window : low < Draws /\ low \in 0..Draws
    BY DEF SamplerInv
  <2>2. ratio \in window /\ ratio \in 0..Draws /\ threshold = ThresholdOf(ratio)
    BY DEF SamplerInv
  <2>3. CASE d < threshold
    BY <2>2, <2>3, ContextAssumption DEF Sampled, ThresholdOf
  <2>4. CASE ~(d < threshold) /\ ratio < Draws
    BY <2>2, <2>4, ContextAssumption DEF Sampled, ThresholdOf
  <2>5. CASE ~(d < threshold) /\ ~(ratio < Draws)
    <3>1. ~(d < low)
      BY <2>1, <2>2, <2>5, ContextAssumption DEF ThresholdOf
    <3>2. ~Sampled(d)
      BY <2>5 DEF Sampled
    <3> QED
      BY <2>1, <3>1, <3>2 DEF Sampled
  <2> QED
    BY <2>3, <2>4, <2>5
<1> QED
  BY <1>1, SamplerCorrect, PTL

-----------------------------------------------------------------------------
(* The spans started.                                                      *)

SpanRecord ==
    [flag : BOOLEAN, id : Nat, trace : Nat, parent : Nat, from : Nat, left : BOOLEAN]

\* What each started span is, given the spans before it.
Follows(i) ==
    /\ seen[i].from \in 0..i - 1
    /\ seen[i].from # 0 /\ ~seen[i].left => (seen[i].flag <=> seen[seen[i].from].flag)
    /\ seen[i].flag =>
           /\ seen[i].id < nextId
           /\ \A j \in 1..i - 1 : seen[j].flag => seen[j].id # seen[i].id
           /\ \/ seen[i].parent = 0 /\ seen[i].trace = seen[i].id
              \/ \E j \in 1..i - 1 :
                     /\ seen[j].flag /\ seen[j].id = seen[i].parent
                     /\ seen[j].trace = seen[i].trace

SeenInv ==
    /\ seen \in Seq(SpanRecord) /\ nextId \in Nat
    /\ \A i \in 1..Len(seen) : Follows(i)

\* What appending does, in the form used below.
LEMMA AppendFacts ==
  ASSUME NEW S, NEW s \in Seq(S), NEW e \in S
  PROVE  /\ Append(s, e) \in Seq(S) /\ Len(Append(s, e)) = Len(s) + 1 /\ Len(s) \in Nat
         /\ Append(s, e)[Len(s) + 1] = e
         /\ \A i \in 1..Len(s) : Append(s, e)[i] = s[i]
OBVIOUS

\* The fields of a started span.
LEMMA RecordFacts ==
  ASSUME SeenInv, NEW i \in 1..Len(seen)
  PROVE  /\ seen[i].flag \in BOOLEAN /\ seen[i].left \in BOOLEAN
         /\ seen[i].id \in Nat /\ seen[i].trace \in Nat
<1>1. seen[i] \in SpanRecord
  BY DEF SeenInv
<1> QED
  BY <1>1 DEF SpanRecord

\* Adding a span that does not record.
LEMMA AddUnrecorded ==
  ASSUME SeenInv, NEW from \in 0..Len(seen), NEW l \in BOOLEAN,
         from # 0 /\ ~l => ~seen[from].flag,
         seen' = Append(seen, Unrecorded(from, l)), nextId' = nextId
  PROVE  SeenInv'
<1> DEFINE r == Unrecorded(from, l)
<1>1. /\ r \in SpanRecord /\ r.flag = FALSE /\ r.from = from /\ r.left = l
  BY DEF Unrecorded, SpanRecord, SeenInv
<1> HIDE DEF r
<1>2. /\ seen' \in Seq(SpanRecord) /\ Len(seen') = Len(seen) + 1 /\ Len(seen) \in Nat
      /\ seen'[Len(seen) + 1] = r /\ \A i \in 1..Len(seen) : seen'[i] = seen[i]
  <2>1. seen \in Seq(SpanRecord) /\ seen' = Append(seen, r)
    BY DEF SeenInv, r
  <2>2. r \in SpanRecord
    BY <1>1
  <2>3. /\ Append(seen, r) \in Seq(SpanRecord) /\ Len(Append(seen, r)) = Len(seen) + 1
        /\ Len(seen) \in Nat /\ Append(seen, r)[Len(seen) + 1] = r
        /\ \A i \in 1..Len(seen) : Append(seen, r)[i] = seen[i]
    BY <2>1, <2>2, AppendFacts
  <2> QED
    BY <2>1, <2>3, Zenon
<1>3. ASSUME NEW i \in 1..Len(seen) PROVE Follows(i)'
  <2>1. Follows(i)
    BY DEF SeenInv
  <2>2. \A j \in 0..i - 1 : j # 0 => j \in 1..Len(seen)
    BY <1>2
  <2>3. \A j \in 1..i - 1 : j \in 1..Len(seen)
    BY <1>2
  <2> QED
    BY <1>2, <2>1, <2>2, <2>3 DEF Follows
<1>4. PICK k \in Nat : k = Len(seen) + 1
  BY <1>2
<1>5. Follows(k)'
  <2>1. seen'[k] = r /\ 0..k - 1 = 0..Len(seen)
    BY <1>2, <1>4
  <2>2. from # 0 => seen'[from] = seen[from]
    BY <1>2
  <2> QED
    BY <1>1, <2>1, <2>2 DEF Follows
<1>6. \A i \in 1..Len(seen') : i \in 1..Len(seen) \/ i = k
  BY <1>2, <1>4
<1> QED
  BY <1>2, <1>3, <1>5, <1>6 DEF SeenInv

\* A root with the next id, or a span under one that records.
RootOrChild(trace, parent, from) ==
    \/ from = 0 /\ parent = 0 /\ trace = nextId
    \/ /\ from # 0 /\ seen[from].flag
       /\ trace = seen[from].trace /\ parent = seen[from].id

\* Adding a span that records.
LEMMA AddRecorded ==
  ASSUME SeenInv, NEW trace \in Nat, NEW parent \in Nat, NEW from \in 0..Len(seen),
         RootOrChild(trace, parent, from),
         seen' = Append(seen, Recorded(trace, parent, from, FALSE)), nextId' = nextId + 1
  PROVE  SeenInv'
<1> DEFINE r == Recorded(trace, parent, from, FALSE)
<1>1. /\ r \in SpanRecord /\ r.flag = TRUE /\ r.from = from /\ r.left = FALSE
      /\ r.id = nextId /\ r.trace = trace /\ r.parent = parent
  BY DEF Recorded, SpanRecord, SeenInv
<1> HIDE DEF r
<1>2. /\ seen' \in Seq(SpanRecord) /\ Len(seen') = Len(seen) + 1 /\ Len(seen) \in Nat
      /\ seen'[Len(seen) + 1] = r /\ \A i \in 1..Len(seen) : seen'[i] = seen[i]
  <2>1. seen \in Seq(SpanRecord) /\ seen' = Append(seen, r)
    BY DEF SeenInv, r
  <2>2. r \in SpanRecord
    BY <1>1
  <2>3. /\ Append(seen, r) \in Seq(SpanRecord) /\ Len(Append(seen, r)) = Len(seen) + 1
        /\ Len(seen) \in Nat /\ Append(seen, r)[Len(seen) + 1] = r
        /\ \A i \in 1..Len(seen) : Append(seen, r)[i] = seen[i]
    BY <2>1, <2>2, AppendFacts
  <2> QED
    BY <2>1, <2>3, Zenon
<1>n. nextId \in Nat /\ nextId' \in Nat /\ nextId < nextId' /\ \A i \in 1..Len(seen) : seen[i].id \in Nat
  <2>1. nextId \in Nat
    BY DEF SeenInv
  <2>2. nextId' \in Nat /\ nextId < nextId'
    BY <2>1
  <2> QED
    BY <2>1, <2>2, RecordFacts
<1>3. ASSUME NEW i \in 1..Len(seen) PROVE Follows(i)'
  <2>1. Follows(i)
    BY DEF SeenInv
  <2>2. \A j \in 0..i - 1 : j # 0 => j \in 1..Len(seen)
    BY <1>2
  <2>3. \A j \in 1..i - 1 : j \in 1..Len(seen)
    BY <1>2
  <2>4. seen[i].flag => seen[i].id < nextId'
    BY <1>n, <2>1 DEF Follows
  <2> QED
    BY <1>2, <2>1, <2>2, <2>3, <2>4 DEF Follows
<1>4. PICK k \in Nat : k = Len(seen) + 1
  BY <1>2
<1>5. Follows(k)'
  <2>0. k - 1 = Len(seen)
    BY <1>2, <1>4
  <2>1. seen'[k] = r /\ 0..k - 1 = 0..Len(seen) /\ 1..k - 1 = 1..Len(seen)
    BY <1>2, <1>4, <2>0, Zenon
  <2>2. from # 0 => seen'[from] = seen[from] /\ from \in 1..k - 1
    <3>1. from # 0 => from \in 1..Len(seen)
      BY <1>2
    <3> QED
      BY <1>2, <2>1, <3>1, Zenon
  <2>3. \A j \in 1..k - 1 : seen'[j].flag => seen'[j].id # nextId
    <3> SUFFICES ASSUME NEW j \in 1..Len(seen), seen[j].flag PROVE seen[j].id # nextId
      BY <1>2, <2>1
    <3>1. Follows(j)
      BY DEF SeenInv
    <3> QED
      BY <1>n, <3>1 DEF Follows
  <2>4. /\ seen'[k].from \in 0..k - 1 /\ seen'[k].flag /\ seen'[k].id < nextId'
        /\ seen'[k].id = nextId /\ seen'[k].from = from
        /\ seen'[k].parent = parent /\ seen'[k].trace = trace
    BY <1>1, <1>n, <2>1
  <2>5. \/ seen'[k].parent = 0 /\ seen'[k].trace = seen'[k].id
        \/ \E j \in 1..k - 1 :
               /\ seen'[j].flag /\ seen'[j].id = seen'[k].parent
               /\ seen'[j].trace = seen'[k].trace
    BY <2>2, <2>4, Zenon DEF RootOrChild
  <2>6. from # 0 => seen'[from].flag
    BY <2>2, Zenon DEF RootOrChild
  <2> QED
    BY <2>3, <2>4, <2>5, <2>6 DEF Follows
<1>6. \A i \in 1..Len(seen') : i \in 1..Len(seen) \/ i = k
  BY <1>2, <1>4
<1> QED
  BY <1>2, <1>3, <1>5, <1>6, <1>n DEF SeenInv

\* Every step of either thread keeps SeenInv.
LEMMA SeenStep ==
  ASSUME SamplerInv, SeenInv, [ContextNext]_contextVars
  PROVE  SeenInv'
<1> USE DEF sampler, contextVars
<1>l. Len(seen) \in Nat /\ seen \in Seq(SpanRecord) /\ nextId \in Nat
  BY DEF SeenInv
<1>b. registered \in BOOLEAN /\ enabled \in BOOLEAN
  BY DEF SamplerInv
<1>u. ASSUME UNCHANGED <<seen, nextId>> PROVE SeenInv'
  BY <1>u DEF SeenInv, Follows
<1>r. ASSUME seen' = Append(seen, NewRoot), nextId' = nextId + 1 PROVE SeenInv'
  <2>1. 0 \in Nat /\ 0 \in 0..Len(seen) /\ nextId \in Nat
    BY <1>l
  <2>2. seen' = Append(seen, Recorded(nextId, 0, 0, FALSE))
    BY <1>r DEF NewRoot
  <2> QED
    BY <1>r, <2>1, <2>2, AddRecorded, Zenon DEF RootOrChild
<1>x. ASSUME NEW l \in BOOLEAN, seen' = Append(seen, Unrecorded(0, l)), nextId' = nextId
      PROVE  SeenInv'
  <2>1. 0 \in 0..Len(seen)
    BY <1>l
  <2> QED
    BY <1>x, <2>1, AddUnrecorded, Zenon
<1>1. ASSUME NEW r \in Ratios, SetAlways(r) PROVE SeenInv'
  BY <1>1, <1>u DEF SetAlways
<1>2. CASE SetThreshold
  BY <1>2, <1>u DEF SetThreshold
<1>3. CASE SetEnabled
  BY <1>3, <1>u DEF SetEnabled
<1>4. CASE SetRegistered
  BY <1>4, <1>u DEF SetRegistered
<1>5. CASE StartRoot
  <2>1. CASE seen' = Append(seen, Unrecorded(0, TRUE)) /\ UNCHANGED nextId
    BY <1>x, <2>1
  <2>2. CASE seen' = Append(seen, NewRoot) /\ nextId' = nextId + 1
    BY <1>r, <2>2
  <2>3. CASE UNCHANGED <<seen, nextId>>
    BY <1>u, <2>3
  <2> QED
    BY <1>5, <2>1, <2>2, <2>3 DEF StartRoot
<1>6. ASSUME NEW d \in 0..Draws - 1, DrawRoot(d) PROVE SeenInv'
  <2>1. CASE Sampled(d)
    BY <1>6, <1>r, <2>1 DEF DrawRoot
  <2>2. CASE ~Sampled(d)
    <3>1. seen' = Append(seen, Unrecorded(0, FALSE)) /\ nextId' = nextId
      BY <1>6, <2>2 DEF DrawRoot
    <3> QED
      BY <1>x, <3>1
  <2> QED
    BY <2>1, <2>2
<1>c. ASSUME NEW i \in 1..Len(seen), seen[i].flag,
             seen' = Append(seen, Recorded(seen[i].trace, seen[i].id, i, FALSE)),
             nextId' = nextId + 1
      PROVE  SeenInv'
  <2>1. i \in 0..Len(seen) /\ i # 0 /\ seen[i].trace \in Nat /\ seen[i].id \in Nat
    BY <1>l, RecordFacts
  <2> QED
    BY <1>c, <2>1, AddRecorded DEF RootOrChild
<1>d. ASSUME NEW i \in 1..Len(seen), NEW l \in BOOLEAN, ~l => ~seen[i].flag,
             seen' = Append(seen, Unrecorded(i, l)), nextId' = nextId
      PROVE  SeenInv'
  <2>1. i \in 0..Len(seen)
    BY <1>l
  <2> QED
    BY <1>d, <2>1, AddUnrecorded
<1>7. ASSUME NEW i \in 1..Len(seen), StartChild(i) PROVE SeenInv'
  <2>1. CASE seen[i].flag /\ registered
    BY <1>7, <1>c, <2>1 DEF StartChild, ChildOf
  <2>2. CASE ~(seen[i].flag /\ registered)
    <3>1. seen' = Append(seen, Unrecorded(i, ~registered)) /\ nextId' = nextId
      BY <1>7, <2>2 DEF StartChild, ChildOf
    <3> QED
      BY <1>d, <2>2, <3>1
  <2> QED
    BY <2>1, <2>2
<1>8. ASSUME NEW i \in 1..Len(seen), StartRemote(i) PROVE SeenInv'
  <2>1. CASE enabled /\ seen[i].flag /\ registered
    BY <1>8, <1>c, <2>1 DEF StartRemote
  <2>2. CASE ~(enabled /\ seen[i].flag /\ registered)
    <3>1. seen' = Append(seen, Unrecorded(i, ~enabled \/ ~registered)) /\ nextId' = nextId
      BY <1>8, <2>2 DEF StartRemote
    <3> QED
      BY <1>d, <2>2, <3>1
  <2> QED
    BY <2>1, <2>2
<1>9. CASE UNCHANGED contextVars
  BY <1>9, <1>u
<1> QED
  BY <1>1, <1>2, <1>3, <1>4, <1>5, <1>6, <1>7, <1>8, <1>9 DEF ContextNext

\* The spans the application holds.
LEMMA SeenCorrect == ContextSpec => []SeenInv
<1>1. ContextInit => SeenInv
  BY DEF ContextInit, SeenInv
<1>2. SamplerInv /\ SeenInv /\ [ContextNext]_contextVars => SeenInv'
  BY SeenStep
<1> QED
  BY <1>1, <1>2, SamplerCorrect, PTL DEF ContextSpec

\* The decision made at a root reaches the whole trace, whatever is switched while
\* it is open: otel_span_start_child and otel_span_start_remote ask the parent.
THEOREM Inherited == ContextSpec => []DecisionInherited
<1>1. SeenInv => DecisionInherited
  <2> SUFFICES ASSUME SeenInv, NEW i \in 1..Len(seen), seen[i].from # 0, ~seen[i].left
               PROVE  seen[i].flag = seen[seen[i].from].flag
    BY DEF DecisionInherited
  <2>1. Follows(i)
    BY DEF SeenInv
  <2>2. seen[i].from \in 1..Len(seen)
    BY <2>1 DEF Follows, SeenInv
  <2>3. seen[i].flag \in BOOLEAN /\ seen[seen[i].from].flag \in BOOLEAN
    BY <2>2, RecordFacts
  <2> QED
    BY <2>1, <2>3 DEF Follows
<1> QED
  BY <1>1, SeenCorrect, PTL

\* Recorded spans form one tree per trace: ids are never shared, and a recorded
\* span is a root or the child of an earlier recorded span of its own trace.
THEOREM Trees == ContextSpec => []TracesAreTrees
<1>1. SeenInv => TracesAreTrees
  <2> SUFFICES ASSUME SeenInv PROVE TracesAreTrees
    OBVIOUS
  <2>1. \A i \in 1..Len(seen) : Follows(i)
    BY DEF SeenInv
  <2>2. ASSUME NEW i \in 1..Len(seen), NEW j \in 1..Len(seen), seen[i].flag, seen[j].flag,
               seen[i].id = seen[j].id
        PROVE  i = j
    <3>1. CASE i < j
      <4>1. i \in 1..j - 1
        BY <3>1
      <4> QED
        BY <2>1, <2>2, <4>1 DEF Follows
    <3>2. CASE j < i
      <4>1. j \in 1..i - 1
        BY <3>2
      <4> QED
        BY <2>1, <2>2, <4>1 DEF Follows
    <3> QED
      BY <3>1, <3>2
  <2> QED
    BY <2>1, <2>2 DEF TracesAreTrees, Follows
<1> QED
  BY <1>1, SeenCorrect, PTL

-----------------------------------------------------------------------------
(* The id generator.                                                       *)

\* Quotient and rest, and that they are the only ones.
LEMMA Divided ==
  ASSUME NEW x \in Nat, NEW d \in Nat \ {0}
  PROVE  /\ x \div d \in Nat /\ x % d \in Nat /\ x % d < d
         /\ x = d * (x \div d) + (x % d)
BY SMTT(30)

LEMMA UniqueRest ==
  ASSUME NEW x \in Nat, NEW d \in Nat \ {0}, NEW q \in Int, NEW r \in Nat, r < d, x = d * q + r
  PROVE  x % d = r /\ x \div d = q
<1>1. /\ x \div d \in Nat /\ x % d \in Nat /\ x % d < d
      /\ x = d * (x \div d) + (x % d)
  BY Divided
<1> DEFINE p == x \div d
           s == x % d
<1>2. p \in Nat /\ s \in Nat /\ s < d /\ x = d * p + s
  BY <1>1
<1> HIDE DEF p, s
<1>3. CASE p = q
  BY <1>2, <1>3 DEF p, s
<1>4. CASE p > q
  <2>1. PICK z \in Nat \ {0} : p = q + z
    <3>1. p - q \in Nat \ {0} /\ p = q + (p - q)
      BY <1>2, <1>4
    <3> QED
      BY <3>1
  <2>2. d * p = d * q + d * z /\ d * z >= d
    BY <2>1
  <2> QED
    BY <1>2, <2>2
<1>5. CASE p < q
  <2>1. PICK z \in Nat \ {0} : q = p + z
    <3>1. q - p \in Nat \ {0} /\ q = p + (q - p)
      BY <1>2, <1>5
    <3> QED
      BY <3>1
  <2>2. d * q = d * p + d * z /\ d * z >= d
    BY <1>2, <2>1
  <2> QED
    BY <1>2, <2>2
<1> QED
  BY <1>2, <1>3, <1>4, <1>5

\* The schoolbook product of two numbers of two digits each.
LEMMA Schoolbook ==
  ASSUME NEW B \in Nat, NEW x0 \in Nat, NEW x1 \in Nat, NEW y0 \in Nat, NEW y1 \in Nat,
         NEW u0 \in Nat, NEW v0 \in Nat, x0 * y0 = B * u0 + v0,
         NEW u \in Nat, NEW v \in Nat, x1 * y0 + u0 = B * u + v,
         NEW u1 \in Nat, NEW v1 \in Nat, v + x0 * y1 = B * u1 + v1
  PROVE  (B * x1 + x0) * (B * y1 + y0) = (B * B) * (x1 * y1 + u + u1) + (B * v1 + v0)
<1>1. (B * x1 + x0) * (B * y1 + y0)
        = (B * B) * (x1 * y1) + B * (x1 * y0) + B * (x0 * y1) + x0 * y0
  BY SMTT(30)
<1>2. B * (x1 * y0) + B * u0 = (B * B) * u + B * v
  BY SMTT(30)
<1>3. B * v + B * (x0 * y1) = (B * B) * u1 + B * v1
  BY SMTT(30)
<1>4. (B * B) * (x1 * y1 + u + u1) = (B * B) * (x1 * y1) + (B * B) * u + (B * B) * u1
  BY SMTT(30)
<1> QED
  BY <1>1, <1>2, <1>3, <1>4, SMTT(30)

\* Two digits are a number below the square of the base.
LEMMA TwoDigits ==
  ASSUME NEW B \in Nat \ {0}, NEW v0 \in Nat, NEW v1 \in Nat, v0 < B, v1 < B
  PROVE  B * v1 + v0 \in Nat /\ B * v1 + v0 < B * B
<1>1. PICK z \in Nat : B = v1 + 1 + z
  <2>1. B - v1 - 1 \in Nat /\ B = v1 + 1 + (B - v1 - 1)
    OBVIOUS
  <2> QED
    BY <2>1
<1>2. B * B = B * v1 + B + B * z /\ B * z >= 0 /\ B * v1 >= 0 /\ B * v1 \in Nat
  BY <1>1, SMTT(30)
<1> QED
  BY <1>2

\* A product of digits and another digit fit into a word.
LEMMA FitsWord ==
  ASSUME NEW B \in Nat \ {0}, NEW x \in 0..B - 1, NEW y \in 0..B - 1, NEW z \in 0..B - 1
  PROVE  x * y + z \in Nat /\ x * y + z < B * B /\ x * y \in Nat /\ x * y < B * B
<1>1. x * y <= (B - 1) * y /\ (B - 1) * y <= (B - 1) * (B - 1) /\ x * y \in Nat
  BY SMTT(30)
<1>2. (B - 1) * (B - 1) + B = B * B - B + 1
  BY SMTT(30)
<1> QED
  BY <1>1, <1>2, SMTT(30)

\* Both halves of the state are words, and once seeded the state is not zero.
GeneratorInv ==
    /\ seeded \in BOOLEAN /\ lo \in 0..Word - 1 /\ hi \in 0..Word - 1
    /\ seeded => multiplier \in Multipliers /\ Number # 0

\* Limbs, words and states are not trivial.
LEMMA Sizes ==
  /\ Limb \in Nat \ {0} /\ Word \in Nat \ {0} /\ State \in Nat \ {0}
  /\ Word > 1 /\ State = Word * Word
<1>1. Limb \in Nat /\ Limb > 1
  BY GeneratorAssumption
<1>2. Limb * Limb \in Nat /\ Limb * Limb >= Limb
  BY <1>1, SMTT(30)
<1>3. Word \in Nat /\ Word > 1
  BY <1>1, <1>2 DEF Word
<1>4. Word * Word \in Nat /\ Word * Word >= Word
  BY <1>3, SMTT(30)
<1> QED
  BY <1>1, <1>3, <1>4 DEF State

\* The limbs of otel_random_next: no partial product overflows its word, and
\* Carry is what the low word's product leaves for the high word.
LEMMA CarryIsUpperHalf ==
  ASSUME lo \in 0..Word - 1, multiplier \in 0..Word - 1
  PROVE  /\ Carry \in Nat
         /\ lo * multiplier = Word * Carry + ((lo * multiplier) % Word)
<1>1. Limb \in Nat \ {0} /\ Word \in Nat \ {0} /\ Word = Limb * Limb
  BY Sizes DEF Word
<1>2. /\ a0 \in 0..Limb - 1 /\ a1 \in Nat /\ lo = Limb * a1 + a0
      /\ b0 \in 0..Limb - 1 /\ b1 \in Nat /\ multiplier = Limb * b1 + b0
  BY <1>1, Divided DEF a0, a1, b0, b1
<1>3. a1 \in 0..Limb - 1 /\ b1 \in 0..Limb - 1
  <2>1. ASSUME NEW x \in Nat, NEW z \in Nat, Limb * x + z < Limb * Limb
        PROVE  x \in 0..Limb - 1
    <3>1. CASE x >= Limb
      <4>1. Limb * x >= Limb * Limb /\ Limb * x \in Nat /\ Limb * Limb \in Nat
        BY <1>1, <3>1, SMTT(30)
      <4> QED
        BY <2>1, <4>1
    <3> QED
      BY <1>1, <3>1
  <2>2. Limb * a1 + a0 < Limb * Limb /\ Limb * b1 + b0 < Limb * Limb /\ a0 \in Nat /\ b0 \in Nat
    BY <1>1, <1>2
  <2> QED
    BY <1>2, <2>1, <2>2
<1> DEFINE u0 == w0 \div Limb
           v0 == w0 % Limb
           u == t \div Limb
           v == t % Limb
           u1 == w1 \div Limb
           v1 == w1 % Limb
<1>4. \A x \in Nat : x < Word => x % Word = x
  <2> TAKE x \in Nat
  <2>1. x = Word * 0 + x
    BY <1>1
  <2> QED
    BY <1>1, <2>1, UniqueRest
<1>5. \A x \in Nat : /\ x \div Limb \in Nat /\ x % Limb \in 0..Limb - 1
                      /\ x = Limb * (x \div Limb) + (x % Limb)
  BY <1>1, Divided
<1>6. \A x, q, r \in Nat : r < Word /\ x = Word * q + r => x % Word = r
  <2> TAKE x, q, r \in Nat
  <2> HAVE r < Word /\ x = Word * q + r
  <2>1. q \in Int
    OBVIOUS
  <2> QED
    BY <1>1, <2>1, UniqueRest
<1>7. w0 = a0 * b0 /\ w0 \in Nat /\ w0 < Word
  BY <1>1, <1>2, <1>4, FitsWord DEF w0
<1>8. u0 \in 0..Limb - 1 /\ v0 \in 0..Limb - 1 /\ w0 = Limb * u0 + v0
  <2>1. u0 \in Nat /\ v0 \in 0..Limb - 1 /\ w0 = Limb * u0 + v0
    BY <1>7, <1>5, Zenon DEF u0, v0
  <2> HIDE DEF u0, v0
  <2>2. CASE u0 >= Limb
    <3>1. Limb * u0 >= Limb * Limb /\ Limb * u0 \in Nat
      BY <1>1, <2>1, <2>2, SMTT(30)
    <3> QED
      BY <1>1, <1>7, <2>1, <3>1
  <2> QED
    BY <1>1, <2>1, <2>2
<1>9. t = a1 * b0 + u0 /\ t \in Nat
  <2>1. t = (a1 * b0 + u0) % Word
    BY DEF t
  <2> HIDE DEF u0
  <2> QED
    BY <1>1, <1>2, <1>3, <1>4, <1>8, <2>1, FitsWord
<1>10. u \in Nat /\ v \in 0..Limb - 1 /\ t = Limb * u + v
  BY <1>9, <1>5, Zenon DEF u, v
<1>11. w1 = v + a0 * b1 /\ w1 \in Nat
  <2>1. w1 = (v + a0 * b1) % Word
    BY DEF w1
  <2> HIDE DEF v
  <2>2. a0 * b1 + v \in Nat /\ a0 * b1 + v < Word /\ a0 * b1 \in Nat
    BY <1>1, <1>2, <1>3, <1>10, FitsWord
  <2>3. v + a0 * b1 = a0 * b1 + v
    BY <1>10, <2>2
  <2> QED
    BY <1>4, <2>1, <2>2, <2>3
<1>12. u1 \in Nat /\ v1 \in 0..Limb - 1 /\ w1 = Limb * u1 + v1
  BY <1>11, <1>5, Zenon DEF u1, v1
<1>13. Carry = a1 * b1 + u + u1
  BY DEF Carry
<1> HIDE DEF u0, v0, u, v, u1, v1
<1>14. /\ lo * multiplier = Word * Carry + (Limb * v1 + v0)
       /\ Limb * v1 + v0 \in Nat /\ Limb * v1 + v0 < Word
  <2>1. (Limb * a1 + a0) * (Limb * b1 + b0)
          = (Limb * Limb) * (a1 * b1 + u + u1) + (Limb * v1 + v0)
    BY <1>1, <1>2, <1>3, <1>7, <1>8, <1>9, <1>10, <1>11, <1>12, Schoolbook
  <2>2. Limb * v1 + v0 \in Nat /\ Limb * v1 + v0 < Limb * Limb
    BY <1>1, <1>8, <1>12, TwoDigits
  <2> QED
    BY <1>1, <1>2, <1>13, <2>1, <2>2
<1>15. Carry \in Nat /\ lo * multiplier \in Nat
  <2>1. a1 * b1 \in Nat /\ lo * multiplier \in Nat
    BY <1>1, <1>3, SMTT(30)
  <2> QED
    BY <1>10, <1>12, <1>13, <2>1
<1>16. (lo * multiplier) % Word = Limb * v1 + v0
  BY <1>14, <1>15, <1>6, Zenon
<1> DEFINE x == lo * multiplier
           r == Limb * v1 + v0
<1>17. x = Word * Carry + r /\ x % Word = r
  BY <1>14, <1>16
<1> HIDE DEF x, r
<1>18. x = Word * Carry + (x % Word)
  BY <1>17
<1>19. x = lo * multiplier
  BY DEF x
<1> QED
  BY <1>15, <1>18, <1>19, Zenon

\* The whole state times the multiplier.
LEMMA WholeProduct ==
  ASSUME Word \in Nat \ {0}, lo \in 0..Word - 1, hi \in 0..Word - 1, multiplier \in Nat,
         Carry \in Nat, NEW r \in 0..Word - 1, lo * multiplier = Word * Carry + r
  PROVE  r + Word * ((hi * multiplier + Carry) % Word)
           = ((lo + Word * hi) * multiplier) % (Word * Word)
<1>1. hi * multiplier \in Nat /\ hi * multiplier + Carry \in Nat
  BY SMTT(30)
<1> DEFINE q == (hi * multiplier + Carry) \div Word
           s == (hi * multiplier + Carry) % Word
<1>2. q \in Nat /\ s \in Nat /\ s < Word /\ hi * multiplier + Carry = Word * q + s
  BY <1>1, Divided
<1> HIDE DEF q, s
<1>3. (lo + Word * hi) * multiplier = lo * multiplier + Word * (hi * multiplier)
  BY SMTT(30)
<1>4. Word * (hi * multiplier) + Word * Carry = (Word * Word) * q + Word * s
  <2>1. Word * (hi * multiplier + Carry) = Word * (Word * q + s)
    BY <1>2, Zenon
  <2>2. /\ Word * (hi * multiplier + Carry) = Word * (hi * multiplier) + Word * Carry
        /\ Word * (Word * q + s) = (Word * Word) * q + Word * s
    BY <1>1, <1>2, SMTT(30)
  <2> QED
    BY <2>1, <2>2
<1>5. Word * s + r \in Nat /\ Word * s + r < Word * Word
  BY <1>2, TwoDigits
<1>6. /\ Word * Word \in Nat \ {0} /\ (lo + Word * hi) * multiplier \in Nat
      /\ Word * s \in Nat /\ Word * (hi * multiplier) \in Nat /\ Word * Carry \in Nat
      /\ (Word * Word) * q \in Nat
  <2>1. /\ Word * Word \in Nat \ {0} /\ Word * s \in Nat
        /\ Word * (hi * multiplier) \in Nat /\ Word * Carry \in Nat
    BY <1>1, <1>2, SMTT(30)
  <2>2. (Word * Word) * q \in Nat
    BY <1>2, <2>1, SMTT(30)
  <2>3. (lo + Word * hi) * multiplier \in Nat
    BY <1>1, <1>3, <2>1
  <2> QED
    BY <2>1, <2>2, <2>3
<1>7. (lo + Word * hi) * multiplier = (Word * Word) * q + (Word * s + r)
  BY <1>3, <1>4, <1>6
<1>8. ((lo + Word * hi) * multiplier) % (Word * Word) = Word * s + r
  <2> DEFINE x == (lo + Word * hi) * multiplier
             S == Word * Word
             rest == Word * s + r
  <2>1. x \in Nat /\ S \in Nat \ {0} /\ rest \in Nat /\ rest < S /\ x = S * q + rest
    BY <1>5, <1>6, <1>7
  <2> HIDE DEF x, S, rest
  <2>2. x % S = rest
    BY <1>2, <2>1, UniqueRest
  <2> QED
    BY <2>2 DEF x, S, rest
<1> QED
  BY <1>6, <1>8 DEF s

\* A multiplier with an inverse takes no state but zero to zero.
LEMMA NeverZero ==
  ASSUME NEW S \in Nat, S > 1, NEW x \in 1..S - 1, NEW m \in Nat, NEW k \in Nat, (m * k) % S = 1
  PROVE  (x * m) % S # 0
<1>1. m * k \in Nat /\ x * m \in Nat
  BY SMTT(30)
<1>2. PICK p \in Nat : m * k = S * p + 1
  <2> DEFINE y == m * k
  <2>1. y \in Nat /\ y % S = 1
    BY <1>1
  <2> HIDE DEF y
  <2>2. y \div S \in Nat /\ y = S * (y \div S) + 1
    BY <2>1, Divided
  <2> QED
    BY <2>2, Zenon DEF y
<1>3. SUFFICES ASSUME (x * m) % S = 0 PROVE FALSE
  OBVIOUS
<1>4. PICK q \in Nat : x * m = S * q
  <2> DEFINE y == x * m
  <2>1. y \in Nat /\ y % S = 0
    BY <1>1, <1>3
  <2> HIDE DEF y
  <2>2. y \div S \in Nat /\ y = S * (y \div S)
    BY <2>1, Divided
  <2> QED
    BY <2>2, Zenon DEF y
<1>5. x * (m * k) = x * (S * p) + x
  BY <1>1, <1>2, SMTT(30)
<1>6. x * (m * k) = (x * m) * k
  BY SMTT(30)
<1>7. (x * m) * k = (S * q) * k
  BY <1>4, Zenon
<1>8. (S * q) * k = S * (q * k) /\ x * (S * p) = S * (x * p)
  BY SMTT(30)
<1>9. S * (q * k) = S * (x * p) + x
  BY <1>5, <1>6, <1>7, <1>8
<1>10. q * k \in Nat /\ x * p \in Nat
  BY SMTT(30)
<1> DEFINE y == q * k
           z == x * p
<1>11. y \in Nat /\ z \in Nat /\ S * y = S * z + x
  BY <1>9, <1>10
<1> HIDE DEF y, z
<1>12. S * y \in Nat /\ (S * y) % S = x
  <2>1. S * y \in Nat
    BY <1>11, SMTT(30)
  <2> QED
    BY <1>11, <2>1, UniqueRest
<1>13. (S * y) % S = 0
  <2>1. S * y = S * y + 0
    BY <1>12
  <2> QED
    BY <1>11, <1>12, <2>1, UniqueRest
<1> QED
  BY <1>12, <1>13

\* One call of otel_random_next.
LEMMA DrawStep ==
  ASSUME GeneratorInv, Draw
  PROVE  /\ lo' + Word * hi' = (Number * multiplier) % State
         /\ lo' \in 0..Word - 1 /\ hi' \in 0..Word - 1
         /\ lo' + Word * hi' # 0
<1>1. /\ lo \in 0..Word - 1 /\ hi \in 0..Word - 1 /\ multiplier \in Multipliers /\ Number # 0
      /\ hi' = (hi * multiplier + Carry) % Word /\ lo' = (lo * multiplier) % Word
  BY DEF GeneratorInv, Draw
<1>2. Word \in Nat \ {0} /\ Word > 1 /\ State \in Nat /\ State = Word * Word
  BY Sizes
<1>3. multiplier \in 1..Word - 1 /\ multiplier \in Nat
  BY <1>1, GeneratorAssumption
<1>4. PICK k \in 1..State - 1 : (multiplier * k) % State = 1
  BY <1>1, GeneratorAssumption
<1>5. Carry \in Nat /\ lo * multiplier = Word * Carry + lo'
  <2>1. multiplier \in 0..Word - 1
    BY <1>3
  <2>2. Carry \in Nat /\ lo * multiplier = Word * Carry + ((lo * multiplier) % Word)
    BY <1>1, <2>1, CarryIsUpperHalf, Zenon
  <2> QED
    BY <1>1, <2>2
<1>6. lo * multiplier \in Nat /\ hi * multiplier + Carry \in Nat
  BY <1>1, <1>2, <1>3, <1>5, SMTT(30)
<1>7. lo' \in 0..Word - 1 /\ hi' \in 0..Word - 1
  <2>1. \A x \in Nat : x % Word \in 0..Word - 1
    BY <1>2, Divided
  <2> QED
    BY <1>1, <1>6, <2>1, Zenon
<1>8. lo' + Word * hi' = ((lo + Word * hi) * multiplier) % (Word * Word)
  <2>1. lo' + Word * ((hi * multiplier + Carry) % Word)
          = ((lo + Word * hi) * multiplier) % (Word * Word)
    BY <1>1, <1>2, <1>3, <1>5, <1>7, WholeProduct, Zenon
  <2> QED
    BY <1>1, <2>1, Zenon
<1>9. lo' + Word * hi' = (Number * multiplier) % State
  BY <1>2, <1>8, Zenon DEF Number
<1>10. Number \in 1..State - 1 /\ State > 1
  <2>1. Word * hi + lo \in Nat /\ Word * hi + lo < Word * Word /\ Word * Word \in Nat
    BY <1>1, <1>2, TwoDigits
  <2>2. Word * hi \in Nat
    BY <1>1, <1>2, SMTT(30)
  <2>3. Number = Word * hi + lo /\ Number \in Nat
    BY <1>1, <2>1, <2>2 DEF Number
  <2> QED
    BY <1>1, <1>2, <2>1, <2>3
<1>11. (Number * multiplier) % State # 0
  <2>1. k \in Nat
    OBVIOUS
  <2> QED
    BY <1>2, <1>3, <1>4, <1>10, <2>1, NeverZero
<1> QED
  BY <1>7, <1>9, <1>11

\* Any seed is a state, and the zero one is replaced.
LEMMA SeedStep ==
  ASSUME Seed
  PROVE  /\ seeded' = TRUE /\ multiplier' \in Multipliers
         /\ lo' \in 0..Word - 1 /\ hi' \in 0..Word - 1
         /\ lo' + Word * hi' # 0
<1>1. Word \in Nat \ {0} /\ Word > 1 /\ State \in Nat /\ State = Word * Word
  BY Sizes
<1>2. PICK seed \in Seeds : \E s \in Seeded(seed) : lo' = s % Word /\ hi' = s \div Word
  BY DEF Seed
<1>3. PICK s \in Seeded(seed) : lo' = s % Word /\ hi' = s \div Word
  BY <1>2
<1>4. seed \in 0..State - 1
  BY GeneratorAssumption
<1>5. s \in 1..State - 1
  <2>1. Word * Word >= Word /\ Word * Word \in Nat
    BY <1>1, SMTT(30)
  <2> QED
    BY <1>1, <1>4, <2>1 DEF Seeded
<1>6. lo' \in 0..Word - 1 /\ hi' \in Nat /\ s = Word * hi' + lo'
  <2>1. \A x \in Nat : /\ x \div Word \in Nat /\ x % Word \in 0..Word - 1
                       /\ x = Word * (x \div Word) + (x % Word)
    BY <1>1, Divided
  <2>2. s \in Nat
    BY <1>5
  <2> QED
    BY <1>3, <2>1, <2>2, Zenon
<1>7. Word * hi' \in Nat /\ (hi' >= Word => Word * hi' >= Word * Word)
  <2>1. \A x, y \in Nat : x * y \in Nat /\ (y >= x => x * y >= x * x)
    BY SMTT(30)
  <2> QED
    BY <1>1, <1>6, <2>1, Zenon
<1>8. hi' \in 0..Word - 1
  <2> DEFINE y == Word * hi'
  <2>1. y \in Nat /\ (hi' >= Word => y >= State) /\ s = y + lo'
    BY <1>1, <1>6, <1>7
  <2> HIDE DEF y
  <2>2. ~(hi' >= Word)
    <3>1. State \in Nat /\ Word \in Nat /\ lo' \in 0..Word - 1
      BY <1>1, <1>6
    <3>2. \A x, z \in Nat : \A l \in 0..Word - 1 : x >= z => ~(x + l \in 1..z - 1)
      BY <3>1
    <3> QED
      BY <1>5, <2>1, <3>1, <3>2, Zenon
  <2> QED
    BY <1>1, <1>6, <2>2
<1>9. lo' + Word * hi' # 0
  BY <1>5, <1>6, <1>7
<1> QED
  BY <1>6, <1>8, <1>9 DEF Seed

LEMMA GeneratorStep == GeneratorInv /\ [GeneratorNext]_generatorVars => GeneratorInv'
<1> SUFFICES ASSUME GeneratorInv, [GeneratorNext]_generatorVars PROVE GeneratorInv'
  OBVIOUS
<1>1. CASE Seed
  BY <1>1, SeedStep, Zenon DEF GeneratorInv, Number
<1>2. CASE Draw
  <2>1. seeded' = seeded /\ seeded /\ multiplier' = multiplier
    BY <1>2 DEF Draw
  <2> QED
    BY <1>2, <2>1, DrawStep, Zenon DEF GeneratorInv, Number
<1>3. CASE UNCHANGED generatorVars
  BY <1>3 DEF GeneratorInv, Number, generatorVars
<1> QED
  BY <1>1, <1>2, <1>3 DEF GeneratorNext

\* otel_random_next multiplies the whole two-word state in one go, whatever the
\* size of a limb: no partial product overflows and no carry is lost.  And since
\* the multiplier is invertible and a zero seed is replaced, the state is never
\* zero.
THEOREM DrawCorrect == GeneratorSpec => DrawIsOneProduct
<1> DEFINE OneProduct == seeded => /\ Number # 0
                                   /\ (lo' + Word * hi') = (Number * multiplier) % State
<1>1. GeneratorInit => GeneratorInv
  <2>1. 0 \in 0..Word - 1
    BY Sizes
  <2> QED
    BY <2>1 DEF GeneratorInit, GeneratorInv
<1>2. GeneratorInv /\ [GeneratorNext]_generatorVars => GeneratorInv'
  BY GeneratorStep
<1>3. GeneratorInv /\ [GeneratorNext]_generatorVars => [OneProduct]_generatorVars
  <2> SUFFICES ASSUME GeneratorInv, GeneratorNext, seeded
               PROVE  OneProduct
    OBVIOUS
  <2>1. Draw
    BY DEF GeneratorNext, Seed
  <2> QED
    BY <2>1, DrawStep DEF GeneratorInv
<1>4. DrawIsOneProduct <=> [][OneProduct]_generatorVars
  BY DEF DrawIsOneProduct
<1> HIDE DEF OneProduct
<1> QED
  BY <1>1, <1>2, <1>3, <1>4, PTL DEF GeneratorSpec
=============================================================================
