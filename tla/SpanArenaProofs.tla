--------------------------- MODULE SpanArenaProofs ---------------------------
(***************************************************************************)
(* Proofs about SpanArena: allocations never overlap, the lists read back  *)
(* what was added to them, and the counters agree with the lists, for any  *)
(* sizes of the arena and its records, any alignment and any strings.      *)
(***************************************************************************)
EXTENDS SpanArena, TLAPS, SequenceTheorems, WellFoundedInduction

-----------------------------------------------------------------------------
(* Arithmetic of the allocator.                                            *)

LEMMA SmallMultiple ==
  ASSUME NEW a \in Nat, NEW j \in Int, NEW r \in 0..a - 1, j * a = r
  PROVE  r = 0
<1>1. CASE j = 0
  BY <1>1
<1>2. CASE j >= 1
  <2>1. j * a = (j - 1) * a + a
    OBVIOUS
  <2>2. (j - 1) * a >= 0
    BY <1>2
  <2> QED
    BY <2>1, <2>2
<1>3. CASE j <= -1
  <2>1. j * a = (j + 1) * a - a
    OBVIOUS
  <2>2. (j + 1) * a <= 0
    BY <1>3
  <2>3. r <= - a
    BY <2>1, <2>2
  <2> QED
    BY <2>3
<1> QED
  BY <1>1, <1>2, <1>3

LEMMA DivFacts ==
  ASSUME NEW a \in Nat \ {0}, NEW n \in Int
  PROVE  /\ n \div a \in Int /\ n % a \in 0..a - 1
         /\ n = ((n \div a) * a) + (n % a)
  OBVIOUS

LEMMA MultipleMod ==
  ASSUME NEW a \in Nat \ {0}, NEW k \in Int
  PROVE  (k * a) % a = 0
<1>1. PICK p : p = k * a
  OBVIOUS
<1>2. p \in Int
  BY <1>1
<1>3. PICK q, r : q = p \div a /\ r = p % a
  OBVIOUS
<1>4. q \in Int /\ r \in 0..a - 1 /\ p = q * a + r
  BY <1>2, <1>3, DivFacts
<1>5. (k - q) * a = r
  BY <1>1, <1>4
<1>6. r = 0
  BY <1>4, <1>5, SmallMultiple
<1> QED
  BY <1>1, <1>3, <1>6

LEMMA RoundUpFacts ==
  ASSUME NEW n \in Nat
  PROVE  /\ RoundUp(n) \in Nat /\ RoundUp(n) >= n /\ RoundUp(n) % Align = 0
         /\ n % Align = 0 => RoundUp(n) = n
<1>1. PICK a : a = Align
  OBVIOUS
<1>2. a \in Nat \ {0}
  BY <1>1, ArenaAssumption
<1>3. PICK m, q, r : m = n + a - 1 /\ q = m \div a /\ r = m % a
  OBVIOUS
<1>4. m \in Int
  BY <1>2, <1>3
<1>5. q \in Int /\ r \in 0..a - 1 /\ m = q * a + r
  BY <1>2, <1>3, <1>4, DivFacts
<1>6. PICK p : p = q * a
  OBVIOUS
<1>7. p \in Int /\ m = p + r
  BY <1>2, <1>5, <1>6
<1>8. p >= n
  BY <1>2, <1>3, <1>5, <1>7
<1>9. p % a = 0
  BY <1>2, <1>5, <1>6, MultipleMod
<1>10. ASSUME n % a = 0 PROVE p = n
  <2>1. PICK d : d = n \div a
    OBVIOUS
  <2>2. d \in Int /\ n = d * a
    BY <1>2, <1>10, <2>1, DivFacts
  <2>3. p - n \in 0..a - 1
    BY <1>2, <1>3, <1>5, <1>7, <1>8
  <2>4. (q - d) * a = p - n
    BY <1>2, <1>5, <1>6, <2>2
  <2>5. PICK j, e : j = q - d /\ e = p - n
    OBVIOUS
  <2>6. j \in Int /\ e \in 0..a - 1 /\ j * a = e
    BY <1>5, <2>2, <2>3, <2>4, <2>5
  <2>7. e = 0
    BY <1>2, <2>6, SmallMultiple
  <2> QED
    BY <1>7, <2>5, <2>7
<1>11. RoundUp(n) = p
  BY <1>1, <1>3, <1>6 DEF RoundUp
<1> QED
  BY <1>1, <1>7, <1>8, <1>9, <1>10, <1>11

LEMMA SumAligned ==
  ASSUME NEW x \in Int, NEW y \in Int, x % Align = 0, y % Align = 0
  PROVE  (x + y) % Align = 0
<1>1. PICK a : a = Align
  OBVIOUS
<1>2. a \in Nat \ {0}
  BY <1>1, ArenaAssumption
<1>3. PICK c, d : c = x \div a /\ d = y \div a
  OBVIOUS
<1>4. c \in Int /\ d \in Int /\ x = c * a /\ y = d * a
  BY <1>1, <1>2, <1>3, DivFacts
<1>5. x + y = (c + d) * a
  BY <1>2, <1>4
<1>6. ((c + d) * a) % a = 0
  BY <1>2, <1>4, MultipleMod
<1> QED
  BY <1>1, <1>5, <1>6

\* What an allocation of n bytes from u on yields: the offset o, NIL if it
\* failed, and the new arena_used w.
Allocated(u, n, o, w) ==
    /\ w \in 0..Arena /\ w % Align = 0 /\ u <= w
    /\ \/ o = NIL
       \/ o = u /\ o \in Offset /\ o + n <= w

LEMMA AllocFacts ==
  ASSUME NEW u \in 0..Arena, u % Align = 0, NEW n \in Nat \ {0}
  PROVE  Allocated(u, n, AllocOff(u, n), AllocUsed(u, n))
<1>1. Arena \in Nat /\ NIL \in Nat /\ NIL > Arena
  BY ArenaAssumption
<1>2. RoundUp(u) = u
  BY <1>1, RoundUpFacts
<1>3. RoundUp(n) \in Nat /\ RoundUp(n) >= n /\ RoundUp(n) % Align = 0
  BY RoundUpFacts
<1>4. PICK r : r = RoundUp(n)
  OBVIOUS
<1>5. CASE Fits(u, n)
  <2>1. u + r <= Arena
    BY <1>2, <1>4, <1>5 DEF Fits
  <2>2. (u + r) % Align = 0
    BY <1>1, <1>3, <1>4, SumAligned
  <2>3. AllocOff(u, n) = u /\ AllocUsed(u, n) = u + r
    BY <1>2, <1>4, <1>5 DEF AllocOff, AllocUsed
  <2>4. u \in 0..Arena - 1 /\ u + n <= u + r /\ u + r \in 0..Arena /\ u <= u + r
    BY <2>1, <1>1, <1>3, <1>4
  <2>5. u \in Offset
    BY <2>4 DEF Offset
  <2> QED
    BY <2>2, <2>3, <2>4, <2>5 DEF Allocated
<1>6. CASE ~ Fits(u, n)
  <2>1. AllocOff(u, n) = NIL /\ AllocUsed(u, n) = u
    BY <1>6 DEF AllocOff, AllocUsed
  <2> QED
    BY <2>1, <1>1 DEF Allocated
<1> QED
  BY <1>5, <1>6

\* The strings a caller may pass; Null is the null pointer.
Texts == Strings \cup {Null}

LEMMA PutFacts ==
  ASSUME NEW u \in 0..Arena, u % Align = 0, NEW s \in Texts
  PROVE  /\ Allocated(u, s + 1, PutOff(u, s), PutUsed(u, s))
         /\ s = Null => PutOff(u, s) = NIL
<1>1. CASE s = Null
  <2>1. PutOff(u, s) = NIL /\ PutUsed(u, s) = u
    BY <1>1 DEF PutOff, PutUsed
  <2>2. Arena \in Nat
    BY ArenaAssumption
  <2> QED
    BY <2>1, <2>2 DEF Allocated
<1>2. CASE s # Null
  <2>1. s \in Nat
    BY <1>2, ArenaAssumption DEF Texts
  <2>2. s + 1 \in Nat \ {0}
    BY <2>1
  <2>3. PutOff(u, s) = AllocOff(u, s + 1) /\ PutUsed(u, s) = AllocUsed(u, s + 1)
    BY <1>2 DEF PutOff, PutUsed
  <2> QED
    BY <2>2, <2>3, <1>2, AllocFacts
<1> QED
  BY <1>1, <1>2

-----------------------------------------------------------------------------
(* Allocations do not overlap.                                             *)

\* BlocksDisjoint, of any set of allocations and any arena_used.
BlocksOK(bs, u) ==
    /\ u \in 0..Arena /\ u % Align = 0
    /\ bs \subseteq [off : Nat, end : Nat]
    /\ \A b \in bs : b.off % Align = 0 /\ b.off < b.end /\ b.end <= u
    /\ \A b, c \in bs : b # c => b.end <= c.off \/ c.end <= b.off

LEMMA BlocksGrow ==
  ASSUME NEW bs, NEW u, BlocksOK(bs, u), NEW n \in Nat, NEW o, NEW w, n # 0 \/ o = NIL,
         Allocated(u, n, o, w)
  PROVE  BlocksOK(bs \cup Block(o, n), w)
<1>1. /\ u \in 0..Arena /\ u % Align = 0
      /\ bs \subseteq [off : Nat, end : Nat]
      /\ \A b \in bs : b.off % Align = 0 /\ b.off < b.end /\ b.end <= u
      /\ \A b, c \in bs : b # c => b.end <= c.off \/ c.end <= b.off
  BY DEF BlocksOK
<1>2. w \in 0..Arena /\ w % Align = 0 /\ u <= w /\ Arena \in Nat
  BY ArenaAssumption DEF Allocated
<1>3. ASSUME NEW b \in bs PROVE b.off \in Nat /\ b.end \in Nat /\ b.end <= w
  <2>1. b.off \in Nat /\ b.end \in Nat /\ b.end <= u
    BY <1>1
  <2> QED
    BY <2>1, <1>1, <1>2
<1>4. CASE o = NIL
  <2>1. bs \cup Block(o, n) = bs
    BY <1>4 DEF Block
  <2>2. BlocksOK(bs, w)
    BY <1>1, <1>2, <1>3 DEF BlocksOK
  <2> QED
    BY <2>1, <2>2
<1>5. CASE o # NIL
  <2>1. o = u /\ o \in Nat /\ o + n <= w /\ o % Align = 0 /\ n # 0
    BY <1>1, <1>5 DEF Allocated
  <2>2. PICK x : x = [off |-> o, end |-> o + n]
    OBVIOUS
  <2>3. bs \cup Block(o, n) = bs \cup {x}
    BY <2>2, <1>5 DEF Block
  <2>4. x.off = o /\ x.end = o + n /\ x \in [off : Nat, end : Nat]
    BY <2>1, <2>2
  <2>5. x.off % Align = 0 /\ x.off < x.end /\ x.end <= w
    BY <2>1, <2>4
  <2>6. ASSUME NEW b \in bs PROVE b.end <= x.off
    BY <1>1, <2>1, <2>4
  <2>7. BlocksOK(bs \cup {x}, w)
    <3>1. bs \cup {x} \subseteq [off : Nat, end : Nat]
      BY <1>1, <2>4
    <3>2. \A b \in bs \cup {x} : b.off % Align = 0 /\ b.off < b.end /\ b.end <= w
      BY <1>1, <1>3, <2>5
    <3>3. \A b, c \in bs \cup {x} : b # c => b.end <= c.off \/ c.end <= b.off
      BY <1>1, <2>6, Zenon
    <3> QED
      BY <1>2, <3>1, <3>2, <3>3, Zenon DEF BlocksOK
  <2> QED
    BY <2>3, <2>7
<1> QED
  BY <1>4, <1>5

LEMMA PutKeeps ==
  ASSUME NEW bs, NEW u, BlocksOK(bs, u), NEW s \in Texts
  PROVE  BlocksOK(bs \cup Block(PutOff(u, s), s + 1), PutUsed(u, s))
<1>1. u \in 0..Arena /\ u % Align = 0
  BY DEF BlocksOK
<1>2. PICK n, o, w : n = s + 1 /\ o = PutOff(u, s) /\ w = PutUsed(u, s)
  OBVIOUS
<1>3. Allocated(u, n, o, w) /\ (s = Null => o = NIL)
  BY <1>1, <1>2, PutFacts, Zenon
<1>4. n \in Nat /\ (n # 0 \/ o = NIL)
  BY <1>2, <1>3, ArenaAssumption DEF Texts, Null
<1>5. BlocksOK(bs \cup Block(o, n), w)
  BY <1>3, <1>4, BlocksGrow
<1> QED
  BY <1>2, <1>5

LEMMA AllocKeeps ==
  ASSUME NEW bs, NEW u, BlocksOK(bs, u), NEW n \in Nat \ {0}
  PROVE  BlocksOK(bs \cup Block(AllocOff(u, n), n), AllocUsed(u, n))
<1>1. u \in 0..Arena /\ u % Align = 0
  BY DEF BlocksOK
<1>2. PICK o, w : o = AllocOff(u, n) /\ w = AllocUsed(u, n)
  OBVIOUS
<1>3. Allocated(u, n, o, w)
  BY <1>1, <1>2, AllocFacts
<1>4. BlocksOK(bs \cup Block(o, n), w)
  BY <1>3, BlocksGrow
<1> QED
  BY <1>2, <1>4

\* The three allocations of an attribute, whichever of them fail.
LEMMA AttrAllocKeeps ==
  ASSUME NEW key \in Strings, NEW val \in Texts \cup {Num}, BlocksOK(blocks, used)
  PROVE  BlocksOK(blocks \cup AttrAlloc(key, val).blocks, AttrAlloc(key, val).used)
<1> DEFINE k  == PutOff(used, key)
           u1 == PutUsed(used, key)
           r  == AllocOff(u1, AttrSize)
           u2 == AllocUsed(u1, AttrSize)
           isStr == (k # NIL /\ r # NIL) /\ val # Num
           v  == IF isStr THEN PutOff(u2, val) ELSE NIL
           u3 == IF isStr THEN PutUsed(u2, val) ELSE u2
           b1 == blocks \cup Block(k, key + 1)
           b2 == b1 \cup Block(r, AttrSize)
<1>1. AttrAlloc(key, val).used = u3
  BY DEF AttrAlloc
<1>2. AttrAlloc(key, val).blocks
        = Block(k, key + 1) \cup Block(r, AttrSize) \cup Block(v, val + 1)
  BY DEF AttrAlloc
<1>3. BlocksOK(b1, u1)
  BY PutKeeps DEF Texts
<1>4. BlocksOK(b2, u2)
  <2> HIDE DEF b1, u1
  <2> QED
    BY <1>3, AllocKeeps, ArenaAssumption
<1> HIDE DEF k, u1, r, u2, b1, b2
<1>5. BlocksOK(b2 \cup Block(v, val + 1), u3)
  <2>1. CASE isStr
    <3>1. val \in Texts /\ v = PutOff(u2, val) /\ u3 = PutUsed(u2, val)
      BY <2>1
    <3> HIDE DEF isStr, v, u3
    <3> QED
      BY <3>1, <1>4, PutKeeps
  <2>2. CASE ~ isStr
    <3>1. v = NIL /\ u3 = u2
      BY <2>2
    <3>2. Block(v, val + 1) = {}
      BY <3>1 DEF Block
    <3>3. b2 \cup {} = b2
      OBVIOUS
    <3> HIDE DEF isStr, v, u3
    <3> QED
      BY <3>1, <3>2, <3>3, <1>4
  <2> QED
    BY <2>1, <2>2
<1>6. b2 \cup Block(v, val + 1) = blocks \cup AttrAlloc(key, val).blocks
  BY <1>2, Zenon DEF b1, b2
<1> QED
  BY <1>1, <1>5, <1>6

LEMMA BlocksStep ==
  ASSUME BlocksOK(blocks, used), [ArenaNext]_arenaVars
  PROVE  BlocksOK(blocks, used)'
<1>1. ASSUME NEW s \in Texts, Start(s)
      PROVE  BlocksOK(blocks', used')
  <2>1. blocks' = {} \cup Block(PutOff(0, s), s + 1) /\ used' = PutUsed(0, s)
    BY <1>1 DEF Start
  <2>2. BlocksOK({}, 0)
    <3>1. Arena \in Nat /\ Align \in Nat \ {0}
      BY ArenaAssumption
    <3>2. 0 % Align = 0
      <4>1. (0 * Align) % Align = 0
        BY <3>1, MultipleMod
      <4>2. 0 * Align = 0
        BY <3>1
      <4> QED
        BY <4>1, <4>2
    <3> QED
      BY <3>1, <3>2 DEF BlocksOK
  <2> QED
    BY <2>1, <2>2, PutKeeps
<1>2. ASSUME NEW s \in Texts, SetName(s) \/ SetStatus(s)
      PROVE  BlocksOK(blocks', used')
  <2>1. blocks' = blocks \cup Block(PutOff(used, s), s + 1) /\ used' = PutUsed(used, s)
    BY <1>2 DEF SetName, SetStatus
  <2> QED
    BY <2>1, PutKeeps
<1>3. ASSUME NEW s \in Texts, SpanEvent(s)
      PROVE  BlocksOK(blocks', used')
  <2>1. PICK u1, b1, r : /\ u1 = PutUsed(used, s) /\ b1 = blocks \cup Block(PutOff(used, s), s + 1)
                         /\ r = AllocOff(u1, EventSize)
    OBVIOUS
  <2>2. BlocksOK(b1, u1)
    BY <2>1, PutKeeps
  <2>3. EventSize \in Nat \ {0}
    BY ArenaAssumption
  <2>4. BlocksOK(b1 \cup Block(r, EventSize), AllocUsed(u1, EventSize))
    BY <2>1, <2>2, <2>3, AllocKeeps
  <2>5. blocks' = b1 \cup Block(r, EventSize) /\ used' = AllocUsed(u1, EventSize)
    BY <1>3, <2>1, Zenon DEF SpanEvent
  <2> QED
    BY <2>4, <2>5
<1>4. ASSUME NEW key \in Strings, NEW val \in Texts \cup {Num},
             SpanAttr(key, val) \/ \E i \in 1..Len(eventLog) : EventAttr(i, key, val)
      PROVE  BlocksOK(blocks', used')
  <2>1. /\ blocks' = blocks \cup AttrAlloc(key, val).blocks
        /\ used' = AttrAlloc(key, val).used
    BY <1>4, Zenon DEF SpanAttr, EventAttr
  <2> QED
    BY <2>1, AttrAllocKeeps
<1>5. CASE UNCHANGED arenaVars
  BY <1>5 DEF arenaVars
<1>6. CASE ArenaNext
  BY <1>1, <1>2, <1>3, <1>4, <1>6, Zenon DEF ArenaNext, Texts
<1> QED
  BY <1>5, <1>6

\* However the calls of the builder mix and wherever the arena runs full,
\* otel_arena_alloc hands out aligned bytes that no other allocation has.
THEOREM AllocationsDisjoint == ArenaSpec => []BlocksDisjoint
<1>1. ArenaInit => BlocksOK(blocks, used)
  <2>1. Arena \in Nat /\ Align \in Nat \ {0}
    BY ArenaAssumption
  <2>2. (0 * Align) % Align = 0 /\ 0 * Align = 0
    BY <2>1, MultipleMod
  <2> QED
    BY <2>1, <2>2 DEF ArenaInit, BlocksOK
<1>2. BlocksOK(blocks, used) /\ [ArenaNext]_arenaVars => BlocksOK(blocks, used)'
  BY BlocksStep
<1>3. BlocksOK(blocks, used) => BlocksDisjoint
  BY Zenon DEF BlocksOK, BlocksDisjoint
<1> QED
  BY <1>1, <1>2, <1>3, PTL DEF ArenaSpec

-----------------------------------------------------------------------------
(* The inductive invariant.                                                *)

Entries == [off : Offset, key : Strings, val : Texts \cup {Num}]
EventEntries == [off : Offset, name : Texts, attrs : Seq(Entries)]

\* The offset that the i-th record of a list links to: the head, for i = 0.
NextOff(log, i) == IF i < Len(log) THEN log[i + 1].off ELSE NIL
LastOff(log) == IF Len(log) = 0 THEN NIL ELSE log[Len(log)].off

\* A reader of the string at off sees s; the arena is m, used up to u.
StrHeld(m, u, off, s) ==
    \/ off = NIL /\ s = Null
    \/ off \in Offset /\ off < u /\ m[off] = Str(s)

AttrRecord(next, key, val) == [kind |-> "attr", next |-> next, key |-> key, val |-> val]

EventRecord(next, n, log, d) ==
    [kind |-> "event", next |-> next, name |-> n, head |-> NextOff(log, 0),
     tail |-> LastOff(log), num |-> Len(log), dropped |-> d]

ValHeld(m, u, off, val) == IF val = Num THEN off = Num ELSE StrHeld(m, u, off, val)

\* The record of the attribute x, which links to next, is in the arena.
AttrHeld(m, u, x, next) ==
    /\ x.off < u
    /\ \E k, v : /\ m[x.off] = AttrRecord(next, k, v)
                 /\ StrHeld(m, u, k, x.key) /\ ValHeld(m, u, v, x.val)

\* The record of the event x is in the arena, with the list of its attributes.
EventHeld(m, u, x, next) ==
    /\ x.off < u
    /\ \E n, d : /\ m[x.off] = EventRecord(next, n, x.attrs, d)
                 /\ StrHeld(m, u, n, x.name)

\* The attribute lists of a span: its own, and one for each event.
AttrLists(al, el) == [p \in 0..Len(el) |-> IF p = 0 THEN al ELSE el[p].attrs]

\* No record belongs to two attributes.
AttrsDistinct(ls) ==
    \A p, q \in DOMAIN ls : \A i \in 1..Len(ls[p]), j \in 1..Len(ls[q]) :
        ls[p][i].off = ls[q][j].off => p = q /\ i = j

ListsHeld(m, u, ls) ==
    /\ \A p \in DOMAIN ls : \A i \in 1..Len(ls[p]) :
          AttrHeld(m, u, ls[p][i], NextOff(ls[p], i))
    /\ AttrsDistinct(ls)

EventsHeld(m, u, el) ==
    /\ \A i \in 1..Len(el) : EventHeld(m, u, el[i], NextOff(el, i))
    /\ \A i, j \in 1..Len(el) : el[i].off = el[j].off => i = j

\* Bytes below u that n attributes take at least.
Room(n) == n * (AttrSize + 1)

\* The lists are no longer than the bytes in use allow.
ListsFit(u, al, el) ==
    /\ Room(Len(al)) <= u /\ Len(el) <= u
    /\ \A i \in 1..Len(el) : EventSize + Room(Len(el[i].attrs)) <= u

\* The arena m, used up to u, holds the attributes al of a span, its events el
\* and the events' attributes.
Held(m, u, al, el) ==
    /\ ListsHeld(m, u, AttrLists(al, el))
    /\ EventsHeld(m, u, el)
    /\ ListsFit(u, al, el)

ArenaType ==
    /\ used \in 0..Arena /\ used % Align = 0
    /\ DOMAIN mem = Offset
    /\ attrLog \in Seq(Entries) /\ eventLog \in Seq(EventEntries)

ListInv ==
    /\ Held(mem, used, attrLog, eventLog)
    /\ attrHead = NextOff(attrLog, 0) /\ attrTail = LastOff(attrLog)
    /\ eventHead = NextOff(eventLog, 0) /\ eventTail = LastOff(eventLog)
    /\ numAttrs = Len(attrLog) /\ numEvents = Len(eventLog)
    /\ StrHeld(mem, used, name, nameLog) /\ StrHeld(mem, used, statusMessage, statusLog)

-----------------------------------------------------------------------------
(* Lists and cells of the arena.                                           *)

LEMMA Sizes ==
  /\ Arena \in Nat /\ NIL \in Nat /\ NIL > Arena
  /\ AttrSize \in Nat \ {0} /\ EventSize \in Nat \ {0} /\ U8 \in Nat \ {0}
  /\ \A o \in Offset : o \in Nat /\ o < Arena /\ o # NIL
  /\ \A s \in Strings : s \in Nat
<1>1. /\ Arena \in Nat /\ NIL \in Nat /\ NIL > Arena
      /\ AttrSize \in Nat \ {0} /\ EventSize \in Nat \ {0} /\ U8 \in Nat \ {0}
      /\ \A s \in Strings : s \in Nat
  BY ArenaAssumption
<1>2. \A o \in Offset : o \in 0..Arena - 1
  BY DEF Offset
<1> QED
  BY <1>1, <1>2

\* The three kinds of cells are told apart.
LEMMA Kinds ==
  ASSUME NEW s, NEW n1, NEW k, NEW v, NEW n2, NEW n, NEW log, NEW d
  PROVE  /\ Str(s) # AttrRecord(n1, k, v) /\ Str(s) # EventRecord(n2, n, log, d)
         /\ AttrRecord(n1, k, v) # EventRecord(n2, n, log, d)
<1>1. Str(s).kind = "str"
  BY DEF Str
<1>2. AttrRecord(n1, k, v).kind = "attr"
  BY DEF AttrRecord
<1>3. EventRecord(n2, n, log, d).kind = "event"
  BY DEF EventRecord
<1> QED
  BY <1>1, <1>2, <1>3

LEMMA AppendFacts ==
  ASSUME NEW S, NEW q \in Seq(S), NEW x \in S
  PROVE  /\ Append(q, x) \in Seq(S) /\ Len(Append(q, x)) = Len(q) + 1
         /\ Len(q) \in Nat /\ Append(q, x)[Len(q) + 1] = x
         /\ \A i \in 1..Len(q) : Append(q, x)[i] = q[i]
  OBVIOUS

\* The links of a list with one more record.
LEMMA AppendLinks ==
  ASSUME NEW S, NEW q \in Seq(S), NEW x \in S
  PROVE  /\ \A i \in 0..Len(q) - 1 : NextOff(Append(q, x), i) = NextOff(q, i)
         /\ NextOff(Append(q, x), Len(q)) = x.off
         /\ NextOff(Append(q, x), Len(q) + 1) = NIL
         /\ LastOff(Append(q, x)) = x.off
         /\ NextOff(q, Len(q)) = NIL
<1>1. PICK a, n : a = Append(q, x) /\ n = Len(q)
  OBVIOUS
<1>2. n \in Nat /\ Len(a) = n + 1 /\ a[n + 1] = x /\ \A i \in 1..n : a[i] = q[i]
  BY <1>1, AppendFacts
<1>3. ASSUME NEW i \in 0..n - 1 PROVE NextOff(a, i) = NextOff(q, i)
  <2>1. i < Len(a) /\ i < Len(q) /\ i + 1 \in 1..n
    BY <1>1, <1>2
  <2>2. a[i + 1] = q[i + 1]
    BY <1>2, <2>1
  <2> QED
    BY <2>1, <2>2 DEF NextOff
<1>4. NextOff(a, n) = x.off
  BY <1>2 DEF NextOff
<1>5. NextOff(a, n + 1) = NIL
  BY <1>2 DEF NextOff
<1>6. LastOff(a) = x.off
  BY <1>2 DEF LastOff
<1>7. NextOff(q, n) = NIL
  BY <1>1, <1>2 DEF NextOff
<1> QED
  BY <1>1, <1>3, <1>4, <1>5, <1>6, <1>7

\* m2 has the bytes of m below u.
Agree(m, m2, u) == \A o \in Offset : o < u => m2[o] = m[o]

\* m2 differs from m at c at most.
Others(m, m2, c) == \A o \in Offset : o # c => m2[o] = m[o]

\* Writing behind arena_used disturbs nothing.
LEMMA FreshStr ==
  ASSUME NEW m, NEW m2, NEW u \in Nat, NEW w \in Nat, u <= w, Agree(m, m2, u),
         NEW off, NEW s, StrHeld(m, u, off, s)
  PROVE  StrHeld(m2, w, off, s)
<1>1. CASE off = NIL /\ s = Null
  BY <1>1 DEF StrHeld
<1>2. CASE off \in Offset /\ off < u /\ m[off] = Str(s)
  <2>1. off \in Nat
    BY <1>2, Sizes
  <2>2. off < w
    BY <1>2, <2>1
  <2>3. m2[off] = m[off]
    BY <1>2 DEF Agree
  <2> QED
    BY <1>2, <2>2, <2>3 DEF StrHeld
<1> QED
  BY <1>1, <1>2 DEF StrHeld

LEMMA FreshVal ==
  ASSUME NEW m, NEW m2, NEW u \in Nat, NEW w \in Nat, u <= w, Agree(m, m2, u),
         NEW off, NEW val, ValHeld(m, u, off, val)
  PROVE  ValHeld(m2, w, off, val)
<1>1. CASE val = Num
  BY <1>1 DEF ValHeld
<1>2. CASE val # Num
  <2>1. StrHeld(m, u, off, val)
    BY <1>2 DEF ValHeld
  <2>2. StrHeld(m2, w, off, val)
    BY <2>1, FreshStr
  <2> QED
    BY <1>2, <2>2 DEF ValHeld
<1> QED
  BY <1>1, <1>2

LEMMA FreshAttr ==
  ASSUME NEW m, NEW m2, NEW u \in Nat, NEW w \in Nat, u <= w, Agree(m, m2, u),
         NEW x, x.off \in Offset, NEW next, AttrHeld(m, u, x, next)
  PROVE  AttrHeld(m2, w, x, next)
<1>p. PICK k, v : /\ m[x.off] = AttrRecord(next, k, v)
                  /\ StrHeld(m, u, k, x.key) /\ ValHeld(m, u, v, x.val)
  BY DEF AttrHeld
<1>1. x.off < u
  BY DEF AttrHeld
<1>2. x.off \in Nat
  BY Sizes
<1>3. x.off < w
  BY <1>1, <1>2
<1>4. m2[x.off] = AttrRecord(next, k, v)
  BY <1>p, <1>1 DEF Agree
<1>5. StrHeld(m2, w, k, x.key)
  BY <1>p, FreshStr
<1>6. ValHeld(m2, w, v, x.val)
  BY <1>p, FreshVal
<1> QED
  BY <1>3, <1>4, <1>5, <1>6 DEF AttrHeld

LEMMA FreshEvent ==
  ASSUME NEW m, NEW m2, NEW u \in Nat, NEW w \in Nat, u <= w, Agree(m, m2, u),
         NEW x, x.off \in Offset, NEW next, EventHeld(m, u, x, next)
  PROVE  EventHeld(m2, w, x, next)
<1>p. PICK n, d : /\ m[x.off] = EventRecord(next, n, x.attrs, d)
                  /\ StrHeld(m, u, n, x.name)
  BY DEF EventHeld
<1>1. x.off < u
  BY DEF EventHeld
<1>2. x.off \in Nat
  BY Sizes
<1>3. x.off < w
  BY <1>1, <1>2
<1>4. m2[x.off] = EventRecord(next, n, x.attrs, d)
  BY <1>p, <1>1 DEF Agree
<1>5. StrHeld(m2, w, n, x.name)
  BY <1>p, FreshStr
<1> QED
  BY <1>3, <1>4, <1>5 DEF EventHeld

\* The types of the lists.
ListsType(ls) == \A p \in DOMAIN ls : ls[p] \in Seq(Entries)

LEMMA ListType ==
  ASSUME NEW ls, ListsType(ls), NEW p \in DOMAIN ls, NEW i \in 1..Len(ls[p])
  PROVE  ls[p][i] \in Entries /\ ls[p][i].off \in Offset
<1>1. ls[p] \in Seq(Entries)
  BY DEF ListsType
<1>2. ls[p][i] \in Entries
  BY <1>1
<1> QED
  BY <1>2 DEF Entries

LEMMA EventType ==
  ASSUME NEW el \in Seq(EventEntries), NEW i \in 1..Len(el)
  PROVE  el[i] \in EventEntries /\ el[i].off \in Offset /\ el[i].attrs \in Seq(Entries)
<1>1. el[i] \in EventEntries
  OBVIOUS
<1> QED
  BY <1>1 DEF EventEntries

LEMMA AttrListsType ==
  ASSUME NEW al \in Seq(Entries), NEW el \in Seq(EventEntries)
  PROVE  /\ ListsType(AttrLists(al, el)) /\ DOMAIN AttrLists(al, el) = 0..Len(el)
         /\ AttrLists(al, el)[0] = al /\ Len(el) \in Nat
         /\ \A i \in 1..Len(el) : i # 0 /\ i \in 0..Len(el) /\ AttrLists(al, el)[i] = el[i].attrs
<1>1. Len(el) \in Nat
  OBVIOUS
<1>2. /\ DOMAIN AttrLists(al, el) = 0..Len(el)
      /\ \A p \in 0..Len(el) : AttrLists(al, el)[p] = IF p = 0 THEN al ELSE el[p].attrs
  BY DEF AttrLists
<1>3. ASSUME NEW p \in 0..Len(el) PROVE AttrLists(al, el)[p] \in Seq(Entries)
  <2>1. CASE p = 0
    BY <2>1, <1>2
  <2>2. CASE p # 0
    <3>1. p \in 1..Len(el)
      BY <2>2, <1>1
    <3> QED
      BY <2>2, <3>1, <1>2, EventType
  <2> QED
    BY <2>1, <2>2
<1>4. 0 \in 0..Len(el) /\ \A i \in 1..Len(el) : i # 0 /\ i \in 0..Len(el)
  BY <1>1
<1> QED
  BY <1>1, <1>2, <1>3, <1>4 DEF ListsType

LEMMA FreshLists ==
  ASSUME NEW m, NEW m2, NEW u \in Nat, NEW w \in Nat, u <= w, Agree(m, m2, u),
         NEW ls, ListsType(ls), ListsHeld(m, u, ls)
  PROVE  ListsHeld(m2, w, ls)
<1>1. ASSUME NEW p \in DOMAIN ls, NEW i \in 1..Len(ls[p])
      PROVE  AttrHeld(m2, w, ls[p][i], NextOff(ls[p], i))
  <2>1. AttrHeld(m, u, ls[p][i], NextOff(ls[p], i))
    BY DEF ListsHeld
  <2>2. ls[p][i].off \in Offset
    BY ListType
  <2> QED
    BY <2>1, <2>2, FreshAttr
<1>2. AttrsDistinct(ls)
  BY DEF ListsHeld
<1> QED
  BY <1>1, <1>2 DEF ListsHeld

LEMMA FreshEvents ==
  ASSUME NEW m, NEW m2, NEW u \in Nat, NEW w \in Nat, u <= w, Agree(m, m2, u),
         NEW el \in Seq(EventEntries), EventsHeld(m, u, el)
  PROVE  EventsHeld(m2, w, el)
<1>1. ASSUME NEW i \in 1..Len(el)
      PROVE  EventHeld(m2, w, el[i], NextOff(el, i))
  <2>1. EventHeld(m, u, el[i], NextOff(el, i))
    BY DEF EventsHeld
  <2>2. el[i].off \in Offset
    BY EventType
  <2> QED
    BY <2>1, <2>2, FreshEvent
<1>2. \A i, j \in 1..Len(el) : el[i].off = el[j].off => i = j
  BY DEF EventsHeld
<1> QED
  BY <1>1, <1>2 DEF EventsHeld

LEMMA RoomNat ==
  ASSUME NEW n \in Nat
  PROVE  Room(n) \in Nat /\ n <= Room(n) /\ Room(n + 1) = Room(n) + AttrSize + 1
<1>1. PICK a : a = AttrSize + 1
  OBVIOUS
<1>2. a \in Nat /\ a >= 1 /\ AttrSize \in Nat
  BY <1>1, Sizes
<1>3. n * a \in Nat /\ n <= n * a /\ (n + 1) * a = n * a + a
  BY <1>2
<1>4. (n + 1) * a = n * a + AttrSize + 1
  BY <1>1, <1>2, <1>3
<1> QED
  BY <1>1, <1>3, <1>4 DEF Room

LEMMA FreshFits ==
  ASSUME NEW u \in Nat, NEW w \in Nat, u <= w, NEW al \in Seq(Entries),
         NEW el \in Seq(EventEntries), ListsFit(u, al, el)
  PROVE  ListsFit(w, al, el)
<1>1. Room(Len(al)) <= u /\ Len(el) <= u
  BY DEF ListsFit
<1>2. Len(al) \in Nat /\ Len(el) \in Nat
  OBVIOUS
<1>3. Room(Len(al)) \in Nat
  BY <1>2, RoomNat
<1>4. Room(Len(al)) <= w /\ Len(el) <= w
  BY <1>1, <1>2, <1>3
<1>5. ASSUME NEW i \in 1..Len(el) PROVE EventSize + Room(Len(el[i].attrs)) <= w
  <2>1. PICK r : r = EventSize + Room(Len(el[i].attrs))
    OBVIOUS
  <2>2. Len(el[i].attrs) \in Nat
    BY EventType
  <2>3. r \in Nat
    <3>1. PICK y : y = Room(Len(el[i].attrs))
      OBVIOUS
    <3>2. y \in Nat
      BY <2>2, <3>1, RoomNat
    <3>3. EventSize \in Nat
      BY Sizes
    <3> QED
      BY <2>1, <3>1, <3>2, <3>3
  <2>4. r <= u
    BY <2>1 DEF ListsFit
  <2>5. r <= w
    BY <2>3, <2>4
  <2> QED
    BY <2>1, <2>5
<1> QED
  BY <1>4, <1>5 DEF ListsFit

LEMMA FreshHeld ==
  ASSUME NEW m, NEW m2, NEW u \in Nat, NEW w \in Nat, u <= w, Agree(m, m2, u),
         NEW al \in Seq(Entries), NEW el \in Seq(EventEntries), Held(m, u, al, el)
  PROVE  Held(m2, w, al, el)
<1>1. ListsHeld(m, u, AttrLists(al, el)) /\ EventsHeld(m, u, el) /\ ListsFit(u, al, el)
  BY DEF Held
<1>2. ListsHeld(m2, w, AttrLists(al, el))
  BY <1>1, FreshLists, AttrListsType
<1>3. EventsHeld(m2, w, el)
  BY <1>1, FreshEvents
<1>4. ListsFit(w, al, el)
  BY <1>1, FreshFits
<1> QED
  BY <1>2, <1>3, <1>4 DEF Held

-----------------------------------------------------------------------------
(* Changing one record disturbs no cell of another kind.                   *)

LEMMA OtherStr ==
  ASSUME NEW m, NEW m2, NEW u, NEW c, Others(m, m2, c), \A t : m[c] # Str(t),
         NEW off, NEW s, StrHeld(m, u, off, s)
  PROVE  StrHeld(m2, u, off, s)
  BY DEF StrHeld, Others

LEMMA OtherVal ==
  ASSUME NEW m, NEW m2, NEW u, NEW c, Others(m, m2, c), \A t : m[c] # Str(t),
         NEW off, NEW val, ValHeld(m, u, off, val)
  PROVE  ValHeld(m2, u, off, val)
  BY OtherStr DEF ValHeld

LEMMA OtherAttr ==
  ASSUME NEW m, NEW m2, NEW u, NEW c, Others(m, m2, c), \A t : m[c] # Str(t),
         NEW x, x.off \in Offset, x.off # c, NEW next, AttrHeld(m, u, x, next)
  PROVE  AttrHeld(m2, u, x, next)
<1>p. PICK k, v : /\ m[x.off] = AttrRecord(next, k, v)
                  /\ StrHeld(m, u, k, x.key) /\ ValHeld(m, u, v, x.val)
  BY DEF AttrHeld
<1>1. x.off < u
  BY DEF AttrHeld
<1>2. m2[x.off] = AttrRecord(next, k, v)
  BY <1>p DEF Others
<1>3. StrHeld(m2, u, k, x.key)
  BY <1>p, OtherStr
<1>4. ValHeld(m2, u, v, x.val)
  BY <1>p, OtherVal
<1> QED
  BY <1>1, <1>2, <1>3, <1>4 DEF AttrHeld

LEMMA OtherEvent ==
  ASSUME NEW m, NEW m2, NEW u, NEW c, Others(m, m2, c), \A t : m[c] # Str(t),
         NEW x, x.off \in Offset, x.off # c, NEW next, EventHeld(m, u, x, next)
  PROVE  EventHeld(m2, u, x, next)
<1>p. PICK n, d : /\ m[x.off] = EventRecord(next, n, x.attrs, d)
                  /\ StrHeld(m, u, n, x.name)
  BY DEF EventHeld
<1>1. x.off < u
  BY DEF EventHeld
<1>2. m2[x.off] = EventRecord(next, n, x.attrs, d)
  BY <1>p DEF Others
<1>3. StrHeld(m2, u, n, x.name)
  BY <1>p, OtherStr
<1> QED
  BY <1>1, <1>2, <1>3 DEF EventHeld

\* The attribute lists survive a change to the record of an event,
LEMMA OtherLists ==
  ASSUME NEW m, NEW m2, NEW u, NEW c, Others(m, m2, c),
         NEW cn, NEW ck, NEW clog, NEW cd, m[c] = EventRecord(cn, ck, clog, cd),
         NEW ls, ListsType(ls), ListsHeld(m, u, ls)
  PROVE  ListsHeld(m2, u, ls)
<1>k. \A t : m[c] # Str(t)
  BY Kinds
<1>1. ASSUME NEW p \in DOMAIN ls, NEW i \in 1..Len(ls[p])
      PROVE  AttrHeld(m2, u, ls[p][i], NextOff(ls[p], i))
  <2>1. PICK x, next : x = ls[p][i] /\ next = NextOff(ls[p], i)
    OBVIOUS
  <2>2. AttrHeld(m, u, x, next)
    BY <2>1 DEF ListsHeld
  <2>3. x.off \in Offset
    BY <2>1, ListType
  <2>4. x.off # c
    BY <2>2, Kinds DEF AttrHeld
  <2>5. AttrHeld(m2, u, x, next)
    BY <1>k, <2>2, <2>3, <2>4, OtherAttr
  <2> QED
    BY <2>1, <2>5
<1>2. AttrsDistinct(ls)
  BY DEF ListsHeld
<1> QED
  BY <1>1, <1>2 DEF ListsHeld

\* and the list of events a change to the record of an attribute.
LEMMA OtherEvents ==
  ASSUME NEW m, NEW m2, NEW u, NEW c, Others(m, m2, c),
         NEW cn, NEW ck, NEW cv, m[c] = AttrRecord(cn, ck, cv),
         NEW el \in Seq(EventEntries), EventsHeld(m, u, el)
  PROVE  EventsHeld(m2, u, el)
<1>k. \A t : m[c] # Str(t)
  BY Kinds
<1>1. ASSUME NEW i \in 1..Len(el)
      PROVE  EventHeld(m2, u, el[i], NextOff(el, i))
  <2>1. PICK x, next : x = el[i] /\ next = NextOff(el, i)
    OBVIOUS
  <2>2. EventHeld(m, u, x, next)
    BY <2>1 DEF EventsHeld
  <2>3. x.off \in Offset
    BY <2>1, EventType
  <2>4. x.off # c
    BY <2>2, Kinds DEF EventHeld
  <2>5. EventHeld(m2, u, x, next)
    BY <1>k, <2>2, <2>3, <2>4, OtherEvent
  <2> QED
    BY <2>1, <2>5
<1>2. \A i, j \in 1..Len(el) : el[i].off = el[j].off => i = j
  BY DEF EventsHeld
<1> QED
  BY <1>1, <1>2 DEF EventsHeld

\* What hooking a record behind the tail t does.
LEMMA HookFacts ==
  ASSUME NEW m, DOMAIN m = Offset, NEW t, t = NIL \/ t \in Offset, NEW r
  PROVE  /\ DOMAIN Hook(m, t, r) = Offset /\ Others(m, Hook(m, t, r), t)
         /\ t = NIL => Hook(m, t, r) = m
         /\ t # NIL => Hook(m, t, r)[t] = [m[t] EXCEPT !.next = r]
<1>1. CASE t = NIL
  BY <1>1 DEF Hook, Others
<1>2. CASE t # NIL
  BY <1>2 DEF Hook, Others
<1> QED
  BY <1>1, <1>2

LEMMA Relinked ==
  ASSUME NEW n, NEW r, NEW k, NEW v, NEW log, NEW d
  PROVE  /\ [AttrRecord(n, k, v) EXCEPT !.next = r] = AttrRecord(r, k, v)
         /\ [EventRecord(n, k, log, d) EXCEPT !.next = r] = EventRecord(r, k, log, d)
  BY DEF AttrRecord, EventRecord

\* A new record x, hooked behind the p-th list.
LEMMA HookAttr ==
  ASSUME NEW m, DOMAIN m = Offset, NEW u, NEW ls, ListsType(ls), ListsHeld(m, u, ls),
         NEW p \in DOMAIN ls, NEW x \in Entries, AttrHeld(m, u, x, NIL),
         \A q \in DOMAIN ls : \A i \in 1..Len(ls[q]) : ls[q][i].off # x.off
  PROVE  ListsHeld(Hook(m, LastOff(ls[p]), x.off), u, [ls EXCEPT ![p] = Append(ls[p], x)])
<1>1. PICK t, m2, lp, ls2, n :
        /\ t = LastOff(ls[p]) /\ m2 = Hook(m, LastOff(ls[p]), x.off) /\ lp = Append(ls[p], x)
        /\ ls2 = [ls EXCEPT ![p] = Append(ls[p], x)] /\ n = Len(ls[p])
  OBVIOUS
<1>2. ls[p] \in Seq(Entries) /\ n \in Nat
  BY <1>1 DEF ListsType
<1>3. /\ Len(lp) = n + 1 /\ lp[n + 1] = x /\ \A i \in 1..n : lp[i] = ls[p][i]
  BY <1>1, <1>2, AppendFacts
<1>4. /\ \A i \in 0..n - 1 : NextOff(lp, i) = NextOff(ls[p], i)
      /\ NextOff(lp, n) = x.off /\ NextOff(lp, n + 1) = NIL
      /\ NextOff(ls[p], n) = NIL
  BY <1>1, <1>2, AppendLinks
<1>5. /\ DOMAIN ls2 = DOMAIN ls /\ ls2[p] = lp
      /\ \A q \in DOMAIN ls : q # p => ls2[q] = ls[q]
  BY <1>1
<1>6. x.off \in Offset /\ x.off # NIL
  BY Sizes DEF Entries
<1>7. ASSUME n = 0
      PROVE  \A q \in DOMAIN ls : \A i \in 1..Len(ls2[q]) :
                AttrHeld(m2, u, ls2[q][i], NextOff(ls2[q], i))
  <2>1. m2 = m
    BY <1>1, <1>7 DEF Hook, LastOff
  <2>2. ASSUME NEW q \in DOMAIN ls, NEW i \in 1..Len(ls2[q])
        PROVE  AttrHeld(m2, u, ls2[q][i], NextOff(ls2[q], i))
    <3>1. CASE q = p
      <4>1. i = n + 1
        <5>1. ls2[q] = lp /\ Len(lp) = 1
          BY <1>3, <1>5, <1>7, <3>1
        <5>2. i \in 1..1
          BY <5>1
        <5> QED
          BY <5>2, <1>7
      <4>2. ls2[q] = lp /\ lp[i] = x /\ NextOff(lp, i) = NIL
        BY <1>3, <1>4, <1>5, <3>1, <4>1
      <4> QED
        BY <2>1, <4>2
    <3>2. CASE q # p
      <4>1. ls2[q] = ls[q]
        BY <1>5, <3>2
      <4>2. AttrHeld(m, u, ls[q][i], NextOff(ls[q], i))
        BY <4>1 DEF ListsHeld
      <4> QED
        BY <2>1, <4>1, <4>2
    <3> QED
      BY <3>1, <3>2
  <2> QED
    BY <2>2
<1>8. ASSUME n # 0
      PROVE  \A q \in DOMAIN ls : \A i \in 1..Len(ls2[q]) :
                AttrHeld(m2, u, ls2[q][i], NextOff(ls2[q], i))
  <2>1. n \in 1..n /\ t = ls[p][n].off
    BY <1>1, <1>2, <1>8 DEF LastOff
  <2>2. t \in Offset
    BY <1>1, <2>1, ListType
  <2>3. AttrHeld(m, u, ls[p][n], NIL)
    <3>1. AttrHeld(m, u, ls[p][n], NextOff(ls[p], n))
      BY <1>1, <2>1 DEF ListsHeld
    <3> QED
      BY <3>1, <1>4
  <2>4. PICK k, v : /\ m[t] = AttrRecord(NIL, k, v)
                    /\ StrHeld(m, u, k, ls[p][n].key) /\ ValHeld(m, u, v, ls[p][n].val)
    BY <2>1, <2>3 DEF AttrHeld
  <2>5. Others(m, m2, t) /\ m2[t] = AttrRecord(x.off, k, v)
    <3>1. t # NIL
      BY <2>2, Sizes
    <3>2. Others(m, m2, t) /\ m2[t] = [m[t] EXCEPT !.next = x.off]
      BY <1>1, <2>2, <3>1, HookFacts
    <3>3. [AttrRecord(NIL, k, v) EXCEPT !.next = x.off] = AttrRecord(x.off, k, v)
      BY DEF AttrRecord
    <3>4. m[t] = AttrRecord(NIL, k, v)
      BY <2>4
    <3> QED
      BY <3>2, <3>3, <3>4
  <2>6. \A s : m[t] # Str(s)
    BY <2>4, Kinds
  <2>7. ls[p][n].off < u
    BY <2>3 DEF AttrHeld
  <2>8. AttrHeld(m2, u, ls[p][n], x.off)
    <3>1. StrHeld(m2, u, k, ls[p][n].key)
      BY <2>4, <2>5, <2>6, OtherStr
    <3>2. ValHeld(m2, u, v, ls[p][n].val)
      BY <2>4, <2>5, <2>6, OtherVal
    <3> QED
      BY <2>1, <2>5, <2>7, <3>1, <3>2 DEF AttrHeld
  <2>9. x.off # t
    BY <1>1, <2>1
  <2>10. AttrHeld(m2, u, x, NIL)
    BY <1>6, <2>5, <2>6, <2>9, OtherAttr
  <2>11. ASSUME NEW q \in DOMAIN ls, NEW i \in 1..Len(ls[q]), q # p \/ i # n
         PROVE  AttrHeld(m2, u, ls[q][i], NextOff(ls[q], i))
    <3>1. AttrHeld(m, u, ls[q][i], NextOff(ls[q], i))
      BY DEF ListsHeld
    <3>2. ls[q][i].off \in Offset
      BY ListType
    <3>3. ls[q][i].off # t
      <4>1. AttrsDistinct(ls)
        BY DEF ListsHeld
      <4>2. ls[q][i].off = ls[p][n].off => q = p /\ i = n
        BY <1>1, <2>1, <4>1 DEF AttrsDistinct
      <4> QED
        BY <2>1, <2>11, <4>2
    <3> QED
      BY <3>1, <3>2, <3>3, <2>5, <2>6, OtherAttr
  <2>12. ASSUME NEW q \in DOMAIN ls, NEW i \in 1..Len(ls2[q])
         PROVE  AttrHeld(m2, u, ls2[q][i], NextOff(ls2[q], i))
    <3>1. CASE q # p
      <4>1. ls2[q] = ls[q]
        BY <1>5, <3>1
      <4> QED
        BY <2>11, <3>1, <4>1
    <3>2. CASE q = p /\ i = n + 1
      <4>1. ls2[q] = lp /\ lp[i] = x /\ NextOff(lp, i) = NIL
        BY <1>3, <1>4, <1>5, <3>2
      <4> QED
        BY <2>10, <4>1
    <3>3. CASE q = p /\ i = n
      <4>1. ls2[q] = lp /\ lp[i] = ls[p][n] /\ NextOff(lp, i) = x.off
        BY <1>3, <1>4, <1>5, <2>1, <3>3
      <4> QED
        BY <2>8, <4>1
    <3>4. CASE q = p /\ i # n + 1 /\ i # n
      <4>1. i \in 1..n /\ i \in 0..n - 1
        BY <1>2, <1>3, <1>5, <3>4
      <4>2. ls2[q] = lp /\ lp[i] = ls[p][i] /\ NextOff(lp, i) = NextOff(ls[p], i)
        BY <1>3, <1>4, <1>5, <3>4, <4>1
      <4>3. AttrHeld(m2, u, ls[p][i], NextOff(ls[p], i))
        BY <1>1, <2>11, <3>4, <4>1
      <4> QED
        BY <4>2, <4>3
    <3> QED
      BY <3>1, <3>2, <3>3, <3>4
  <2> QED
    BY <2>12
<1>9. \A q \in DOMAIN ls2 : \A i \in 1..Len(ls2[q]) :
          AttrHeld(m2, u, ls2[q][i], NextOff(ls2[q], i))
  BY <1>2, <1>5, <1>7, <1>8
<1>10. AttrsDistinct(ls2)
  <2>1. AttrsDistinct(ls)
    BY DEF ListsHeld
  <2>2. ASSUME NEW q \in DOMAIN ls, NEW i \in 1..Len(ls2[q])
        PROVE  \/ q = p /\ i = n + 1 /\ ls2[q][i].off = x.off
               \/ /\ ~ (q = p /\ i = n + 1) /\ i \in 1..Len(ls[q])
                  /\ ls2[q][i].off = ls[q][i].off /\ ls[q][i].off # x.off
    <3>1. CASE q # p
      <4>1. ls2[q] = ls[q]
        BY <1>5, <3>1
      <4> QED
        BY <3>1, <4>1
    <3>2. CASE q = p /\ i = n + 1
      BY <1>3, <1>5, <3>2
    <3>3. CASE q = p /\ i # n + 1
      <4>1. i \in 1..n
        BY <1>2, <1>3, <1>5, <3>3
      <4>2. ls2[q][i] = ls[q][i] /\ i \in 1..Len(ls[q])
        BY <1>1, <1>3, <1>5, <3>3, <4>1
      <4> QED
        BY <3>3, <4>2
    <3> QED
      BY <3>1, <3>2, <3>3
  <2>3. ASSUME NEW q \in DOMAIN ls, NEW r \in DOMAIN ls, NEW i \in 1..Len(ls2[q]),
               NEW j \in 1..Len(ls2[r]), ls2[q][i].off = ls2[r][j].off
        PROVE  q = r /\ i = j
    <3>1. \/ q = p /\ i = n + 1 /\ ls2[q][i].off = x.off
          \/ /\ ~ (q = p /\ i = n + 1) /\ i \in 1..Len(ls[q])
             /\ ls2[q][i].off = ls[q][i].off /\ ls[q][i].off # x.off
      BY <2>2
    <3>2. \/ r = p /\ j = n + 1 /\ ls2[r][j].off = x.off
          \/ /\ ~ (r = p /\ j = n + 1) /\ j \in 1..Len(ls[r])
             /\ ls2[r][j].off = ls[r][j].off /\ ls[r][j].off # x.off
      BY <2>2
    <3> QED
      <4>1. CASE q = p /\ i = n + 1
        BY <2>3, <3>1, <3>2, <4>1
      <4>2. CASE ~ (q = p /\ i = n + 1)
        <5>1. /\ i \in 1..Len(ls[q]) /\ j \in 1..Len(ls[r])
              /\ ls[q][i].off = ls[r][j].off
          BY <2>3, <3>1, <3>2, <4>2
        <5> QED
          BY <2>1, <5>1, Zenon DEF AttrsDistinct
      <4> QED
        BY <4>1, <4>2
  <2> QED
    BY <1>5, <2>3, Zenon DEF AttrsDistinct
<1>11. ListsHeld(m2, u, ls2)
  BY <1>9, <1>10 DEF ListsHeld
<1> QED
  BY <1>1, <1>11

\* A new record x, hooked behind the list of events.
LEMMA HookEvent ==
  ASSUME NEW m, DOMAIN m = Offset, NEW u, NEW el \in Seq(EventEntries),
         EventsHeld(m, u, el), NEW x \in EventEntries, EventHeld(m, u, x, NIL),
         \A i \in 1..Len(el) : el[i].off # x.off,
         NEW ls, ListsType(ls), ListsHeld(m, u, ls)
  PROVE  /\ EventsHeld(Hook(m, LastOff(el), x.off), u, Append(el, x))
         /\ ListsHeld(Hook(m, LastOff(el), x.off), u, ls)
         /\ \A off, s : StrHeld(m, u, off, s) => StrHeld(Hook(m, LastOff(el), x.off), u, off, s)
<1>1. PICK t, m2, el2, n :
        /\ t = LastOff(el) /\ m2 = Hook(m, LastOff(el), x.off) /\ el2 = Append(el, x)
        /\ n = Len(el)
  OBVIOUS
<1>2. n \in Nat /\ Len(el2) = n + 1 /\ el2[n + 1] = x /\ \A i \in 1..n : el2[i] = el[i]
  BY <1>1, AppendFacts
<1>3. /\ \A i \in 0..n - 1 : NextOff(el2, i) = NextOff(el, i)
      /\ NextOff(el2, n) = x.off /\ NextOff(el2, n + 1) = NIL
      /\ NextOff(el, n) = NIL
  BY <1>1, AppendLinks
<1>4. x.off \in Offset /\ x.off # NIL
  BY Sizes DEF EventEntries
<1>5. ASSUME n = 0
      PROVE  /\ \A i \in 1..Len(el2) : EventHeld(m2, u, el2[i], NextOff(el2, i))
             /\ m2 = m
  <2>1. m2 = m
    BY <1>1, <1>5 DEF Hook, LastOff
  <2>2. Len(el2) = 1 /\ el2[1] = x /\ NextOff(el2, 1) = NIL
    BY <1>2, <1>3, <1>5
  <2>3. ASSUME NEW i \in 1..Len(el2) PROVE EventHeld(m2, u, el2[i], NextOff(el2, i))
    <3>1. i = 1
      BY <2>2
    <3> QED
      BY <2>1, <2>2, <3>1
  <2> QED
    BY <2>1, <2>3
<1>6. ASSUME n # 0
      PROVE  /\ \A i \in 1..Len(el2) : EventHeld(m2, u, el2[i], NextOff(el2, i))
             /\ ListsHeld(m2, u, ls)
             /\ \A off, s : StrHeld(m, u, off, s) => StrHeld(m2, u, off, s)
  <2>1. n \in 1..n /\ t = el[n].off
    BY <1>1, <1>2, <1>6 DEF LastOff
  <2>2. t \in Offset
    BY <1>1, <2>1, EventType
  <2>3. EventHeld(m, u, el[n], NIL)
    <3>1. EventHeld(m, u, el[n], NextOff(el, n))
      BY <1>1, <2>1 DEF EventsHeld
    <3> QED
      BY <3>1, <1>3
  <2>4. PICK k, d : /\ m[t] = EventRecord(NIL, k, el[n].attrs, d)
                    /\ StrHeld(m, u, k, el[n].name)
    BY <2>1, <2>3 DEF EventHeld
  <2>5. Others(m, m2, t) /\ m2[t] = EventRecord(x.off, k, el[n].attrs, d)
    <3>1. t # NIL
      BY <2>2, Sizes
    <3>2. Others(m, m2, t) /\ m2[t] = [m[t] EXCEPT !.next = x.off]
      BY <1>1, <2>2, <3>1, HookFacts
    <3>3. [EventRecord(NIL, k, el[n].attrs, d) EXCEPT !.next = x.off]
            = EventRecord(x.off, k, el[n].attrs, d)
      BY DEF EventRecord
    <3>4. m[t] = EventRecord(NIL, k, el[n].attrs, d)
      BY <2>4
    <3> QED
      BY <3>2, <3>3, <3>4
  <2>6. \A s : m[t] # Str(s)
    BY <2>4, Kinds
  <2>7. el[n].off < u
    BY <2>3 DEF EventHeld
  <2>8. EventHeld(m2, u, el[n], x.off)
    <3>1. StrHeld(m2, u, k, el[n].name)
      BY <2>4, <2>5, <2>6, OtherStr
    <3> QED
      BY <2>1, <2>5, <2>7, <3>1 DEF EventHeld
  <2>9. x.off # t
    BY <1>1, <2>1
  <2>10. EventHeld(m2, u, x, NIL)
    BY <1>4, <2>5, <2>6, <2>9, OtherEvent
  <2>11. ASSUME NEW i \in 1..n, i # n
         PROVE  EventHeld(m2, u, el[i], NextOff(el, i))
    <3>1. EventHeld(m, u, el[i], NextOff(el, i))
      BY <1>1 DEF EventsHeld
    <3>2. el[i].off \in Offset
      BY <1>1, EventType
    <3>3. el[i].off # t
      BY <1>1, <2>1, <2>11 DEF EventsHeld
    <3> QED
      BY <3>1, <3>2, <3>3, <2>5, <2>6, OtherEvent
  <2>12. ASSUME NEW i \in 1..Len(el2) PROVE EventHeld(m2, u, el2[i], NextOff(el2, i))
    <3>1. CASE i = n + 1
      BY <1>2, <1>3, <2>10, <3>1
    <3>2. CASE i = n
      <4>1. el2[i] = el[n] /\ NextOff(el2, i) = x.off
        BY <1>2, <1>3, <2>1, <3>2
      <4> QED
        BY <2>8, <4>1
    <3>3. CASE i # n + 1 /\ i # n
      <4>1. i \in 1..n /\ i \in 0..n - 1
        BY <1>2, <3>3
      <4>2. el2[i] = el[i] /\ NextOff(el2, i) = NextOff(el, i)
        BY <1>2, <1>3, <4>1
      <4>3. EventHeld(m2, u, el[i], NextOff(el, i))
        BY <2>11, <3>3, <4>1
      <4> QED
        BY <4>2, <4>3
    <3> QED
      BY <3>1, <3>2, <3>3
  <2>13. ListsHeld(m2, u, ls)
    BY <2>4, <2>5, OtherLists
  <2>14. \A off, s : StrHeld(m, u, off, s) => StrHeld(m2, u, off, s)
    BY <2>5, <2>6, OtherStr
  <2> QED
    BY <2>12, <2>13, <2>14
<1>7. \A i \in 1..Len(el2) : EventHeld(m2, u, el2[i], NextOff(el2, i))
  BY <1>5, <1>6
<1>8. ASSUME NEW i \in 1..Len(el2), NEW j \in 1..Len(el2), el2[i].off = el2[j].off
      PROVE  i = j
  <2>1. \A a \in 1..Len(el2) : a = n + 1 \/ a \in 1..n
    BY <1>2
  <2>2. \A a \in 1..n : el2[a].off = el[a].off /\ el[a].off # x.off
    BY <1>1, <1>2
  <2>3. el2[n + 1].off = x.off
    BY <1>2
  <2>4. CASE i \in 1..n /\ j \in 1..n
    BY <1>1, <1>8, <2>2, <2>4 DEF EventsHeld
  <2>5. CASE i = n + 1 \/ j = n + 1
    BY <1>8, <2>1, <2>2, <2>3, <2>5
  <2> QED
    BY <2>1, <2>4, <2>5
<1>9. EventsHeld(m2, u, el2)
  BY <1>7, <1>8, Zenon DEF EventsHeld
<1>10. ListsHeld(m2, u, ls) /\ \A off, s : StrHeld(m, u, off, s) => StrHeld(m2, u, off, s)
  BY <1>5, <1>6
<1> QED
  BY <1>1, <1>9, <1>10

\* The record of the i-th event, with another list of attributes or another
\* count of dropped ones.
IsEvent(r, next, n, log, d) == r = EventRecord(next, n, log, d)

OtherAttrs(el, el2, i, log) ==
    /\ Len(el2) = Len(el) /\ \A j \in 1..Len(el) : j # i => el2[j] = el[j]
    /\ el2[i].off = el[i].off /\ el2[i].name = el[i].name /\ el2[i].attrs = log

EventUpdated(m, m2, u, el2, ls) ==
    /\ EventsHeld(m2, u, el2) /\ ListsHeld(m2, u, ls)
    /\ \A off, s : StrHeld(m, u, off, s) => StrHeld(m2, u, off, s)

LEMMA UpdateEvent ==
  ASSUME NEW m, NEW m2, NEW u, NEW el \in Seq(EventEntries), EventsHeld(m, u, el),
         NEW i \in 1..Len(el), Others(m, m2, el[i].off),
         NEW n, NEW d, NEW log, NEW d2,
         IsEvent(m[el[i].off], NextOff(el, i), n, el[i].attrs, d),
         StrHeld(m, u, n, el[i].name),
         IsEvent(m2[el[i].off], NextOff(el, i), n, log, d2),
         NEW el2, OtherAttrs(el, el2, i, log),
         NEW ls, ListsType(ls), ListsHeld(m, u, ls)
  PROVE  EventUpdated(m, m2, u, el2, ls)
<1> SUFFICES ASSUME m[el[i].off] = EventRecord(NextOff(el, i), n, el[i].attrs, d),
                    m2[el[i].off] = EventRecord(NextOff(el, i), n, log, d2),
                    Len(el2) = Len(el), \A j \in 1..Len(el) : j # i => el2[j] = el[j],
                    el2[i].off = el[i].off, el2[i].name = el[i].name, el2[i].attrs = log
             PROVE  /\ EventsHeld(m2, u, el2) /\ ListsHeld(m2, u, ls)
                    /\ \A off, s : StrHeld(m, u, off, s) => StrHeld(m2, u, off, s)
  BY DEF EventUpdated, IsEvent, OtherAttrs
<1>1. PICK c : c = el[i].off
  OBVIOUS
<1>2. \A t : m[c] # Str(t)
  BY <1>1, Kinds
<1>3. Len(el) \in Nat /\ \A j \in 1..Len(el) : el2[j].off = el[j].off
  OBVIOUS
<1>4. \A j \in 1..Len(el) : NextOff(el2, j) = NextOff(el, j)
  <2> TAKE j \in 1..Len(el)
  <2>1. CASE j < Len(el)
    <3>1. j + 1 \in 1..Len(el)
      BY <1>3, <2>1
    <3> QED
      BY <1>3, <2>1, <3>1 DEF NextOff
  <2>2. CASE ~ (j < Len(el))
    BY <2>2 DEF NextOff
  <2> QED
    BY <2>1, <2>2
<1>5. ASSUME NEW j \in 1..Len(el) PROVE EventHeld(m2, u, el2[j], NextOff(el2, j))
  <2>1. EventHeld(m, u, el[j], NextOff(el, j))
    BY DEF EventsHeld
  <2>2. CASE j = i
    <3>1. el[i].off < u
      BY <2>1, <2>2 DEF EventHeld
    <3>2. StrHeld(m2, u, n, el2[i].name)
      BY <1>1, <1>2, OtherStr
    <3>3. m2[el2[i].off] = EventRecord(NextOff(el, i), n, el2[i].attrs, d2)
      OBVIOUS
    <3>4. EventHeld(m2, u, el2[i], NextOff(el, i))
      BY <3>1, <3>2, <3>3 DEF EventHeld
    <3> QED
      BY <1>4, <2>2, <3>4
  <2>3. CASE j # i
    <3>1. el[j].off # c /\ el[j].off \in Offset
      BY <1>1, <2>3, EventType DEF EventsHeld
    <3>2. EventHeld(m2, u, el[j], NextOff(el, j))
      BY <1>1, <1>2, <2>1, <3>1, OtherEvent
    <3> QED
      BY <1>4, <2>3, <3>2
  <2> QED
    BY <2>2, <2>3
<1>6. \A a, b \in 1..Len(el2) : el2[a].off = el2[b].off => a = b
  BY <1>3 DEF EventsHeld
<1>7. EventsHeld(m2, u, el2)
  BY <1>5, <1>6 DEF EventsHeld
<1>8. ListsHeld(m2, u, ls)
  BY OtherLists
<1>9. \A off, s : StrHeld(m, u, off, s) => StrHeld(m2, u, off, s)
  BY <1>1, <1>2, OtherStr
<1> QED
  BY <1>7, <1>8, <1>9

-----------------------------------------------------------------------------
(* The allocations of one call.                                            *)

\* Storing behind arena_used.
LEMMA WriteFacts ==
  ASSUME NEW m, DOMAIN m = Offset, NEW u \in Nat, NEW n \in Nat, NEW o, NEW w,
         n # 0 \/ o = NIL, Allocated(u, n, o, w), NEW rec
  PROVE  /\ DOMAIN Write(m, o, rec) = Offset /\ Agree(m, Write(m, o, rec), u)
         /\ o # NIL => Write(m, o, rec)[o] = rec /\ o < w /\ o \in Offset
         /\ w \in Nat /\ u <= w
<1>1. w \in Nat /\ u <= w
  BY Sizes DEF Allocated
<1>2. CASE o = NIL
  BY <1>1, <1>2 DEF Write, Agree
<1>3. CASE o # NIL
  <2>1. o = u /\ o \in Offset /\ o + n <= w /\ n # 0
    BY <1>3 DEF Allocated
  <2>2. o < w
    BY <1>1, <2>1
  <2>3. Write(m, o, rec) = [m EXCEPT ![o] = rec]
    BY <1>3 DEF Write
  <2>4. DOMAIN Write(m, o, rec) = Offset /\ Write(m, o, rec)[o] = rec
    BY <2>1, <2>3
  <2>5. ASSUME NEW q \in Offset, q < u PROVE Write(m, o, rec)[q] = m[q]
    <3>1. q # o
      BY <2>1, <2>5
    <3> QED
      BY <2>3, <3>1
  <2>6. Agree(m, Write(m, o, rec), u)
    BY <2>5 DEF Agree
  <2> QED
    BY <1>1, <2>1, <2>2, <2>4, <2>6
<1> QED
  BY <1>2, <1>3

LEMMA AgreeTrans ==
  ASSUME NEW m1, NEW m2, NEW m3, NEW u \in Nat, NEW w \in Nat, u <= w,
         Agree(m1, m2, u), Agree(m2, m3, w)
  PROVE  Agree(m1, m3, u)
<1>1. ASSUME NEW o \in Offset, o < u PROVE m3[o] = m1[o]
  <2>1. o \in Nat
    BY Sizes
  <2>2. o < w
    BY <1>1, <2>1
  <2> QED
    BY <1>1, <2>2 DEF Agree
<1> QED
  BY <1>1 DEF Agree

\* Copying a string into the arena.
LEMMA PutStr ==
  ASSUME NEW m, DOMAIN m = Offset, NEW u \in 0..Arena, u % Align = 0, NEW s \in Texts,
         NEW o, o = PutOff(u, s), NEW w, w = PutUsed(u, s),
         NEW m2, m2 = Write(m, o, Str(s))
  PROVE  /\ DOMAIN m2 = Offset /\ Agree(m, m2, u)
         /\ w \in 0..Arena /\ w % Align = 0 /\ u <= w
         /\ StrHeld(m2, w, o, Stored(o, s)) /\ Stored(o, s) \in Texts
         /\ o # NIL => u + 1 <= w /\ Stored(o, s) = s
<1>1. u \in Nat /\ Arena \in Nat
  BY Sizes
<1>2. Allocated(u, s + 1, o, w) /\ (s = Null => o = NIL)
  BY PutFacts, Zenon
<1>3. PICK n : n = s + 1
  OBVIOUS
<1>4. n \in Nat /\ (n # 0 \/ o = NIL)
  BY <1>2, <1>3, ArenaAssumption DEF Texts, Null
<1>5. Allocated(u, n, o, w)
  BY <1>2, <1>3
<1>6. /\ DOMAIN m2 = Offset /\ Agree(m, m2, u)
      /\ o # NIL => m2[o] = Str(s) /\ o < w /\ o \in Offset
      /\ w \in Nat /\ u <= w
  BY <1>1, <1>4, <1>5, WriteFacts
<1>7. w \in 0..Arena /\ w % Align = 0
  BY <1>5 DEF Allocated
<1>8. CASE o = NIL
  <2>1. Stored(o, s) = Null
    BY <1>8 DEF Stored
  <2> QED
    BY <1>6, <1>7, <1>8, <2>1 DEF StrHeld, Texts
<1>9. CASE o # NIL
  <2>1. Stored(o, s) = s
    BY <1>9 DEF Stored
  <2>2. u + 1 <= w
    <3>1. o = u /\ o + n <= w /\ n >= 1
      BY <1>4, <1>5, <1>9 DEF Allocated
    <3> QED
      BY <1>1, <1>4, <1>6, <3>1
  <2> QED
    BY <1>6, <1>7, <1>9, <2>1, <2>2 DEF StrHeld
<1> QED
  BY <1>8, <1>9

LEMMA AttrFields ==
  ASSUME NEW key, NEW val, NEW a, a = AttrAlloc(key, val)
  PROVE  LET k  == PutOff(used, key)
             u1 == PutUsed(used, key)
             r  == AllocOff(u1, AttrSize)
             u2 == AllocUsed(u1, AttrSize)
         IN /\ a.ok = (k # NIL /\ r # NIL) /\ a.key = k /\ a.rec = r
            /\ a.val = IF a.ok /\ val # Num THEN PutOff(u2, val) ELSE NIL
            /\ a.used = IF a.ok /\ val # Num THEN PutUsed(u2, val) ELSE u2
            /\ a.entry = [off |-> r, key |-> key,
                          val |-> IF val = Num THEN Num ELSE Stored(a.val, val)]
  BY DEF AttrAlloc

\* An attribute whose key or record does not fit leaves at most its key behind.
LEMMA AttrRefused ==
  ASSUME ArenaType, NEW key \in Strings, NEW val \in Texts \cup {Num},
         NEW a, a = AttrAlloc(key, val), ~ a.ok,
         NEW m2, m2 = Write(mem, a.key, Str(key))
  PROVE  /\ DOMAIN m2 = Offset /\ Agree(mem, m2, used)
         /\ a.used \in 0..Arena /\ a.used % Align = 0 /\ used <= a.used
<1>1. used \in 0..Arena /\ used % Align = 0 /\ DOMAIN mem = Offset /\ used \in Nat
  BY Sizes DEF ArenaType
<1>2. PICK k, u1, r, u2 :
        /\ k = PutOff(used, key) /\ u1 = PutUsed(used, key)
        /\ r = AllocOff(u1, AttrSize) /\ u2 = AllocUsed(u1, AttrSize)
  OBVIOUS
<1>3. a.key = k /\ a.used = u2
  BY <1>2, AttrFields
<1>4. /\ DOMAIN m2 = Offset /\ Agree(mem, m2, used)
      /\ u1 \in 0..Arena /\ u1 % Align = 0 /\ used <= u1
  BY <1>1, <1>2, <1>3, PutStr DEF Texts
<1>5. Allocated(u1, AttrSize, r, u2)
  BY <1>2, <1>4, Sizes, AllocFacts
<1>6. u2 \in 0..Arena /\ u2 % Align = 0 /\ u1 <= u2
  BY <1>5 DEF Allocated
<1>7. used <= u2
  BY <1>1, <1>4, <1>6, Sizes
<1> QED
  BY <1>3, <1>4, <1>6, <1>7

\* One that fits has its strings and its record behind arena_used.
LEMMA AttrAccepted ==
  ASSUME ArenaType, NEW key \in Strings, NEW val \in Texts \cup {Num},
         NEW a, a = AttrAlloc(key, val), a.ok,
         NEW m, m = AttrWrite(a, key, val, NIL)
  PROVE  /\ DOMAIN m = Offset /\ Agree(mem, m, used)
         /\ a.used \in 0..Arena /\ a.used % Align = 0 /\ used + AttrSize + 1 <= a.used
         /\ a.entry \in Entries /\ a.entry.off = a.rec /\ used <= a.rec
         /\ AttrHeld(m, a.used, a.entry, NIL)
         /\ \A t : AttrWrite(a, key, val, t) = Hook(m, t, a.rec)
<1>1. used \in 0..Arena /\ used % Align = 0 /\ DOMAIN mem = Offset /\ used \in Nat
  BY Sizes DEF ArenaType
<1>2. PICK k, u1, r, u2, v, u3 :
        /\ k = PutOff(used, key) /\ u1 = PutUsed(used, key)
        /\ r = AllocOff(u1, AttrSize) /\ u2 = AllocUsed(u1, AttrSize)
        /\ v = a.val /\ u3 = a.used
  OBVIOUS
<1>3. /\ k # NIL /\ r # NIL /\ a.key = k /\ a.rec = r
      /\ v = IF val # Num THEN PutOff(u2, val) ELSE NIL
      /\ u3 = IF val # Num THEN PutUsed(u2, val) ELSE u2
      /\ a.entry = [off |-> r, key |-> key,
                    val |-> IF val = Num THEN Num ELSE Stored(v, val)]
  <2>1. a.ok = (k # NIL /\ r # NIL) /\ a.key = k /\ a.rec = r
    BY <1>2, AttrFields
  <2>2. k # NIL /\ r # NIL
    BY <2>1
  <2>3. v = IF a.ok /\ val # Num THEN PutOff(u2, val) ELSE NIL
    BY <1>2 DEF AttrAlloc
  <2>4. u3 = IF a.ok /\ val # Num THEN PutUsed(u2, val) ELSE u2
    BY <1>2, AttrFields, ZenonT(30)
  <2>5. a.entry = [off |-> r, key |-> key,
                   val |-> IF val = Num THEN Num ELSE Stored(v, val)]
    BY <1>2, AttrFields
  <2> QED
    BY <2>1, <2>2, <2>3, <2>4, <2>5
<1>4. PICK mk, mv, rec :
        /\ mk = Write(mem, k, Str(key)) /\ mv = Write(mk, v, Str(val))
        /\ rec = AttrRecord(NIL, k, IF val = Num THEN Num ELSE v)
  OBVIOUS
<1>5. \A t : AttrWrite(a, key, val, t) = Hook([mv EXCEPT ![r] = rec], t, r)
  BY <1>2, <1>3, <1>4 DEF AttrWrite, AttrRecord
<1>6. m = [mv EXCEPT ![r] = rec]
  BY <1>5 DEF Hook
<1>7. /\ DOMAIN mk = Offset /\ Agree(mem, mk, used)
      /\ u1 \in 0..Arena /\ u1 % Align = 0 /\ used + 1 <= u1
      /\ StrHeld(mk, u1, k, key)
  BY <1>1, <1>2, <1>3, <1>4, PutStr DEF Texts
<1>8. Allocated(u1, AttrSize, r, u2)
  BY <1>2, <1>7, Sizes, AllocFacts
<1>9. /\ u2 \in 0..Arena /\ u2 % Align = 0 /\ u1 <= u2
      /\ r = u1 /\ r \in Offset /\ r + AttrSize <= u2
  BY <1>3, <1>8 DEF Allocated
<1>10. /\ u1 \in Nat /\ u2 \in Nat /\ AttrSize \in Nat \ {0} /\ r \in Nat
  BY <1>7, <1>9, Sizes
<1>11. /\ DOMAIN mv = Offset /\ Agree(mk, mv, u2)
       /\ u3 \in 0..Arena /\ u3 % Align = 0 /\ u2 <= u3
       /\ val # Num => StrHeld(mv, u3, v, Stored(v, val)) /\ Stored(v, val) \in Texts
  <2>1. CASE val = Num
    <3>1. v = NIL /\ u3 = u2
      BY <1>3, <2>1
    <3>2. mv = mk
      BY <1>4, <3>1 DEF Write
    <3> QED
      BY <1>7, <1>9, <1>10, <2>1, <3>1, <3>2 DEF Agree
  <2>2. CASE val # Num
    <3>1. val \in Texts /\ v = PutOff(u2, val) /\ u3 = PutUsed(u2, val)
      BY <1>3, <2>2
    <3> QED
      BY <1>4, <1>7, <1>9, <2>2, <3>1, PutStr
  <2> QED
    BY <2>1, <2>2
<1>12. u3 \in Nat /\ used <= u1 /\ used <= u2 /\ used <= r /\ u1 <= u3 /\ r < u3
       /\ used + AttrSize + 1 <= u3
  BY <1>1, <1>7, <1>9, <1>10, <1>11, Sizes
<1>13. DOMAIN m = Offset /\ m[r] = rec /\ Others(mv, m, r)
  BY <1>6, <1>9, <1>11 DEF Others
<1>14. Agree(mem, m, used)
  <2>1. Agree(mem, mv, used)
    BY <1>1, <1>7, <1>10, <1>11, <1>12, AgreeTrans
  <2>2. ASSUME NEW o \in Offset, o < used PROVE m[o] = mem[o]
    <3>1. o # r
      <4>1. o \in Nat
        BY Sizes
      <4> QED
        BY <1>1, <1>10, <1>12, <2>2, <4>1
    <3> QED
      BY <1>13, <2>1, <2>2, <3>1 DEF Agree, Others
  <2> QED
    BY <2>2 DEF Agree
<1>15. StrHeld(m, u3, k, key)
  <2>1. Agree(mk, m, u1)
    <3>1. ASSUME NEW o \in Offset, o < u1 PROVE m[o] = mk[o]
      <4>1. o \in Nat
        BY Sizes
      <4>2. o # r /\ o < u2
        BY <1>9, <1>10, <3>1, <4>1
      <4> QED
        BY <1>11, <1>13, <4>2 DEF Agree, Others
    <3> QED
      BY <3>1 DEF Agree
  <2> QED
    BY <1>7, <1>10, <1>12, <2>1, FreshStr
<1>16. ValHeld(m, u3, IF val = Num THEN Num ELSE v, a.entry.val)
  <2>1. CASE val = Num
    BY <1>3, <2>1 DEF ValHeld
  <2>2. CASE val # Num
    <3>1. a.entry.val = Stored(v, val)
      BY <1>3, <2>2
    <3>2. StrHeld(mv, u3, v, Stored(v, val)) /\ Stored(v, val) \in Texts
      BY <1>11, <2>2
    <3>3. Stored(v, val) # Num
      BY <3>2, Sizes DEF Texts, Null, Num
    <3>4. v = NIL \/ v = u2
      <4>1. val \in Texts /\ v = PutOff(u2, val)
        BY <1>3, <2>2
      <4>2. Allocated(u2, val + 1, v, PutUsed(u2, val))
        BY <1>9, <4>1, PutFacts
      <4> QED
        BY <4>2 DEF Allocated
    <3>5. v # r
      BY <1>9, <1>10, <3>4, <1>3
    <3>6. StrHeld(m, u3, v, Stored(v, val))
      BY <1>13, <3>2, <3>5 DEF StrHeld, Others
    <3> QED
      BY <2>2, <3>1, <3>3, <3>6 DEF ValHeld
  <2> QED
    BY <2>1, <2>2
<1>17. a.entry \in Entries /\ a.entry.off = r /\ a.entry.key = key
  <2>1. (IF val = Num THEN Num ELSE Stored(v, val)) \in Texts \cup {Num}
    BY <1>11
  <2> QED
    BY <1>3, <1>9, <2>1 DEF Entries
<1>18. AttrHeld(m, u3, a.entry, NIL)
  BY <1>4, <1>12, <1>13, <1>15, <1>16, <1>17 DEF AttrHeld
<1> QED
  BY <1>2, <1>3, <1>5, <1>6, <1>11, <1>12, <1>13, <1>14, <1>17, <1>18

-----------------------------------------------------------------------------
(* Every step keeps the lists.                                             *)

\* The head of a list with one more record, as the code computes it.
LEMMA HeadAppend ==
  ASSUME NEW S, NEW q \in Seq(S), NEW x \in S, \A i \in 1..Len(q) : q[i].off # NIL
  PROVE  (IF LastOff(q) = NIL THEN x.off ELSE NextOff(q, 0)) = NextOff(Append(q, x), 0)
<1>1. Len(q) \in Nat
  OBVIOUS
<1>2. CASE Len(q) = 0
  <2>1. LastOff(q) = NIL
    BY <1>2 DEF LastOff
  <2>2. NextOff(Append(q, x), 0) = x.off
    BY <1>2, AppendLinks
  <2> QED
    BY <2>1, <2>2
<1>3. CASE Len(q) # 0
  <2>1. Len(q) \in 1..Len(q) /\ 0 \in 0..Len(q) - 1
    BY <1>1, <1>3
  <2>2. LastOff(q) # NIL
    BY <1>3, <2>1 DEF LastOff
  <2>3. NextOff(Append(q, x), 0) = NextOff(q, 0)
    BY <2>1, AppendLinks
  <2> QED
    BY <2>2, <2>3
<1> QED
  BY <1>2, <1>3

LEMMA EmptyHeld ==
  ASSUME NEW m, NEW u \in Nat
  PROVE  Held(m, u, <<>>, <<>>)
<1>1. PICK e : e = <<>>
  OBVIOUS
<1>2. Len(e) = 0 /\ e \in Seq(Entries) /\ e \in Seq(EventEntries)
  BY <1>1
<1>3. DOMAIN AttrLists(e, e) = 0..0 /\ AttrLists(e, e)[0] = e
  BY <1>2, AttrListsType
<1>4. \A p \in DOMAIN AttrLists(e, e) : AttrLists(e, e)[p] = e
  BY <1>3
<1>5. ListsHeld(m, u, AttrLists(e, e))
  BY <1>2, <1>4 DEF ListsHeld, AttrsDistinct
<1>6. EventsHeld(m, u, e)
  BY <1>2 DEF EventsHeld
<1>7. Room(Len(e)) = 0
  BY <1>2, Sizes DEF Room
<1>8. ListsFit(u, e, e)
  BY <1>2, <1>7 DEF ListsFit
<1> QED
  BY <1>1, <1>5, <1>6, <1>8 DEF Held

LEMMA NextOfEmpty ==
  /\ NextOff(<<>>, 0) = NIL /\ LastOff(<<>>) = NIL /\ Len(<<>>) = 0
  BY DEF NextOff, LastOff

\* What accepting the attribute a for the p-th list makes of the arena.
AttrAdded(m2, a, ls, p) ==
    /\ DOMAIN m2 = Offset /\ a.entry \in Entries /\ a.entry.off = a.rec
    /\ a.used \in 0..Arena /\ a.used % Align = 0 /\ used + AttrSize + 1 <= a.used
    /\ ListsHeld(m2, a.used, [ls EXCEPT ![p] = Append(ls[p], a.entry)])
    /\ EventsHeld(m2, a.used, eventLog) /\ ListsFit(a.used, attrLog, eventLog)
    /\ \A off, s : StrHeld(mem, used, off, s) => StrHeld(m2, a.used, off, s)

\* Accepting an attribute for the p-th list, up to the event's own record.
LEMMA AddAttr ==
  ASSUME ArenaType, Held(mem, used, attrLog, eventLog),
         NEW key \in Strings, NEW val \in Texts \cup {Num},
         NEW a, a = AttrAlloc(key, val), a.ok, NEW p \in 0..Len(eventLog),
         NEW ls, ls = AttrLists(attrLog, eventLog),
         NEW m2, m2 = AttrWrite(a, key, val, LastOff(ls[p]))
  PROVE  AttrAdded(m2, a, ls, p)
<1> SUFFICES /\ DOMAIN m2 = Offset /\ a.entry \in Entries /\ a.entry.off = a.rec
             /\ a.used \in 0..Arena /\ a.used % Align = 0 /\ used + AttrSize + 1 <= a.used
             /\ ListsHeld(m2, a.used, [ls EXCEPT ![p] = Append(ls[p], a.entry)])
             /\ EventsHeld(m2, a.used, eventLog) /\ ListsFit(a.used, attrLog, eventLog)
             /\ \A off, s : StrHeld(mem, used, off, s) => StrHeld(m2, a.used, off, s)
  BY DEF AttrAdded
<1>1. /\ used \in Nat /\ attrLog \in Seq(Entries) /\ eventLog \in Seq(EventEntries)
      /\ Arena \in Nat /\ AttrSize \in Nat
  BY Sizes DEF ArenaType
<1>2. PICK m, u, x : m = AttrWrite(a, key, val, NIL) /\ u = a.used /\ x = a.entry
  OBVIOUS
<1>3. /\ DOMAIN m = Offset /\ Agree(mem, m, used)
      /\ u \in 0..Arena /\ u % Align = 0 /\ used + AttrSize + 1 <= u
      /\ x \in Entries /\ x.off = a.rec /\ used <= x.off
      /\ AttrHeld(m, u, x, NIL) /\ m2 = Hook(m, LastOff(ls[p]), x.off)
  BY <1>2, AttrAccepted
<1>4. u \in Nat /\ used <= u
  BY <1>1, <1>3
<1>5. Held(m, u, attrLog, eventLog)
  BY <1>1, <1>3, <1>4, FreshHeld
<1>6. ListsHeld(m, u, ls) /\ EventsHeld(m, u, eventLog) /\ ListsFit(u, attrLog, eventLog)
  BY <1>5 DEF Held
<1>7. ListsType(ls) /\ p \in DOMAIN ls
  BY <1>1, AttrListsType
<1>8. ASSUME NEW q \in DOMAIN ls, NEW i \in 1..Len(ls[q]) PROVE ls[q][i].off # x.off
  <2>1. ls[q][i].off \in Nat /\ x.off \in Nat
    BY <1>3, <1>7, ListType, Sizes DEF Entries
  <2>2. ls[q][i].off < used
    BY DEF Held, ListsHeld, AttrHeld
  <2> QED
    BY <1>1, <1>3, <2>1, <2>2
<1>9. ListsHeld(m2, u, [ls EXCEPT ![p] = Append(ls[p], x)])
  <2>1. DOMAIN m = Offset /\ x \in Entries /\ AttrHeld(m, u, x, NIL)
    BY <1>3
  <2>2. ListsHeld(Hook(m, LastOff(ls[p]), x.off), u, [ls EXCEPT ![p] = Append(ls[p], x)])
    BY <1>6, <1>7, <1>8, <2>1, HookAttr, Zenon
  <2>3. m2 = Hook(m, LastOff(ls[p]), x.off)
    BY <1>3
  <2> QED
    BY <2>2, <2>3, Zenon
<1>10. PICK t : t = LastOff(ls[p])
  OBVIOUS
<1>11. CASE t = NIL
  <2>1. m2 = m
    BY <1>3, <1>10, <1>11 DEF Hook
  <2>2. \A off, s : StrHeld(mem, used, off, s) => StrHeld(m, u, off, s)
    BY <1>1, <1>3, <1>4, FreshStr
  <2> QED
    BY <1>2, <1>3, <1>6, <1>9, <2>1, <2>2
<1>12. CASE t # NIL
  <2>1. ls[p] \in Seq(Entries)
    BY <1>7 DEF ListsType
  <2>2. PICK n : n = Len(ls[p])
    OBVIOUS
  <2>3. n \in 1..n /\ t = ls[p][n].off
    BY <1>10, <1>12, <2>1, <2>2 DEF LastOff
  <2>4. t \in Offset
    BY <1>7, <2>2, <2>3, ListType
  <2>5. AttrHeld(m, u, ls[p][n], NextOff(ls[p], n))
    BY <1>6, <1>7, <2>2, <2>3 DEF ListsHeld
  <2>6. PICK nx, k, v : m[t] = AttrRecord(nx, k, v)
    BY <2>3, <2>5 DEF AttrHeld
  <2>7. DOMAIN m2 = Offset /\ Others(m, m2, t)
    <3>1. DOMAIN Hook(m, t, x.off) = Offset /\ Others(m, Hook(m, t, x.off), t)
      BY <1>3, <2>4, HookFacts, Zenon
    <3>2. m2 = Hook(m, t, x.off)
      BY <1>3, <1>10, Zenon
    <3> QED
      BY <3>1, <3>2, Zenon
  <2>8. EventsHeld(m2, u, eventLog)
    BY <1>1, <1>6, <2>6, <2>7, OtherEvents
  <2>9. \A s : m[t] # Str(s)
    BY <2>6, Kinds
  <2>10. ASSUME NEW off, NEW s, StrHeld(mem, used, off, s) PROVE StrHeld(m2, u, off, s)
    <3>1. StrHeld(m, u, off, s)
      BY <1>1, <1>3, <1>4, <2>10, FreshStr
    <3> QED
      BY <2>7, <2>9, <3>1, OtherStr
  <2> QED
    BY <1>2, <1>3, <1>6, <1>9, <2>7, <2>8, <2>10
<1> QED
  BY <1>11, <1>12

\* One more attribute fits into the bytes that it took.
LEMMA RoomForOne ==
  ASSUME NEW n \in Nat, NEW base \in Nat, NEW u \in Nat, NEW w \in Nat,
         base + Room(n) <= u, u + AttrSize + 1 <= w
  PROVE  base + Room(n + 1) <= w
<1>1. PICK r, z, a : r = Room(n) /\ z = Room(n + 1) /\ a = AttrSize
  OBVIOUS
<1>2. r \in Nat /\ a \in Nat /\ z = r + a + 1
  BY <1>1, RoomNat, Sizes
<1>3. base + r <= u /\ u + a + 1 <= w
  BY <1>1
<1>4. base + z <= w
  BY <1>2, <1>3
<1> QED
  BY <1>1, <1>4

\* The 8-bit count of an event's attributes never wraps.
LEMMA CountFits ==
  ASSUME NEW n \in Nat, NEW w \in 0..Arena, EventSize + Room(n + 1) <= w
  PROVE  CountU8(n) = n + 1
<1>1. PICK k, z : k = AttrSize + 1 /\ z = U8
  OBVIOUS
<1>2. k \in Nat \ {0} /\ z \in Nat \ {0} /\ EventSize \in Nat /\ Arena \in Nat /\ w \in Nat
  BY <1>1, Sizes
<1>3. EventSize + z * k > Arena
  BY <1>1, CountAssumption
<1>4. EventSize + (n + 1) * k <= Arena
  <2>1. Room(n + 1) = (n + 1) * k
    BY <1>1 DEF Room
  <2>2. Room(n + 1) \in Nat
    BY RoomNat
  <2> QED
    BY <1>2, <2>1, <2>2
<1>5. PICK x, y : x = (n + 1) * k /\ y = z * k
  OBVIOUS
<1>6. x \in Nat /\ y \in Nat
  BY <1>2, <1>5
<1>7. x < y
  BY <1>2, <1>3, <1>4, <1>5, <1>6
<1>8. n + 1 < z
  <2>1. CASE n + 1 >= z
    <3>1. PICK d : d = n + 1 - z
      OBVIOUS
    <3>2. d \in Nat /\ n + 1 = z + d
      BY <1>2, <2>1, <3>1
    <3>3. x = y + d * k /\ d * k \in Nat
      BY <1>2, <1>5, <3>2
    <3> QED
      BY <1>6, <1>7, <3>3
  <2> QED
    BY <1>2, <2>1
<1>9. (n + 1) % z = n + 1
  BY <1>2, <1>8
<1> QED
  BY <1>1, <1>9 DEF CountU8

LEMMA ListFacts ==
  ASSUME ArenaType, ListInv
  PROVE  /\ used \in 0..Arena /\ used % Align = 0 /\ used \in Nat
         /\ DOMAIN mem = Offset
         /\ attrLog \in Seq(Entries) /\ eventLog \in Seq(EventEntries)
         /\ Held(mem, used, attrLog, eventLog)
         /\ attrHead = NextOff(attrLog, 0) /\ attrTail = LastOff(attrLog)
         /\ eventHead = NextOff(eventLog, 0) /\ eventTail = LastOff(eventLog)
         /\ numAttrs = Len(attrLog) /\ numEvents = Len(eventLog)
         /\ StrHeld(mem, used, name, nameLog)
         /\ StrHeld(mem, used, statusMessage, statusLog)
  BY Sizes DEF ArenaType, ListInv

\* A step that leaves the lists alone and writes behind arena_used only.
LEMMA FreshStep ==
  ASSUME ArenaType, ListInv, DOMAIN mem' = Offset, Agree(mem, mem', used),
         used' \in 0..Arena, used' % Align = 0, used <= used',
         UNCHANGED <<lists, attrLog, eventLog>>
  PROVE  /\ ArenaType'
         /\ StrHeld(mem', used', name, nameLog)
         /\ StrHeld(mem', used', statusMessage, statusLog)
         /\ StrHeld(mem', used', name', nameLog')
              /\ StrHeld(mem', used', statusMessage', statusLog') => ListInv'
<1>1. /\ used \in Nat /\ used' \in Nat
      /\ attrLog \in Seq(Entries) /\ eventLog \in Seq(EventEntries)
      /\ Held(mem, used, attrLog, eventLog)
      /\ StrHeld(mem, used, name, nameLog)
      /\ StrHeld(mem, used, statusMessage, statusLog)
  BY ListFacts, Sizes
<1>2. ArenaType'
  BY <1>1 DEF ArenaType
<1>3. /\ StrHeld(mem', used', name, nameLog)
      /\ StrHeld(mem', used', statusMessage, statusLog)
  BY <1>1, FreshStr
<1>4. Held(mem', used', attrLog, eventLog)
  BY <1>1, FreshHeld
<1>5. /\ attrLog' = attrLog /\ eventLog' = eventLog
      /\ attrHead' = attrHead /\ attrTail' = attrTail /\ numAttrs' = numAttrs
      /\ eventHead' = eventHead /\ eventTail' = eventTail /\ numEvents' = numEvents
  BY DEF lists
<1>6. ASSUME /\ StrHeld(mem', used', name', nameLog')
             /\ StrHeld(mem', used', statusMessage', statusLog')
      PROVE  ListInv'
  <2>1. Held(mem', used', attrLog', eventLog')
    BY <1>4, <1>5
  <2> QED
    BY <1>5, <1>6, <2>1, ListFacts DEF ListInv
<1> QED
  BY <1>2, <1>3, <1>6

LEMMA StartStep ==
  ASSUME NEW s \in Texts, Start(s)
  PROVE  ArenaType' /\ ListInv'
<1>1. PICK off, w, m, junk :
        /\ off = PutOff(0, s) /\ w = PutUsed(0, s) /\ m = Write(junk, off, Str(s))
        /\ junk = [o \in Offset |-> Junk]
  OBVIOUS
<1>2. /\ used' = w /\ mem' = m /\ name' = off /\ statusMessage' = NIL
      /\ attrHead' = NIL /\ attrTail' = NIL /\ numAttrs' = 0
      /\ eventHead' = NIL /\ eventTail' = NIL /\ numEvents' = 0
      /\ attrLog' = <<>> /\ eventLog' = <<>>
      /\ nameLog' = Stored(off, s) /\ statusLog' = Null
  BY <1>1 DEF Start
<1>3. 0 \in 0..Arena /\ 0 % Align = 0 /\ DOMAIN junk = Offset
  <2>1. Arena \in Nat /\ Align \in Nat \ {0}
    BY ArenaAssumption
  <2>2. (0 * Align) % Align = 0 /\ 0 * Align = 0
    BY <2>1, MultipleMod
  <2> QED
    BY <1>1, <2>1, <2>2
<1>4. /\ DOMAIN m = Offset /\ w \in 0..Arena /\ w % Align = 0
      /\ StrHeld(m, w, off, Stored(off, s))
  BY <1>1, <1>3, PutStr
<1>5. w \in Nat
  BY <1>4, Sizes
<1>6. Held(m, w, <<>>, <<>>)
  BY <1>5, EmptyHeld
<1>7. ArenaType'
  BY <1>2, <1>4 DEF ArenaType
<1>8. StrHeld(m, w, NIL, Null)
  BY DEF StrHeld
<1>9. ListInv'
  BY <1>2, <1>4, <1>6, <1>8, NextOfEmpty DEF ListInv
<1> QED
  BY <1>7, <1>9

LEMMA NameStep ==
  ASSUME ArenaType, ListInv, NEW s \in Texts, SetName(s) \/ SetStatus(s)
  PROVE  ArenaType' /\ ListInv'
<1>1. PICK off : off = PutOff(used, s)
  OBVIOUS
<1>2. /\ used' = PutUsed(used, s) /\ mem' = Write(mem, off, Str(s))
      /\ UNCHANGED <<lists, attrLog, eventLog>>
  BY <1>1 DEF SetName, SetStatus
<1>3. /\ DOMAIN mem' = Offset /\ Agree(mem, mem', used)
      /\ used' \in 0..Arena /\ used' % Align = 0 /\ used <= used'
      /\ StrHeld(mem', used', off, Stored(off, s))
      /\ off # NIL => Stored(off, s) = s
  <2>1. used \in 0..Arena /\ used % Align = 0 /\ DOMAIN mem = Offset
    BY ListFacts
  <2> QED
    BY <1>1, <1>2, <2>1, PutStr
<1>4. /\ ArenaType'
      /\ StrHeld(mem', used', name, nameLog)
      /\ StrHeld(mem', used', statusMessage, statusLog)
      /\ StrHeld(mem', used', name', nameLog')
           /\ StrHeld(mem', used', statusMessage', statusLog') => ListInv'
  BY <1>2, <1>3, FreshStep
<1>5. CASE SetName(s)
  <2>1. /\ name' = IF off = NIL THEN name ELSE off
        /\ nameLog' = IF off = NIL THEN nameLog ELSE s
        /\ statusMessage' = statusMessage /\ statusLog' = statusLog
    BY <1>1, <1>5 DEF SetName
  <2> QED
    BY <1>3, <1>4, <2>1
<1>6. CASE SetStatus(s)
  <2>1. /\ statusMessage' = off /\ statusLog' = Stored(off, s)
        /\ name' = name /\ nameLog' = nameLog
    BY <1>1, <1>6 DEF SetStatus
  <2> QED
    BY <1>3, <1>4, <2>1
<1> QED
  BY <1>5, <1>6

\* otel_span_attr_ and its siblings.
LEMMA SpanAttrStep ==
  ASSUME ArenaType, ListInv, NEW key \in Strings, NEW val \in Texts \cup {Num},
         SpanAttr(key, val)
  PROVE  ArenaType' /\ ListInv'
<1>1. PICK a : a = AttrAlloc(key, val)
  OBVIOUS
<1>2. /\ used' = a.used /\ UNCHANGED <<name, statusMessage, nameLog, statusLog,
                                       eventHead, eventTail, numEvents, eventLog>>
  BY <1>1 DEF SpanAttr
<1>3. CASE ~ a.ok
  <2>1. /\ mem' = Write(mem, a.key, Str(key))
        /\ UNCHANGED <<attrHead, attrTail, numAttrs, attrLog>>
    BY <1>1, <1>3 DEF SpanAttr
  <2>2. /\ DOMAIN mem' = Offset /\ Agree(mem, mem', used)
        /\ used' \in 0..Arena /\ used' % Align = 0 /\ used <= used'
    BY <1>1, <1>2, <1>3, <2>1, AttrRefused
  <2>3. UNCHANGED <<lists, attrLog, eventLog>>
    BY <1>2, <2>1 DEF lists
  <2>4. /\ ArenaType'
        /\ StrHeld(mem', used', name, nameLog)
        /\ StrHeld(mem', used', statusMessage, statusLog)
        /\ StrHeld(mem', used', name', nameLog')
             /\ StrHeld(mem', used', statusMessage', statusLog') => ListInv'
    BY <2>2, <2>3, FreshStep
  <2> QED
    BY <1>2, <2>4
<1>4. CASE a.ok
  <2>1. /\ mem' = AttrWrite(a, key, val, attrTail)
        /\ attrHead' = IF attrTail = NIL THEN a.rec ELSE attrHead
        /\ attrTail' = a.rec
        /\ numAttrs' = numAttrs + 1
        /\ attrLog' = Append(attrLog, a.entry)
    BY <1>1, <1>4 DEF SpanAttr
  <2>2. PICK ls : ls = AttrLists(attrLog, eventLog)
    OBVIOUS
  <2>3. attrLog \in Seq(Entries) /\ eventLog \in Seq(EventEntries) /\ used \in Nat
    BY ListFacts
  <2>4. ls[0] = attrLog /\ DOMAIN ls = 0..Len(eventLog) /\ 0 \in 0..Len(eventLog)
    BY <2>2, <2>3, AttrListsType
  <2>5. mem' = AttrWrite(a, key, val, LastOff(ls[0]))
    BY <2>1, <2>4, ListFacts
  <2>6. /\ DOMAIN mem' = Offset /\ a.entry \in Entries /\ a.entry.off = a.rec
        /\ a.used \in 0..Arena /\ a.used % Align = 0 /\ used + AttrSize + 1 <= a.used
        /\ ListsHeld(mem', a.used, [ls EXCEPT ![0] = Append(ls[0], a.entry)])
        /\ EventsHeld(mem', a.used, eventLog) /\ ListsFit(a.used, attrLog, eventLog)
        /\ \A off, s : StrHeld(mem, used, off, s) => StrHeld(mem', a.used, off, s)
    <3>1. Held(mem, used, attrLog, eventLog)
      BY ListFacts
    <3>2. AttrAdded(mem', a, ls, 0)
      BY <1>1, <1>4, <2>2, <2>4, <2>5, <3>1, AddAttr, Zenon
    <3> QED
      BY <3>2 DEF AttrAdded
  <2>7. attrLog' \in Seq(Entries) /\ Len(attrLog') = Len(attrLog) + 1 /\ Len(attrLog) \in Nat
    BY <2>1, <2>3, <2>6, AppendFacts
  <2>8. ArenaType'
    BY <1>2, <2>3, <2>6, <2>7 DEF ArenaType
  <2>9. AttrLists(attrLog', eventLog) = [ls EXCEPT ![0] = Append(ls[0], a.entry)]
    BY <2>1, <2>2, <2>4 DEF AttrLists
  <2>10. ListsFit(a.used, attrLog', eventLog)
    <3>1. Room(Len(attrLog)) <= used
      BY ListFacts DEF Held, ListsFit
    <3>2. a.used \in Nat
      BY <2>6, Sizes
    <3>3. PICK n, u : n = Len(attrLog) /\ u = a.used
      OBVIOUS
    <3>4. n \in Nat /\ u \in Nat /\ 0 + Room(n) <= used /\ used + AttrSize + 1 <= u
      BY <2>6, <2>7, <3>1, <3>2, <3>3, RoomNat
    <3>5. 0 + Room(n + 1) <= u
      BY <2>3, <3>4, RoomForOne
    <3>6. Room(Len(attrLog')) <= a.used
      BY <2>7, <3>3, <3>4, <3>5, RoomNat
    <3> QED
      BY <2>6, <3>6 DEF ListsFit
  <2>11. Held(mem', used', attrLog', eventLog')
    BY <1>2, <2>6, <2>9, <2>10 DEF Held
  <2>12. attrHead' = NextOff(attrLog', 0) /\ attrTail' = LastOff(attrLog')
    <3>1. ASSUME NEW i \in 1..Len(attrLog) PROVE attrLog[i].off # NIL
      <4>1. attrLog[i] \in Entries
        BY <2>3
      <4> QED
        BY <4>1, Sizes DEF Entries
    <3>2. (IF LastOff(attrLog) = NIL THEN a.entry.off ELSE NextOff(attrLog, 0))
            = NextOff(Append(attrLog, a.entry), 0)
      BY <2>3, <2>6, <3>1, HeadAppend
    <3>3. LastOff(Append(attrLog, a.entry)) = a.entry.off
      BY <2>3, <2>6, AppendLinks
    <3> QED
      BY <2>1, <2>6, <3>2, <3>3, ListFacts
  <2>13. /\ StrHeld(mem', used', name', nameLog')
         /\ StrHeld(mem', used', statusMessage', statusLog')
    BY <1>2, <2>6, ListFacts
  <2>14. /\ eventHead' = NextOff(eventLog', 0) /\ eventTail' = LastOff(eventLog')
         /\ numEvents' = Len(eventLog') /\ numAttrs' = Len(attrLog')
    BY <1>2, <2>1, <2>7, ListFacts
  <2> QED
    BY <2>8, <2>11, <2>12, <2>13, <2>14 DEF ListInv
<1> QED
  BY <1>3, <1>4

\* otel_event_attr_ and its siblings, when the attribute fits: what the stores
\* into the event's own record make of it.
WithAttr(r, r2, log, x) ==
    r2 = [r EXCEPT !.head = IF LastOff(log) = NIL THEN x.off ELSE r.head,
                   !.tail = x.off, !.num = CountU8(r.num)]

LEMMA EventRecordAppend ==
  ASSUME NEW r, NEW nx, NEW n, NEW log \in Seq(Entries), NEW d, NEW x \in Entries,
         IsEvent(r, nx, n, log, d), CountU8(Len(log)) = Len(log) + 1,
         NEW r2, WithAttr(r, r2, log, x)
  PROVE  IsEvent(r2, nx, n, Append(log, x), d)
<1> SUFFICES ASSUME r = EventRecord(nx, n, log, d),
                    r2 = [r EXCEPT !.head = IF LastOff(log) = NIL THEN x.off ELSE r.head,
                                   !.tail = x.off, !.num = CountU8(r.num)]
             PROVE  r2 = EventRecord(nx, n, Append(log, x), d)
  BY DEF IsEvent, WithAttr
<1>1. PICK h, t, c, h2 :
        /\ h = NextOff(log, 0) /\ t = LastOff(log) /\ c = Len(log)
        /\ h2 = IF LastOff(log) = NIL THEN x.off ELSE NextOff(log, 0)
  OBVIOUS
<1>2. h2 = NextOff(Append(log, x), 0)
  <2>1. ASSUME NEW i \in 1..Len(log) PROVE log[i].off # NIL
    <3>1. log[i] \in Entries
      OBVIOUS
    <3> QED
      BY <3>1, Sizes DEF Entries
  <2> QED
    BY <1>1, <2>1, HeadAppend
<1>3. LastOff(Append(log, x)) = x.off /\ Len(Append(log, x)) = c + 1
  BY <1>1, AppendLinks, AppendFacts
<1>4. r = [kind |-> "event", next |-> nx, name |-> n, head |-> h, tail |-> t,
           num |-> c, dropped |-> d]
  BY <1>1 DEF EventRecord
<1>5. r2 = [kind |-> "event", next |-> nx, name |-> n, head |-> h2, tail |-> x.off,
            num |-> c + 1, dropped |-> d]
  <2>1. r.head = h /\ r.num = c
    BY <1>4
  <2>2. PICK xo, c2 : xo = x.off /\ c2 = CountU8(c)
    OBVIOUS
  <2>3. r2 = [r EXCEPT !.head = h2, !.tail = xo, !.num = c2]
    BY <1>1, <2>1, <2>2
  <2>4. r2 = [kind |-> "event", next |-> nx, name |-> n, head |-> h2, tail |-> xo,
              num |-> c2, dropped |-> d]
    <3>1. PICK rA, rB : rA = [r EXCEPT !.head = h2] /\ rB = [rA EXCEPT !.tail = xo]
      OBVIOUS
    <3>2. rA = [kind |-> "event", next |-> nx, name |-> n, head |-> h2, tail |-> t,
                num |-> c, dropped |-> d]
      BY <1>4, <3>1
    <3>3. rB = [kind |-> "event", next |-> nx, name |-> n, head |-> h2, tail |-> xo,
                num |-> c, dropped |-> d]
      <4>1. rB = [rA EXCEPT !.tail = xo]
        BY <3>1
      <4> QED
        BY <3>2, <4>1
    <3>4. r2 = [rB EXCEPT !.num = c2]
      BY <2>3, <3>1
    <3> QED
      BY <3>3, <3>4
  <2>5. c2 = c + 1
    BY <1>1, <2>2
  <2> QED
    BY <2>2, <2>4, <2>5
<1> QED
  BY <1>2, <1>3, <1>5 DEF EventRecord

\* The events with one more attribute for the i-th.
EventsAppended(al, el, el2, i, x) ==
    /\ el2 \in Seq(EventEntries) /\ Len(el2) = Len(el)
    /\ \A j \in 1..Len(el) : el2[j].off = el[j].off /\ (j # i => el2[j] = el[j])
    /\ el2[i].name = el[i].name /\ el2[i].attrs = Append(el[i].attrs, x)
    /\ \A p \in 0..Len(el) : NextOff(el2, p) = NextOff(el, p)
    /\ LastOff(el2) = LastOff(el)
    /\ AttrLists(al, el2)
         = [AttrLists(al, el) EXCEPT ![i] = Append(AttrLists(al, el)[i], x)]

LEMMA EventLogAppend ==
  ASSUME NEW al \in Seq(Entries), NEW el \in Seq(EventEntries), NEW i \in 1..Len(el),
         NEW x \in Entries, NEW el2, el2 = [el EXCEPT ![i].attrs = Append(@, x)]
  PROVE  EventsAppended(al, el, el2, i, x)
<1> SUFFICES /\ el2 \in Seq(EventEntries) /\ Len(el2) = Len(el)
             /\ \A j \in 1..Len(el) : el2[j].off = el[j].off /\ (j # i => el2[j] = el[j])
             /\ el2[i].name = el[i].name /\ el2[i].attrs = Append(el[i].attrs, x)
             /\ \A p \in 0..Len(el) : NextOff(el2, p) = NextOff(el, p)
             /\ LastOff(el2) = LastOff(el)
             /\ AttrLists(al, el2)
                  = [AttrLists(al, el) EXCEPT ![i] = Append(AttrLists(al, el)[i], x)]
  BY DEF EventsAppended
<1>1. Len(el) \in Nat /\ el[i] \in EventEntries /\ el[i].attrs \in Seq(Entries)
  BY EventType
<1>2. PICK y : y = [el[i] EXCEPT !.attrs = Append(@, x)]
  OBVIOUS
<1>3. /\ y \in EventEntries /\ y.off = el[i].off /\ y.name = el[i].name
      /\ y.attrs = Append(el[i].attrs, x)
  <2>1. PICK l, l2 : l = el[i].attrs /\ l2 = Append(l, x)
    OBVIOUS
  <2>2. l2 \in Seq(Entries)
    BY <1>1, <2>1, AppendFacts
  <2>3. y = [el[i] EXCEPT !.attrs = l2]
    BY <1>2, <2>1
  <2>4. PICK S, z : S = Seq(Entries) /\ z = el[i]
    OBVIOUS
  <2>5. z \in [off : Offset, name : Texts, attrs : S] /\ l2 \in S /\ y = [z EXCEPT !.attrs = l2]
    BY <1>1, <2>2, <2>3, <2>4 DEF EventEntries
  <2>6. /\ y \in [off : Offset, name : Texts, attrs : S]
        /\ y.off = z.off /\ y.name = z.name /\ y.attrs = l2
    BY <2>5
  <2> QED
    BY <2>1, <2>4, <2>6 DEF EventEntries
<1>4. el2 = [el EXCEPT ![i] = y]
  BY <1>2
<1>5. /\ el2 \in Seq(EventEntries) /\ Len(el2) = Len(el)
      /\ \A j \in 1..Len(el) : el2[j] = IF j = i THEN y ELSE el[j]
  <2>1. PICK S : S = EventEntries
    OBVIOUS
  <2>2. el \in Seq(S) /\ y \in S
    BY <1>3, <2>1
  <2>3. el2 \in Seq(S)
    <3>1. [el EXCEPT ![i] = y] \in Seq(S)
      BY <2>2, ExceptSeq, Zenon
    <3> QED
      BY <1>4, <3>1, Zenon
  <2>4. Len(el2) = Len(el) /\ \A j \in 1..Len(el) : el2[j] = IF j = i THEN y ELSE el[j]
    BY <1>4, <2>2, ExceptSeq, SMTT(30)
  <2> QED
    BY <2>1, <2>3, <2>4
<1>6. \A j \in 1..Len(el) : el2[j].off = el[j].off
  BY <1>3, <1>5
<1>7. ASSUME NEW p \in 0..Len(el) PROVE NextOff(el2, p) = NextOff(el, p)
  <2>1. p < Len(el) => p + 1 \in 1..Len(el)
    BY <1>1
  <2> QED
    BY <1>5, <1>6, <2>1 DEF NextOff
<1>8. LastOff(el2) = LastOff(el)
  <2>1. Len(el) # 0 => Len(el) \in 1..Len(el)
    BY <1>1
  <2> QED
    BY <1>5, <1>6, <2>1 DEF LastOff
<1>9. AttrLists(al, el2) = [AttrLists(al, el) EXCEPT ![i] = Append(AttrLists(al, el)[i], x)]
  <2>1. PICK ls, ls2 : ls = AttrLists(al, el) /\ ls2 = AttrLists(al, el2)
    OBVIOUS
  <2>2. /\ DOMAIN ls = 0..Len(el) /\ ls[0] = al /\ ls[i] = el[i].attrs
        /\ \A j \in 1..Len(el) : ls[j] = el[j].attrs
    BY <2>1, AttrListsType
  <2>3. /\ DOMAIN ls2 = 0..Len(el) /\ ls2[0] = al
        /\ \A j \in 1..Len(el) : ls2[j] = el2[j].attrs
    <3>1. /\ DOMAIN ls2 = 0..Len(el2) /\ ls2[0] = al
          /\ \A j \in 1..Len(el2) : ls2[j] = el2[j].attrs
      <4>1. PICK n, e2 : n = Len(el2) /\ e2 = el2
        OBVIOUS
      <4>2. n \in Nat /\ ls2 = [p \in 0..n |-> IF p = 0 THEN al ELSE e2[p].attrs]
        BY <1>1, <1>5, <2>1, <4>1 DEF AttrLists
      <4>3. DOMAIN ls2 = 0..n /\ ls2[0] = al /\ \A j \in 1..n : ls2[j] = e2[j].attrs
        BY <4>2
      <4> QED
        BY <4>1, <4>3, Zenon
    <3> QED
      BY <1>5, <3>1
  <2>4. PICK l3 : l3 = [ls EXCEPT ![i] = Append(ls[i], x)]
    OBVIOUS
  <2>5. DOMAIN l3 = 0..Len(el) /\ \A p \in 0..Len(el) : l3[p] = IF p = i THEN Append(ls[i], x) ELSE ls[p]
    BY <2>2, <2>4
  <2>6. ASSUME NEW p \in 0..Len(el) PROVE ls2[p] = l3[p]
    <3>1. i # 0 /\ (p # 0 => p \in 1..Len(el))
      BY <1>1
    <3>2. CASE p = 0
      BY <2>2, <2>3, <2>5, <3>1, <3>2
    <3>3. CASE p = i
      BY <1>3, <1>5, <2>2, <2>3, <2>5, <3>3, ZenonT(30)
    <3>4. CASE p # 0 /\ p # i
      BY <1>5, <2>2, <2>3, <2>5, <3>1, <3>4
    <3> QED
      BY <3>2, <3>3, <3>4
  <2>7. ls2 = [p \in 0..Len(el) |-> ls2[p]] /\ l3 = [p \in 0..Len(el) |-> l3[p]]
    <3>1. ls2 = [p \in DOMAIN ls2 |-> ls2[p]]
      BY <2>1 DEF AttrLists
    <3>2. l3 = [p \in DOMAIN l3 |-> l3[p]]
      BY <2>4
    <3> QED
      BY <2>3, <2>5, <3>1, <3>2
  <2>8. ls2 = l3
    BY <2>6, <2>7
  <2> QED
    BY <2>1, <2>4, <2>8
<1> QED
  BY <1>3, <1>5, <1>6, <1>7, <1>8, <1>9

\* otel_event_attr_ and its siblings.
LEMMA EventAttrStep ==
  ASSUME ArenaType, ListInv, NEW key \in Strings, NEW val \in Texts \cup {Num},
         NEW i \in 1..Len(eventLog), EventAttr(i, key, val)
  PROVE  ArenaType' /\ ListInv'
<1>1. PICK a, e, log, ls :
        /\ a = AttrAlloc(key, val) /\ e = eventLog[i].off /\ log = eventLog[i].attrs
        /\ ls = AttrLists(attrLog, eventLog)
  OBVIOUS
<1>2. /\ used' = a.used
      /\ UNCHANGED <<name, statusMessage, lists, attrLog, nameLog, statusLog>>
  BY <1>1 DEF EventAttr
<1>3. /\ attrLog \in Seq(Entries) /\ eventLog \in Seq(EventEntries)
      /\ used \in Nat /\ used \in 0..Arena /\ DOMAIN mem = Offset
      /\ Held(mem, used, attrLog, eventLog)
      /\ StrHeld(mem, used, name, nameLog) /\ StrHeld(mem, used, statusMessage, statusLog)
  BY ListFacts
<1>4. /\ e \in Offset /\ log \in Seq(Entries) /\ ListsType(ls) /\ DOMAIN ls = 0..Len(eventLog)
      /\ i \in 0..Len(eventLog) /\ ls[i] = log /\ Len(eventLog) \in Nat
  <2>1. e \in Offset /\ log \in Seq(Entries)
    BY <1>1, <1>3, EventType
  <2> QED
    BY <1>1, <1>3, <2>1, AttrListsType
<1>5. ListsHeld(mem, used, ls) /\ EventsHeld(mem, used, eventLog)
  BY <1>1, <1>3 DEF Held
<1>6. e < used /\ \E n, d : mem[e] = EventRecord(NextOff(eventLog, i), n, log, d)
  BY <1>1, <1>5, Zenon DEF EventsHeld, EventHeld
<1>7. CASE ~ a.ok
  <2>1. PICK m1, w : m1 = Write(mem, a.key, Str(key)) /\ w = a.used
    OBVIOUS
  <2>2. DOMAIN m1 = Offset /\ Agree(mem, m1, used) /\ w \in 0..Arena /\ w % Align = 0 /\ used <= w
    BY <1>1, <1>7, <2>1, AttrRefused
  <2>3. mem' = [m1 EXCEPT ![e].dropped = Saturate(@)] /\ eventLog' = eventLog
    BY <1>1, <1>7, <2>1 DEF EventAttr
  <2>4. w \in Nat
    BY <2>2, Sizes
  <2>5. Held(m1, w, attrLog, eventLog)
    BY <1>3, <2>2, <2>4, FreshHeld
  <2>6. /\ ListsHeld(m1, w, ls) /\ EventsHeld(m1, w, eventLog)
        /\ ListsFit(w, attrLog, eventLog)
    BY <1>1, <2>5 DEF Held
  <2>7. PICK n, d : /\ m1[e] = EventRecord(NextOff(eventLog, i), n, log, d)
                    /\ StrHeld(m1, w, n, eventLog[i].name)
    BY <1>1, <2>6, Zenon DEF EventsHeld, EventHeld
  <2>8. PICK d2 : mem'[e] = EventRecord(NextOff(eventLog, i), n, log, d2)
    <3>1. PICK r, d2 : r = m1[e] /\ d2 = Saturate(m1[e].dropped)
      OBVIOUS
    <3>2. mem'[e] = [r EXCEPT !.dropped = d2]
      BY <1>4, <2>2, <2>3, <3>1
    <3>3. r = EventRecord(NextOff(eventLog, i), n, log, d)
      BY <2>7, <3>1
    <3>4. [r EXCEPT !.dropped = d2] = EventRecord(NextOff(eventLog, i), n, log, d2)
      BY <3>3 DEF EventRecord
    <3> QED
      BY <3>2, <3>4
  <2>9. DOMAIN mem' = Offset /\ Others(m1, mem', e)
    BY <2>2, <2>3 DEF Others
  <2>10. /\ EventsHeld(mem', w, eventLog) /\ ListsHeld(mem', w, ls)
         /\ \A off, s : StrHeld(m1, w, off, s) => StrHeld(mem', w, off, s)
    <3>1. /\ m1[eventLog[i].off] = EventRecord(NextOff(eventLog, i), n, eventLog[i].attrs, d)
          /\ mem'[eventLog[i].off] = EventRecord(NextOff(eventLog, i), n, eventLog[i].attrs, d2)
          /\ Others(m1, mem', eventLog[i].off)
      BY <1>1, <2>7, <2>8, <2>9
    <3> QED
      <4>1. EventUpdated(m1, mem', w, eventLog, ls)
        <5>1. /\ IsEvent(m1[eventLog[i].off], NextOff(eventLog, i), n, eventLog[i].attrs, d)
              /\ IsEvent(mem'[eventLog[i].off], NextOff(eventLog, i), n, eventLog[i].attrs, d2)
          BY <3>1, Zenon DEF IsEvent
        <5>2. OtherAttrs(eventLog, eventLog, i, eventLog[i].attrs)
          BY Zenon DEF OtherAttrs
        <5>3. StrHeld(m1, w, n, eventLog[i].name) /\ Others(m1, mem', eventLog[i].off)
          BY <2>7, <3>1
        <5> QED
          BY <1>3, <1>4, <2>6, <5>1, <5>2, <5>3, UpdateEvent, Zenon
      <4> QED
        BY <4>1 DEF EventUpdated
  <2>11. /\ StrHeld(mem', w, name, nameLog)
         /\ StrHeld(mem', w, statusMessage, statusLog)
    <3>1. StrHeld(m1, w, name, nameLog) /\ StrHeld(m1, w, statusMessage, statusLog)
      BY <1>3, <2>2, <2>4, FreshStr
    <3> QED
      BY <2>10, <3>1
  <2>12. Held(mem', w, attrLog, eventLog)
    BY <1>1, <2>6, <2>10 DEF Held
  <2>13. ArenaType'
    BY <1>2, <1>3, <2>1, <2>2, <2>3, <2>9 DEF ArenaType
  <2>14. ListInv'
    BY <1>2, <2>1, <2>3, <2>11, <2>12, ListFacts DEF ListInv, lists
  <2> QED
    BY <2>13, <2>14
<1>8. CASE a.ok
  <2>1. PICK m1, w, x, ls2 :
          /\ m1 = AttrWrite(a, key, val, LastOff(ls[i])) /\ w = a.used /\ x = a.entry
          /\ ls2 = [ls EXCEPT ![i] = Append(ls[i], x)]
    OBVIOUS
  <2>2. mem[e].tail = LastOff(log)
    BY <1>6 DEF EventRecord
  <2>3. /\ mem' = [m1 EXCEPT ![e].head = IF mem[e].tail = NIL THEN a.rec ELSE @,
                             ![e].tail = a.rec, ![e].num = CountU8(@)]
        /\ eventLog' = [eventLog EXCEPT ![i].attrs = Append(@, x)]
    <3>1. m1 = AttrWrite(a, key, val, mem[e].tail)
      BY <1>4, <2>1, <2>2
    <3> QED
      BY <1>1, <1>8, <2>1, <3>1, Zenon DEF EventAttr
  <2>4. AttrAdded(m1, a, ls, i)
    BY <1>1, <1>3, <1>4, <1>8, <2>1, AddAttr, Zenon
  <2>5. /\ DOMAIN m1 = Offset /\ x \in Entries /\ x.off = a.rec
        /\ w \in 0..Arena /\ w % Align = 0 /\ used + AttrSize + 1 <= w
        /\ ListsHeld(m1, w, ls2) /\ EventsHeld(m1, w, eventLog)
        /\ ListsFit(w, attrLog, eventLog)
        /\ \A off, s : StrHeld(mem, used, off, s) => StrHeld(m1, w, off, s)
    BY <2>1, <2>4, Zenon DEF AttrAdded
  <2>6. w \in Nat
    BY <2>5, Sizes
  <2>7. PICK n, d : /\ m1[e] = EventRecord(NextOff(eventLog, i), n, log, d)
                    /\ StrHeld(m1, w, n, eventLog[i].name)
    BY <1>1, <2>5, Zenon DEF EventsHeld, EventHeld
  <2>8. EventSize + Room(Len(log) + 1) <= w /\ Len(log) \in Nat
    <3>1. EventSize + Room(Len(log)) <= used
      BY <1>1, <1>3 DEF Held, ListsFit
    <3>2. Len(log) \in Nat /\ EventSize \in Nat
      BY <1>4, Sizes
    <3> QED
      BY <1>3, <2>5, <2>6, <3>1, <3>2, RoomForOne
  <2>9. CountU8(Len(log)) = Len(log) + 1
    BY <2>5, <2>8, CountFits
  <2>10. mem'[e] = EventRecord(NextOff(eventLog, i), n, Append(log, x), d)
    <3>1. PICK r, r2 :
            /\ r = m1[e]
            /\ r2 = [r EXCEPT !.head = IF LastOff(log) = NIL THEN x.off ELSE r.head,
                              !.tail = x.off, !.num = CountU8(r.num)]
      OBVIOUS
    <3>2. mem'[e] = r2
      BY <1>4, <2>2, <2>3, <2>5, <3>1
    <3>3. r = EventRecord(NextOff(eventLog, i), n, log, d)
      BY <2>7, <3>1
    <3>4. r2 = EventRecord(NextOff(eventLog, i), n, Append(log, x), d)
      <4>1. x \in Entries /\ log \in Seq(Entries)
        BY <1>4, <2>5
      <4>2. IsEvent(r, NextOff(eventLog, i), n, log, d) /\ WithAttr(r, r2, log, x)
        BY <3>1, <3>3, Zenon DEF IsEvent, WithAttr
      <4>3. IsEvent(r2, NextOff(eventLog, i), n, Append(log, x), d)
        BY <2>9, <4>1, <4>2, EventRecordAppend, Zenon
      <4> QED
        BY <4>3 DEF IsEvent
    <3> QED
      BY <3>2, <3>4
  <2>11. DOMAIN mem' = Offset /\ Others(m1, mem', e)
    BY <2>3, <2>5 DEF Others
  <2>12. /\ eventLog' \in Seq(EventEntries) /\ Len(eventLog') = Len(eventLog)
         /\ \A j \in 1..Len(eventLog) : /\ eventLog'[j].off = eventLog[j].off
                                        /\ j # i => eventLog'[j] = eventLog[j]
         /\ eventLog'[i].name = eventLog[i].name /\ eventLog'[i].attrs = Append(log, x)
         /\ \A p \in 0..Len(eventLog) : NextOff(eventLog', p) = NextOff(eventLog, p)
         /\ LastOff(eventLog') = LastOff(eventLog)
         /\ AttrLists(attrLog, eventLog') = ls2
    <3>1. EventsAppended(attrLog, eventLog, eventLog', i, x)
      BY <1>3, <2>3, <2>5, EventLogAppend, Zenon
    <3> QED
      BY <1>1, <2>1, <3>1, Zenon DEF EventsAppended
  <2>13. ListsType(ls2)
    <3>1. Append(log, x) \in Seq(Entries)
      BY <1>4, <2>5, AppendFacts
    <3> QED
      BY <1>4, <2>1, <3>1 DEF ListsType
  <2>14. /\ EventsHeld(mem', w, eventLog') /\ ListsHeld(mem', w, ls2)
         /\ \A off, s : StrHeld(m1, w, off, s) => StrHeld(mem', w, off, s)
    <3>1. /\ m1[eventLog[i].off] = EventRecord(NextOff(eventLog, i), n, eventLog[i].attrs, d)
          /\ mem'[eventLog[i].off] = EventRecord(NextOff(eventLog, i), n, Append(log, x), d)
          /\ Others(m1, mem', eventLog[i].off)
      BY <1>1, <2>7, <2>10, <2>11
    <3> QED
      <4>1. eventLog'[i].off = eventLog[i].off
        BY <2>12
      <4>2. EventUpdated(m1, mem', w, eventLog', ls2)
        <5>1. \A j \in 1..Len(eventLog) : j # i => eventLog'[j] = eventLog[j]
          BY <2>12
        <5>2. /\ Len(eventLog') = Len(eventLog) /\ eventLog'[i].name = eventLog[i].name
              /\ eventLog'[i].attrs = Append(log, x)
          BY <2>12
        <5> QED
          <6>1. eventLog \in Seq(EventEntries) /\ EventsHeld(m1, w, eventLog)
            BY <1>3, <2>5
          <6>2. ListsType(ls2) /\ ListsHeld(m1, w, ls2)
            BY <2>5, <2>13
          <6>3. StrHeld(m1, w, n, eventLog[i].name) /\ Others(m1, mem', eventLog[i].off)
            BY <2>7, <3>1
          <6>4. /\ IsEvent(m1[eventLog[i].off], NextOff(eventLog, i), n, eventLog[i].attrs, d)
                /\ IsEvent(mem'[eventLog[i].off], NextOff(eventLog, i), n, Append(log, x), d)
            BY <3>1, Zenon DEF IsEvent
          <6>5. OtherAttrs(eventLog, eventLog', i, Append(log, x))
            BY <4>1, <5>1, <5>2, Zenon DEF OtherAttrs
          <6> QED
            BY <6>1, <6>2, <6>3, <6>4, <6>5, UpdateEvent, Zenon
      <4> QED
        BY <4>2 DEF EventUpdated
  <2>15. ListsFit(w, attrLog, eventLog')
    <3>1. ASSUME NEW j \in 1..Len(eventLog')
          PROVE  EventSize + Room(Len(eventLog'[j].attrs)) <= w
      <4>1. CASE j = i
        <5>1. Len(eventLog'[j].attrs) = Len(log) + 1
          BY <1>4, <2>5, <2>12, <4>1, AppendFacts
        <5> QED
          BY <2>8, <5>1
      <4>2. CASE j # i
        BY <2>5, <2>12, <4>2 DEF ListsFit
      <4> QED
        BY <4>1, <4>2
    <3>2. Room(Len(attrLog)) <= w /\ Len(eventLog') <= w
      BY <2>5, <2>12 DEF ListsFit
    <3> QED
      BY <3>1, <3>2 DEF ListsFit
  <2>16. Held(mem', w, attrLog, eventLog')
    BY <2>12, <2>14, <2>15 DEF Held
  <2>17. /\ StrHeld(mem', w, name, nameLog) /\ StrHeld(mem', w, statusMessage, statusLog)
    BY <1>3, <2>5, <2>14
  <2>18. ArenaType'
    BY <1>2, <1>3, <2>1, <2>5, <2>11, <2>12 DEF ArenaType
  <2>19. eventHead' = NextOff(eventLog', 0) /\ eventTail' = LastOff(eventLog')
    <3>1. 0 \in 0..Len(eventLog)
      BY <1>4
    <3> QED
      BY <1>2, <2>12, <3>1, ListFacts DEF lists
  <2>20. ListInv'
    BY <1>2, <2>1, <2>12, <2>16, <2>17, <2>19, ListFacts DEF ListInv, lists
  <2> QED
    BY <2>18, <2>20
<1> QED
  BY <1>7, <1>8

\* A new event has an empty list of attributes.
LEMMA MoreLists ==
  ASSUME NEW m, NEW u, NEW al \in Seq(Entries), NEW el \in Seq(EventEntries),
         NEW x \in EventEntries, x.attrs = <<>>, ListsHeld(m, u, AttrLists(al, el))
  PROVE  ListsHeld(m, u, AttrLists(al, Append(el, x)))
<1>1. PICK ls, ls2, n, el2 :
        /\ ls = AttrLists(al, el) /\ ls2 = AttrLists(al, el2) /\ n = Len(el)
        /\ el2 = Append(el, x)
  OBVIOUS
<1>2. /\ el2 \in Seq(EventEntries) /\ Len(el2) = n + 1 /\ n \in Nat /\ el2[n + 1] = x
      /\ \A i \in 1..n : el2[i] = el[i]
  BY <1>1, AppendFacts
<1>3. DOMAIN ls = 0..n /\ ls[0] = al /\ \A i \in 1..n : ls[i] = el[i].attrs
  BY <1>1, AttrListsType
<1>4. DOMAIN ls2 = 0..n + 1 /\ ls2[0] = al /\ \A i \in 1..n + 1 : ls2[i] = el2[i].attrs
  <2>1. /\ DOMAIN ls2 = 0..Len(el2) /\ ls2[0] = al
        /\ \A i \in 1..Len(el2) : ls2[i] = el2[i].attrs
    <3>1. /\ DOMAIN AttrLists(al, el2) = 0..Len(el2) /\ AttrLists(al, el2)[0] = al
          /\ \A i \in 1..Len(el2) : AttrLists(al, el2)[i] = el2[i].attrs
      <4>1. el2 \in Seq(EventEntries)
        BY <1>2
      <4> QED
        BY <4>1, AttrListsType
    <3>2. ls2 = AttrLists(al, el2)
      BY <1>1
    <3> QED
      BY <3>1, <3>2, Zenon
  <2> QED
    BY <1>2, <2>1
<1>5. \A p \in 0..n : ls2[p] = ls[p]
  <2> TAKE p \in 0..n
  <2>1. p = 0 \/ (p \in 1..n /\ p \in 1..n + 1)
    BY <1>2
  <2> QED
    BY <1>2, <1>3, <1>4, <2>1
<1>6. Len(ls2[n + 1]) = 0
  <2>1. ls2[n + 1] = <<>>
    BY <1>2, <1>4
  <2> QED
    BY <2>1
<1>7. ASSUME NEW p \in DOMAIN ls2, NEW i \in 1..Len(ls2[p])
      PROVE  p \in 0..n /\ p \in DOMAIN ls /\ ls2[p] = ls[p] /\ i \in 1..Len(ls[p])
  <2>1. p # n + 1
    BY <1>6
  <2>2. p \in 0..n
    BY <1>2, <1>4, <2>1
  <2> QED
    BY <1>3, <1>5, <2>2
<1>8. ListsHeld(m, u, ls)
  BY <1>1
<1>9. ASSUME NEW p \in DOMAIN ls2, NEW i \in 1..Len(ls2[p])
      PROVE  AttrHeld(m, u, ls2[p][i], NextOff(ls2[p], i))
  BY <1>7, <1>8 DEF ListsHeld
<1>10. AttrsDistinct(ls2)
  <2> SUFFICES ASSUME NEW p \in DOMAIN ls2, NEW q \in DOMAIN ls2,
                      NEW i \in 1..Len(ls2[p]), NEW j \in 1..Len(ls2[q]),
                      ls2[p][i].off = ls2[q][j].off
               PROVE  p = q /\ i = j
    BY DEF AttrsDistinct
  <2> QED
    BY <1>7, <1>8 DEF ListsHeld, AttrsDistinct
<1> QED
  BY <1>1, <1>9, <1>10 DEF ListsHeld

LEMMA MoreFits ==
  ASSUME NEW u \in Nat, NEW w \in Nat, u + EventSize <= w, NEW al \in Seq(Entries),
         NEW el \in Seq(EventEntries), NEW x \in EventEntries, x.attrs = <<>>,
         ListsFit(u, al, el)
  PROVE  ListsFit(w, al, Append(el, x))
<1>1. EventSize \in Nat /\ EventSize >= 1 /\ u <= w
  <2>1. EventSize \in Nat \ {0}
    BY Sizes
  <2> QED
    BY <2>1
<1>2. ListsFit(w, al, el)
  BY <1>1, FreshFits
<1>3. PICK n, el2 : n = Len(el) /\ el2 = Append(el, x)
  OBVIOUS
<1>4. /\ Len(el2) = n + 1 /\ n \in Nat /\ el2[n + 1] = x /\ \A i \in 1..n : el2[i] = el[i]
  BY <1>3, AppendFacts
<1>5. Room(Len(al)) <= w /\ \A i \in 1..n : EventSize + Room(Len(el[i].attrs)) <= w
  BY <1>2, <1>3 DEF ListsFit
<1>6. n + 1 <= w
  <2>1. n <= u
    BY <1>3 DEF ListsFit
  <2> QED
    BY <1>1, <1>4, <2>1
<1>7. EventSize + Room(Len(x.attrs)) <= w
  <2>1. Len(x.attrs) = 0
    OBVIOUS
  <2>2. Room(0) = 0
    BY Sizes DEF Room
  <2> QED
    BY <1>1, <2>1, <2>2
<1>8. ASSUME NEW i \in 1..n + 1 PROVE EventSize + Room(Len(el2[i].attrs)) <= w
  <2>1. CASE i = n + 1
    BY <1>4, <1>7, <2>1
  <2>2. CASE i # n + 1
    <3>1. i \in 1..n
      BY <1>4, <2>2
    <3> QED
      BY <1>4, <1>5, <3>1
  <2> QED
    BY <2>1, <2>2
<1> QED
  BY <1>3, <1>4, <1>5, <1>6, <1>8 DEF ListsFit

\* The event's record, in fresh bytes, hooked behind the last event.
EventAdded(m, m2, u, w, al, el, x) ==
    /\ DOMAIN m2 = Offset /\ w \in 0..Arena /\ w % Align = 0 /\ x \in EventEntries
    /\ Held(m2, w, al, Append(el, x))
    /\ \A off, t : StrHeld(m, u, off, t) => StrHeld(m2, w, off, t)

LEMMA AddEvent ==
  ASSUME NEW m, DOMAIN m = Offset, NEW u \in 0..Arena, u % Align = 0,
         NEW al \in Seq(Entries), NEW el \in Seq(EventEntries), Held(m, u, al, el),
         NEW n, NEW s \in Texts, StrHeld(m, u, n, s),
         NEW r, r = AllocOff(u, EventSize), r # NIL, NEW w, w = AllocUsed(u, EventSize),
         NEW m2, m2 = Hook(Write(m, r, EventRecord(NIL, n, <<>>, 0)), LastOff(el), r),
         NEW x, x = [off |-> r, name |-> s, attrs |-> <<>>]
  PROVE  EventAdded(m, m2, u, w, al, el, x)
<1>1. Allocated(u, EventSize, r, w) /\ EventSize \in Nat \ {0} /\ u \in Nat
  BY AllocFacts, Sizes
<1>2. w \in 0..Arena /\ w % Align = 0 /\ r = u /\ r \in Offset /\ u + EventSize <= w
  BY <1>1 DEF Allocated
<1>3. PICK m1 : m1 = Write(m, r, EventRecord(NIL, n, <<>>, 0))
  OBVIOUS
<1>4. /\ DOMAIN m1 = Offset /\ Agree(m, m1, u) /\ m1[r] = EventRecord(NIL, n, <<>>, 0)
      /\ r < w /\ w \in Nat /\ u <= w
  BY <1>1, <1>3, WriteFacts
<1>5. Held(m1, w, al, el) /\ StrHeld(m1, w, n, s)
  BY <1>1, <1>4, FreshHeld, FreshStr
<1>6. x \in EventEntries /\ x.off = r /\ x.name = s /\ x.attrs = <<>>
  BY <1>2 DEF EventEntries
<1>7. EventHeld(m1, w, x, NIL)
  BY <1>4, <1>5, <1>6 DEF EventHeld
<1>8. ASSUME NEW i \in 1..Len(el) PROVE el[i].off # x.off
  <2>1. el[i].off < u
    BY DEF Held, EventsHeld, EventHeld
  <2>2. el[i].off \in Nat
    BY EventType, Sizes
  <2> QED
    BY <1>1, <1>2, <1>6, <2>1, <2>2
<1>9. ListsHeld(m1, w, AttrLists(al, Append(el, x)))
  <2>1. ListsHeld(m1, w, AttrLists(al, el))
    BY <1>5 DEF Held
  <2> QED
    BY <1>6, <2>1, MoreLists
<1>10. ListsType(AttrLists(al, Append(el, x)))
  <2>1. Append(el, x) \in Seq(EventEntries)
    BY <1>6, AppendFacts
  <2> QED
    BY <2>1, AttrListsType
<1>11. EventsHeld(m1, w, el)
  BY <1>5 DEF Held
<1>12. m2 = Hook(m1, LastOff(el), x.off)
  BY <1>3, <1>6
<1>13. /\ EventsHeld(m2, w, Append(el, x)) /\ ListsHeld(m2, w, AttrLists(al, Append(el, x)))
       /\ \A off, t : StrHeld(m1, w, off, t) => StrHeld(m2, w, off, t)
  <2>1. PICK ls : ls = AttrLists(al, Append(el, x))
    OBVIOUS
  <2>2. ListsType(ls) /\ ListsHeld(m1, w, ls)
    BY <1>9, <1>10, <2>1
  <2>3. /\ EventsHeld(Hook(m1, LastOff(el), x.off), w, Append(el, x))
        /\ ListsHeld(Hook(m1, LastOff(el), x.off), w, ls)
        /\ \A off, t : StrHeld(m1, w, off, t) => StrHeld(Hook(m1, LastOff(el), x.off), w, off, t)
    BY <1>4, <1>6, <1>7, <1>8, <1>11, <2>2, HookEvent
  <2> QED
    BY <1>12, <2>1, <2>3, Zenon
<1>14. ListsFit(w, al, Append(el, x))
  <2>1. ListsFit(u, al, el)
    BY DEF Held
  <2> QED
    BY <1>1, <1>2, <1>4, <1>6, <2>1, MoreFits
<1>15. DOMAIN m2 = Offset
  <2>1. LastOff(el) = NIL \/ LastOff(el) \in Offset
    <3>1. Len(el) # 0 => Len(el) \in 1..Len(el)
      OBVIOUS
    <3> QED
      BY <3>1, EventType DEF LastOff
  <2> QED
    <3>1. DOMAIN Hook(m1, LastOff(el), x.off) = Offset
      BY <1>4, <2>1, HookFacts, Zenon
    <3> QED
      BY <1>12, <3>1, Zenon
<1>16. ASSUME NEW off, NEW t, StrHeld(m, u, off, t) PROVE StrHeld(m2, w, off, t)
  <2>1. StrHeld(m1, w, off, t)
    BY <1>1, <1>4, <1>16, FreshStr
  <2> QED
    BY <1>13, <2>1
<1>17. Held(m2, w, al, Append(el, x))
  BY <1>13, <1>14 DEF Held
<1> QED
  BY <1>2, <1>6, <1>15, <1>16, <1>17 DEF EventAdded

\* otel_span_event_.
LEMMA SpanEventStep ==
  ASSUME ArenaType, ListInv, NEW s \in Texts, SpanEvent(s)
  PROVE  ArenaType' /\ ListInv'
<1>1. PICK n, u1, r, m1 :
        /\ n = PutOff(used, s) /\ u1 = PutUsed(used, s)
        /\ r = AllocOff(u1, EventSize) /\ m1 = Write(mem, n, Str(s))
  OBVIOUS
<1>2. /\ used' = AllocUsed(u1, EventSize)
      /\ UNCHANGED <<name, statusMessage, attrHead, attrTail, numAttrs, attrLog,
                     nameLog, statusLog>>
  BY <1>1 DEF SpanEvent
<1>3. /\ used \in 0..Arena /\ used % Align = 0 /\ used \in Nat /\ DOMAIN mem = Offset
      /\ attrLog \in Seq(Entries) /\ eventLog \in Seq(EventEntries)
      /\ Held(mem, used, attrLog, eventLog)
      /\ StrHeld(mem, used, name, nameLog) /\ StrHeld(mem, used, statusMessage, statusLog)
  BY ListFacts
<1>4. /\ DOMAIN m1 = Offset /\ Agree(mem, m1, used)
      /\ u1 \in 0..Arena /\ u1 % Align = 0 /\ used <= u1
      /\ StrHeld(m1, u1, n, Stored(n, s)) /\ Stored(n, s) \in Texts
  BY <1>1, <1>3, PutStr
<1>5. u1 \in Nat
  BY <1>4, Sizes
<1>6. CASE r = NIL
  <2>1. mem' = m1 /\ UNCHANGED <<eventHead, eventTail, numEvents, eventLog>>
    BY <1>1, <1>6 DEF SpanEvent
  <2>2. Allocated(u1, EventSize, r, used')
    <3>1. EventSize \in Nat \ {0}
      BY Sizes
    <3> QED
      BY <1>1, <1>2, <1>4, <3>1, AllocFacts
  <2>3. used' \in 0..Arena /\ used' % Align = 0 /\ u1 <= used'
    BY <2>2 DEF Allocated
  <2>4. used <= used'
    BY <1>3, <1>4, <1>5, <2>3, Sizes
  <2>5. UNCHANGED <<lists, attrLog, eventLog>>
    BY <1>2, <2>1 DEF lists
  <2>6. /\ ArenaType'
        /\ StrHeld(mem', used', name, nameLog)
        /\ StrHeld(mem', used', statusMessage, statusLog)
        /\ StrHeld(mem', used', name', nameLog')
             /\ StrHeld(mem', used', statusMessage', statusLog') => ListInv'
    <3>1. DOMAIN mem' = Offset /\ Agree(mem, mem', used)
      BY <1>4, <2>1
    <3> QED
      BY <2>3, <2>4, <2>5, <3>1, FreshStep
  <2> QED
    BY <1>2, <2>6
<1>7. CASE r # NIL
  <2>1. PICK x, w, t :
          /\ x = [off |-> r, name |-> Stored(n, s), attrs |-> <<>>]
          /\ w = AllocUsed(u1, EventSize) /\ t = Stored(n, s)
    OBVIOUS
  <2>2. EventRecord(NIL, n, <<>>, 0)
          = [kind |-> "event", next |-> NIL, name |-> n, head |-> NIL, tail |-> NIL,
             num |-> 0, dropped |-> 0]
    BY NextOfEmpty DEF EventRecord
  <2>3. /\ mem' = Hook(Write(m1, r, EventRecord(NIL, n, <<>>, 0)), eventTail, r)
        /\ eventHead' = IF eventTail = NIL THEN r ELSE eventHead
        /\ eventTail' = r
        /\ numEvents' = numEvents + 1
        /\ eventLog' = Append(eventLog, x)
    BY <1>1, <1>7, <2>1, <2>2, Zenon DEF SpanEvent
  <2>4. eventTail = LastOff(eventLog)
    BY ListFacts
  <2>5. EventAdded(m1, mem', u1, w, attrLog, eventLog, x)
    <3>1. Held(m1, u1, attrLog, eventLog)
      BY <1>3, <1>4, <1>5, FreshHeld
    <3>2. mem' = Hook(Write(m1, r, EventRecord(NIL, n, <<>>, 0)), LastOff(eventLog), r)
      BY <2>3, <2>4, Zenon
    <3>3. DOMAIN m1 = Offset /\ u1 \in 0..Arena /\ u1 % Align = 0
      BY <1>4
    <3>4. t \in Texts /\ StrHeld(m1, u1, n, t) /\ x = [off |-> r, name |-> t, attrs |-> <<>>]
      BY <1>4, <2>1
    <3>5. attrLog \in Seq(Entries) /\ eventLog \in Seq(EventEntries)
      BY <1>3
    <3> QED
      BY <1>1, <1>7, <2>1, <3>1, <3>2, <3>3, <3>4, <3>5, AddEvent, ZenonT(30)
  <2>6. /\ DOMAIN mem' = Offset /\ w \in 0..Arena /\ w % Align = 0 /\ x \in EventEntries
        /\ Held(mem', w, attrLog, Append(eventLog, x))
        /\ \A off, q : StrHeld(m1, u1, off, q) => StrHeld(mem', w, off, q)
    BY <2>5, Zenon DEF EventAdded
  <2>7. /\ eventLog' \in Seq(EventEntries) /\ Len(eventLog') = Len(eventLog) + 1
        /\ x.off = r
    BY <1>3, <2>1, <2>3, <2>6, AppendFacts
  <2>8. ArenaType'
    BY <1>2, <1>3, <2>1, <2>6, <2>7 DEF ArenaType
  <2>9. Held(mem', used', attrLog', eventLog')
    BY <1>2, <2>1, <2>3, <2>6
  <2>10. /\ StrHeld(mem', used', name', nameLog')
         /\ StrHeld(mem', used', statusMessage', statusLog')
    <3>1. StrHeld(m1, u1, name, nameLog) /\ StrHeld(m1, u1, statusMessage, statusLog)
      BY <1>3, <1>4, <1>5, FreshStr
    <3> QED
      BY <1>2, <2>1, <2>6, <3>1
  <2>11. eventHead' = NextOff(eventLog', 0) /\ eventTail' = LastOff(eventLog')
    <3>1. ASSUME NEW i \in 1..Len(eventLog) PROVE eventLog[i].off # NIL
      <4>1. eventLog[i].off \in Offset
        BY <1>3, EventType
      <4> QED
        BY <4>1, Sizes
    <3>2. (IF LastOff(eventLog) = NIL THEN x.off ELSE NextOff(eventLog, 0))
            = NextOff(Append(eventLog, x), 0)
      BY <1>3, <2>6, <3>1, HeadAppend
    <3>3. LastOff(Append(eventLog, x)) = x.off
      BY <1>3, <2>6, AppendLinks
    <3> QED
      BY <2>3, <2>7, <3>2, <3>3, ListFacts
  <2>12. /\ attrHead' = NextOff(attrLog', 0) /\ attrTail' = LastOff(attrLog')
         /\ numAttrs' = Len(attrLog') /\ numEvents' = Len(eventLog')
    BY <1>2, <2>3, <2>7, ListFacts
  <2> QED
    BY <2>8, <2>9, <2>10, <2>11, <2>12 DEF ListInv
<1> QED
  BY <1>6, <1>7

\* However the calls of the builder mix and wherever the arena runs full, every
\* record and string the span refers to lies whole below arena_used, each list
\* links its records in the order of the calls, and no two lists share a record.
THEOREM ListsCorrect == ArenaSpec => [](ArenaType /\ ListInv)
<1>1. ArenaInit => ArenaType /\ ListInv
  <2> SUFFICES ASSUME ArenaInit PROVE ArenaType /\ ListInv
    OBVIOUS
  <2>1. /\ used = 0 /\ mem = [o \in Offset |-> Junk] /\ name = NIL /\ statusMessage = NIL
        /\ attrHead = NIL /\ attrTail = NIL /\ numAttrs = 0
        /\ eventHead = NIL /\ eventTail = NIL /\ numEvents = 0
        /\ attrLog = <<>> /\ eventLog = <<>> /\ nameLog = Null /\ statusLog = Null
    BY DEF ArenaInit
  <2>2. 0 \in 0..Arena /\ 0 % Align = 0
    <3>1. Arena \in Nat /\ Align \in Nat \ {0}
      BY ArenaAssumption
    <3>2. (0 * Align) % Align = 0 /\ 0 * Align = 0
      BY <3>1, MultipleMod
    <3> QED
      BY <3>1, <3>2
  <2>3. ArenaType
    BY <2>1, <2>2 DEF ArenaType
  <2>4. Held(mem, 0, <<>>, <<>>)
    BY EmptyHeld
  <2>5. StrHeld(mem, 0, NIL, Null)
    BY DEF StrHeld
  <2>6. ListInv
    BY <2>1, <2>4, <2>5, NextOfEmpty DEF ListInv
  <2> QED
    BY <2>3, <2>6
<1>2. ArenaType /\ ListInv /\ [ArenaNext]_arenaVars => ArenaType' /\ ListInv'
  <2> SUFFICES ASSUME ArenaType, ListInv, [ArenaNext]_arenaVars PROVE ArenaType' /\ ListInv'
    OBVIOUS
  <2>1. CASE UNCHANGED arenaVars
    <3>1. UNCHANGED <<used, mem, name, statusMessage, attrHead, attrTail, numAttrs,
                      eventHead, eventTail, numEvents, attrLog, eventLog, nameLog, statusLog>>
      BY <2>1 DEF arenaVars, lists, logs
    <3> QED
      BY <3>1 DEF ArenaType, ListInv
  <2>2. CASE ArenaNext
    BY <2>2, StartStep, NameStep, SpanEventStep, SpanAttrStep, EventAttrStep, Zenon
       DEF ArenaNext, Texts
  <2> QED
    BY <2>1, <2>2
<1> QED
  BY <1>1, <1>2, PTL DEF ArenaSpec

-----------------------------------------------------------------------------
(* The read accessors visit the records of a list.                         *)

LEMMA LeastNatural ==
  ASSUME NEW T, T \subseteq Nat, T # {}
  PROVE  \E x \in T : \A y \in T : x <= y
<1> DEFINE R == OpToRel(<, Nat)
<1>1. IsWellFoundedOn(R, Nat)
  BY NatLessThanWellFounded
<1>2. \A x, y \in Nat : x < y => <<x, y>> \in R
  BY DEF OpToRel
<1> HIDE DEF R
<1>3. PICK x \in T : \A y \in T : ~ (<<y, x>> \in R)
  BY <1>1, WFMin
<1>4. \A y \in T : ~ (y < x)
  <2> TAKE y \in T
  <2>1. y \in Nat /\ x \in Nat
    OBVIOUS
  <2> QED
    BY <1>2, <1>3, <2>1, Zenon
<1> QED
  BY <1>4

\* The records of log are linked in its order, from the offset first on.
Linked(first, log) ==
    /\ Len(log) \in 0..Arena /\ first = NextOff(log, 0)
    /\ \A i \in 1..Len(log) : /\ log[i].off # NIL
                              /\ mem[log[i].off].next = NextOff(log, i)

\* What one more call of the accessor visits after v.
Advance(v) == IF v = NIL THEN NIL ELSE mem[v].next

LEMMA LinkedAdvance ==
  ASSUME NEW first, NEW log, Linked(first, log), NEW n \in Nat \ {0}
  PROVE  NextOff(log, n) = Advance(NextOff(log, n - 1))
<1>1. Len(log) \in Nat
  BY Sizes DEF Linked
<1>2. CASE n - 1 < Len(log)
  <2>1. n \in 1..Len(log) /\ n - 1 + 1 = n
    BY <1>1, <1>2
  <2>2. NextOff(log, n - 1) = log[n].off
    BY <1>2, <2>1 DEF NextOff
  <2>3. log[n].off # NIL /\ mem[log[n].off].next = NextOff(log, n)
    BY <2>1 DEF Linked
  <2> QED
    BY <2>2, <2>3 DEF Advance
<1>3. CASE ~ (n - 1 < Len(log))
  <2>1. NextOff(log, n - 1) = NIL /\ NextOff(log, n) = NIL
    BY <1>1, <1>3 DEF NextOff
  <2> QED
    BY <2>1 DEF Advance
<1> QED
  BY <1>2, <1>3

LEMMA VisitsLinked ==
  ASSUME NEW first, NEW log, Linked(first, log), NEW n \in 0..Arena
  PROVE  Visits(first)[n] = NextOff(log, n)
<1> DEFINE v == Visits(first)
           f == [k \in 0..Arena |-> NextOff(log, k)]
<1>1. Arena \in Nat /\ first = NextOff(log, 0)
  BY Sizes DEF Linked
<1>2. f = [k \in 0..Arena |-> IF k = 0 THEN first ELSE Advance(f[k - 1])]
  <2>1. ASSUME NEW k \in 0..Arena
        PROVE  NextOff(log, k) = IF k = 0 THEN first ELSE Advance(f[k - 1])
    <3>1. CASE k = 0
      BY <1>1, <3>1
    <3>2. CASE k # 0
      <4>1. k \in Nat \ {0} /\ k - 1 \in 0..Arena
        BY <1>1, <3>2
      <4>2. f[k - 1] = NextOff(log, k - 1)
        BY <4>1
      <4>3. NextOff(log, k) = Advance(NextOff(log, k - 1))
        BY <4>1, LinkedAdvance
      <4> QED
        BY <3>2, <4>2, <4>3
    <3> QED
      BY <3>1, <3>2
  <2> QED
    BY <2>1
<1>3. v = [k \in 0..Arena |-> IF k = 0 THEN first ELSE Advance(v[k - 1])]
  BY <1>2 DEF Visits, Advance
<1> HIDE DEF v
<1>4. v[0] = first /\ \A k \in 1..Arena : v[k] = Advance(v[k - 1])
  <2> DEFINE rhs == [k \in 0..Arena |-> IF k = 0 THEN first ELSE Advance(v[k - 1])]
  <2>1. \A k \in 0..Arena : rhs[k] = IF k = 0 THEN first ELSE Advance(v[k - 1])
    OBVIOUS
  <2>2. v = rhs
    BY <1>3
  <2> HIDE DEF rhs
  <2>3. \A k \in 0..Arena : v[k] = IF k = 0 THEN first ELSE Advance(v[k - 1])
    BY <2>1, <2>2, Zenon
  <2> QED
    BY <1>1, <2>3
<1> DEFINE bad == {k \in 0..Arena : v[k] # NextOff(log, k)}
<1>5. bad = {}
  <2> SUFFICES ASSUME bad # {} PROVE FALSE
    OBVIOUS
  <2>1. bad \subseteq Nat
    BY <1>1
  <2>2. PICK k \in bad : \A j \in bad : k <= j
    BY <2>1, LeastNatural
  <2>3. k \in 0..Arena /\ v[k] # NextOff(log, k)
    BY <2>2
  <2>4. k # 0
    BY <1>1, <1>4, <2>3
  <2>5. k \in Nat \ {0} /\ k \in 1..Arena /\ k - 1 \in 0..Arena /\ ~ (k <= k - 1)
    BY <1>1, <2>3, <2>4
  <2>6. v[k - 1] = NextOff(log, k - 1)
    BY <2>2, <2>5
  <2>7. NextOff(log, k) = Advance(NextOff(log, k - 1))
    BY <2>5, LinkedAdvance
  <2> QED
    BY <1>4, <2>3, <2>5, <2>6, <2>7
<1> QED
  BY <1>5 DEF v

\* Walking a list visits each of its records once, in order, and then stops.
LEMMA ChainLinked ==
  ASSUME NEW first, NEW log, Linked(first, log)
  PROVE  Chain(first) = [n \in 1..Len(log) |-> log[n].off]
<1> DEFINE v == Visits(first)
           l == Len(log)
           End(n) == v[n] = NIL /\ \A k \in 0..n - 1 : v[k] # NIL
<1>1. Arena \in Nat /\ l \in 0..Arena /\ l \in Nat
  BY Sizes DEF Linked
<1>2. \A n \in 0..Arena : v[n] = NextOff(log, n)
  BY VisitsLinked
<1>3. v[l] = NIL
  BY <1>1, <1>2 DEF NextOff
<1>4. ASSUME NEW k \in 0..l - 1 PROVE v[k] = log[k + 1].off /\ v[k] # NIL
  <2>1. k \in 0..Arena /\ k + 1 \in 1..l /\ k < l
    BY <1>1
  <2>2. v[k] = log[k + 1].off
    BY <1>2, <2>1 DEF NextOff
  <2> QED
    BY <2>1, <2>2 DEF Linked
<1>5. End(l)
  BY <1>3, <1>4
<1>6. ASSUME NEW n \in 0..Arena, End(n) PROVE n = l
  <2>1. ~ (n < l)
    <3> SUFFICES ASSUME n < l PROVE FALSE
      OBVIOUS
    <3>1. n \in 0..l - 1
      BY <1>1
    <3> QED
      BY <1>4, <1>6, <3>1
  <2>2. ~ (l < n)
    <3> SUFFICES ASSUME l < n PROVE FALSE
      OBVIOUS
    <3>1. l \in 0..n - 1
      BY <1>1
    <3> QED
      BY <1>3, <1>6, <3>1
  <2> QED
    BY <1>1, <2>1, <2>2
<1> DEFINE len == CHOOSE n \in 0..Arena : End(n)
<1>7. len = l
  <2> HIDE DEF End, l
  <2> QED
    BY <1>1, <1>5, <1>6
<1>8. Chain(first) = [n \in 1..len |-> v[n - 1]]
  BY DEF Chain
<1> HIDE DEF len
<1>9. ASSUME NEW n \in 1..l PROVE v[n - 1] = log[n].off
  <2>1. n - 1 \in 0..l - 1 /\ n - 1 + 1 = n
    BY <1>1
  <2> QED
    BY <1>4, <2>1
<1> HIDE DEF v
<1> QED
  BY <1>7, <1>8, <1>9

LEMMA StrRead ==
  ASSUME NEW u, NEW off, NEW s, StrHeld(mem, u, off, s)
  PROVE  StrAt(off) = s /\ off # Num
<1>1. CASE off = NIL /\ s = Null
  <2>1. NIL # Num
    BY Sizes DEF Num
  <2> QED
    BY <1>1, <2>1 DEF StrAt
<1>2. CASE off \in Offset /\ mem[off] = Str(s)
  <2>1. off # NIL /\ off # Num
    BY <1>2, Sizes DEF Num
  <2>2. mem[off].len = s
    BY <1>2 DEF Str
  <2> QED
    BY <2>1, <2>2 DEF StrAt
<1> QED
  BY <1>1, <1>2 DEF StrHeld

\* What the read accessors of an attribute find at the offset c.
AttrAt(c) == [off |-> c, key |-> StrAt(mem[c].key),
              val |-> IF mem[c].val = Num THEN Num ELSE StrAt(mem[c].val)]

LEMMA AttrRead ==
  ASSUME NEW u, NEW x \in Entries, NEW next, AttrHeld(mem, u, x, next)
  PROVE  AttrAt(x.off) = x /\ mem[x.off].next = next
<1>1. PICK k, v : /\ mem[x.off] = AttrRecord(next, k, v)
                  /\ StrHeld(mem, u, k, x.key) /\ ValHeld(mem, u, v, x.val)
  BY DEF AttrHeld
<1>2. mem[x.off].next = next /\ mem[x.off].key = k /\ mem[x.off].val = v
  BY <1>1 DEF AttrRecord
<1>3. StrAt(k) = x.key
  BY <1>1, StrRead
<1>4. (IF v = Num THEN Num ELSE StrAt(v)) = x.val
  <2>1. CASE x.val = Num
    BY <1>1, <2>1 DEF ValHeld
  <2>2. CASE x.val # Num
    <3>1. StrHeld(mem, u, v, x.val)
      BY <1>1, <2>2 DEF ValHeld
    <3> QED
      BY <3>1, StrRead
  <2> QED
    BY <2>1, <2>2
<1>5. AttrAt(x.off) = [off |-> x.off, key |-> x.key, val |-> x.val]
  BY <1>2, <1>3, <1>4 DEF AttrAt
<1> QED
  BY <1>2, <1>5 DEF Entries

\* An attribute list, walked from its head.
LEMMA AttrsRead ==
  ASSUME NEW u, NEW log \in Seq(Entries), Len(log) <= Arena,
         \A i \in 1..Len(log) : AttrHeld(mem, u, log[i], NextOff(log, i))
  PROVE  ReadAttrs(NextOff(log, 0)) = log /\ Len(Chain(NextOff(log, 0))) = Len(log)
<1>1. Len(log) \in Nat /\ Len(log) \in 0..Arena /\ Arena \in Nat
  BY Sizes
<1>2. ASSUME NEW i \in 1..Len(log)
      PROVE  /\ log[i].off # NIL /\ mem[log[i].off].next = NextOff(log, i)
             /\ AttrAt(log[i].off) = log[i]
  <2>1. log[i] \in Entries
    OBVIOUS
  <2>2. log[i].off # NIL
    BY <2>1, Sizes DEF Entries
  <2> QED
    BY <2>1, <2>2, AttrRead
<1>3. Linked(NextOff(log, 0), log)
  BY <1>1, <1>2 DEF Linked
<1>4. PICK c : c = Chain(NextOff(log, 0))
  OBVIOUS
<1>5. c = [n \in 1..Len(log) |-> log[n].off]
  BY <1>3, <1>4, ChainLinked
<1>6. Len(c) = Len(log) /\ \A i \in 1..Len(log) : c[i] = log[i].off
  BY <1>1, <1>5
<1>7. ReadAttrs(NextOff(log, 0)) = [i \in 1..Len(c) |-> AttrAt(c[i])]
  BY <1>4, Zenon DEF ReadAttrs, AttrAt
<1>8. ReadAttrs(NextOff(log, 0)) = [i \in 1..Len(log) |-> log[i]]
  BY <1>2, <1>6, <1>7
<1>9. log = [i \in 1..Len(log) |-> log[i]]
  OBVIOUS
<1> QED
  BY <1>4, <1>6, <1>8, <1>9, Zenon

EventAt(c) == [off |-> c, name |-> StrAt(mem[c].name), attrs |-> ReadAttrs(mem[c].head)]

\* What holds of the i-th event's record and of its list.
LEMMA EventRead ==
  ASSUME ArenaType, ListInv, NEW i \in 1..Len(eventLog)
  PROVE  LET x == eventLog[i] IN
         /\ x.off # NIL /\ mem[x.off].next = NextOff(eventLog, i)
         /\ EventAt(x.off) = x /\ mem[x.off].num = Len(Chain(mem[x.off].head))
<1>1. PICK x, log, ls : /\ x = eventLog[i] /\ log = eventLog[i].attrs
                        /\ ls = AttrLists(attrLog, eventLog)
  OBVIOUS
<1>2. /\ attrLog \in Seq(Entries) /\ eventLog \in Seq(EventEntries)
      /\ used \in Nat /\ used \in 0..Arena /\ Held(mem, used, attrLog, eventLog)
  BY ListFacts
<1>3. x \in EventEntries /\ x.off \in Offset /\ log \in Seq(Entries) /\ x.attrs = log
  BY <1>1, <1>2, EventType
<1>4. EventHeld(mem, used, x, NextOff(eventLog, i))
  BY <1>1, <1>2 DEF Held, EventsHeld
<1>5. PICK n, d : /\ mem[x.off] = EventRecord(NextOff(eventLog, i), n, log, d)
                  /\ StrHeld(mem, used, n, x.name)
  BY <1>3, <1>4 DEF EventHeld
<1>6. /\ mem[x.off].next = NextOff(eventLog, i) /\ mem[x.off].name = n
      /\ mem[x.off].head = NextOff(log, 0) /\ mem[x.off].num = Len(log)
  BY <1>5 DEF EventRecord
<1>7. Len(log) <= Arena /\ \A j \in 1..Len(log) : AttrHeld(mem, used, log[j], NextOff(log, j))
  <2>1. EventSize + Room(Len(log)) <= used
    BY <1>1, <1>2 DEF Held, ListsFit
  <2>2. Len(log) \in Nat /\ EventSize \in Nat /\ Arena \in Nat
    BY <1>3, Sizes
  <2>3. Room(Len(log)) \in Nat /\ Len(log) <= Room(Len(log))
    BY <2>2, RoomNat
  <2>4. Len(log) <= Arena
    BY <1>2, <2>1, <2>2, <2>3
  <2>5. i \in DOMAIN ls /\ ls[i] = log
    BY <1>1, <1>2, AttrListsType
  <2>6. ListsHeld(mem, used, ls)
    BY <1>1, <1>2 DEF Held
  <2> QED
    BY <2>4, <2>5, <2>6 DEF ListsHeld
<1>8. ReadAttrs(NextOff(log, 0)) = log /\ Len(Chain(NextOff(log, 0))) = Len(log)
  BY <1>3, <1>7, AttrsRead
<1>9. StrAt(n) = x.name
  BY <1>5, StrRead
<1>10. EventAt(x.off) = x
  <2>1. EventAt(x.off) = [off |-> x.off, name |-> x.name, attrs |-> x.attrs]
    BY <1>3, <1>6, <1>8, <1>9, Zenon DEF EventAt
  <2> QED
    BY <1>3, <2>1 DEF EventEntries
<1>11. x.off # NIL
  BY <1>3, Sizes
<1>12. mem[x.off].num = Len(Chain(mem[x.off].head))
  BY <1>6, <1>8, Zenon
<1> QED
  BY <1>1, <1>6, <1>10, <1>11, <1>12, Zenon

LEMMA ListsRead ==
  ASSUME ArenaType, ListInv
  PROVE  ReadsBackWhatWasAdded /\ CountsMatchLists
<1>1. /\ attrLog \in Seq(Entries) /\ eventLog \in Seq(EventEntries)
      /\ used \in Nat /\ used \in 0..Arena /\ Held(mem, used, attrLog, eventLog)
      /\ StrHeld(mem, used, name, nameLog) /\ StrHeld(mem, used, statusMessage, statusLog)
      /\ attrHead = NextOff(attrLog, 0) /\ eventHead = NextOff(eventLog, 0)
      /\ numAttrs = Len(attrLog) /\ numEvents = Len(eventLog)
  BY ListFacts
<1>2. Len(attrLog) \in Nat /\ Len(eventLog) \in Nat /\ Arena \in Nat
  BY <1>1, Sizes
<1>3. ReadAttrs(attrHead) = attrLog /\ Len(Chain(attrHead)) = Len(attrLog)
  <2>1. Room(Len(attrLog)) <= used
    BY <1>1 DEF Held, ListsFit
  <2>2. Room(Len(attrLog)) \in Nat /\ Len(attrLog) <= Room(Len(attrLog))
    BY <1>2, RoomNat
  <2>3. Len(attrLog) <= Arena
    BY <1>1, <1>2, <2>1, <2>2
  <2>4. PICK ls : ls = AttrLists(attrLog, eventLog)
    OBVIOUS
  <2>5. ls[0] = attrLog /\ 0 \in DOMAIN ls
    BY <1>1, <1>2, <2>4, AttrListsType
  <2>6. ListsHeld(mem, used, ls)
    BY <1>1, <2>4 DEF Held
  <2>7. \A j \in 1..Len(attrLog) : AttrHeld(mem, used, attrLog[j], NextOff(attrLog, j))
    BY <2>5, <2>6 DEF ListsHeld
  <2>8. /\ ReadAttrs(NextOff(attrLog, 0)) = attrLog
        /\ Len(Chain(NextOff(attrLog, 0))) = Len(attrLog)
    BY <1>1, <2>3, <2>7, AttrsRead
  <2> QED
    BY <1>1, <2>8, Zenon
<1>4. \A i \in 1..Len(eventLog) :
          /\ eventLog[i].off # NIL /\ mem[eventLog[i].off].next = NextOff(eventLog, i)
          /\ EventAt(eventLog[i].off) = eventLog[i]
          /\ mem[eventLog[i].off].num = Len(Chain(mem[eventLog[i].off].head))
  BY EventRead
<1>5. Linked(eventHead, eventLog)
  <2>1. Len(eventLog) <= used
    BY <1>1 DEF Held, ListsFit
  <2>2. Len(eventLog) \in 0..Arena
    BY <1>1, <1>2, <2>1
  <2> QED
    BY <1>1, <1>4, <2>2 DEF Linked
<1>6. PICK c : c = Chain(eventHead)
  OBVIOUS
<1>7. c = [n \in 1..Len(eventLog) |-> eventLog[n].off]
  BY <1>5, <1>6, ChainLinked
<1>8. Len(c) = Len(eventLog) /\ \A i \in 1..Len(eventLog) : c[i] = eventLog[i].off
  BY <1>2, <1>7
<1>9. ReadEvents = eventLog
  <2>1. ReadEvents = [i \in 1..Len(c) |-> EventAt(c[i])]
    BY <1>6, Zenon DEF ReadEvents, EventAt
  <2>2. ReadEvents = [i \in 1..Len(eventLog) |-> eventLog[i]]
    BY <1>4, <1>8, <2>1
  <2>3. eventLog = [i \in 1..Len(eventLog) |-> eventLog[i]]
    BY <1>1
  <2> QED
    BY <2>2, <2>3, Zenon
<1>10. StrAt(name) = nameLog /\ StrAt(statusMessage) = statusLog
  BY <1>1, StrRead
<1>11. ReadsBackWhatWasAdded
  BY <1>3, <1>9, <1>10, Zenon DEF ReadsBackWhatWasAdded
<1>12. CountsMatchLists
  <2>1. numEvents = Len(Chain(eventHead)) /\ numAttrs = Len(Chain(attrHead))
    BY <1>1, <1>3, <1>6, <1>8
  <2> QED
    BY <1>4, <2>1, Zenon DEF CountsMatchLists
<1> QED
  BY <1>11, <1>12

\* A sink that walks a span with the read accessors finds exactly the name, the
\* status message, the attributes and the events that the calls of the builder
\* accepted, in their order, each event with its own attributes.
THEOREM ReadsBack == ArenaSpec => []ReadsBackWhatWasAdded
  BY ListsCorrect, ListsRead, PTL

\* The counters that otlp_add_span reserves pool entries by are the lengths of
\* the lists it then walks; an event's 8-bit count never wraps.
THEOREM CountsMatch == ArenaSpec => []CountsMatchLists
  BY ListsCorrect, ListsRead, PTL

-----------------------------------------------------------------------------
(* How many records an arena holds.                                        *)

\* sum[k] attributes belong to the span itself and to its first k events.
Totals(sum, al, el) ==
    /\ sum \in [0..Len(el) -> Nat] /\ sum[0] = Len(al)
    /\ \A k \in 1..Len(el) : sum[k] = sum[k - 1] + Len(el[k].attrs)

\* All records together, attributes and events, take room of their own below u.
Filled(u, al, el) ==
    \E sum : Totals(sum, al, el) /\ (sum[Len(el)] + Len(el)) * AttrSize <= u

RecordsInv == Filled(used, attrLog, eventLog)

LEMMA OneMore ==
  ASSUME NEW n \in Nat, NEW u \in Nat, NEW w \in Nat, n * AttrSize <= u, u + AttrSize <= w
  PROVE  (n + 1) * AttrSize <= w
<1>1. PICK a : a = AttrSize
  OBVIOUS
<1>2. a \in Nat
  BY <1>1, Sizes
<1>3. n * a \in Nat /\ (n + 1) * a = n * a + a
  BY <1>2, SMTT(30)
<1>4. n * a <= u /\ u + a <= w
  BY <1>1, Zenon
<1>5. (n + 1) * a <= w
  BY <1>2, <1>3, <1>4
<1> QED
  BY <1>1, <1>5, Zenon

LEMMA FilledGrows ==
  ASSUME NEW u \in Nat, NEW w \in Nat, u <= w,
         NEW al \in Seq(Entries), NEW el \in Seq(EventEntries), Filled(u, al, el)
  PROVE  Filled(w, al, el)
<1>1. PICK sum : Totals(sum, al, el) /\ (sum[Len(el)] + Len(el)) * AttrSize <= u
  BY DEF Filled
<1>2. sum[Len(el)] + Len(el) \in Nat
  <2>1. Len(el) \in Nat /\ Len(el) \in 0..Len(el)
    OBVIOUS
  <2>2. sum[Len(el)] \in Nat
    <3>1. PICK n : n = Len(el)
      OBVIOUS
    <3>2. sum \in [0..n -> Nat] /\ n \in 0..n
      BY <1>1, <2>1, <3>1, Zenon DEF Totals
    <3>3. sum[n] \in Nat
      BY <3>2
    <3> QED
      BY <3>1, <3>3
  <2> QED
    BY <2>1, <2>2
<1>3. PICK n : n = sum[Len(el)] + Len(el)
  OBVIOUS
<1>4. n \in Nat /\ n * AttrSize <= u /\ AttrSize \in Nat
  BY <1>1, <1>2, <1>3, Sizes
<1>5. n * AttrSize \in Nat
  BY <1>4
<1>6. n * AttrSize <= w
  BY <1>4, <1>5
<1> QED
  BY <1>1, <1>3, <1>6, Zenon DEF Filled

\* One record more, counted by its list or by the events.
LEMMA FilledByOne ==
  ASSUME NEW u \in Nat, NEW w \in Nat, u + AttrSize <= w,
         NEW al \in Seq(Entries), NEW el \in Seq(EventEntries), Filled(u, al, el),
         NEW al2 \in Seq(Entries), NEW el2 \in Seq(EventEntries),
         \/ Len(al2) = Len(al) + 1 /\ el2 = el
         \/ /\ al2 = al /\ Len(el2) = Len(el)
            /\ \E j \in 1..Len(el) :
                 /\ Len(el2[j].attrs) = Len(el[j].attrs) + 1
                 /\ \A k \in 1..Len(el) : k # j => el2[k].attrs = el[k].attrs
         \/ /\ al2 = al /\ Len(el2) = Len(el) + 1 /\ Len(el2[Len(el) + 1].attrs) = 0
            /\ \A k \in 1..Len(el) : el2[k] = el[k]
  PROVE  Filled(w, al2, el2)
<1>1. PICK sum : Totals(sum, al, el) /\ (sum[Len(el)] + Len(el)) * AttrSize <= u
  BY DEF Filled
<1> DEFINE n == Len(el)
<1>2. /\ n \in Nat /\ sum \in [0..n -> Nat] /\ sum[0] = Len(al) /\ n \in 0..n /\ 0 \in 0..n
      /\ \A k \in 1..n : sum[k] = sum[k - 1] + Len(el[k].attrs)
  BY <1>1 DEF Totals
<1>3. \A k \in 0..n : sum[k] \in Nat
  BY <1>2
<1>4. \A k \in 1..n : Len(el[k].attrs) \in Nat /\ k \in 0..n /\ k - 1 \in 0..n
  <2> TAKE k \in 1..n
  <2>1. el[k] \in EventEntries
    OBVIOUS
  <2>2. el[k].attrs \in Seq(Entries)
    BY <2>1 DEF EventEntries
  <2> QED
    BY <1>2, <2>2
<1>5. Len(al) \in Nat
  OBVIOUS
<1>6. SUFFICES \E s : Totals(s, al2, el2) /\ s[Len(el2)] + Len(el2) = (sum[n] + n) + 1
  <2>1. PICK m : m = sum[n] + n
    OBVIOUS
  <2>2. m \in Nat /\ m * AttrSize <= u
    <3>1. m \in Nat
      <4>1. sum[n] \in Nat /\ n \in Nat
        BY <1>2, <1>3, Zenon
      <4> HIDE DEF n
      <4> QED
        BY ONLY <2>1, <4>1, SMT
    <3>2. m * AttrSize <= u
      BY <1>1, <2>1, Zenon DEF n
    <3> QED
      BY <3>1, <3>2
  <2>3. (m + 1) * AttrSize <= w
    BY <2>2, OneMore
  <2> QED
    BY <1>6, <2>1, <2>3, Zenon DEF Filled
<1> HIDE DEF n
<1>7. \A k \in 1..n : /\ sum[k] + 1 = (sum[k - 1] + 1) + Len(el[k].attrs)
                       /\ sum[k] + 1 = sum[k - 1] + (Len(el[k].attrs) + 1)
  <2> TAKE k \in 1..n
  <2>1. PICK x, y, z : x = sum[k] /\ y = sum[k - 1] /\ z = Len(el[k].attrs)
    OBVIOUS
  <2>2. x = y + z /\ x \in Nat /\ y \in Nat /\ z \in Nat
    BY <1>2, <1>3, <1>4, <2>1, Zenon
  <2>3. x + 1 = (y + 1) + z /\ x + 1 = y + (z + 1)
    BY <2>2
  <2> QED
    BY <2>1, <2>3, Zenon
<1>8. CASE Len(al2) = Len(al) + 1 /\ el2 = el
  <2> DEFINE s == [k \in 0..n |-> sum[k] + 1]
  <2>1. Totals(s, al2, el2)
    <3>1. s \in [0..n -> Nat] /\ s[0] = Len(al2)
      BY <1>2, <1>3, <1>8
    <3>2. \A k \in 1..n : s[k] = s[k - 1] + Len(el[k].attrs)
      <4> TAKE k \in 1..n
      <4>1. k \in 0..n /\ k - 1 \in 0..n
        BY <1>4
      <4>2. s[k] = sum[k] + 1 /\ s[k - 1] = sum[k - 1] + 1
        BY <4>1
      <4> HIDE DEF s
      <4> QED
        BY <1>7, <4>2, Zenon
    <3> QED
      BY <1>8, <3>1, <3>2, Zenon DEF Totals, n
  <2>2. s[n] + n = (sum[n] + n) + 1
    BY <1>2, <1>3
  <2> HIDE DEF s
  <2> QED
    BY <1>8, <2>1, <2>2, Zenon DEF n
<1>9. ASSUME al2 = al, Len(el2) = Len(el), NEW j \in 1..n,
             Len(el2[j].attrs) = Len(el[j].attrs) + 1,
             \A k \in 1..n : k # j => el2[k].attrs = el[k].attrs
      PROVE  \E s : Totals(s, al2, el2) /\ s[Len(el2)] + Len(el2) = (sum[n] + n) + 1
  <2> DEFINE s == [k \in 0..n |-> IF k >= j THEN sum[k] + 1 ELSE sum[k]]
  <2>1. Len(el2) = n
    BY <1>9 DEF n
  <2>2. \A k \in 0..n : s[k] = IF k >= j THEN sum[k] + 1 ELSE sum[k]
    OBVIOUS
  <2>3. s \in [0..n -> Nat] /\ s[0] = Len(al2)
    <3>1. s \in [0..n -> Nat]
      BY <1>3
    <3>2. ~(0 >= j)
      BY <1>2
    <3> HIDE DEF s
    <3> QED
      BY <1>2, <1>9, <2>2, <3>1, <3>2
  <2> HIDE DEF s
  <2>4. ASSUME NEW k \in 1..n
        PROVE  s[k] = s[k - 1] + Len(el2[k].attrs)
    <3>1. k \in Nat /\ j \in Nat /\ k \in 0..n /\ k - 1 \in 0..n
      <4>1. k \in Nat /\ j \in Nat
        BY <1>2
      <4> QED
        BY <1>4, <4>1, Zenon
    <3>2. CASE k < j
      <4>1. ~ (k >= j) /\ ~ (k - 1 >= j) /\ k # j
        BY <3>1, <3>2
      <4>2. s[k] = sum[k] /\ s[k - 1] = sum[k - 1] /\ el2[k].attrs = el[k].attrs
        BY <1>9, <2>2, <3>1, <4>1, Zenon
      <4> QED
        BY <1>2, <4>2, Zenon
    <3>3. CASE k = j
      <4>1. k >= j /\ ~ (k - 1 >= j)
        BY <3>1, <3>3
      <4>2. s[k] = sum[k] + 1 /\ s[k - 1] = sum[k - 1]
        BY <2>2, <3>1, <4>1, Zenon
      <4>3. Len(el2[k].attrs) = Len(el[k].attrs) + 1
        BY <1>9, <3>3, Zenon
      <4> QED
        BY <1>7, <4>2, <4>3, Zenon
    <3>4. CASE k > j
      <4>1. k >= j /\ k - 1 >= j /\ k # j
        BY <3>1, <3>4
      <4>2. s[k] = sum[k] + 1 /\ s[k - 1] = sum[k - 1] + 1 /\ el2[k].attrs = el[k].attrs
        BY <1>9, <2>2, <3>1, <4>1, Zenon
      <4> QED
        BY <1>7, <4>2, Zenon
    <3> QED
      BY <3>1, <3>2, <3>3, <3>4
  <2>5. Totals(s, al2, el2)
    BY <2>1, <2>3, <2>4, Zenon DEF Totals
  <2>6. s[n] + n = (sum[n] + n) + 1
    <3>1. n >= j
      BY <1>2
    <3>2. s[n] = sum[n] + 1
      BY <1>2, <2>2, <3>1, Zenon
    <3> QED
      <4>1. sum[n] \in Nat /\ n \in Nat
        BY <1>2, <1>3, Zenon
      <4> QED
        BY ONLY <3>2, <4>1, SMT
  <2> QED
    BY <2>1, <2>5, <2>6, Zenon
<1>10. CASE /\ al2 = al /\ Len(el2) = Len(el) + 1 /\ Len(el2[Len(el) + 1].attrs) = 0
           /\ \A k \in 1..Len(el) : el2[k] = el[k]
  <2> DEFINE s == [k \in 0..n + 1 |-> IF k = n + 1 THEN sum[n] ELSE sum[k]]
  <2>1. /\ Len(el2) = n + 1 /\ Len(el2[n + 1].attrs) = 0 /\ \A k \in 1..n : el2[k] = el[k]
    BY <1>10 DEF n
  <2>2. s \in [0..n + 1 -> Nat] /\ s[n + 1] = sum[n] /\ \A k \in 0..n : s[k] = sum[k]
    <3>1. n + 1 \in 0..n + 1 /\ \A k \in 0..n : k \in 0..n + 1 /\ k # n + 1
      BY <1>2
    <3>2. ASSUME NEW k \in 0..n + 1 PROVE k = n + 1 \/ k \in 0..n
      BY <1>2
    <3>3. sum[n] \in Nat
      BY <1>2, <1>3, Zenon
    <3> QED
      BY <1>3, <3>1, <3>2, <3>3
  <2> HIDE DEF s
  <2>3. s[0] = Len(al2)
    BY <1>2, <1>10, <2>2
  <2>4. ASSUME NEW k \in 1..n + 1
        PROVE  s[k] = s[k - 1] + Len(el2[k].attrs)
    <3>1. CASE k = n + 1
      <4>1. k - 1 = n
        BY <1>2, <3>1
      <4> QED
        BY <1>2, <1>3, <2>1, <2>2, <3>1, <4>1
    <3>2. CASE k # n + 1
      <4>1. k \in 1..n
        BY <1>2, <3>2
      <4> QED
        BY <1>2, <1>4, <2>1, <2>2, <4>1
    <3> QED
      BY <3>1, <3>2
  <2>5. Totals(s, al2, el2)
    BY <2>1, <2>2, <2>3, <2>4, Zenon DEF Totals
  <2>6. s[n + 1] + (n + 1) = (sum[n] + n) + 1
    BY <1>2, <1>3, <2>2
  <2> QED
    BY <2>1, <2>5, <2>6, Zenon
<1> QED
  BY <1>8, <1>9, <1>10 DEF n

LEMMA FilledNone == Filled(0, <<>>, <<>>)
<1> DEFINE s == [k \in 0..0 |-> 0]
<1>1. Totals(s, <<>>, <<>>)
  BY DEF Totals
<1>2. (s[Len(<<>>)] + Len(<<>>)) * AttrSize <= 0
  <2>1. s[Len(<<>>)] + Len(<<>>) = 0
    OBVIOUS
  <2>2. AttrSize \in Nat
    BY Sizes
  <2> QED
    BY <2>1, <2>2
<1> HIDE DEF s
<1> QED
  BY <1>1, <1>2 DEF Filled

\* No operation adds more than one record, and each makes room for the record
\* it adds.
LEMMA RecordsStep ==
  ASSUME ArenaType, ArenaType', RecordsInv, [ArenaNext]_arenaVars
  PROVE  RecordsInv'
<1>1. /\ used \in Nat /\ used \in 0..Arena /\ used % Align = 0 /\ DOMAIN mem = Offset
      /\ attrLog \in Seq(Entries) /\ eventLog \in Seq(EventEntries)
      /\ Filled(used, attrLog, eventLog)
  BY Sizes DEF ArenaType, RecordsInv
<1>2. /\ used' \in Nat /\ attrLog' \in Seq(Entries) /\ eventLog' \in Seq(EventEntries)
  <2>1. used' \in 0..Arena /\ attrLog' \in Seq(Entries) /\ eventLog' \in Seq(EventEntries)
    BY DEF ArenaType
  <2> QED
    BY <2>1, Sizes
<1>3. ASSUME used <= used', attrLog' = attrLog, eventLog' = eventLog PROVE RecordsInv'
  BY <1>1, <1>2, <1>3, FilledGrows DEF RecordsInv
<1>4. CASE UNCHANGED arenaVars
  <2>1. used' = used /\ attrLog' = attrLog /\ eventLog' = eventLog
    BY <1>4 DEF arenaVars, logs
  <2> QED
    BY <1>1, <1>3, <2>1
<1>5. ASSUME NEW s \in Texts, Start(s) PROVE RecordsInv'
  <2>1. attrLog' = <<>> /\ eventLog' = <<>>
    BY <1>5 DEF Start
  <2>2. 0 \in Nat /\ 0 <= used' /\ <<>> \in Seq(Entries) /\ <<>> \in Seq(EventEntries)
    BY <1>2
  <2>3. Filled(used', <<>>, <<>>)
    BY <1>2, <2>2, FilledNone, FilledGrows
  <2> QED
    BY <2>1, <2>3 DEF RecordsInv
<1>6. ASSUME NEW s \in Texts, SetName(s) \/ SetStatus(s) PROVE RecordsInv'
  <2>1. used' = PutUsed(used, s) /\ attrLog' = attrLog /\ eventLog' = eventLog
    BY <1>6 DEF SetName, SetStatus
  <2>2. used <= used'
    BY <1>1, <2>1, PutFacts DEF Allocated
  <2> QED
    BY <1>3, <2>1, <2>2
<1>7. ASSUME NEW s \in Texts, SpanEvent(s) PROVE RecordsInv'
  <2>1. PICK n, u1, r :
          n = PutOff(used, s) /\ u1 = PutUsed(used, s) /\ r = AllocOff(u1, EventSize)
    OBVIOUS
  <2>2. used' = AllocUsed(u1, EventSize) /\ attrLog' = attrLog
    BY <1>7, <2>1 DEF SpanEvent
  <2>3. u1 \in 0..Arena /\ u1 % Align = 0 /\ used <= u1 /\ u1 \in Nat
    BY <1>1, <2>1, PutFacts, Sizes DEF Allocated
  <2>4. Allocated(u1, EventSize, r, used')
    BY <2>1, <2>2, <2>3, Sizes, AllocFacts
  <2>5. CASE r = NIL
    <3>1. eventLog' = eventLog
      BY <1>7, <2>1, <2>5 DEF SpanEvent
    <3>2. u1 <= used'
      BY <2>4 DEF Allocated
    <3>3. used <= used'
      BY <1>1, <1>2, <2>3, <3>2
    <3> QED
      BY <1>3, <2>2, <3>1, <3>3
  <2>6. CASE r # NIL
    <3>1. PICK x : /\ eventLog' = Append(eventLog, x)
                   /\ x = [off |-> r, name |-> Stored(n, s), attrs |-> <<>>]
      BY <1>7, <2>1, <2>6 DEF SpanEvent
    <3>2. u1 + EventSize <= used'
      BY <2>3, <2>4, <2>6, Sizes DEF Allocated
    <3>3. EventSize >= AttrSize /\ AttrSize \in Nat /\ EventSize \in Nat
      BY ArenaAssumption
    <3>4. used + AttrSize <= used'
      BY <1>1, <1>2, <2>3, <3>2, <3>3
    <3>5. /\ Len(eventLog') = Len(eventLog) + 1 /\ eventLog'[Len(eventLog) + 1] = x
          /\ \A k \in 1..Len(eventLog) : eventLog'[k] = eventLog[k]
      BY <1>1, <3>1
    <3>6. Len(eventLog'[Len(eventLog) + 1].attrs) = 0
      BY <3>1, <3>5
    <3>7. Filled(used', attrLog', eventLog')
      BY <1>1, <1>2, <2>2, <3>4, <3>5, <3>6, FilledByOne
    <3> QED
      BY <3>7 DEF RecordsInv
  <2> QED
    BY <2>5, <2>6
<1>8. ASSUME NEW key \in Strings, NEW val \in Texts \cup {Num}, NEW a, a = AttrAlloc(key, val)
      PROVE  /\ ~ a.ok => used <= a.used
             /\ a.ok => used + AttrSize <= a.used
  <2>1. ~ a.ok => used <= a.used
    BY <1>8, AttrRefused
  <2>2. ASSUME a.ok PROVE used + AttrSize <= a.used
    <3>1. a.used \in 0..Arena /\ used + AttrSize + 1 <= a.used
      BY <1>8, <2>2, AttrAccepted
    <3> QED
      BY <1>1, <3>1, Sizes
  <2> QED
    BY <2>1, <2>2
<1>9. ASSUME NEW key \in Strings, NEW val \in Texts \cup {Num}, SpanAttr(key, val)
      PROVE  RecordsInv'
  <2>1. PICK a : a = AttrAlloc(key, val)
    OBVIOUS
  <2>2. used' = a.used /\ eventLog' = eventLog
    BY <1>9, <2>1 DEF SpanAttr
  <2>3. CASE ~ a.ok
    <3>1. attrLog' = attrLog
      BY <1>9, <2>1, <2>3 DEF SpanAttr
    <3> QED
      BY <1>3, <1>8, <2>1, <2>2, <2>3, <3>1
  <2>4. CASE a.ok
    <3>1. attrLog' = Append(attrLog, a.entry)
      BY <1>9, <2>1, <2>4 DEF SpanAttr
    <3>2. Len(attrLog') = Len(attrLog) + 1
      BY <1>1, <3>1
    <3>3. used + AttrSize <= used'
      BY <1>8, <2>1, <2>2, <2>4
    <3>4. Filled(used', attrLog', eventLog')
      BY <1>1, <1>2, <2>2, <3>2, <3>3, FilledByOne
    <3> QED
      BY <3>4 DEF RecordsInv
  <2> QED
    BY <2>3, <2>4
<1>10. ASSUME NEW key \in Strings, NEW val \in Texts \cup {Num}, NEW i \in 1..Len(eventLog),
              EventAttr(i, key, val)
       PROVE  RecordsInv'
  <2>1. PICK a : a = AttrAlloc(key, val)
    OBVIOUS
  <2>2. used' = a.used /\ attrLog' = attrLog
    BY <1>10, <2>1 DEF EventAttr
  <2>3. CASE ~ a.ok
    <3>1. eventLog' = eventLog
      BY <1>10, <2>1, <2>3 DEF EventAttr
    <3> QED
      BY <1>3, <1>8, <2>1, <2>2, <2>3, <3>1
  <2>4. CASE a.ok
    <3>1. eventLog' = [eventLog EXCEPT ![i].attrs = Append(@, a.entry)]
      BY <1>10, <2>1, <2>4 DEF EventAttr
    <3>2. a.entry \in Entries
      BY <2>1, <2>4, AttrAccepted
    <3>3. EventsAppended(attrLog, eventLog, eventLog', i, a.entry)
      BY <1>1, <3>1, <3>2, EventLogAppend
    <3>4. /\ Len(eventLog') = Len(eventLog)
          /\ eventLog'[i].attrs = Append(eventLog[i].attrs, a.entry)
          /\ \A k \in 1..Len(eventLog) : k # i => eventLog'[k].attrs = eventLog[k].attrs
      BY <3>3 DEF EventsAppended
    <3>5. Len(eventLog'[i].attrs) = Len(eventLog[i].attrs) + 1
      <4>1. eventLog[i].attrs \in Seq(Entries)
        BY <1>1, EventType
      <4> QED
        BY <3>2, <3>4, <4>1, AppendFacts
    <3>6. used + AttrSize <= used'
      BY <1>8, <2>1, <2>2, <2>4
    <3>7. \E j \in 1..Len(eventLog) :
            /\ Len(eventLog'[j].attrs) = Len(eventLog[j].attrs) + 1
            /\ \A k \in 1..Len(eventLog) : k # j => eventLog'[k].attrs = eventLog[k].attrs
      BY <3>4, <3>5, Zenon
    <3>8. attrLog' = attrLog /\ Len(eventLog') = Len(eventLog)
      BY <2>2, <3>4
    <3>9. Filled(used', attrLog', eventLog')
      BY <1>1, <1>2, <3>6, <3>7, <3>8, FilledByOne, Zenon
    <3> QED
      BY <3>9 DEF RecordsInv
  <2> QED
    BY <2>3, <2>4
<1> QED
  BY <1>4, <1>5, <1>6, <1>7, <1>9, <1>10, Zenon DEF ArenaNext, Texts

\* The attributes of a span, of its events and the events themselves number at
\* most as many as attribute records fit into an arena (167 in the code),
\* however the builder's calls mix: what otlp_add_span relies on when it puts a
\* span into empty pools without looking at their sizes again.
THEOREM RecordsBounded == ArenaSpec => []Filled(Arena, attrLog, eventLog)
<1>1. ArenaSpec => [](ArenaType /\ ListInv)
  BY ListsCorrect
<1>2. ArenaInit => RecordsInv
  BY FilledNone DEF ArenaInit, RecordsInv
<1>3. ArenaType /\ ArenaType' /\ RecordsInv /\ [ArenaNext]_arenaVars => RecordsInv'
  BY RecordsStep
<1>4. ArenaType /\ RecordsInv => Filled(Arena, attrLog, eventLog)
  <2> SUFFICES ASSUME ArenaType, RecordsInv PROVE Filled(Arena, attrLog, eventLog)
    OBVIOUS
  <2>1. /\ used \in 0..Arena /\ attrLog \in Seq(Entries) /\ eventLog \in Seq(EventEntries)
        /\ Filled(used, attrLog, eventLog)
    BY DEF ArenaType, RecordsInv
  <2>2. used \in Nat /\ used <= Arena /\ Arena \in Nat
    BY <2>1, Sizes
  <2> QED
    BY <2>1, <2>2, FilledGrows
<1> QED
  BY <1>1, <1>2, <1>3, <1>4, PTL DEF ArenaSpec
=============================================================================
