---------------------------- MODULE IdGenerator -----------------------------
(***************************************************************************)
(* The id generator of a thread: otel_random_next multiplies a state of    *)
(* two words by a constant, in limbs of half a word, and returns the high  *)
(* word.  A limb has Limb values, 2^32 in the code.  Of the multiplier,    *)
(* 0xda942042e4dd58b5, all that matters is that it is odd, so that it has  *)
(* an inverse modulo the power of two State.                               *)
(***************************************************************************)
EXTENDS Naturals

CONSTANTS
    Limb,         \* number of values of a limb, half a word
    Multipliers,  \* values of the multiplier
    Seeds         \* what otel_random_seed may deliver

Word == Limb * Limb
State == Word * Word

ASSUME GeneratorAssumption ==
    /\ Limb \in Nat /\ Limb > 1
    /\ \A m \in Multipliers : m \in 1..Word - 1 /\ \E k \in 1..State - 1 : (m * k) % State = 1
    /\ Seeds \subseteq 0..State - 1

VARIABLES
    seeded,  \* the thread has registered
    multiplier, lo, hi
generatorVars == <<seeded, multiplier, lo, hi>>

\* otel_thread_register replaces an all-zero seed by an odd low word; which
\* one depends on an address and the clock.
Seeded(seed) == IF seed = 0 THEN {w \in 1..Word - 1 : w % 2 = 1} ELSE {seed}

GeneratorInit == seeded = FALSE /\ multiplier = 1 /\ lo = 0 /\ hi = 0

\* The part of otel_thread_register that fills rng.
Seed ==
    /\ ~seeded /\ seeded' = TRUE
    /\ multiplier' \in Multipliers
    /\ \E seed \in Seeds : \E s \in Seeded(seed) :
        lo' = s % Word /\ hi' = s \div Word

-----------------------------------------------------------------------------
(* Limbs and partial products, each in a word.                             *)

a0 == lo % Limb
a1 == lo \div Limb
b0 == multiplier % Limb
b1 == multiplier \div Limb
w0 == (a0 * b0) % Word
t  == ((a1 * b0) + (w0 \div Limb)) % Word

w1 == ((t % Limb) + (a0 * b1)) % Word

CarryDropped == (a1 * b1) + (t \div Limb)   \* Mutant: without the carry of w1.

\* What is added to the high word: the upper half of lo * multiplier.
Carry == (a1 * b1) + (t \div Limb) + (w1 \div Limb)

\* otel_random_next.
Draw ==
    /\ seeded
    /\ hi' = (hi * multiplier + Carry) % Word
    /\ lo' = (lo * multiplier) % Word
    /\ UNCHANGED <<seeded, multiplier>>

GeneratorNext == Seed \/ Draw

GeneratorSpec == GeneratorInit /\ [][GeneratorNext]_generatorVars

-----------------------------------------------------------------------------
(* Properties.                                                             *)

Number == lo + Word * hi

\* One draw is one multiplication of the whole state: the limbs and the two
\* halves never lose a carry.  Nor is the state ever zero, whatever the seed,
\* which would give every span the same id.
DrawIsOneProduct ==
    [][seeded => /\ Number # 0
                 /\ (lo' + Word * hi') = (Number * multiplier) % State]_generatorVars
=============================================================================
