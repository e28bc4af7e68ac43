--------------------------- MODULE MCLibraryParts ---------------------------
(***************************************************************************)
(* Small instances of the parts of the library that share no state with    *)
(* each other: the span builder, the batch, sampling, ring capacity, ids   *)
(* and shims.  A behaviour exercises one of them, with the others at rest: *)
(* interleaving them would only multiply states.                           *)
(***************************************************************************)
EXTENDS SpanArena, OtlpBatch, SpanContext, RingCapacity, IdGenerator, PlatformShims

VARIABLE part   \* the one that is exercised

Parts == {"arena", "batch", "context", "capacity", "generator", "shims"}

vars == <<part, arenaVars, batchVars, contextVars, capacityVars, generatorVars, shimVars>>

Init ==
    /\ part \in Parts
    /\ ArenaInit /\ BatchInit /\ ContextInit
    /\ CapacityInit /\ GeneratorInit /\ ShimInit

\* BatchNext is written out so that TLC computes the set of shapes once.
Next ==
    \/ /\ part = "arena" /\ ArenaNext
       /\ UNCHANGED <<part, batchVars, contextVars, capacityVars, generatorVars, shimVars>>
    \/ \E s \in Shapes :
          /\ part = "batch" /\ AddSpan(s)
          /\ UNCHANGED <<part, arenaVars, contextVars, capacityVars, generatorVars, shimVars>>
    \/ /\ part = "batch" /\ Flush
       /\ UNCHANGED <<part, arenaVars, contextVars, capacityVars, generatorVars, shimVars>>
    \/ /\ part = "context" /\ ContextNext
       /\ UNCHANGED <<part, arenaVars, batchVars, capacityVars, generatorVars, shimVars>>
    \/ /\ part = "capacity" /\ CapacityNext
       /\ UNCHANGED <<part, arenaVars, batchVars, contextVars, generatorVars, shimVars>>
    \/ /\ part = "generator" /\ GeneratorNext
       /\ UNCHANGED <<part, arenaVars, batchVars, contextVars, capacityVars, shimVars>>
    \/ /\ part = "shims" /\ ShimNext
       /\ UNCHANGED <<part, arenaVars, batchVars, contextVars, capacityVars, generatorVars>>

Spec == Init /\ [][Next]_vars /\ WF_capacityVars(Clamp \/ Double \/ Assign)

\* Ratios: none, two partial ones and all.
NoneSomeAll == {0, 1, Draws - 1, Draws}

\* Every request, those that no power of two of the type can hold included.
Words == 0..2^Bits - 1

OddWords == {m \in 1..Word - 1 : m % 2 = 1}
AllStates == 0..State - 1
=============================================================================
