CONSTANTS
    Rows <- Table
    Groups <- TypedGroups
    Dashed <- DashedWords
    MaxGroups = 4
    Numerals <- WordNumbers
    Null = null
    NowSec = 4
    NsPerSec = 2
    NsPerUs = 2
    N = 4
    MaxId = 5
SPECIFICATION Spec
CHECK_DEADLOCK FALSE
INVARIANT SpansAsAsked
INVARIANT ListAsAsked
INVARIANT EveryRowOnce
INVARIANT OutlineIsTree
PROPERTY CommandEnds
