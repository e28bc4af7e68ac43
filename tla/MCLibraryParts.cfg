CONSTANTS
    Arena = 72
    Align = 8
    AttrSize = 16
    EventSize = 24
    NIL = 65535
    U8 = 3
    DropMax = 1
    Strings = {7, 17}
    BatchSpans = 2
    BatchAttrs = 4
    BatchEvents = 4
    MaxRecords = 4
    MaxSpans = 3
    Draws = 4
    Ratios <- NoneSomeAll
    MaxSeen = 3
    Bits = 8
    Default = 64
    Requests <- Words
    Limb = 8
    Multipliers <- OddWords
    Seeds <- AllStates
    MsPerSec = 4
    NsPerMs = 2
    Seconds = {0, 1}
    Waits = {0, 1, 3, 4, 5, 7, 8, 11}
SPECIFICATION Spec
INVARIANT BlocksDisjoint
INVARIANT ReadsBackWhatWasAdded
INVARIANT CountsMatchLists
INVARIANT PoolsInBounds
INVARIANT PackedWhole
INVARIANT DecisionFromOneRatio
INVARIANT DecisionInherited
INVARIANT TracesAreTrees
INVARIANT DeadlineIsLater
PROPERTY RoundsUp
PROPERTY DrawIsOneProduct
