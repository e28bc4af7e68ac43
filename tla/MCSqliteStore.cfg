CONSTANTS
    Shapes <- Slim
    Faults = {"refuse", "rollback", "busy"}
    Cap = 1
    LongBits = 4
    MaintEvery = 2
    MaxShown = 3
SPECIFICATION Spec
INVARIANT RowsOwned
INVARIANT DrainAtomic
INVARIANT ShowReadsOwnRows
INVARIANT RetentionKeepsNewest
PROPERTY ImplementsSpanLog
