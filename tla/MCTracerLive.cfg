CONSTANTS
    Workers = {w1, w2}
    Drainers = {d1}
    Main = main
    Nobody = nobody
    NoCtx = noctx
    Capacity = 2
    BatchSpans = 2
    LiveCalls = {"enable"}
    MaxCtx = 2
    MaxEnds = 1
SPECIFICATION FairSpec
INVARIANT NoDanglingContext
PROPERTY StagedIsEventuallyEmitted
PROPERTY DrainLockIsReleased
