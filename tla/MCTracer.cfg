CONSTANTS
    Workers = {w1, w2}
    Drainers = {d1}
    Main = main
    Nobody = nobody
    NoCtx = noctx
    Capacity = 2
    BatchSpans = 2
    LiveCalls = {}
    MaxCtx = 3
    MaxEnds = 3
SYMMETRY WorkerSymmetry
SPECIFICATION Spec
INVARIANT TypeOK
INVARIANT NoDanglingContext
INVARIANT SinkPassesBracketed
INVARIANT EmittedOnceInOrder
INVARIANT EverySpanAccounted
