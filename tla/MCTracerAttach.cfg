CONSTANTS
    Workers = {w1}
    Drainers = {d1}
    Main = main
    Nobody = nobody
    NoCtx = noctx
    Capacity = 2
    BatchSpans = 2
    LiveCalls = {"attach"}
    MaxCtx = 1
    MaxEnds = 2
SPECIFICATION Spec
INVARIANT SinkPassesBracketed
