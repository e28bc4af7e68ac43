CONSTANTS
    Workers = {w1}
    Main = main
    Flusher = flusher
    Nobody = nobody
    LateUnregister = TRUE
    MaxOpens = 1
    MaxSpans = 1
SPECIFICATION Spec
INVARIANT DatabaseOutlivesCallbacks
