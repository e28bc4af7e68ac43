CONSTANTS
    Workers = {w1, w2}
    Main = main
    Flusher = flusher
    Nobody = nobody
    LateUnregister = FALSE
    MaxOpens = 2
    MaxSpans = 1
SPECIFICATION FairSpec
INVARIANT DatabaseOutlivesCallbacks
INVARIANT ClosedMeansPersisted
INVARIANT OpenAllOrNothing
PROPERTY CloseReturns
PROPERTY WaitingIsEventuallyStored
