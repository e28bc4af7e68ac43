CONSTANTS
    Capacity = 2
    BatchSpans = 2
    MaxEnds = 6
SPECIFICATION FairSpec
INVARIANT TypeOK
INVARIANT SinkExactlyOnceInOrder
INVARIANT EveryEndAccounted
INVARIANT RingInv
PROPERTY ImplementsStagingQueue
PROPERTY PublishedIsEventuallySunk
