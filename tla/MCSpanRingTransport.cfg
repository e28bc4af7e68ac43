CONSTANTS
    Capacity = 2
    BatchSpans = 2
    MaxEnds = 4
SPECIFICATION Spec
INVARIANT TransportSeesDrainedSpans
