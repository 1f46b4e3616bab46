CONSTANTS
    Histories <- Captures
    Segments <- Segs
    Devices = 2
    Losses <- Versions
    Probe <- TwoGraphs
    Unreadable = Unreadable
    None = None
SPECIFICATION Spec
CHECK_DEADLOCK FALSE
INVARIANTS
    LifetimesAreTrue
    LayoutIsTrue
    BoundariesSplitTheTrace
    PeakNeverOverstated
    OffersWhatBothHave
    DriftFailsClosed
    SelfCheckFindsAllocations
