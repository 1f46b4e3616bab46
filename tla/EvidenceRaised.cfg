CONSTANTS
    Heaps <- SmallHeaps
    CaptureWindows <- Captures
    SegmentWindows <- Segments
    BridgeLists <- Bridges
    PoolOf <- Layout
    Reserved <- Bytes
    End = 4
    SizePctile = 95
    PoolPercent = 60
    SpanPctile = 75
    LongLivedMin = 2
    NonReusableMin = 3
    None = None
SPECIFICATION Spec
CHECK_DEADLOCK FALSE
INVARIANTS
    NonReusableOnEvidence
