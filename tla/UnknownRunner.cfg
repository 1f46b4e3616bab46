CONSTANTS
    Inputs <- ShimCaptures
    GraphSegments <- Segs
    OtherSegments <- Default
    Detectors = {"oversized", "long_lived"}
    PlotWidth = 3
    MinHeight = 1
    MaxHeight = 2
    GridPx = 1
    TimeBands = 3
    TopFindings = 2
    MaxRects = 1
    End = 5
    None = None
SPECIFICATION MapSpec
CHECK_DEADLOCK FALSE
INVARIANTS
    ShimRunnersAreKnown
