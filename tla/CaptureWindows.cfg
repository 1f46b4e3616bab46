CONSTANTS
    Addrs = {0}
    Sizes = {1}
    Values = {1, 2}
    Runners = {"prefill"}
    AxisOf <- TokenAxis
    MaxEntries = 2
    MaxFails = 1
    MaxTrace = 3
    MaxCaptures = 2
    MaxSegments = 1
    MaxBridges = 0
    MaxSlots = 0
    None = None
SPECIFICATION Spec
CHECK_DEADLOCK FALSE
INVARIANTS
    SegmentsNested
    WindowsInOrder
    OverflowIsReported
