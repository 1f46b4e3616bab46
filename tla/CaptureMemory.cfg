CONSTANTS
    Addrs = {0, 1}
    Sizes = {1, 2}
    Values = {1, 2}
    Runners = {"prefill"}
    AxisOf <- TokenAxis
    MaxEntries = 9
    MaxFails = 0
    MaxTrace = 6
    MaxCaptures = 1
    MaxSegments = 0
    MaxBridges = 1
    MaxSlots = 1
    None = None
SPECIFICATION Spec
CHECK_DEADLOCK FALSE
INVARIANTS
    LifetimesRebuilt
    BridgesAttributed
    StaticSlotsLabelled
