CONSTANTS
    Addrs = {0}
    Sizes = {1}
    Values = {1, 2}
    Runners = {"prefill"}
    AxisOf <- TokenAxis
    MaxEntries = 2
    MaxFails = 0
    MaxTrace = 6
    MaxCaptures = 1
    MaxSegments = 0
    MaxBridges = 0
    MaxSlots = 0
    None = None
SPECIFICATION Spec
CHECK_DEADLOCK FALSE
INVARIANTS
    EvictedWindowsEmpty
