CONSTANTS
    Addrs = {0}
    Sizes = {1}
    Values = {1, 2}
    Runners = {"decode"}
    AxisOf <- BatchAxis
    MaxEntries = 9
    MaxFails = 0
    MaxTrace = 6
    MaxCaptures = 1
    MaxSegments = 1
    MaxBridges = 0
    MaxSlots = 0
    None = None
SPECIFICATION Spec
CHECK_DEADLOCK FALSE
INVARIANTS
    WindowKeysUnique
