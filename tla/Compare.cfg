CONSTANTS
    Stems <- SomeStems
    Contents <- SomeContents
    Thresholds <- SomeThresholds
    Baselines <- SomeBaselines
    NoBaseline = NoBaseline
    MaxOperations = 4
SPECIFICATION Spec
CHECK_DEADLOCK FALSE
INVARIANTS
    AllOrNothing
    RowsOfNewestDump
    RegressionsReported
    UnchangedIsNoRegression
    SelectionNeverSilent
