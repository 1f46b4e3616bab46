CONSTANTS
    NDev = 2
    MaxEntries = 2
    None = None
    MaxStats = 6
    MaxSnaps = 2
SPECIFICATION Spec
INVARIANTS
    TypeOK
    CalibrationError
PROPERTIES
    OrdinalWithinCall
    OrdinalsMonotone
    ImplementsClock
