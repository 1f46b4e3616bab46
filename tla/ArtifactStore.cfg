CONSTANTS
    Workers = {w1, w2}
    Runners = {"decode"}
    Free = Free
    NoFile = NoFile
    Torn = Torn
    MaxGen = 2
SPECIFICATION FairSpec
CHECK_DEADLOCK FALSE
INVARIANTS
    TypeOK
    PublishedStaysListed
    OneEntryPerStem
    SettledArtifactsMatch
PROPERTIES
    ImplementsIndex
    EveryDumpEnds
