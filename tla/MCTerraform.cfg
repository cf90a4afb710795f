SPECIFICATION FairSpec
CHECK_DEADLOCK FALSE
CONSTANTS
    AutoRetries <- ApplyRetries
    MaxLines = 2
    Capacity = 1
    Lines <- AllLines
INVARIANTS
    RetriedForReason
    NothingUnlogged
PROPERTIES
    CommandEnds
