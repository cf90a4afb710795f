SPECIFICATION Spec
CHECK_DEADLOCK FALSE
CONSTANTS
    AutoRetries <- ApplyRetries
    MaxLines = 1
    Capacity = 1
    Lines <- AllLines
INVARIANTS
    RetriedAfterFailure
