SPECIFICATION Spec
CHECK_DEADLOCK FALSE
CONSTANTS
    MaxCount = 2
    Configs <- AllConfigs
    Mishaps = {}
INVARIANTS
    IInv
    NoOrphans
    RerunAccepted
PROPERTIES
    MembersStay
    KeepsPromise
