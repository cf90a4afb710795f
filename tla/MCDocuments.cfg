SPECIFICATION Spec
CHECK_DEADLOCK FALSE
INVARIANTS
    MergedAsLayered
    Remerged
PROPERTIES
    AppendLeavesDocs
