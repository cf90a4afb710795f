SPECIFICATION Spec
CONSTANTS
    N = 2
    FailPoints <- AfterLink
INVARIANTS
    BinariesKept
