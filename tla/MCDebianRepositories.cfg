SPECIFICATION FairSpec
CONSTANTS
    Machines <- TwoMachines
    Server <- TheServer
    Edited <- OnlyServer
    MaxMishaps = 1
INVARIANTS
    NothingLost
    InstallsFromLsrepo
    OwnListsRestored
    IInv
PROPERTIES
    EventuallyFinished
