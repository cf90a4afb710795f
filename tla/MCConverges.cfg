SPECIFICATION LiveSpec
CHECK_DEADLOCK FALSE
CONSTANTS
    MaxCount = 2
    Configs <- FewConfigs
    Mishaps <- AllMishaps
PROPERTIES
    Converges
    WholeBackupGetsGoing
