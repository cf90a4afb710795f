SPECIFICATION Spec
CHECK_DEADLOCK FALSE
CONSTANTS
    MaxCount = 2
    Configs <- MultiConfigs
    Mishaps = {"stale_backup"}
PROPERTIES
    MembersStay
