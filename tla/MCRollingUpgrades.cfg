SPECIFICATION FairSpec
CONSTANTS
    KafkaN = 3
    ZookeeperN = 3
    RabbitmqN = 3
    Ubuntu = TRUE
INVARIANTS
    KafkaKept
    KafkaProtocolFitsBinaries
    ZookeeperKept
    ZookeeperFinishedRuns
    RabbitmqOffline
PROPERTIES
    KeepsRolling
    EventuallyUpgraded
    RabbitmqMasterFirst
