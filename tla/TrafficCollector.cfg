SPECIFICATION FairSpec
CONSTANTS
    h1 = h1
    h2 = h2
    NoKey = NoKey
    p1 = p1
    p2 = p2
    Hosts <- OneHost
    Partitions <- MCPartitions
    PartitionOf <- MCPartitionOf
    Modes <- BothModes
    KafkaBatchSize = 2
    MaxAttempts = 2
    EventsPerCall = 1
    MaxCalls = 2
    MaxCrashes = 1
INVARIANTS
    TypeOK
    LogFollowsPublishOrder
    HostOrderWithoutTimeouts
    BoundedDuplicates
    StoppedCleanly
    AckedIsSettled
PROPERTIES
    StopCompletes
