SPECIFICATION Spec
CONSTANTS
    h1 = h1
    h2 = h2
    NoKey = NoKey
    p1 = p1
    p2 = p2
    Hosts <- TwoHosts
    Partitions <- MCPartitions
    PartitionOf <- MCPartitionOf
    Modes <- AsyncOnly
    KafkaBatchSize = 2
    MaxAttempts = 2
    EventsPerCall = 1
    MaxCalls = 1
    MaxCrashes = 0
INVARIANTS
    PartitionedByHost
