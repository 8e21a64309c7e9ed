SPECIFICATION FairSpec
CONSTANTS
    c1 = c1
    c2 = c2
    CPUs <- MCCPUs
    MaxPackets = 2
    RingCap = 1
    ChannelSize = 1
    BatchSize = 2
INVARIANTS
    TypeOK
    PipelineOrder
    Accounted
    StopCutsTail
    InOrderWithoutTimeout
PROPERTIES
    ShutdownCompletes
    BufferedIsSent
    RingsKeepDraining
    ReaderFailureStopsSender
    StreamKept
