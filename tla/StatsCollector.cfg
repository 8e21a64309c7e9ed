SPECIFICATION FairSpec
CONSTANTS
    TableNames <- ThreeTables
    Length = 1
    Slide = 1
    Delay = 1
    MaxPackets = 3
    MaxTime = 3
    MaxHosts = 1
    MaxCrashes = 1
INVARIANTS
    TypeOK
    EarlierTablesCoverLater
    WindowNeverSplit
    CopiesNeedRestarts
    NoSilentLoss
PROPERTIES
    ClosedWindowIsWritten
    RegistrationIsStored
