SPECIFICATION Spec
CONSTANTS
    e0 = e0
    e1 = e1
    Interfaces <- MCInterfaces
    Cgroup = Cgroup
    Configs <- MCConfigs
    Packets <- MCPackets
    MaxRuns = 2
    MaxIndex = 2
    MaxTime = 2
INVARIANTS
    TypeOK
    CapturedOnce
    NothingLeftBehind
    NotFromTheFuture
