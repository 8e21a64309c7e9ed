SPECIFICATION Spec
CONSTANTS
    Length = 1
    Slide = 1
    Delay = 1
    MaxPackets = 8
    MaxTime = 8
    Hosts <- MCHosts
    HostOf <- MCHostOf
    HostId <- MCAddress
    Address <- MCAddress
INVARIANTS
    OfflineMeansSilent
