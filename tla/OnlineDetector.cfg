SPECIFICATION Spec
CONSTANTS
    Length = 3
    Slide = 1
    Delay = 1
    MaxPackets = 3
    MaxTime = 4
    Views <- MCViews
    Threshold <- MCThreshold
    PEER_MIN_KEYS = 10
    SEV_WARNING = 6
    SEV_CRITICAL = 10
    Keys <- MCKeys
    KeyOf <- MCKeyOf
    Burst = 10
    Crowds = {9, 10, 25, 26}
    MaxCrashes = 1
INVARIANTS
    TypeOK
    VerdictsAgree
    EachSinkOnItsOwn
    AlertsNeedACrowd
