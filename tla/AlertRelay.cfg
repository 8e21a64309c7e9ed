SPECIFICATION FairSpec
CONSTANTS
    w1 = w1
    w2 = w2
    NoConn = NoConn
    Conns <- MCConns
    ALERT_TOPIC = "traffics.alert"
    ALERTS_TOPIC = "traffics.alert"
    MaxAlerts = 2
    MaxCrashes = 1
INVARIANTS
    TypeOK
    SentInOrder
    OpenIsActive
PROPERTIES
    MissesNeedRemovals
    PublishedIsRelayed
