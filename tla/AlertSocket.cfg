SPECIFICATION FairSpec
CONSTANTS
    s1 = s1
    s2 = s2
    s3 = s3
    s4 = s4
    Sockets <- MCSockets
    NoSocket = NoSocket
    MaxLogins = 3
    MaxFailures = 3
INVARIANTS
    TypeOK
    OneSocketPerLogin
PROPERTIES
    Settles
