CONSTANTS
    Keys = {k1, k2}
    Clusters = {up}
    Absent = Absent
    NoKey = NoKey
    Streams = {t1, t2}
    ChanCap = 1
    WireCap = 1
SPECIFICATION FairSpec
INVARIANTS
    TypeOK
    LastWins
    NoSendOnClosed
PROPERTIES
    ImplementsBroadcast
    GoneUnsubscribes
