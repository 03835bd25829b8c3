CONSTANTS
    Keys = {k1}
    Clusters = {up, failed}
    Absent = Absent
    NoKey = NoKey
    Streams = {t1}
    ChanCap = 2
    WireCap = 1
    MaxGets = 2
SPECIFICATION SpecTab
SYMMETRY Symmetric
INVARIANTS
    TypeOKTab
    ViewCatchesUp
    SnapshotCatchesUp
    QuietIsInformed
