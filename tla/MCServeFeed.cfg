CONSTANTS
    Mgmts = {home, away}
    Startup = home
    Keys = {k1, k2}
    Clusters = {up}
    Absent = Absent
    OutCap = 1
    MaxChanges = 2
    MaxSwitches = 1
SPECIFICATION FairSpec
INVARIANTS
    TypeOK
    CacheCatchesUp
    ListCatchesUp
PROPERTIES
    ConvergesToStartup
