CONSTANTS
    Mgmts = {home, away}
    Startup = home
    Keys = {k1}
    Clusters = {up}
    Absent = Absent
    OutCap = 1
    MaxChanges = 1
    MaxSwitches = 1
SPECIFICATION FairSpec
PROPERTIES
    ConvergesToCurrent
